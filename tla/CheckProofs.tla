---------------------------- MODULE CheckProofs ----------------------------
(***************************************************************************)
(* What Check promises holds for every configuration: any number of records, *)
(* any zones, any timeout, request timeout and margin.                       *)
(***************************************************************************)
EXTENDS Check, TLAPS

Report == [authenticated : BOOLEAN, failed : BOOLEAN, editVerified : BOOLEAN,
           existing : SUBSET Record, creatable : SUBSET Record, created : SUBSET Record]
Proofs == [resolved : SUBSET Expected, proven : SUBSET ZoneId]

\* Where the check is before, and in, the loop over the records.
Preparing == {"lock", "token", "discover"}
Looping == {"zone", "find", "recheck", "probe", "create"}

TypeInv ==
  /\ allowCreate \in BOOLEAN /\ allowProbe \in BOOLEAN
  /\ writable \in SUBSET ZoneId
  /\ exists \in SUBSET Record
  /\ pc \in Preparing \cup Looping \cup {"done"}
  /\ left \in Int
  /\ rec \in Record
  /\ addressed \in SUBSET Record
  /\ report \in Report
  /\ proofs \in Proofs
  /\ probed \in SUBSET (Record \X BOOLEAN)

\* A write that is about to be sent has its time.
Budget == left >= 0 /\ (pc \in {"probe", "create"} => left >= RequestTimeout)

\* The proofs are about zones that can be edited, and the report claims them
\* all only at the end.
Honest ==
  /\ proofs.proven \subseteq writable
  /\ report.editVerified => pc = "done" /\ IsComplete(proofs)

Accounted(rep) == rep.existing \cup rep.creatable \cup rep.created

\* As long as there is no failure, each record before this one is accounted
\* for, and so is this one while it is probed.
Covered ==
  /\ pc \in Preparing => rec = 1
  /\ pc \in Looping /\ ~report.failed =>
       addressed = Record /\ \A r \in Record : r < rec => r \in Accounted(report)
  /\ pc = "probe" => rec \in report.existing
  /\ pc = "done" /\ ~report.failed => Accounted(report) = Record
  /\ report.existing \cup report.created \subseteq exists
  /\ allowCreate => report.creatable = {}

\* Whatever proves a permission is kept in the proofs; probes go up the list,
\* and one that is about to be sent is for a zone without a proof.
Remembered ==
  /\ \A r \in Record : <<r, TRUE>> \in probed \/ r \in report.created =>
       IdOf[KeyOf[r]] \in proofs.proven /\ r <= rec
  /\ \A r \in Record, ok \in BOOLEAN : <<r, ok>> \in probed => r <= rec
  /\ pc = "probe" => NeedsProof

IInv == TypeInv /\ Budget /\ Honest /\ Covered /\ Remembered /\ ProofsNotRepeated

-----------------------------------------------------------------------------
(* How a step ends *)

\* What a step hands on when it ends with report rep and proofs p.
Sound(rep, p) ==
  /\ allowCreate' \in BOOLEAN /\ allowProbe' \in BOOLEAN
  /\ writable' \in SUBSET ZoneId /\ exists' \in SUBSET Record
  /\ addressed' \in SUBSET Record
  /\ probed' \in SUBSET (Record \X BOOLEAN)
  /\ left' \in Int /\ left' >= 0
  /\ rec \in Record
  /\ rep \in Report /\ p \in Proofs
  /\ ~rep.editVerified
  /\ p.proven \subseteq writable'
  /\ rep.existing \cup rep.created \subseteq exists'
  /\ allowCreate' => rep.creatable = {}
  /\ \A r \in Record : <<r, TRUE>> \in probed' \/ r \in rep.created =>
       IdOf[KeyOf[r]] \in p.proven /\ r <= rec
  /\ \A r \in Record, ok \in BOOLEAN : <<r, ok>> \in probed' => r <= rec
  /\ \A r, s \in Record :
       /\ <<r, TRUE>> \in probed' \/ r \in rep.created
       /\ s > r
       /\ IdOf[KeyOf[s]] = IdOf[KeyOf[r]]
       => \A ok \in BOOLEAN : <<s, ok>> \notin probed'

\* The records up to this one are accounted for, unless there is a failure.
CoveredTo(rep, n) ==
  ~rep.failed => addressed' = Record /\ \A r \in Record : r <= n => r \in Accounted(rep)

\* What is left of IInv when report and proofs are known to be sound.
LEMMA SoundSafe ==
  ASSUME NEW rep, NEW p, Sound(rep, p),
         report' = rep, proofs' = p, rec' \in Record, rec' >= rec,
         pc' \in Preparing \cup Looping,
         pc' \in {"probe", "create"} => left' >= RequestTimeout,
         Covered', pc' = "probe" => NeedsProof'
  PROVE  IInv'
<1>1. TypeInv'
  BY DEF Sound, TypeInv
<1>2. Budget'
  BY DEF Sound, Budget
<1>3. Honest'
  BY DEF Sound, Honest
<1>4. Remembered'
  <2>1. rec \in Int /\ rec' \in Int /\ Record \subseteq Int
    BY CheckAssumption DEF Sound, Record
  <2>2. \A r \in Record : r <= rec => r <= rec'
    BY <2>1
  <2> QED
    BY <2>2 DEF Sound, Remembered
<1>5. ProofsNotRepeated'
  BY DEF Sound, ProofsNotRepeated
<1> QED
  BY <1>1, <1>2, <1>3, <1>4, <1>5 DEF IInv

\* GoOn preserves the inductive invariant.
LEMMA GoOnSafe ==
  ASSUME NEW next \in Looping, NEW rep, NEW p, Sound(rep, p), GoOn(next, rep, p),
         next \in {"probe", "create"} => left' >= RequestTimeout,
         next = "probe" => rec \in rep.existing /\ Zid \notin p.proven,
         ~rep.failed => addressed' = Record /\ \A r \in Record : r < rec => r \in Accounted(rep)
  PROVE  IInv'
<1>1. pc' = next /\ report' = rep /\ proofs' = p /\ rec' = rec /\ rec \in Int
  BY CheckAssumption DEF GoOn, Sound, Record
<1>2. Covered'
  BY <1>1 DEF Covered, Sound, Looping, Preparing, Accounted
<1>3. pc' = "probe" => NeedsProof'
  BY <1>1 DEF NeedsProof, Zid
<1>4. rec' \in Record /\ rec' >= rec
  BY <1>1 DEF Sound
<1> QED
  BY <1>1, <1>2, <1>3, <1>4, SoundSafe

\* Finish preserves the inductive invariant.
LEMMA FinishSafe ==
  ASSUME NEW rep, NEW p, Sound(rep, p), Finish(rep, p), CoveredTo(rep, N)
  PROVE  IInv'
<1>1. /\ pc' = "done" /\ proofs' = p /\ rec' = rec
      /\ report' = [rep EXCEPT !.editVerified = IsComplete(p), !.failed = @ \/ ~IsComplete(p)]
  BY DEF Finish
<1>2. IsComplete(p) \in BOOLEAN
  BY DEF IsComplete
<1>3. /\ report' \in Report
      /\ report'.editVerified = IsComplete(p)
      /\ report'.failed = (rep.failed \/ ~IsComplete(p))
      /\ report'.existing = rep.existing /\ report'.creatable = rep.creatable
      /\ report'.created = rep.created
  BY <1>1, <1>2 DEF Sound, Report
<1>4. TypeInv'
  BY <1>1, <1>3 DEF Sound, TypeInv
<1>5. Budget'
  BY <1>1 DEF Sound, Budget
<1>6. Honest'
  BY <1>1, <1>3 DEF Sound, Honest
<1>7. Covered'
  <2>1. \A r \in Record : r <= N
    BY CheckAssumption DEF Record
  <2>2. ~rep.failed => Accounted(rep) = Record
    BY <2>1 DEF CoveredTo, Accounted, Sound, Report
  <2>3. ~report'.failed => Accounted(report') = Record
    BY <1>3, <2>2 DEF Accounted
  <2> QED
    BY <1>1, <1>3, <2>3 DEF Sound, Covered, Looping, Preparing, Accounted
<1>8. Remembered'
  BY <1>1, <1>3 DEF Sound, Remembered
<1>9. ProofsNotRepeated'
  BY <1>1, <1>3 DEF Sound, ProofsNotRepeated
<1> QED
  BY <1>4, <1>5, <1>6, <1>7, <1>8, <1>9 DEF IInv

\* NextRecord preserves the inductive invariant.
LEMMA NextRecordSafe ==
  ASSUME NEW rep, NEW p, Sound(rep, p), NextRecord(rep, p), CoveredTo(rep, rec)
  PROVE  IInv'
<1>1. CASE rec = N
  BY <1>1, FinishSafe DEF NextRecord
<1>2. CASE rec # N
  <2>1. pc' = "zone" /\ rec' = rec + 1 /\ report' = rep /\ proofs' = p
    BY <1>2 DEF NextRecord
  <2>2. rec' \in Record /\ rec' >= rec /\ \A r \in Record : r < rec' => r <= rec
    BY <1>2, <2>1, CheckAssumption DEF Sound, Record
  <2>3. Covered'
    BY <2>1, <2>2 DEF Covered, CoveredTo, Sound, Looping, Preparing, Accounted
  <2> QED
    BY <2>1, <2>2, <2>3, SoundSafe DEF Looping
<1> QED
  BY <1>1, <1>2

\* A failure is a fact of the report that covers everything.
LEMMA FailedSound ==
  ASSUME NEW rep, NEW p, Sound(rep, p)
  PROVE  Sound(Failed(rep), p) /\ Failed(rep).failed /\ \A n : CoveredTo(Failed(rep), n)
<1>1. /\ Failed(rep) \in Report /\ Failed(rep).failed
      /\ Failed(rep).editVerified = rep.editVerified /\ Failed(rep).existing = rep.existing
      /\ Failed(rep).creatable = rep.creatable /\ Failed(rep).created = rep.created
  BY DEF Failed, Sound, Report
<1>2. Sound(Failed(rep), p)
  BY <1>1 DEF Sound
<1> QED
  BY <1>1, <1>2 DEF CoveredTo

\* RecordFails preserves the inductive invariant.
LEMMA RecordFailsSafe ==
  ASSUME NEW rep, Sound(rep, proofs), RecordFails(rep)
  PROVE  IInv'
  BY FailedSound, NextRecordSafe, FinishSafe DEF RecordFails

\* Abort preserves the inductive invariant.
LEMMA AbortSafe ==
  ASSUME Sound(report, proofs), Abort
  PROVE  IInv'
<1> DEFINE rep == Failed(report)
<1>1. Sound(rep, proofs) /\ CoveredTo(rep, N) /\ rep.failed
  BY FailedSound
<1>2. Finish(rep, proofs)
  <2>1. rep \in Report /\ IsComplete(proofs) \in BOOLEAN
    BY <1>1 DEF Sound, IsComplete
  <2> HIDE DEF rep
  <2>2. [rep EXCEPT !.editVerified = IsComplete(proofs)]
        = [rep EXCEPT !.editVerified = IsComplete(proofs), !.failed = @ \/ ~IsComplete(proofs)]
    BY <1>1, <2>1 DEF Report
  <2> QED
    BY <2>2 DEF Abort, Finish, rep
<1> QED
  BY <1>1, <1>2, FinishSafe
-----------------------------------------------------------------------------
(* The actions *)

\* A step that has not ended yet and changes nothing but the report can hand on
\* what it found.
LEMMA SoundSoFar ==
  ASSUME IInv, pc # "done", UNCHANGED <<flags, server, probed>>,
         addressed' \in SUBSET Record, left' \in Int, left' >= 0
  PROVE  Sound(report, proofs)
<1>1. UNCHANGED <<allowCreate, allowProbe, writable, exists, probed>>
  BY DEF flags, server
<1> QED
  BY <1>1 DEF IInv, TypeInv, Honest, Covered, Remembered, ProofsNotRepeated, Sound

\* A read leaves some time or none.
LEMMA ReadTime ==
  ASSUME IInv, Read
  PROVE  left' \in Int /\ left' >= 0
  BY DEF IInv, TypeInv, Budget, Read

\* Enough time for a write is more than the write takes.
LEMMA TimeForWrite ==
  ASSUME NEW t \in Int, EnoughTime(t)
  PROVE  t >= RequestTimeout
  BY CheckAssumption DEF EnoughTime

\* AcquireLock preserves the inductive invariant.
LEMMA AcquireLockSafe == IInv /\ AcquireLock => IInv'
<1> SUFFICES ASSUME IInv, AcquireLock PROVE IInv'
  OBVIOUS
<1>1. /\ pc = "lock" /\ rec' = rec /\ rec = 1 /\ left' = left /\ proofs' = proofs
      /\ addressed' = addressed
      /\ UNCHANGED <<flags, server, probed>>
  BY DEF AcquireLock, IInv, Covered, Preparing
<1>2. Sound(report, proofs)
  BY <1>1, SoundSoFar DEF IInv, TypeInv, Budget
<1>3. CASE pc' = "token" /\ report' = report
  <2>1. Covered'
    BY <1>1, <1>2, <1>3 DEF Sound, Covered, Preparing, Looping
  <2>2. rec' \in Record /\ rec' >= rec
    BY <1>1, CheckAssumption DEF Record
  <2> QED
    BY <1>1, <1>2, <1>3, <2>1, <2>2, SoundSafe DEF Preparing
<1>4. CASE pc' = "done" /\ report' = Failed(report)
  <2> DEFINE rep == Failed(report)
  <2>1. Sound(rep, proofs) /\ rep.failed
    BY <1>2, FailedSound
  <2> HIDE DEF rep
  <2>2. TypeInv' /\ Budget' /\ Honest'
    BY <1>1, <1>4, <2>1 DEF Sound, TypeInv, Budget, Honest, rep
  <2>3. Covered'
    BY <1>1, <1>4, <2>1 DEF Sound, Covered, Preparing, Looping, rep
  <2>4. Remembered' /\ ProofsNotRepeated'
    BY <1>1, <1>4, <2>1 DEF Sound, Remembered, ProofsNotRepeated, rep
  <2> QED
    BY <2>2, <2>3, <2>4 DEF IInv
<1> QED
  BY <1>3, <1>4 DEF AcquireLock

\* Deadline preserves the inductive invariant.
LEMMA DeadlineSafe == IInv /\ DeadlineExceeded => IInv'
<1> SUFFICES ASSUME IInv, DeadlineExceeded PROVE IInv'
  OBVIOUS
<1>1. Sound(report, proofs)
  BY SoundSoFar DEF DeadlineExceeded, IInv, TypeInv
<1>2. CASE Abort
  BY <1>1, <1>2, AbortSafe
<1>3. CASE Finish(Failed(report), proofs)
  BY <1>1, <1>3, FailedSound, FinishSafe
<1> QED
  BY <1>2, <1>3 DEF DeadlineExceeded

\* Going on before the loop begins.
LEMMA PrepareSafe ==
  ASSUME NEW rep, Sound(rep, proofs), GoOn("discover", rep, proofs), rec = 1
  PROVE  IInv'
<1>1. pc' = "discover" /\ report' = rep /\ proofs' = proofs /\ rec' = rec
  BY DEF GoOn
<1>2. Covered'
  BY <1>1 DEF Sound, Covered, Preparing, Looping
<1>3. rec' \in Record /\ rec' >= rec
  BY <1>1, CheckAssumption DEF Record
<1> QED
  BY <1>1, <1>2, <1>3, SoundSafe DEF Preparing

\* VerifyToken preserves the inductive invariant.
LEMMA VerifyTokenSafe == IInv /\ VerifyToken => IInv'
<1> SUFFICES ASSUME IInv, VerifyToken PROVE IInv'
  OBVIOUS
<1>1. Sound(report, proofs) /\ rec = 1
  BY ReadTime, SoundSoFar DEF VerifyToken, IInv, TypeInv, Covered, Preparing
<1>2. CASE GoOn("discover", [report EXCEPT !.authenticated = TRUE], proofs)
  <2> DEFINE rep == [report EXCEPT !.authenticated = TRUE]
  <2>1. /\ rep \in Report /\ rep.editVerified = report.editVerified
        /\ rep.existing = report.existing /\ rep.creatable = report.creatable
        /\ rep.created = report.created
    BY <1>1 DEF Sound, Report
  <2> HIDE DEF rep
  <2>2. Sound(rep, proofs)
    BY <1>1, <2>1 DEF Sound
  <2> QED
    BY <1>1, <1>2, <2>2, PrepareSafe DEF rep
<1>3. CASE GoOn("discover", Failed(report), proofs)
  BY <1>1, <1>3, FailedSound, PrepareSafe
<1>4. CASE Abort
  BY <1>1, <1>4, AbortSafe
<1> QED
  BY <1>2, <1>3, <1>4 DEF VerifyToken

\* Discover preserves the inductive invariant.
LEMMA DiscoverSafe == IInv /\ Discover => IInv'
<1> SUFFICES ASSUME IInv, Discover PROVE IInv'
  OBVIOUS
<1> DEFINE rep == [report EXCEPT !.failed = @ \/ addressed' # Record]
<1>1. Sound(report, proofs) /\ rec = 1
  BY ReadTime, SoundSoFar DEF Discover, IInv, TypeInv, Covered, Preparing
<1>2. /\ rep \in Report /\ rep.editVerified = report.editVerified
      /\ rep.existing = report.existing /\ rep.creatable = report.creatable
      /\ rep.created = report.created /\ (~rep.failed => addressed' = Record)
  BY <1>1 DEF Sound, Report
<1>3. GoOn("zone", rep, proofs)
  BY DEF Discover
<1> HIDE DEF rep
<1>4. Sound(rep, proofs)
  BY <1>1, <1>2 DEF Sound
<1>5. \A r \in Record : ~(r < rec)
  BY <1>1, CheckAssumption DEF Record
<1> QED
  BY <1>2, <1>3, <1>4, <1>5, GoOnSafe DEF Looping

\* ResolveZone preserves the inductive invariant.
LEMMA ResolveZoneSafe == IInv /\ ResolveZone => IInv'
<1> SUFFICES ASSUME IInv, ResolveZone PROVE IInv'
  OBVIOUS
<1>1. /\ Sound(report, proofs) /\ addressed' = addressed
      /\ ~report.failed => addressed = Record /\ \A r \in Record : r < rec => r \in Accounted(report)
  BY ReadTime, SoundSoFar DEF ResolveZone, IInv, TypeInv, Covered, Looping
<1>2. CASE RecordFails(report)
  BY <1>1, <1>2, RecordFailsSafe
<1>3. CASE GoOn("find", report, [proofs EXCEPT !.resolved = @ \cup {KeyOf[rec]}])
  <2> DEFINE p == [proofs EXCEPT !.resolved = @ \cup {KeyOf[rec]}]
  <2>1. p \in Proofs /\ p.proven = proofs.proven
    BY <1>1 DEF Sound, Proofs, Expected
  <2> HIDE DEF p
  <2>2. Sound(report, p)
    BY <1>1, <2>1 DEF Sound
  <2> QED
    BY <1>1, <1>3, <2>2, GoOnSafe DEF Looping, p
<1> QED
  BY <1>2, <1>3 DEF ResolveZone

\* handle_existing_check_record
LEMMA HandleExistingSafe ==
  ASSUME Sound(report, proofs), HandleExisting, rec \in exists', left' \in Int,
         ~report.failed => addressed' = Record /\ \A r \in Record : r < rec => r \in Accounted(report)
  PROVE  IInv'
<1> DEFINE found == [report EXCEPT !.existing = @ \cup {rec}]
<1>1. /\ found \in Report /\ found.editVerified = report.editVerified
      /\ found.existing = report.existing \cup {rec} /\ found.creatable = report.creatable
      /\ found.created = report.created /\ found.failed = report.failed
  BY DEF Sound, Report
<1>2. IF ~allowProbe \/ ~NeedsProof THEN NextRecord(found, proofs)
      ELSE IF EnoughTime(left') THEN GoOn("probe", found, proofs)
      ELSE Finish(Failed(found), proofs)
  BY DEF HandleExisting
<1> HIDE DEF found
<1>3. Sound(found, proofs)
  BY <1>1 DEF Sound
<1>4. \A r \in Record : r < rec /\ r \in Accounted(report) => r \in Accounted(found)
  BY <1>1 DEF Accounted
<1>5. rec \in Record /\ \A r \in Record : r <= rec => r < rec \/ r = rec
  BY CheckAssumption DEF Sound, Record
<1>6. CoveredTo(found, rec)
  BY <1>1, <1>4, <1>5 DEF CoveredTo, Accounted
<1>7. CASE NextRecord(found, proofs)
  BY <1>3, <1>6, <1>7, NextRecordSafe
<1>8. CASE NeedsProof /\ EnoughTime(left') /\ GoOn("probe", found, proofs)
  <2>1. left' >= RequestTimeout
    BY <1>8, TimeForWrite
  <2>2. rec \in found.existing /\ Zid \notin proofs.proven
    BY <1>1, <1>8 DEF NeedsProof
  <2> QED
    BY <1>1, <1>3, <1>4, <1>8, <2>1, <2>2, GoOnSafe DEF Looping
<1>9. CASE Finish(Failed(found), proofs)
  BY <1>3, <1>9, FailedSound, FinishSafe
<1> QED
  BY <1>2, <1>7, <1>8, <1>9

\* handle_missing_check_record
LEMMA HandleMissingSafe ==
  ASSUME Sound(report, proofs), HandleMissing, left' \in Int,
         UNCHANGED <<flags, addressed>>,
         ~report.failed => addressed' = Record /\ \A r \in Record : r < rec => r \in Accounted(report)
  PROVE  IInv'
<1>1. CASE NextRecord(Failed(report), proofs) \/ Finish(Failed(report), proofs)
  BY <1>1, FailedSound, FinishSafe, NextRecordSafe
<1>2. CASE ~allowCreate /\ NextRecord([report EXCEPT !.creatable = @ \cup {rec}], proofs)
  <2> DEFINE rep == [report EXCEPT !.creatable = @ \cup {rec}]
  <2>1. /\ rep \in Report /\ rep.editVerified = report.editVerified
        /\ rep.existing = report.existing /\ rep.creatable = report.creatable \cup {rec}
        /\ rep.created = report.created /\ rep.failed = report.failed
    BY DEF Sound, Report
  <2> HIDE DEF rep
  <2>2. Sound(rep, proofs)
    BY <1>2, <2>1 DEF Sound, flags
  <2>3. rec \in Record /\ \A r \in Record : r <= rec => r < rec \/ r = rec
    BY CheckAssumption DEF Sound, Record
  <2>4. CoveredTo(rep, rec)
    BY <2>1, <2>3 DEF CoveredTo, Accounted
  <2> QED
    BY <1>2, <2>2, <2>4, NextRecordSafe DEF rep
<1>3. CASE rec \notin addressed /\ NextRecord(report, proofs)
  <2>1. report.failed
    BY <1>3 DEF Sound
  <2> QED
    BY <1>3, <2>1, NextRecordSafe DEF CoveredTo
<1>4. CASE GoOn("recheck", report, proofs)
  BY <1>4, GoOnSafe DEF Looping
<1> QED
  BY <1>1, <1>2, <1>3, <1>4 DEF HandleMissing

\* Find preserves the inductive invariant.
LEMMA FindSafe == IInv /\ Find => IInv'
<1> SUFFICES ASSUME IInv, Find PROVE IInv'
  OBVIOUS
<1>1. /\ Sound(report, proofs) /\ left' \in Int /\ exists' = exists
      /\ UNCHANGED <<flags, addressed>>
      /\ ~report.failed => addressed' = Record /\ \A r \in Record : r < rec => r \in Accounted(report)
  BY ReadTime, SoundSoFar DEF Find, server, IInv, TypeInv, Covered, Looping
<1>2. CASE rec \in exists /\ HandleExisting
  BY <1>1, <1>2, HandleExistingSafe
<1>3. CASE HandleMissing
  BY <1>1, <1>3, HandleMissingSafe
<1>4. CASE RecordFails(report)
  BY <1>1, <1>4, RecordFailsSafe
<1> QED
  BY <1>2, <1>3, <1>4 DEF Find

\* Recheck preserves the inductive invariant.
LEMMA RecheckSafe == IInv /\ Recheck => IInv'
<1> SUFFICES ASSUME IInv, Recheck PROVE IInv'
  OBVIOUS
<1>1. /\ Sound(report, proofs) /\ left' \in Int /\ exists' = exists
      /\ ~report.failed => addressed' = Record /\ \A r \in Record : r < rec => r \in Accounted(report)
  BY ReadTime, SoundSoFar DEF Recheck, server, IInv, TypeInv, Covered, Looping
<1>2. CASE rec \in exists /\ HandleExisting
  BY <1>1, <1>2, HandleExistingSafe
<1>3. CASE EnoughTime(left') /\ GoOn("create", report, proofs)
  <2>1. left' >= RequestTimeout
    BY <1>1, <1>3, TimeForWrite
  <2> QED
    BY <1>1, <1>3, <2>1, GoOnSafe DEF Looping
<1>4. CASE Finish(Failed(report), proofs)
  BY <1>1, <1>4, FailedSound, FinishSafe
<1>5. CASE RecordFails(report)
  BY <1>1, <1>5, RecordFailsSafe
<1> QED
  BY <1>2, <1>3, <1>4, <1>5 DEF Recheck

\* A write ends in time.
LEMMA WriteTime ==
  ASSUME IInv, pc \in {"probe", "create"}, Write
  PROVE  left' \in Int /\ left' >= 0
  BY CheckAssumption DEF IInv, TypeInv, Budget, Write

\* The proof of a zone that can be edited.
LEMMA MarkProvenType ==
  ASSUME IInv, Zid \in writable
  PROVE  /\ MarkProven \in Proofs /\ MarkProven.proven = proofs.proven \cup {Zid}
         /\ MarkProven.proven \subseteq writable
<1>1. proofs \in Proofs /\ Zid \in ZoneId /\ proofs.proven \subseteq writable
  BY DEF IInv, TypeInv, Honest
<1> QED
  BY <1>1 DEF MarkProven, Proofs

\* Probe preserves the inductive invariant.
LEMMA ProbeSafe == IInv /\ Probe => IInv'
<1> SUFFICES ASSUME IInv, Probe PROVE IInv'
  OBVIOUS
<1>1. /\ pc = "probe" /\ left' \in Int /\ left' >= 0 /\ rec \in Record
      /\ Zid \notin proofs.proven /\ Zid = IdOf[KeyOf[rec]] /\ rec \in report.existing
      /\ UNCHANGED <<allowCreate, allowProbe, writable, exists, addressed>>
  BY WriteTime DEF Probe, IInv, TypeInv, Remembered, Covered, NeedsProof, Zid, flags, server
<1>2. Record \subseteq Int
  BY DEF Record
<1>3. CoveredTo(report, rec)
  <2>1. \A r \in Record : r <= rec => r < rec \/ r = rec
    BY <1>1, <1>2
  <2> QED
    BY <1>1, <2>1 DEF IInv, Covered, CoveredTo, Looping, Accounted
<1>4. ASSUME NEW ok \in BOOLEAN, probed' = probed \cup {<<rec, ok>>}
      PROVE  /\ probed' \in SUBSET (Record \X BOOLEAN)
             /\ \A r \in Record, b \in BOOLEAN : <<r, b>> \in probed' => r <= rec
             /\ \A r, s \in Record :
                  /\ <<r, TRUE>> \in probed' \/ r \in report.created
                  /\ s > r
                  /\ IdOf[KeyOf[s]] = IdOf[KeyOf[r]]
                  => \A b \in BOOLEAN : <<s, b>> \notin probed'
  <2>1. probed' \in SUBSET (Record \X BOOLEAN)
    BY <1>1, <1>4 DEF IInv, TypeInv
  <2>2. ASSUME NEW r \in Record, NEW b \in BOOLEAN, <<r, b>> \in probed'
        PROVE  r <= rec
    <3>1. CASE <<r, b>> \in probed
      BY <3>1 DEF IInv, Remembered
    <3>2. CASE r = rec
      BY <1>2, <3>2
    <3> QED
      BY <1>4, <2>2, <3>1, <3>2
  <2>3. ASSUME NEW r \in Record, NEW s \in Record, NEW b \in BOOLEAN, s > r,
               <<r, TRUE>> \in probed' \/ r \in report.created,
               IdOf[KeyOf[s]] = IdOf[KeyOf[r]], <<s, b>> \in probed'
        PROVE  FALSE
    <3>1. s <= rec
      BY <2>2, <2>3
    <3>2. r # rec
      BY <1>1, <1>2, <2>3, <3>1
    <3>3. <<r, TRUE>> \in probed \/ r \in report.created
      BY <1>4, <2>3, <3>2
    <3>4. CASE s = rec
      BY <1>1, <2>3, <3>3, <3>4 DEF IInv, Remembered
    <3>5. CASE s # rec
      BY <1>4, <2>3, <3>3, <3>5 DEF IInv, ProofsNotRepeated
    <3> QED
      BY <3>4, <3>5
  <2> QED
    BY <2>1, <2>2, <2>3
<1>5. CASE /\ Zid \in writable
           /\ probed' = probed \cup {<<rec, TRUE>>}
           /\ NextRecord(report, MarkProven)
  <2>1. Sound(report, MarkProven)
    <3>1. \A r \in Record : <<r, TRUE>> \in probed' \/ r \in report.created =>
            IdOf[KeyOf[r]] \in MarkProven.proven
      BY <1>1, <1>5, MarkProvenType DEF IInv, Remembered
    <3>2. \A r \in report.created : r <= rec
      BY DEF IInv, TypeInv, Report, Remembered
    <3> QED
      BY <1>1, <1>4, <1>5, <3>1, <3>2, MarkProvenType
      DEF IInv, TypeInv, Honest, Covered, Sound
  <2> QED
    BY <1>3, <1>5, <2>1, NextRecordSafe
<1>6. CASE probed' = probed \cup {<<rec, FALSE>>} /\ RecordFails(report)
  <2>1. Sound(report, proofs)
    <3>1. \A r \in Record : <<r, TRUE>> \in probed' => <<r, TRUE>> \in probed
      BY <1>6
    <3> QED
      BY <1>1, <1>4, <1>6, <3>1 DEF IInv, TypeInv, Honest, Covered, Remembered, Sound
  <2> QED
    BY <1>6, <2>1, RecordFailsSafe
<1> QED
  BY <1>5, <1>6 DEF Probe

\* Create preserves the inductive invariant.
LEMMA CreateSafe == IInv /\ Create => IInv'
<1> SUFFICES ASSUME IInv, Create PROVE IInv'
  OBVIOUS
<1>1. /\ pc = "create" /\ left' \in Int /\ left' >= 0 /\ rec \in Record
      /\ Zid = IdOf[KeyOf[rec]]
      /\ UNCHANGED <<allowCreate, allowProbe, writable, addressed, probed>>
      /\ exists' \in {exists, exists \cup {rec}}
  BY WriteTime DEF Create, IInv, TypeInv, Zid, flags
<1>2. Record \subseteq Int
  BY DEF Record
<1>3. Sound(report, proofs)
  BY <1>1 DEF IInv, TypeInv, Honest, Covered, Remembered, ProofsNotRepeated, Sound
<1>4. CASE RecordFails(report)
  BY <1>3, <1>4, RecordFailsSafe
<1>5. CASE /\ Zid \in writable /\ exists' = exists \cup {rec}
           /\ NextRecord([report EXCEPT !.created = @ \cup {rec}], MarkProven)
  <2> DEFINE rep == [report EXCEPT !.created = @ \cup {rec}]
  <2>1. /\ rep \in Report /\ rep.editVerified = report.editVerified
        /\ rep.existing = report.existing /\ rep.creatable = report.creatable
        /\ rep.created = report.created \cup {rec} /\ rep.failed = report.failed
    BY <1>3 DEF Sound, Report
  <2> HIDE DEF rep
  <2>2. ASSUME NEW r \in Record, <<r, TRUE>> \in probed' \/ r \in rep.created
        PROVE  IdOf[KeyOf[r]] \in MarkProven.proven /\ r <= rec
    <3>1. CASE r = rec
      BY <1>1, <1>2, <1>5, <3>1, MarkProvenType
    <3>2. CASE r # rec
      BY <1>5, <1>3, <2>1, <2>2, <3>2, MarkProvenType DEF Sound
    <3> QED
      BY <3>1, <3>2
  <2>3. ASSUME NEW r \in Record, NEW s \in Record, NEW b \in BOOLEAN, s > r,
               <<r, TRUE>> \in probed' \/ r \in rep.created,
               IdOf[KeyOf[s]] = IdOf[KeyOf[r]], <<s, b>> \in probed'
        PROVE  FALSE
    <3>1. s <= rec
      BY <1>3, <2>3 DEF Sound
    <3>2. r # rec
      BY <1>1, <1>2, <2>3, <3>1
    <3> QED
      BY <1>3, <2>1, <2>3, <3>2 DEF Sound
  <2>4. Sound(rep, MarkProven)
    BY <1>1, <1>3, <1>5, <2>1, <2>2, <2>3, MarkProvenType DEF Sound
  <2>5. CoveredTo(rep, rec)
    <3>1. \A r \in Record : r <= rec => r < rec \/ r = rec
      BY <1>1, <1>2
    <3> QED
      BY <1>1, <2>1, <3>1 DEF IInv, Covered, CoveredTo, Looping, Accounted
  <2> QED
    BY <1>5, <2>4, <2>5, NextRecordSafe DEF rep
<1> QED
  BY <1>4, <1>5 DEF Create

\* OthersCreate preserves the inductive invariant.
LEMMA OthersCreateSafe == IInv /\ OthersCreate => IInv'
<1> SUFFICES ASSUME IInv, OthersCreate PROVE IInv'
  OBVIOUS
<1>1. /\ exists \subseteq exists' /\ exists' \in SUBSET Record
      /\ UNCHANGED <<allowCreate, allowProbe, writable, pc, left, rec, addressed, report,
                     proofs, probed>>
  BY DEF OthersCreate, flags, IInv, TypeInv
<1>2. TypeInv' /\ Budget' /\ Honest'
  BY <1>1 DEF IInv, TypeInv, Budget, Honest
<1>3. Covered'
  BY <1>1 DEF IInv, Covered
<1>4. Remembered' /\ ProofsNotRepeated'
  BY <1>1 DEF IInv, Remembered, NeedsProof, Zid, ProofsNotRepeated
<1> QED
  BY <1>2, <1>3, <1>4 DEF IInv

-----------------------------------------------------------------------------
(* The theorems *)

\* The inductive invariant holds in every reachable state.
LEMMA Inductive == Spec => []IInv
<1>1. Init => IInv
  <2> SUFFICES ASSUME Init PROVE IInv
    OBVIOUS
  <2>1. TypeInv
    BY CheckAssumption DEF Init, TypeInv, Preparing, Record, Report, NoReport, Proofs
  <2>2. Budget /\ Honest /\ Covered
    BY CheckAssumption DEF Init, Budget, Honest, Covered, Preparing, Looping, NoReport
  <2>3. Remembered /\ ProofsNotRepeated
    BY DEF Init, Remembered, ProofsNotRepeated, NoReport
  <2> QED
    BY <2>1, <2>2, <2>3 DEF IInv
<1>2. IInv /\ [Next]_vars => IInv'
  <2> SUFFICES ASSUME IInv, [Next]_vars PROVE IInv'
    OBVIOUS
  <2>1. CASE UNCHANGED vars
    <3>1. UNCHANGED <<allowCreate, allowProbe, writable, exists, pc, left, rec, addressed,
                      report, proofs, probed>>
      BY <2>1 DEF vars, flags, server
    <3>2. TypeInv' /\ Budget' /\ Honest' /\ Covered'
      BY <3>1 DEF IInv, TypeInv, Budget, Honest, Covered
    <3>3. Remembered' /\ ProofsNotRepeated'
      BY <3>1 DEF IInv, Remembered, NeedsProof, Zid, ProofsNotRepeated
    <3> QED
      BY <3>2, <3>3 DEF IInv
  <2> QED
    BY <2>1, AcquireLockSafe, DeadlineSafe, VerifyTokenSafe, DiscoverSafe, ResolveZoneSafe,
       FindSafe, RecheckSafe, ProbeSafe, CreateSafe, OthersCreateSafe
    DEF Next
<1> QED
  BY <1>1, <1>2, PTL DEF Spec

\* For every timeout, request timeout and margin a check ends by its deadline,
\* although no timeout cuts off a write: mutation_can_finish_before lets none
\* start that could outlast it.
THEOREM InTimeAlways == Spec => []InTime
<1>1. IInv => InTime
  BY DEF IInv, Budget, InTime
<1> QED
  BY <1>1, Inductive, PTL

\* For any configuration edit_permission_verified means that every configured
\* zone can be edited, however the check ended (ZoneProofs::is_complete).
THEOREM VerifiedAlwaysWritable == Spec => []VerifiedMeansWritable
<1>1. IInv => VerifiedMeansWritable
  BY DEF IInv, Honest, IsComplete, VerifiedMeansWritable
<1> QED
  BY <1>1, Inductive, PTL

\* For any configuration a check that reports success has accounted for every
\* record (CheckReport::is_success).
THEOREM SuccessAlwaysCovers == Spec => []SuccessCoversRecords
<1>1. IInv => SuccessCoversRecords
  BY DEF IInv, Covered, Accounted, IsSuccess, SuccessCoversRecords
<1> QED
  BY <1>1, Inductive, PTL

\* For any number of records and zones, once a permission is proved no other
\* record of the zone is probed (ZoneProofs::needs_proof, mark_proven).
THEOREM ProofsNeverRepeated == Spec => []ProofsNotRepeated
<1>1. IInv => ProofsNotRepeated
  BY DEF IInv
<1> QED
  BY <1>1, Inductive, PTL
=============================================================================
