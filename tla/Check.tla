------------------------------- MODULE Check -------------------------------
(***************************************************************************)
(* The `check' workflow of src/updater.rs: token, discovery, zones, records, *)
(* and, when asked for, a write per zone that proves the permission to edit. *)
(* Reads are cut off at the deadline; a write is not, and is only begun when *)
(* it can finish before the deadline.                                        *)
(*                                                                           *)
(* `left' is the time left until the deadline; every wait takes some of it.  *)
(***************************************************************************)
EXTENDS Integers, FiniteSets

CONSTANTS
  N,              \* number of configured records; the records are 1..N
  KeyOf,          \* KeyOf[r]: its ConfiguredZone (name and explicit identifier)
  IdOf,           \* IdOf[k]: the zone identifier that k resolves to
  Creates,        \* the records with create_if_missing
  CheckTimeout,   \* CHECK_TIMEOUT
  RequestTimeout, \* request_timeout: bound on one write
  Margin          \* MUTATION_START_MARGIN

Record == 1..N

\* ZoneProofs::for_config: the zones that need a proof.
Expected == {KeyOf[r] : r \in Record}

ZoneId == {IdOf[k] : k \in Expected}

ASSUME CheckAssumption ==
  /\ N \in Nat \ {0}
  /\ DOMAIN KeyOf = Record
  /\ DOMAIN IdOf = Expected
  /\ Creates \subseteq Record
  /\ CheckTimeout \in Nat
  /\ RequestTimeout \in Nat \ {0}
  /\ Margin \in Nat

VARIABLES
  allowCreate, allowProbe, \* the flags of the command
  writable,                \* external: the zones the token may edit
  exists,                  \* external: the records that exist
  pc, left, rec,           \* where the check is, and its time
  addressed,               \* the records whose family has an address
  report,                  \* CheckReport, with sets of records for its counts
  proofs,                  \* ZoneProofs
  probed                   \* history: the edit probes sent, and their outcome

flags == <<allowCreate, allowProbe>>
server == <<writable, exists>>
vars == <<flags, server, pc, left, rec, addressed, report, proofs, probed>>

NoReport == [authenticated |-> FALSE, failed |-> FALSE, editVerified |-> FALSE,
             existing |-> {}, creatable |-> {}, created |-> {}]

Init ==
  /\ allowCreate \in BOOLEAN
  /\ allowProbe \in BOOLEAN
  /\ writable \in SUBSET ZoneId
  /\ exists \in SUBSET Record
  /\ pc = "lock"
  /\ left = CheckTimeout
  /\ rec = 1
  /\ addressed = {}
  /\ report = NoReport
  /\ proofs = [resolved |-> {}, proven |-> {}]
  /\ probed = {}

Zid == IdOf[KeyOf[rec]]

-----------------------------------------------------------------------------
(* The report and how a step ends *)

\* Mutant of IsComplete: the zones that were resolved are enough.
ResolvedAreProven(p) == \A k \in p.resolved : IdOf[k] \in p.proven

\* ZoneProofs::is_complete
IsComplete(p) == p.resolved = Expected /\ \A k \in p.resolved : IdOf[k] \in p.proven

MarkProven == [proofs EXCEPT !.proven = @ \cup {Zid}]

Failed(rep) == [rep EXCEPT !.failed = TRUE]

\* An early return: the proofs are only summarised (summarize_check_proofs).
Abort ==
  /\ pc' = "done"
  /\ report' = [Failed(report) EXCEPT !.editVerified = IsComplete(proofs)]
  /\ UNCHANGED <<rec, proofs>>

\* The loop over the records has ended: every zone without a proof is a failure
\* as well (finalize_check_report).
Finish(rep, p) ==
  /\ pc' = "done"
  /\ report' = [rep EXCEPT !.editVerified = IsComplete(p), !.failed = @ \/ ~IsComplete(p)]
  /\ proofs' = p
  /\ UNCHANGED rec

\* Record `rec' is finished.
NextRecord(rep, p) ==
  IF rec = N THEN Finish(rep, p)
  ELSE /\ pc' = "zone"
       /\ rec' = rec + 1
       /\ report' = rep
       /\ proofs' = p

\* Something fails for this record; a rejected token or a rate limit also breaks
\* off the loop.
RecordFails(rep) == NextRecord(Failed(rep), proofs) \/ Finish(Failed(rep), proofs)

GoOn(next, rep, p) ==
  /\ pc' = next
  /\ report' = rep
  /\ proofs' = p
  /\ UNCHANGED rec

\* A read takes some time, but never runs past the deadline.
Read == \E t \in 0..left : left' = left - t

\* A write takes at most the client's request timeout.
Write == \E t \in 0..RequestTimeout : left' = left - t

\* Mutant of EnoughTime: a write may start as long as there is time at all.
AnyTime(t) == t > 0

\* mutation_can_finish_before(deadline)
EnoughTime(t) == t >= RequestTimeout + Margin

-----------------------------------------------------------------------------
(* The workflow *)

\* check: the runtime lock is taken when the command may write.  The deadline
\* is set afterwards.
AcquireLock ==
  /\ pc = "lock"
  /\ \/ pc' = "token" /\ UNCHANGED report
     \/ /\ allowCreate \/ allowProbe
        /\ pc' = "done"
        /\ report' = Failed(report)
  /\ UNCHANGED <<flags, server, left, rec, addressed, proofs, probed>>

\* timeout_at(deadline, ...) around every read.
DeadlineExceeded ==
  /\ pc \in {"token", "discover", "zone", "find", "recheck"}
  /\ left' = 0
  /\ IF pc \in {"token", "discover"} THEN Abort ELSE Finish(Failed(report), proofs)
  /\ UNCHANGED <<flags, server, addressed, probed>>

\* verify_token: accepted; refused, or limited, which ends the check; or failed
\* otherwise, which leaves the token unauthenticated and goes on.
VerifyToken ==
  /\ pc = "token"
  /\ Read
  /\ \/ GoOn("discover", [report EXCEPT !.authenticated = TRUE], proofs)
     \/ GoOn("discover", Failed(report), proofs)
     \/ Abort
  /\ UNCHANGED <<flags, server, addressed, probed>>

\* Mutant of Discover: discovery failures are not appended to the report.
SilentDiscover ==
  /\ pc = "discover"
  /\ Read
  /\ addressed' \in SUBSET Record
  /\ GoOn("zone", report, proofs)
  /\ UNCHANGED <<flags, server, probed>>

\* discover_required_addresses: a family without an address is a failure of its
\* own, and only that (append_discovery_failures).
Discover ==
  /\ pc = "discover"
  /\ Read
  /\ addressed' \in SUBSET Record
  /\ GoOn("zone", [report EXCEPT !.failed = @ \/ addressed' # Record], proofs)
  /\ UNCHANGED <<flags, server, probed>>

\* inspect_check_record, its first half: resolve_zone_id.
ResolveZone ==
  /\ pc = "zone"
  /\ Read
  /\ \/ GoOn("find", report, [proofs EXCEPT !.resolved = @ \cup {KeyOf[rec]}])
     \/ RecordFails(report)
  /\ UNCHANGED <<flags, server, addressed, probed>>

\* Mutant of NeedsProof: every record is probed.
AlwaysNeedsProof == TRUE

\* ZoneProofs::needs_proof
NeedsProof == Zid \notin proofs.proven

\* handle_existing_check_record up to its probe.
HandleExisting ==
  LET found == [report EXCEPT !.existing = @ \cup {rec}]
  IN IF ~allowProbe \/ ~NeedsProof THEN NextRecord(found, proofs)
     ELSE IF EnoughTime(left') THEN GoOn("probe", found, proofs)
     ELSE Finish(Failed(found), proofs)

\* handle_missing_check_record up to its second lookup.
HandleMissing ==
  IF rec \notin Creates THEN NextRecord(Failed(report), proofs)
  ELSE IF ~allowCreate THEN NextRecord([report EXCEPT !.creatable = @ \cup {rec}], proofs)
  ELSE IF rec \notin addressed THEN NextRecord(report, proofs)
  ELSE IF EnoughTime(left') THEN GoOn("recheck", report, proofs)
  ELSE Finish(Failed(report), proofs)

\* inspect_check_record, its second half: find_record, and what follows it.
Find ==
  /\ pc = "find"
  /\ Read
  /\ \/ rec \in exists /\ HandleExisting
     \/ rec \notin exists /\ HandleMissing
     \/ RecordFails(report)
  /\ UNCHANGED <<flags, server, addressed, probed>>

\* handle_missing_check_record: the lookup is repeated before the creation.
Recheck ==
  /\ pc = "recheck"
  /\ Read
  /\ \/ rec \in exists /\ HandleExisting
     \/ /\ rec \notin exists
        /\ IF EnoughTime(left') THEN GoOn("create", report, proofs)
           ELSE Finish(Failed(report), proofs)
     \/ RecordFails(report)
  /\ UNCHANGED <<flags, server, addressed, probed>>

\* probe_edit_permission: a PATCH that changes nothing.  It succeeds only in a
\* zone the token may edit, on a record that is still there, and may fail anyway.
Probe ==
  /\ pc = "probe"
  /\ Write
  /\ \/ /\ Zid \in writable
        /\ rec \in exists
        /\ probed' = probed \cup {<<rec, TRUE>>}
        /\ NextRecord(report, MarkProven)
     \/ /\ probed' = probed \cup {<<rec, FALSE>>}
        /\ RecordFails(report)
  /\ UNCHANGED <<flags, server, addressed>>

\* create_record: refused in a zone the token may not edit; elsewhere it may be
\* carried out and still fail, because its answer is lost.
Create ==
  /\ pc = "create"
  /\ Write
  /\ \/ /\ Zid \in writable
        /\ exists' = exists \cup {rec}
        /\ \/ NextRecord([report EXCEPT !.created = @ \cup {rec}], MarkProven)
           \/ RecordFails(report)
     \/ UNCHANGED exists /\ RecordFails(report)
  /\ UNCHANGED <<flags, writable, addressed, probed>>

\* Someone else creates a record while the check runs.
OthersCreate ==
  /\ pc # "done"
  /\ \E r \in Record \ exists : exists' = exists \cup {r}
  /\ UNCHANGED <<flags, writable, pc, left, rec, addressed, report, proofs, probed>>

Next ==
  \/ AcquireLock \/ DeadlineExceeded \/ VerifyToken \/ Discover
  \/ ResolveZone \/ Find \/ Recheck \/ Probe \/ Create
  \/ OthersCreate

Spec == Init /\ [][Next]_vars

-----------------------------------------------------------------------------
(* Properties *)

\* CheckReport::is_success
IsSuccess == report.authenticated /\ report.editVerified /\ ~report.failed

\* A whole check, the write it may have in flight at the deadline included, ends
\* by the deadline: CHECK_TIMEOUT bounds the command although no timeout is put
\* around a write, which must not be abandoned half-way.
InTime == left >= 0

\* The report never claims a permission the token lacks, however the check ended:
\* edit_permission_verified means every configured zone can be edited.
VerifiedMeansWritable == report.editVerified => \A k \in Expected : IdOf[k] \in writable

\* A successful check leaves no record out: each was found, was created, or is
\* missing and would be created, also when discovery, a lookup or the deadline
\* got in the way of a record without leaving a failure of that record's own.
SuccessCoversRecords ==
  pc = "done" /\ IsSuccess =>
    /\ report.existing \cup report.creatable \cup report.created = Record
    /\ report.existing \cup report.created \subseteq exists
    /\ allowCreate => report.creatable = {}

\* Once a probe or a creation has proved the permission for a zone, no other
\* record of the zone is written to for the sake of proof, also when the zone is
\* configured both by name and by identifier.
ProofsNotRepeated ==
  \A r, s \in Record :
    /\ <<r, TRUE>> \in probed \/ r \in report.created
    /\ s > r
    /\ IdOf[KeyOf[s]] = IdOf[KeyOf[r]]
    => \A ok \in BOOLEAN : <<s, ok>> \notin probed

\* What the documentation says of an edit probe: one existing record of each
\* configured zone is written to.  (A probe that fails is repeated on the next
\* record of the zone.)
OneProbePerZone ==
  \A p, q \in probed : KeyOf[p[1]] = KeyOf[q[1]] => p[1] = q[1]
=============================================================================
