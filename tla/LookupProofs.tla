---------------------------- MODULE LookupProofs ----------------------------
(***************************************************************************)
(* What Lookup returns is true, for every page size, page limit and length  *)
(* of the listing.                                                          *)
(***************************************************************************)
EXTENDS Lookup, SequenceTheorems, TLAPS

\* The type invariant, made inductive: an answer that is being read has entries.
TypeInv ==
  /\ TypeOK
  /\ pc = "read" => answer.entries \subseteq Entry

Listed == {"zone", "record"}

\* The part of the listing that the pages so far covered.
Seen == {i \in DOMAIN listing : i <= (page - 1) * PageSize}

\* No two entries have one identifier, and the next new one is free.
Distinct ==
  /\ \A i, j \in DOMAIN listing : listing[i].id = listing[j].id => i = j
  /\ \A i \in DOMAIN listing : listing[i].id <= MaxEntries + edits

\* What was kept of the pages so far is what they held, and there was a reason
\* to go on after each of them.
Scanned ==
  goal \in Listed /\ recent = 0 /\ pc # "done" =>
    /\ exact = NoId => \A i \in Seen : ~Exact(listing[i])
    /\ exact # NoId => \E i \in Seen : /\ Exact(listing[i])
                                       /\ listing[i].id = exact
                                       /\ \A j \in Seen : Exact(listing[j]) => j = i
    /\ inactive <=> \E i \in Seen : Inactive(listing[i])
    /\ page > 1 => reports = "endless" \/ (page - 1) * PageSize <= Len(listing)

\* An answer with a result: it is about the listing as it is, and what it says
\* of further pages is right unless the server never stops.
Genuine ==
  /\ answer.status = 200 /\ answer.envelope = "result" /\ answer.header = NoHeader
  /\ goal = "explicit" => \E i \in DOMAIN listing : answer.entries = {listing[i]}
  /\ goal \in Listed =>
       /\ answer.entries = {listing[i] : i \in OnPage(page)}
       /\ ~HasNextPage => Len(listing) <= page * PageSize
       /\ HasNextPage => reports = "endless" \/ page * PageSize <= Len(listing)

Fresh == pc = "read" => answer \in ErrorAnswer \/ Genuine

IInv == TypeInv /\ Distinct /\ Scanned /\ Fresh /\ LookupTruthful
-----------------------------------------------------------------------------
(* Arithmetic and sequences *)

\* Multiplication by a natural number is monotonic.
LEMMA TimesMonotone ==
  ASSUME NEW a \in Nat, NEW b \in Nat, NEW c \in Nat, a <= b
  PROVE  a * c <= b * c /\ a * c \in Nat /\ b * c \in Nat
<1>1. PICK d \in Nat : b = a + d
  BY SMT
<1>2. b * c = a * c + d * c
  BY <1>1, SMT
<1>3. a * c \in Nat /\ d * c \in Nat
  BY <1>1, SMT
<1> QED
  BY <1>2, <1>3

\* The next page begins where this one ends.
LEMMA NextPageBegins ==
  ASSUME NEW p \in Nat \ {0}
  PROVE  /\ p * PageSize = (p - 1) * PageSize + PageSize
         /\ p * PageSize \in Nat /\ (p - 1) * PageSize \in Nat
  BY LookupAssumption, SMT

\* The elements of a listing.
LEMMA EntriesOf ==
  ASSUME NEW s \in Seq(Entry)
  PROVE  /\ Len(s) \in Nat /\ DOMAIN s = 1..Len(s)
         /\ \A i \in DOMAIN s : s[i] \in Entry /\ s[i].id \in Id /\ s[i].id \in Nat \ {NoId}
<1>1. Len(s) \in Nat /\ DOMAIN s = 1..Len(s)
  BY LenProperties
<1>2. ASSUME NEW i \in DOMAIN s
      PROVE  s[i] \in Entry
  BY <1>1, <1>2, ElementOfSeq
<1>3. \A e \in Entry : e.id \in Id
  BY DEF Entry
<1>4. Id \subseteq Nat \ {NoId}
  BY LookupAssumption DEF Id, NoId
<1> QED
  BY <1>1, <1>2, <1>3, <1>4

\* What is left of a sequence without its i-th element.
LEMMA WithoutElement ==
  ASSUME NEW S, NEW s \in Seq(S), NEW i \in 1..Len(s)
  PROVE  /\ RemoveAt(s, i) \in Seq(S)
         /\ Len(RemoveAt(s, i)) = Len(s) - 1
         /\ \A k \in 1..(Len(s) - 1) :
              RemoveAt(s, i)[k] = IF k < i THEN s[k] ELSE s[k + 1]
<1> DEFINE a == SubSeq(s, 1, i - 1)
           b == SubSeq(s, i + 1, Len(s))
<1>1. a \in Seq(S) /\ Len(a) = i - 1 /\ \A k \in 1..(i - 1) : a[k] = s[k]
  OBVIOUS
<1>2. b \in Seq(S) /\ Len(b) = Len(s) - i /\ \A k \in 1..(Len(s) - i) : b[k] = s[k + i]
  OBVIOUS
<1>3. RemoveAt(s, i) = a \o b
  BY DEF RemoveAt
<1> HIDE DEF a, b
<1>4. RemoveAt(s, i) \in Seq(S) /\ Len(RemoveAt(s, i)) = Len(s) - 1
  <2>1. Len(a \o b) = Len(a) + Len(b) /\ a \o b \in Seq(S)
    BY <1>1, <1>2, ConcatProperties
  <2>2. Len(s) \in Nat
    OBVIOUS
  <2> QED
    BY <1>1, <1>2, <1>3, <2>1, <2>2
<1>5. ASSUME NEW k \in 1..(Len(s) - 1)
      PROVE  RemoveAt(s, i)[k] = IF k < i THEN s[k] ELSE s[k + 1]
  <2>1. (a \o b)[k] = IF k <= i - 1 THEN a[k] ELSE b[k - (i - 1)]
    BY <1>1, <1>2
  <2>2. k >= i => b[k - (i - 1)] = s[k + 1]
    BY <1>2
  <2> QED
    BY <1>1, <1>3, <2>1, <2>2
<1> QED
  BY <1>4, <1>5

\* A sequence with an element in front of its i-th one.
LEMMA WithElement ==
  ASSUME NEW S, NEW s \in Seq(S), NEW i \in 1..(Len(s) + 1), NEW e \in S
  PROVE  /\ InsertAt(s, i, e) \in Seq(S)
         /\ Len(InsertAt(s, i, e)) = Len(s) + 1
         /\ \A k \in 1..(Len(s) + 1) :
              InsertAt(s, i, e)[k] = IF k < i THEN s[k] ELSE IF k = i THEN e ELSE s[k - 1]
<1> DEFINE a == SubSeq(s, 1, i - 1)
           b == SubSeq(s, i, Len(s))
           c == a \o <<e>>
<1>1. a \in Seq(S) /\ Len(a) = i - 1 /\ \A k \in 1..(i - 1) : a[k] = s[k]
  OBVIOUS
<1>2. /\ b \in Seq(S) /\ Len(b) = Len(s) - i + 1
      /\ \A k \in 1..(Len(s) - i + 1) : b[k] = s[k + i - 1]
  OBVIOUS
<1>3. InsertAt(s, i, e) = c \o b
  BY DEF InsertAt
<1> HIDE DEF a, b
<1>4. /\ c \in Seq(S) /\ Len(c) = i
      /\ \A k \in 1..i : c[k] = IF k < i THEN s[k] ELSE e
  BY <1>1
<1> HIDE DEF c
<1>5. InsertAt(s, i, e) \in Seq(S) /\ Len(InsertAt(s, i, e)) = Len(s) + 1
  <2>1. Len(c \o b) = Len(c) + Len(b) /\ c \o b \in Seq(S)
    BY <1>2, <1>4, ConcatProperties
  <2>2. Len(s) \in Nat
    OBVIOUS
  <2> QED
    BY <1>2, <1>3, <1>4, <2>1, <2>2
<1>6. ASSUME NEW k \in 1..(Len(s) + 1)
      PROVE  InsertAt(s, i, e)[k] = IF k < i THEN s[k] ELSE IF k = i THEN e ELSE s[k - 1]
  <2>1. (c \o b)[k] = IF k <= i THEN c[k] ELSE b[k - i]
    BY <1>2, <1>4
  <2>2. k > i => b[k - i] = s[k - 1]
    BY <1>2
  <2> QED
    BY <1>3, <1>4, <2>1, <2>2
<1> QED
  BY <1>5, <1>6
-----------------------------------------------------------------------------
(* Answers *)

\* Send finds an error in every answer that is one, and it is no verdict.
LEMMA ErrorsAreFound ==
  ASSUME NEW a \in ErrorAnswer
  PROVE  /\ a.entries = {}
         /\ Send(a.status, a.envelope, a.header) # NoError
         /\ Send(a.status, a.envelope, a.header).variant \in NoVerdict
<1>1. a.entries = {}
  BY DEF ErrorAnswer
<1>2. \/ a.status \in {302, 401, 403, 404, 408, 409, 429, 503} /\ ~IsSuccess(a.status)
      \/ a.status = 200 /\ a.envelope \in {"empty", "refused", "garbage"}
  <2>1. \/ a.status \in Status /\ ~IsSuccess(a.status)
        \/ a.status = 200 /\ a.envelope \in Envelope \ {"result"}
    BY DEF ErrorAnswer
  <2>2. ASSUME a.status \in Status, ~IsSuccess(a.status)
        PROVE  a.status \in {302, 401, 403, 404, 408, 409, 429, 503}
    BY <2>2 DEF Status, IsSuccess
  <2>3. Envelope \ {"result"} \subseteq {"empty", "refused", "garbage"}
    BY DEF Envelope
  <2> QED
    BY <2>1, <2>2, <2>3
<1>3. \E variant \in NoVerdict \ {"none"} : \E status, delay :
        Send(a.status, a.envelope, a.header) = Error(variant, status, delay)
  BY <1>2 DEF Send, NoVerdict, IsSuccess, Bare
<1> QED
  BY <1>1, <1>3 DEF Error, Bare, NoError

\* Send finds no error in a result.
LEMMA ResultsAreNone ==
  ASSUME NEW header
  PROVE  Send(200, "result", header) = NoError
  BY DEF Send, IsSuccess

\* The match after a page is an identifier, if there is one.
LEMMA MatchType ==
  ASSUME TypeInv, pc = "read"
  PROVE  Match \in Id \cup {NoId}
<1>1. CASE \E e \in answer.entries : Exact(e)
  <2>1. (CHOOSE e \in answer.entries : Exact(e)) \in Entry
    BY <1>1 DEF TypeInv
  <2> QED
    BY <1>1, <2>1 DEF Match, Entry
<1>2. CASE ~\E e \in answer.entries : Exact(e)
  BY <1>2 DEF Match, TypeInv, TypeOK
<1> QED
  BY <1>1, <1>2
-----------------------------------------------------------------------------
(* Type correctness *)

\* Types hold at first.
LEMMA InitType == Init => TypeInv
<1> SUFFICES ASSUME Init PROVE TypeInv
  OBVIOUS
<1>1. listing \in Seq(Entry)
  <2>1. PICK n \in 0..MaxEntries : listing \in [1..n -> UNION {EntryOf(i) : i \in Id}]
    BY DEF Init
  <2>2. UNION {EntryOf(i) : i \in Id} \subseteq Entry
    BY DEF EntryOf
  <2>3. n \in Nat
    BY LookupAssumption
  <2> QED
    BY <2>1, <2>2, <2>3
<1>2. \A i \in DOMAIN listing : listing[i].id \in Id
  BY <1>1, EntriesOf
<1>3. lasting \subseteq Id
  BY <1>2 DEF Init
<1>4. 1 \in Id
  BY LookupAssumption DEF Id
<1>5. reports \in Reports /\ wanted \in Id
  BY <1>4 DEF Init, Reports
<1>6. /\ goal \in Goal /\ round = 1 /\ pc = "ask" /\ page = 1 /\ exact = NoId /\ inactive = FALSE
      /\ answer = NoAnswer /\ got = 0 /\ edits = 0 /\ recent = 0
  BY DEF Init
<1>7. /\ page \in 1..(MaxPages + 1) /\ got \in 0..MaxBody
      /\ edits \in 0..MaxEdits /\ recent \in 0..edits
  BY <1>6, LookupAssumption
<1>8. pc # "read"
  BY <1>6
<1> QED
  BY <1>1, <1>3, <1>5, <1>6, <1>7, <1>8 DEF TypeInv, TypeOK

\* A request that returns.
LEMMA ReturnType ==
  ASSUME TypeInv, NEW res, Return(res),
         UNCHANGED <<external, question, round, page, exact, inactive, history>>
  PROVE  TypeInv'
<1>1. pc' = "done" /\ answer' = NoAnswer /\ got' = 0
  BY DEF Return
<1>2. got' \in 0..MaxBody
  BY <1>1, LookupAssumption
<1>3. UNCHANGED <<listing, reports, goal, wanted, round, page, exact, inactive, edits, recent,
                  lasting>>
  BY DEF external, question, history
<1> QED
  BY <1>1, <1>2, <1>3 DEF TypeInv, TypeOK

\* Headers that arrive.
LEMMA ReplyType ==
  ASSUME TypeInv, pc = "ask", goal \in Listed => ~AtLimit, NEW a, a.entries \subseteq Entry,
         Reply(a)
  PROVE  TypeInv'
<1>1. pc' = "read" /\ answer' = a /\ got' = 0
  BY DEF Reply
<1>2. got' \in 0..MaxBody
  BY <1>1, LookupAssumption
<1>3. UNCHANGED <<listing, reports, goal, wanted, round, page, exact, inactive, edits, recent,
                  lasting>>
  BY DEF Reply, external, question, history
<1>4. goal \in Listed => page <= MaxPages
  BY LookupAssumption DEF AtLimit, TypeInv, TypeOK
<1> QED
  BY <1>1, <1>2, <1>3, <1>4 DEF TypeInv, TypeOK, Listed

\* An answer with a result.
LEMMA OkType ==
  ASSUME TypeInv, pc = "ask", goal \in Listed => ~AtLimit, NEW entries \in SUBSET Entry,
         NEW full, NEW more, Ok(entries, full, more)
  PROVE  TypeInv'
  BY ReplyType DEF Ok, Answered

\* A request and its answer.
LEMMA AskType == TypeInv /\ Ask => TypeInv'
<1> SUFFICES ASSUME TypeInv, Ask PROVE TypeInv'
  OBVIOUS
<1>1. pc = "ask" /\ (goal \in Listed => ~AtLimit)
  BY DEF Ask, Listed
<1>2. \A i \in DOMAIN listing : listing[i] \in Entry
  BY EntriesOf DEF TypeInv, TypeOK
<1>3. CASE /\ Return(Failed(Bare("Request")))
           /\ UNCHANGED <<external, question, round, page, exact, inactive, history>>
  BY <1>3, ReturnType
<1>4. CASE ReplyError
  BY <1>1, <1>4, ReplyType, ErrorsAreFound DEF ReplyError
<1>5. CASE ReplyPage
  <2> DEFINE entries == {listing[i] : i \in OnPage(page)}
  <2>1. entries \in SUBSET Entry
    BY <1>2 DEF OnPage
  <2>2. \E full, more : Ok(entries, full, more)
    BY <1>5 DEF ReplyPage
  <2> QED
    BY <1>1, <2>1, <2>2, OkType
<1>6. CASE ReplyZone
  <2>1. PICK i \in DOMAIN listing : Ok({listing[i]}, FALSE, FALSE)
    BY <1>6 DEF ReplyZone
  <2>2. {listing[i]} \in SUBSET Entry
    BY <1>2
  <2> QED
    BY <1>1, <2>1, <2>2, OkType
<1>7. CASE ReplyToken
  BY <1>1, <1>7, OkType DEF ReplyToken
<1> QED
  BY <1>3, <1>4, <1>5, <1>6, <1>7 DEF Ask

\* A chunk of a body.
LEMMA ChunkType == TypeInv /\ Chunk => TypeInv'
<1> SUFFICES ASSUME TypeInv, Chunk PROVE TypeInv'
  OBVIOUS
<1>1. PICK n \in 1..MaxBody :
        IF Fits(n) THEN got' = got + n /\ UNCHANGED <<pc, result, answer>>
                   ELSE Return(Failed(Bare("ResponseTooLarge")))
  BY DEF Chunk
<1>2. UNCHANGED <<external, question, round, page, exact, inactive, history>>
  BY DEF Chunk
<1>3. CASE ~Fits(n)
  BY <1>1, <1>2, <1>3, ReturnType
<1>4. CASE Fits(n)
  <2>1. got' \in 0..MaxBody
    BY <1>1, <1>4, LookupAssumption DEF Fits, TypeInv, TypeOK
  <2>2. UNCHANGED <<listing, reports, goal, wanted, round, page, exact, inactive, edits, recent,
                    lasting, pc, answer>>
    BY <1>1, <1>2, <1>4 DEF external, question, history
  <2> QED
    BY <2>1, <2>2 DEF TypeInv, TypeOK
<1> QED
  BY <1>3, <1>4

\* The end of a body.
LEMMA EndOfBodyType == TypeInv /\ EndOfBody => TypeInv'
<1> SUFFICES ASSUME TypeInv, EndOfBody PROVE TypeInv'
  OBVIOUS
<1>1. pc = "read" /\ UNCHANGED <<external, question, round, history>>
  BY DEF EndOfBody
<1>2. CASE (\E res : Return(res)) /\ UNCHANGED <<page, exact, inactive>>
  BY <1>1, <1>2, ReturnType
<1>3. CASE /\ goal \in Listed
           /\ exact' = Match /\ inactive' = (inactive \/ \E e \in answer.entries : Inactive(e))
           /\ page' = NextPage /\ pc' = "ask" /\ answer' = NoAnswer /\ got' = 0
  <2>1. page' \in 1..(MaxPages + 1)
    BY <1>1, <1>3, LookupAssumption DEF NextPage, TypeInv, TypeOK, Listed
  <2>2. exact' \in Id \cup {NoId}
    BY <1>1, <1>3, MatchType
  <2>3. inactive' \in BOOLEAN
    BY <1>3
  <2>4. got' \in 0..MaxBody
    BY <1>3, LookupAssumption
  <2>5. UNCHANGED <<listing, reports, goal, wanted, round, edits, recent, lasting>>
    BY <1>1 DEF external, question, history
  <2> QED
    BY <1>3, <2>1, <2>2, <2>3, <2>4, <2>5 DEF TypeInv, TypeOK
<1>4. \/ (\E res : Return(res)) /\ UNCHANGED <<page, exact, inactive>>
      \/ goal \in Listed /\ HandlePage
  BY DEF EndOfBody, HandleZone, HandleToken, Listed
<1> QED
  BY <1>2, <1>3, <1>4 DEF HandlePage

\* A change by somebody else.
LEMMA EditType ==
  ASSUME TypeInv, NEW new \in Seq(Entry), Edit(new)
  PROVE  TypeInv'
<1>1. /\ pc = "ask" /\ edits < MaxEdits /\ listing' = new
      /\ edits' = edits + 1 /\ recent' = recent + 1 /\ lasting' \subseteq lasting
      /\ UNCHANGED <<reports, goal, wanted, round, pc, page, exact, inactive, answer, got, result>>
  BY DEF Edit, question
<1>2. edits' \in 0..MaxEdits /\ recent' \in 0..edits'
  BY <1>1, LookupAssumption DEF TypeInv, TypeOK
<1> QED
  BY <1>1, <1>2 DEF TypeInv, TypeOK

\* The listing after a change.
LEMMA NewListing ==
  ASSUME TypeInv
  PROVE  /\ \A i \in DOMAIN listing : RemoveAt(listing, i) \in Seq(Entry)
         /\ \A i \in 1..(Len(listing) + 1), e \in EntryOf(MaxEntries + edits + 1) :
              InsertAt(listing, i, e) \in Seq(Entry)
<1>1. listing \in Seq(Entry) /\ DOMAIN listing = 1..Len(listing)
  BY EntriesOf DEF TypeInv, TypeOK
<1>2. EntryOf(MaxEntries + edits + 1) \subseteq Entry
  BY DEF EntryOf
<1> QED
  BY <1>1, <1>2, WithoutElement, WithElement

\* Every step preserves types.
LEMMA TypeStep == TypeInv /\ [Next]_vars => TypeInv'
<1> SUFFICES ASSUME TypeInv, [Next]_vars PROVE TypeInv'
  OBVIOUS
<1>1. CASE PaginationLimit
  BY <1>1, ReturnType DEF PaginationLimit
<1>2. CASE Ask
  BY <1>2, AskType
<1>3. CASE BodyFails
  BY <1>3, ReturnType DEF BodyFails
<1>4. CASE Chunk
  BY <1>4, ChunkType
<1>5. CASE EndOfBody
  BY <1>5, EndOfBodyType
<1>6. CASE Recheck
  <2>1. page' \in 1..(MaxPages + 1) /\ recent' \in 0..edits'
    BY <1>6, LookupAssumption DEF Recheck, TypeInv, TypeOK
  <2> QED
    BY <1>6, <2>1 DEF Recheck, TypeInv, TypeOK, external, question
<1>7. CASE RemoveEntry
  BY <1>7, EditType, NewListing DEF RemoveEntry
<1>8. CASE AddEntry
  BY <1>8, EditType, NewListing DEF AddEntry
<1>9. CASE UNCHANGED vars
  BY <1>9 DEF vars, external, question, history, TypeInv, TypeOK
<1> QED
  BY <1>1, <1>2, <1>3, <1>4, <1>5, <1>6, <1>7, <1>8, <1>9 DEF Next, Client

\* Every variable has its type; in particular the memory an answer takes and the
\* pages that are asked for are within MAX_RESPONSE_BYTES and MAX_PAGES.
THEOREM TypeCorrect == Spec => []TypeOK
<1>1. Spec => []TypeInv
  BY InitType, TypeStep, PTL DEF Spec
<1>2. TypeInv => TypeOK
  BY DEF TypeInv
<1> QED
  BY <1>1, <1>2, PTL
-----------------------------------------------------------------------------
(* What a page adds *)

\* The part of the listing that is covered with this page.
Covered == {i \in DOMAIN listing : i <= page * PageSize}

\* The pages read so far and the current one are disjoint parts of the listing.
LEMMA PageCovers ==
  ASSUME TypeInv
  PROVE  /\ Covered = Seen \cup OnPage(page)
         /\ Seen \cap OnPage(page) = {}
         /\ Seen \subseteq DOMAIN listing /\ OnPage(page) \subseteq DOMAIN listing
<1>1. /\ page * PageSize = (page - 1) * PageSize + PageSize
      /\ page * PageSize \in Nat /\ (page - 1) * PageSize \in Nat
  BY NextPageBegins, LookupAssumption DEF TypeInv, TypeOK
<1>2. DOMAIN listing \subseteq Nat
  BY EntriesOf DEF TypeInv, TypeOK
<1>3. PageSize \in Nat
  BY LookupAssumption
<1> QED
  BY <1>1, <1>2, <1>3 DEF Covered, Seen, OnPage

\* A second match is reported only if there are two.
LEMMA AmbiguousIsTrue ==
  ASSUME IInv, pc = "read", goal \in Listed, recent = 0, Genuine, Ambiguous
  PROVE  \E i, j \in Exacts : i # j
<1>1. answer.entries = {listing[i] : i \in OnPage(page)}
  BY DEF Genuine
<1>2. CASE \E e, f \in answer.entries : e # f /\ Exact(e) /\ Exact(f)
  BY <1>1, <1>2, PageCovers DEF IInv, Exacts
<1>3. CASE exact # NoId /\ \E e \in answer.entries : Exact(e)
  <2>1. PICK i \in Seen : Exact(listing[i])
    BY <1>3 DEF IInv, Scanned
  <2>2. PICK j \in OnPage(page) : Exact(listing[j])
    BY <1>1, <1>3
  <2> QED
    BY <2>1, <2>2, PageCovers DEF IInv, Exacts
<1> QED
  BY <1>2, <1>3 DEF Ambiguous

\* Otherwise the match so far is the only one so far.
LEMMA MatchIsTrue ==
  ASSUME IInv, pc = "read", goal \in Listed, recent = 0, Genuine, ~Ambiguous
  PROVE  /\ Match = NoId => \A i \in Covered : ~Exact(listing[i])
         /\ Match # NoId => \E i \in Covered : /\ Exact(listing[i])
                                              /\ listing[i].id = Match
                                              /\ \A j \in Covered : Exact(listing[j]) => j = i
<1>1. answer.entries = {listing[i] : i \in OnPage(page)}
  BY DEF Genuine
<1>2. /\ Covered = Seen \cup OnPage(page)
      /\ OnPage(page) \subseteq DOMAIN listing
  BY PageCovers DEF IInv
<1>3. \A i \in DOMAIN listing : listing[i].id # NoId
  BY EntriesOf DEF IInv, TypeInv, TypeOK
<1>4. CASE \E e \in answer.entries : Exact(e)
  <2> DEFINE e == CHOOSE e \in answer.entries : Exact(e)
  <2>1. e \in answer.entries /\ Exact(e) /\ Match = e.id
    BY <1>4 DEF Match
  <2> HIDE DEF e
  <2>2. PICK i \in OnPage(page) : e = listing[i]
    BY <1>1, <2>1
  <2>3. exact = NoId
    BY <1>4 DEF Ambiguous
  <2>4. \A j \in Seen : ~Exact(listing[j])
    BY <2>3 DEF IInv, Scanned
  <2>5. \A j \in OnPage(page) : Exact(listing[j]) => listing[j] = listing[i]
    BY <1>1, <2>1, <2>2 DEF Ambiguous
  <2>6. \A j \in OnPage(page) : Exact(listing[j]) => j = i
    BY <1>2, <2>5 DEF IInv, Distinct
  <2> QED
    BY <1>2, <1>3, <2>1, <2>2, <2>4, <2>6
<1>5. CASE ~\E e \in answer.entries : Exact(e)
  <2>1. \A j \in OnPage(page) : ~Exact(listing[j])
    BY <1>1, <1>5
  <2>2. Match = exact
    BY <1>5 DEF Match
  <2> QED
    BY <1>2, <2>1, <2>2 DEF IInv, Scanned
<1> QED
  BY <1>4, <1>5

\* So is what was noted of inactive zones.
LEMMA InactiveIsTrue ==
  ASSUME IInv, pc = "read", goal \in Listed, recent = 0, Genuine
  PROVE  (inactive \/ \E e \in answer.entries : Inactive(e))
           <=> \E i \in Covered : Inactive(listing[i])
<1>1. answer.entries = {listing[i] : i \in OnPage(page)}
  BY DEF Genuine
<1>2. Covered = Seen \cup OnPage(page)
  BY PageCovers DEF IInv
<1>3. inactive <=> \E i \in Seen : Inactive(listing[i])
  BY DEF IInv, Scanned
<1>4. (\E e \in answer.entries : Inactive(e)) <=> \E i \in OnPage(page) : Inactive(listing[i])
  BY <1>1
<1> QED
  BY <1>2, <1>3, <1>4
-----------------------------------------------------------------------------
(* What is returned is true *)

\* A result that may be returned in this state.
Right(res) ==
  /\ goal \in Listed /\ recent = 0 =>
       \/ res = Verdict
       \/ res.kind = "failed" /\ res.error.variant \in NoVerdict
       \/ /\ res = Failed(Bare("PaginationLimit"))
          /\ reports = "endless" \/ Len(listing) >= MaxPages * PageSize
  /\ goal = "explicit" /\ res.kind = "found" /\ edits = 0 =>
       \E i \in DOMAIN listing : listing[i] = [id |-> wanted, same |-> TRUE, active |-> TRUE]

\* An error that is no verdict may be returned in every state.
LEMMA ErrorsAreRight ==
  ASSUME NEW e, e.variant \in NoVerdict
  PROVE  Right(Failed(e))
  BY DEF Right, Failed

\* A request that returns what it may.
LEMMA ReturnSafe ==
  ASSUME IInv, NEW res, Right(res), Return(res),
         UNCHANGED <<external, question, round, page, exact, inactive, history>>
  PROVE  IInv'
<1>1. TypeInv'
  BY ReturnType DEF IInv
<1>2. pc' = "done" /\ result' = res
  BY DEF Return
<1>3. UNCHANGED <<listing, reports, goal, wanted, edits, recent>>
  BY DEF external, question, history
<1>4. Distinct'
  BY <1>3 DEF IInv, Distinct
<1>5. Verdict' = Verdict
  BY <1>3 DEF Verdict, Exacts, Exact, Inactive, Conclude
<1>6. LookupTruthful'
  BY <1>2, <1>3, <1>5 DEF Right, LookupTruthful, PagingInvisible, ExplicitZoneChecked, Listed
<1> QED
  BY <1>1, <1>2, <1>4, <1>6 DEF IInv, Scanned, Fresh

\* The limit is only reached behind a long listing or with an endless server.
LEMMA LimitSafe == IInv /\ PaginationLimit => IInv'
<1> SUFFICES ASSUME IInv, PaginationLimit PROVE IInv'
  OBVIOUS
<1>1. pc = "ask" /\ goal \in Listed /\ page > MaxPages
  BY DEF PaginationLimit, AtLimit, Listed
<1>2. page = MaxPages + 1
  BY <1>1, LookupAssumption DEF IInv, TypeInv, TypeOK
<1>3. recent = 0 => reports = "endless" \/ MaxPages * PageSize <= Len(listing)
  BY <1>1, <1>2, LookupAssumption DEF IInv, Scanned
<1>4. MaxPages * PageSize \in Nat /\ Len(listing) \in Nat
  BY NextPageBegins, EntriesOf, LookupAssumption DEF IInv, TypeInv, TypeOK
<1>5. Right(Failed(Bare("PaginationLimit")))
  BY <1>1, <1>3, <1>4 DEF Right, Failed, Listed
<1> QED
  BY <1>5, ReturnSafe DEF PaginationLimit

\* The scan is not touched by an answer that arrives or by a chunk.
LEMMA ScanKept ==
  ASSUME IInv, TypeInv', pc # "done", pc' = "read", Fresh',
         UNCHANGED <<listing, reports, goal, page, exact, inactive, edits, recent>>
  PROVE  IInv'
<1>1. Distinct'
  BY DEF IInv, Distinct
<1>2. Scanned'
  BY DEF IInv, Scanned, Seen, Exact, Inactive
<1>3. LookupTruthful'
  BY DEF LookupTruthful
<1> QED
  BY <1>1, <1>2, <1>3 DEF IInv

\* What an answer says of further pages.
LEMMA PageIsGenuine ==
  ASSUME IInv, pc = "ask", ReplyPage
  PROVE  Fresh'
<1>1. /\ page \in Nat \ {0} /\ PageSize \in Nat /\ Len(listing) \in Nat
      /\ page * PageSize \in Nat
  BY NextPageBegins, EntriesOf, LookupAssumption DEF IInv, TypeInv, TypeOK
<1>2. PICK full, more :
        /\ Ok({listing[i] : i \in OnPage(page)}, full, more)
        /\ reports = "nothing" => full = IsFull(page)
        /\ reports = "total" => \E n \in 0..(MaxEntries + 1) : IsTotal(n) /\ more = (page < n)
        /\ reports = "endless" => more = TRUE
  BY DEF ReplyPage
<1>3. /\ answer'.status = 200 /\ answer'.envelope = "result" /\ answer'.header = NoHeader
      /\ answer'.entries = {listing[i] : i \in OnPage(page)}
      /\ answer'.full = full /\ answer'.more = more
      /\ UNCHANGED <<listing, reports, goal, page>>
  BY <1>2 DEF Ok, Reply, Answered, external, question
<1>4. goal' \in Listed /\ goal' # "explicit"
  BY <1>3 DEF ReplyPage, Listed
<1>5. answer'.entries = {listing'[i] : i \in OnPage(page)'}
  BY <1>3 DEF OnPage
<1>6. CASE reports = "nothing"
  <2>1. full = (page * PageSize <= Len(listing))
    BY <1>2, <1>6 DEF IsFull
  <2>2. ~(page * PageSize <= Len(listing)) => Len(listing) <= page * PageSize
    BY <1>1
  <2>3. /\ ~full => Len(listing) <= page * PageSize
        /\ full => page * PageSize <= Len(listing)
    BY <2>1, <2>2, Zenon
  <2> QED
    BY <1>3, <1>4, <1>5, <1>6, <2>3 DEF Fresh, Genuine, HasNextPage
<1>7. CASE reports = "endless"
  BY <1>2, <1>3, <1>4, <1>5, <1>7 DEF Fresh, Genuine, HasNextPage
<1>8. CASE reports = "total"
  <2>1. PICK n \in 0..(MaxEntries + 1) : IsTotal(n) /\ more = (page < n)
    BY <1>2, <1>8
  <2>2. n \in Nat
    BY LookupAssumption
  <2>3. n <= page => n * PageSize <= page * PageSize /\ n * PageSize \in Nat
    BY <1>1, <2>2, TimesMonotone
  <2>4. page < n => page * PageSize <= (n - 1) * PageSize /\ (n - 1) * PageSize \in Nat
    BY <1>1, <2>2, TimesMonotone
  <2>5. page < n => page * PageSize <= Len(listing)
    BY <1>1, <2>1, <2>2, <2>4 DEF IsTotal
  <2>6. ~(page < n) => Len(listing) <= page * PageSize
    BY <1>1, <2>1, <2>2, <2>3 DEF IsTotal
  <2>7. /\ more => page * PageSize <= Len(listing)
        /\ ~more => Len(listing) <= page * PageSize
    BY <2>1, <2>5, <2>6, Zenon
  <2> QED
    BY <1>3, <1>4, <1>5, <1>8, <2>7 DEF Fresh, Genuine, HasNextPage
<1> QED
  BY <1>6, <1>7, <1>8 DEF IInv, TypeInv, TypeOK, Reports

\* A request and its answer.
LEMMA AskSafe == IInv /\ Ask => IInv'
<1> SUFFICES ASSUME IInv, Ask PROVE IInv'
  OBVIOUS
<1>1. pc = "ask" /\ TypeInv'
  BY AskType DEF Ask, IInv
<1>2. CASE /\ Return(Failed(Bare("Request")))
           /\ UNCHANGED <<external, question, round, page, exact, inactive, history>>
  <2>1. Right(Failed(Bare("Request")))
    BY ErrorsAreRight DEF Bare, Error, NoVerdict
  <2> QED
    BY <1>2, <2>1, ReturnSafe
<1>3. ASSUME NEW a, Reply(a)
      PROVE  /\ pc' = "read" /\ answer' = a
             /\ UNCHANGED <<listing, reports, goal, page, exact, inactive, edits, recent>>
  BY <1>3 DEF Reply, external, question, history
<1>4. CASE ReplyError
  <2>1. PICK a \in ErrorAnswer : Reply(a)
    BY <1>4 DEF ReplyError
  <2>2. Fresh'
    BY <1>3, <2>1 DEF Fresh, ErrorAnswer
  <2> QED
    BY <1>1, <1>3, <2>1, <2>2, ScanKept
<1>5. CASE ReplyPage
  <2>1. \E a : Reply(a)
    BY <1>5 DEF ReplyPage, Ok
  <2> QED
    BY <1>1, <1>3, <1>5, <2>1, PageIsGenuine, ScanKept
<1>6. CASE ReplyZone
  <2>1. PICK i \in DOMAIN listing : Ok({listing[i]}, FALSE, FALSE)
    BY <1>6 DEF ReplyZone
  <2>2. Reply(Answered(200, NoHeader, "result", {listing[i]}, FALSE, FALSE))
    BY <2>1 DEF Ok
  <2>3. Genuine'
    BY <1>3, <1>6, <2>2 DEF Genuine, Answered, ReplyZone, Listed
  <2> QED
    BY <1>1, <1>3, <2>2, <2>3, ScanKept DEF Fresh
<1>7. CASE ReplyToken
  <2>1. PICK active \in BOOLEAN : Ok({}, active, FALSE)
    BY <1>7 DEF ReplyToken
  <2>2. Reply(Answered(200, NoHeader, "result", {}, active, FALSE))
    BY <2>1 DEF Ok
  <2>3. Genuine'
    BY <1>3, <1>7, <2>2 DEF Genuine, Answered, ReplyToken, Listed
  <2> QED
    BY <1>1, <1>3, <2>2, <2>3, ScanKept DEF Fresh
<1> QED
  BY <1>2, <1>4, <1>5, <1>6, <1>7 DEF Ask

\* A body that cannot be read, or goes on.
LEMMA BodySafe == IInv /\ (BodyFails \/ Chunk) => IInv'
<1> SUFFICES ASSUME IInv PROVE BodyFails \/ Chunk => IInv'
  OBVIOUS
<1>1. Right(Failed(Bare("Request"))) /\ Right(Failed(Bare("ResponseTooLarge")))
  BY ErrorsAreRight DEF Bare, Error, NoVerdict
<1>2. CASE BodyFails
  BY <1>1, <1>2, ReturnSafe DEF BodyFails
<1>3. CASE Chunk
  <2>1. CASE Return(Failed(Bare("ResponseTooLarge")))
    BY <1>1, <1>3, <2>1, ReturnSafe DEF Chunk
  <2>2. CASE UNCHANGED <<pc, result, answer>>
    <3>1. UNCHANGED <<listing, reports, goal, page, exact, inactive, edits, recent>> /\ pc = "read"
      BY <1>3 DEF Chunk, external, question, history
    <3>2. Genuine' <=> Genuine
      BY <2>2, <3>1 DEF Genuine, HasNextPage, OnPage
    <3>3. Fresh'
      BY <2>2, <3>1, <3>2 DEF IInv, Fresh, ErrorAnswer
    <3>4. TypeInv'
      BY <1>3, ChunkType DEF IInv
    <3> QED
      BY <2>2, <3>1, <3>3, <3>4, ScanKept
  <2> QED
    BY <1>3, <2>1, <2>2 DEF Chunk
<1> QED
  BY <1>2, <1>3

\* After the last page, what the pages held is the verdict on the listing.
LEMMA ConclusionIsRight ==
  ASSUME IInv, pc = "read", goal \in Listed, Genuine, ~Ambiguous, ~HasNextPage
  PROVE  Right(Conclude(Match, inactive \/ \E e \in answer.entries : Inactive(e)))
<1> DEFINE idle == inactive \/ \E e \in answer.entries : Inactive(e)
<1>1. goal # "explicit"
  BY DEF Listed
<1>2. ASSUME recent = 0
      PROVE  Conclude(Match, idle) = Verdict
  <2>1. Covered = DOMAIN listing
    <3>1. Len(listing) <= page * PageSize
      BY DEF Genuine
    <3>2. page * PageSize \in Nat
      BY NextPageBegins, LookupAssumption DEF IInv, TypeInv, TypeOK
    <3>3. Len(listing) \in Nat /\ DOMAIN listing = 1..Len(listing)
      BY EntriesOf DEF IInv, TypeInv, TypeOK
    <3>4. \A i \in DOMAIN listing : i <= page * PageSize
      BY <3>1, <3>2, <3>3
    <3> QED
      BY <3>4 DEF Covered
  <2>2. idle <=> \E i \in DOMAIN listing : Inactive(listing[i])
    BY <1>2, <2>1, InactiveIsTrue
  <2>3. CASE Match = NoId
    <3>1. Exacts = {}
      BY <1>2, <2>1, <2>3, MatchIsTrue DEF Exacts
    <3> QED
      BY <2>2, <2>3, <3>1 DEF Verdict, Conclude
  <2>4. CASE Match # NoId
    <3>1. PICK i \in DOMAIN listing : /\ Exact(listing[i]) /\ listing[i].id = Match
                                      /\ \A j \in DOMAIN listing : Exact(listing[j]) => j = i
      BY <1>2, <2>1, <2>4, MatchIsTrue
    <3>2. Exacts = {i}
      BY <3>1 DEF Exacts
    <3>3. (CHOOSE j \in Exacts : TRUE) = i
      BY <3>2
    <3> QED
      BY <2>4, <3>1, <3>2, <3>3 DEF Verdict, Conclude
  <2> QED
    BY <2>3, <2>4
<1> QED
  BY <1>1, <1>2 DEF Right

\* The pages go on.
LEMMA ScanGoesOn ==
  ASSUME IInv, TypeInv', pc = "read", goal \in Listed, Genuine, ~Ambiguous, HasNextPage,
         exact' = Match, inactive' = (inactive \/ \E e \in answer.entries : Inactive(e)),
         page' = NextPage, pc' = "ask",
         UNCHANGED <<listing, reports, goal, edits, recent>>
  PROVE  IInv'
<1>1. page \in Nat /\ page < MaxPageNumber
  BY LookupAssumption DEF IInv, TypeInv, TypeOK, Listed
<1>2. page' - 1 = page
  BY <1>1 DEF NextPage
<1>3. Seen' = Covered
  BY <1>2 DEF Seen, Covered
<1>4. Distinct'
  BY DEF IInv, Distinct
<1>5. Scanned'
  <2> SUFFICES ASSUME recent = 0
      PROVE /\ exact' = NoId => \A i \in Covered : ~Exact(listing[i])
            /\ exact' # NoId => \E i \in Covered : /\ Exact(listing[i])
                                                  /\ listing[i].id = exact'
                                                  /\ \A j \in Covered : Exact(listing[j]) => j = i
            /\ inactive' <=> \E i \in Covered : Inactive(listing[i])
            /\ reports = "endless" \/ page * PageSize <= Len(listing)
    BY <1>2, <1>3 DEF Scanned, Exact, Inactive
  <2>1. inactive' <=> \E i \in Covered : Inactive(listing[i])
    BY InactiveIsTrue
  <2>2. reports = "endless" \/ page * PageSize <= Len(listing)
    BY DEF Genuine
  <2> QED
    BY <2>1, <2>2, MatchIsTrue
<1> QED
  BY <1>4, <1>5 DEF IInv, Fresh, LookupTruthful

\* A page is handled.
LEMMA PageSafe ==
  ASSUME IInv, TypeInv', pc = "read", goal \in Listed, Genuine, HandlePage,
         UNCHANGED <<external, question, round, history>>
  PROVE  IInv'
<1> DEFINE idle == inactive \/ \E e \in answer.entries : Inactive(e)
<1>1. UNCHANGED <<listing, reports, goal, edits, recent>>
  BY DEF external, question, history
<1>2. CASE Ambiguous
  <2> DEFINE res == Failed(Bare(IF goal = "zone" THEN "AmbiguousZone" ELSE "AmbiguousRecord"))
  <2>1. Return(res) /\ UNCHANGED <<page, exact, inactive>>
    BY <1>2 DEF HandlePage
  <2>2. recent = 0 => res = Verdict
    BY <1>2, AmbiguousIsTrue DEF Verdict
  <2>3. Right(res)
    BY <2>2 DEF Right, Listed
  <2> QED
    BY <2>1, <2>3, ReturnSafe
<1>3. CASE ~Ambiguous /\ HasNextPage
  BY <1>1, <1>3, ScanGoesOn DEF HandlePage
<1>4. CASE ~Ambiguous /\ ~HasNextPage
  BY <1>4, ConclusionIsRight, ReturnSafe DEF HandlePage
<1> QED
  BY <1>2, <1>3, <1>4

\* A zone is taken for the configured one only if it is.
LEMMA ZoneSafe ==
  ASSUME IInv, pc = "read", goal = "explicit", Genuine, HandleZone,
         UNCHANGED <<external, question, round, page, exact, inactive, history>>
  PROVE  IInv'
<1>1. PICK e \in answer.entries :
        Return(IF ~e.same THEN Failed(Bare("ZoneNameMismatch"))
               ELSE IF e.id # wanted THEN Failed(Bare("ZoneIdMismatch"))
               ELSE IF ~e.active THEN Failed(Bare("ZoneNotActive"))
               ELSE Found(wanted))
  BY DEF HandleZone
<1>2. PICK i \in DOMAIN listing : e = listing[i]
  BY <1>1 DEF Genuine
<1>3. e \in Entry
  BY <1>1 DEF IInv, TypeInv
<1>4. \A error : Right(Failed(error))
  BY DEF Right, Failed, Listed
<1>5. CASE e.same /\ e.id = wanted /\ e.active
  <2>1. e = [id |-> wanted, same |-> TRUE, active |-> TRUE]
    BY <1>3, <1>5 DEF Entry
  <2>2. Right(Found(wanted))
    BY <1>2, <2>1 DEF Right, Listed
  <2> QED
    BY <1>1, <1>5, <2>2, ReturnSafe
<1>6. CASE ~(e.same /\ e.id = wanted /\ e.active)
  BY <1>1, <1>4, <1>6, ReturnSafe
<1> QED
  BY <1>5, <1>6

\* The end of a body.
LEMMA EndOfBodySafe == IInv /\ EndOfBody => IInv'
<1> SUFFICES ASSUME IInv, EndOfBody PROVE IInv'
  OBVIOUS
<1> DEFINE error == Send(answer.status, answer.envelope, answer.header)
<1>1. pc = "read" /\ UNCHANGED <<external, question, round, history>> /\ TypeInv'
  BY EndOfBodyType DEF EndOfBody, IInv
<1>2. CASE error # NoError
  <2>1. answer \in ErrorAnswer
    BY <1>1, <1>2, ResultsAreNone DEF IInv, Fresh, Genuine
  <2>2. Right(Failed(error))
    BY <2>1, ErrorsAreFound, ErrorsAreRight
  <2>3. Return(Failed(error)) /\ UNCHANGED <<page, exact, inactive>>
    BY <1>2 DEF EndOfBody
  <2> QED
    BY <1>1, <2>2, <2>3, ReturnSafe
<1>3. CASE error = NoError
  <2>1. Genuine
    BY <1>1, <1>3, ErrorsAreFound DEF IInv, Fresh
  <2>2. CASE goal \in Listed /\ HandlePage
    BY <1>1, <2>1, <2>2, PageSafe
  <2>3. CASE goal = "explicit" /\ HandleZone /\ UNCHANGED <<page, exact, inactive>>
    BY <1>1, <2>1, <2>3, ZoneSafe
  <2>4. CASE goal = "token" /\ HandleToken /\ UNCHANGED <<page, exact, inactive>>
    <3>1. PICK res : Return(res)
      BY <2>4 DEF HandleToken
    <3>2. Right(res)
      BY <2>4 DEF Right, Listed
    <3> QED
      BY <1>1, <2>4, <3>1, <3>2, ReturnSafe
  <2> QED
    BY <1>3, <2>2, <2>3, <2>4 DEF EndOfBody, Listed
<1> QED
  BY <1>2, <1>3

\* The second lookup begins with nothing seen.
LEMMA RecheckSafe == IInv /\ Recheck => IInv'
<1> SUFFICES ASSUME IInv, Recheck PROVE IInv'
  OBVIOUS
<1>1. TypeInv'
  BY TypeStep DEF IInv, Next, Client
<1>2. /\ pc' = "ask" /\ page' = 1 /\ exact' = NoId /\ inactive' = FALSE
      /\ UNCHANGED <<listing, reports, goal, edits>>
  BY DEF Recheck, external, question
<1>3. Distinct'
  BY <1>2 DEF IInv, Distinct
<1>4. Seen' = {}
  <2>1. (page' - 1) * PageSize = 0
    BY <1>2, LookupAssumption
  <2>2. \A i \in DOMAIN listing' : ~(i <= 0)
    BY <1>2, EntriesOf DEF IInv, TypeInv, TypeOK
  <2> QED
    BY <2>1, <2>2 DEF Seen
<1>5. Scanned'
  BY <1>2, <1>4 DEF Scanned
<1> QED
  BY <1>1, <1>2, <1>3, <1>5 DEF IInv, Fresh, LookupTruthful

\* A change by somebody else makes the lookup one of a changed listing.
LEMMA EditSafe ==
  ASSUME IInv, NEW new \in Seq(Entry), Edit(new),
         \A i, j \in DOMAIN new : new[i].id = new[j].id => i = j,
         \A i \in DOMAIN new : new[i].id <= MaxEntries + edits + 1
  PROVE  IInv'
<1>1. TypeInv'
  BY EditType DEF IInv
<1>2. pc' = "ask" /\ listing' = new /\ edits' = edits + 1 /\ recent' = recent + 1
  BY DEF Edit
<1>3. recent' # 0 /\ MaxEntries + edits + 1 = MaxEntries + edits'
  BY <1>2, LookupAssumption DEF IInv, TypeInv, TypeOK
<1>4. Distinct'
  BY <1>2, <1>3 DEF Distinct
<1> QED
  BY <1>1, <1>2, <1>3, <1>4 DEF IInv, Scanned, Fresh, LookupTruthful

\* Remove preserves the inductive invariant.
LEMMA RemoveSafe == IInv /\ RemoveEntry => IInv'
<1> SUFFICES ASSUME IInv, NEW x \in DOMAIN listing, Edit(RemoveAt(listing, x)) PROVE IInv'
  BY DEF RemoveEntry
<1> DEFINE new == RemoveAt(listing, x)
<1>1. /\ listing \in Seq(Entry) /\ Len(listing) \in Nat /\ x \in 1..Len(listing)
      /\ edits \in Nat /\ MaxEntries \in Nat
      /\ \A i \in 1..Len(listing) : listing[i].id \in Nat
  BY EntriesOf, LookupAssumption DEF IInv, TypeInv, TypeOK
<1>2. /\ \A i, j \in 1..Len(listing) : listing[i].id = listing[j].id => i = j
      /\ \A i \in 1..Len(listing) : listing[i].id <= MaxEntries + edits
  BY EntriesOf DEF IInv, TypeInv, TypeOK, Distinct
<1>3. /\ new \in Seq(Entry) /\ DOMAIN new = 1..(Len(listing) - 1)
      /\ \A k \in 1..(Len(listing) - 1) : new[k] = IF k < x THEN listing[k] ELSE listing[k + 1]
  BY <1>1, WithoutElement, EntriesOf
<1> DEFINE old(k) == IF k < x THEN k ELSE k + 1
<1> HIDE DEF new
<1>4. ASSUME NEW k \in DOMAIN new
      PROVE  old(k) \in 1..Len(listing) /\ new[k].id = listing[old(k)].id
  <2>1. k \in 1..(Len(listing) - 1)
    BY <1>3
  <2>2. old(k) \in 1..Len(listing)
    BY <1>1, <2>1
  <2>3. new[k] = listing[old(k)]
    BY <1>3, <2>1
  <2> QED
    BY <2>2, <2>3
<1>5. ASSUME NEW i \in DOMAIN new, NEW j \in DOMAIN new, old(i) = old(j)
      PROVE  i = j
  <2>1. i \in Int /\ j \in Int /\ x \in Int
    BY <1>1, <1>3
  <2> QED
    BY <1>5, <2>1
<1> HIDE DEF old
<1>6. \A i, j \in DOMAIN new : new[i].id = new[j].id => i = j
  BY <1>2, <1>4, <1>5
<1>7. ASSUME NEW i \in DOMAIN new
      PROVE  new[i].id <= MaxEntries + edits + 1
  <2>1. new[i].id \in Nat /\ new[i].id <= MaxEntries + edits
    BY <1>1, <1>2, <1>4
  <2> QED
    BY <1>1, <2>1
<1> QED
  BY <1>3, <1>6, <1>7, EditSafe DEF new

\* Add preserves the inductive invariant.
LEMMA AddSafe == IInv /\ AddEntry => IInv'
<1> SUFFICES ASSUME IInv, NEW x \in 1..(Len(listing) + 1),
                    NEW e \in EntryOf(MaxEntries + edits + 1), Edit(InsertAt(listing, x, e))
             PROVE  IInv'
  BY DEF AddEntry
<1> DEFINE new == InsertAt(listing, x, e)
<1>1. /\ listing \in Seq(Entry) /\ Len(listing) \in Nat
      /\ edits \in Nat /\ MaxEntries \in Nat
      /\ \A i \in 1..Len(listing) : listing[i].id \in Nat
  BY EntriesOf, LookupAssumption DEF IInv, TypeInv, TypeOK
<1>2. /\ \A i, j \in 1..Len(listing) : listing[i].id = listing[j].id => i = j
      /\ \A i \in 1..Len(listing) : listing[i].id <= MaxEntries + edits
  BY EntriesOf DEF IInv, TypeInv, TypeOK, Distinct
<1>3. e \in Entry /\ e.id = MaxEntries + edits + 1
  BY DEF EntryOf
<1>4. /\ new \in Seq(Entry) /\ DOMAIN new = 1..(Len(listing) + 1)
      /\ \A k \in 1..(Len(listing) + 1) :
           new[k] = IF k < x THEN listing[k] ELSE IF k = x THEN e ELSE listing[k - 1]
  BY <1>1, <1>3, WithElement, EntriesOf
<1> DEFINE old(k) == IF k < x THEN k ELSE k - 1
<1> HIDE DEF new
<1>5. ASSUME NEW k \in DOMAIN new, k # x
      PROVE  old(k) \in 1..Len(listing) /\ new[k].id = listing[old(k)].id
  <2>1. k \in 1..(Len(listing) + 1)
    BY <1>4
  <2>2. old(k) \in 1..Len(listing)
    BY <1>1, <1>5, <2>1
  <2>3. new[k] = listing[old(k)]
    BY <1>4, <1>5, <2>1
  <2> QED
    BY <2>2, <2>3
<1>6. ASSUME NEW i \in DOMAIN new, NEW j \in DOMAIN new, i # x, j # x, old(i) = old(j)
      PROVE  i = j
  <2>1. i \in Int /\ j \in Int /\ x \in Int
    BY <1>1, <1>4
  <2> QED
    BY <1>6, <2>1
<1> HIDE DEF old
<1>7. ASSUME NEW i \in DOMAIN new, i # x
      PROVE  new[i].id \in Nat /\ new[i].id <= MaxEntries + edits
  BY <1>1, <1>2, <1>5, <1>7
<1>8. x \in DOMAIN new /\ new[x].id = MaxEntries + edits + 1
  <2>1. x \in Int
    BY <1>1
  <2>2. new[x] = e
    BY <1>4, <2>1
  <2> QED
    BY <1>3, <1>4, <2>2
<1>9. ASSUME NEW i \in DOMAIN new, i # x
      PROVE  new[i].id # new[x].id /\ new[i].id <= MaxEntries + edits + 1
  BY <1>1, <1>7, <1>8, <1>9
<1>10. \A i, j \in DOMAIN new : new[i].id = new[j].id => i = j
  <2> SUFFICES ASSUME NEW i \in DOMAIN new, NEW j \in DOMAIN new, new[i].id = new[j].id
               PROVE  i = j
    OBVIOUS
  <2>1. CASE i # x /\ j # x
    BY <1>2, <1>5, <1>6, <2>1
  <2> QED
    BY <1>9, <2>1
<1>11. \A i \in DOMAIN new : new[i].id <= MaxEntries + edits + 1
  <2>1. new[x].id <= MaxEntries + edits + 1
    BY <1>1, <1>8
  <2> QED
    BY <1>9, <2>1
<1> QED
  BY <1>4, <1>10, <1>11, EditSafe DEF new

\* The inductive invariant holds at first.
LEMMA InitSafe == Init => IInv
<1> SUFFICES ASSUME Init PROVE IInv
  OBVIOUS
<1>1. TypeInv
  BY InitType
<1>2. pc = "ask" /\ page = 1 /\ exact = NoId /\ inactive = FALSE /\ edits = 0
  BY DEF Init
<1>3. Distinct
  <2>1. PICK n \in 0..MaxEntries :
          listing \in {s \in [1..n -> UNION {EntryOf(i) : i \in Id}] : \A i \in 1..n : s[i].id = i}
    BY DEF Init
  <2>2. DOMAIN listing = 1..n /\ \A i \in DOMAIN listing : listing[i].id = i
    BY <2>1
  <2>3. n \in Nat /\ MaxEntries \in Nat /\ n <= MaxEntries
    BY LookupAssumption
  <2> QED
    BY <1>2, <2>2, <2>3 DEF Distinct
<1>4. Seen = {}
  <2>1. (page - 1) * PageSize = 0
    BY <1>2, LookupAssumption
  <2>2. \A i \in DOMAIN listing : ~(i <= 0)
    BY <1>1, EntriesOf DEF TypeInv, TypeOK
  <2> QED
    BY <2>1, <2>2 DEF Seen
<1> QED
  BY <1>1, <1>2, <1>3, <1>4 DEF IInv, Scanned, Fresh, LookupTruthful

\* Every step preserves the inductive invariant.
LEMMA StepSafe == IInv /\ [Next]_vars => IInv'
<1> SUFFICES ASSUME IInv, [Next]_vars PROVE IInv'
  OBVIOUS
<1>1. CASE UNCHANGED vars
  <2>1. TypeInv'
    BY TypeStep DEF IInv
  <2>2. UNCHANGED <<listing, reports, goal, wanted, pc, page, exact, inactive, answer, result,
                    edits, recent>>
    BY <1>1 DEF vars, external, question, history
  <2>3. Distinct' /\ Scanned'
    BY <2>2 DEF IInv, Distinct, Scanned, Seen, Exact, Inactive
  <2>4. Fresh'
    <3>1. HasNextPage' <=> HasNextPage
      BY <2>2 DEF HasNextPage
    <3>2. Genuine' <=> Genuine
      BY <2>2, <3>1 DEF Genuine, OnPage
    <3> QED
      BY <2>2, <3>2 DEF IInv, Fresh, ErrorAnswer
  <2>5. Verdict' = Verdict
    BY <2>2 DEF Verdict, Exacts, Exact, Inactive, Conclude
  <2>6. LookupTruthful'
    BY <2>2, <2>5 DEF IInv, LookupTruthful, PagingInvisible, ExplicitZoneChecked
  <2> QED
    BY <2>1, <2>3, <2>4, <2>6 DEF IInv
<1> QED
  BY <1>1, LimitSafe, AskSafe, BodySafe, EndOfBodySafe, RecheckSafe, RemoveSafe, AddSafe
  DEF Next, Client

\* The inductive invariant holds in every reachable state.
LEMMA Inductive == Spec => []IInv
  BY InitSafe, StepSafe, PTL DEF Spec

\* What a lookup returns is true for every page size, limit and listing.  With no
\* change since it began, resolve_named_zone_id and find_record give the verdict
\* on the listing as a whole, or an error, and resolve_explicit_zone_id uses an
\* identifier only for the zone that has it.
THEOREM LookupAlwaysTruthful == Spec => []LookupTruthful
<1>1. IInv => LookupTruthful
  BY DEF IInv
<1> QED
  BY <1>1, Inductive, PTL
-----------------------------------------------------------------------------
(* The second lookup *)

\* The identifiers of the matches.
Matches == {listing[i].id : i \in Exacts}

\* What was there all along is still there.  If every change so far was made
\* during the second lookup, the first one has seen that nothing was there.
Overseen ==
  /\ lasting \subseteq Matches
  /\ round = 1 => recent = edits
  /\ round = 2 /\ recent = edits => lasting = {}

\* A lookup of an unchanged listing that finds no record is right.
LEMMA NothingIsThere ==
  ASSUME IInv, pc = "done", goal = "record", result = Nothing, recent = 0
  PROVE  Matches = {}
<1>1. result.kind = "nothing"
  BY DEF Nothing
<1>2. result # Failed(Bare("PaginationLimit"))
  BY <1>1 DEF Failed
<1>3. Verdict = Nothing
  BY <1>1, <1>2 DEF IInv, LookupTruthful, PagingInvisible
<1>4. \A e : Nothing # Failed(e)
  BY DEF Nothing, Failed
<1>5. \A id : Nothing # Found(id)
  BY DEF Nothing, Found
<1>6. Exacts = {}
  <2> SUFFICES ASSUME Exacts # {} PROVE FALSE
    OBVIOUS
  <2> DEFINE c == CHOOSE i \in Exacts : TRUE
  <2>1. c \in Exacts
    OBVIOUS
  <2>2. c \in DOMAIN listing
    BY <2>1 DEF Exacts
  <2>3. listing[c].id # NoId
    BY <2>2, EntriesOf DEF IInv, TypeInv, TypeOK
  <2> HIDE DEF c
  <2>4. Verdict = IF \E i, j \in Exacts : i # j
                  THEN Failed(Bare(IF goal = "zone" THEN "AmbiguousZone" ELSE "AmbiguousRecord"))
                  ELSE Conclude(IF Exacts = {} THEN NoId ELSE listing[c].id,
                                \E i \in DOMAIN listing : Inactive(listing[i]))
    BY Zenon DEF Verdict, c
  <2>5. Conclude(listing[c].id, \E i \in DOMAIN listing : Inactive(listing[i])) = Found(listing[c].id)
    BY <2>3 DEF Conclude
  <2> QED
    BY <1>3, <1>4, <1>5, <2>4, <2>5
<1> QED
  BY <1>6 DEF Matches

\* The matches that were there all along are among those of the first listing.
LEMMA OverseenInit == Init => Overseen
  BY DEF Init, Overseen, Matches, Exacts

\* A step of the client that is no second lookup says nothing new of the listing.
LEMMA OverseenClient ==
  ASSUME Overseen, UNCHANGED <<listing, goal, round, edits, recent, lasting>>
  PROVE  Overseen'
<1>1. Matches' = Matches
  BY DEF Matches, Exacts, Exact
<1> QED
  BY <1>1 DEF Overseen

\* A change counts in both numbers.
LEMMA OverseenEdit ==
  ASSUME IInv, Overseen, NEW new, Edit(new)
  PROVE  Overseen'
<1>1. /\ listing' = new /\ edits' = edits + 1 /\ recent' = recent + 1
      /\ UNCHANGED <<goal, round>>
      /\ lasting' = lasting \cap {new[i].id : i \in {j \in DOMAIN new : Exact(new[j])}}
  BY DEF Edit, question
<1>2. edits \in Nat /\ recent \in Nat
  BY LookupAssumption DEF IInv, TypeInv, TypeOK
<1>3. recent' = edits' <=> recent = edits
  BY <1>1, <1>2
<1>4. Matches' = {new[i].id : i \in {j \in DOMAIN new : Exact(new[j])}}
  BY <1>1 DEF Matches, Exacts, Exact
<1> QED
  BY <1>1, <1>3, <1>4 DEF Overseen

\* The second lookup begins: with no change so far, the first one was right.
LEMMA OverseenRecheck == IInv /\ Overseen /\ Recheck => Overseen'
<1> SUFFICES ASSUME IInv, Overseen, Recheck PROVE Overseen'
  OBVIOUS
<1>1. /\ pc = "done" /\ result = Nothing /\ goal = "record" /\ round = 1
      /\ round' = 2 /\ recent' = 0 /\ UNCHANGED <<listing, goal, edits, lasting>>
  BY DEF Recheck, external, question
<1>2. Matches' = Matches
  BY <1>1 DEF Matches, Exacts, Exact
<1>3. ASSUME edits = 0
      PROVE  lasting = {}
  <2>1. Matches = {}
    BY <1>1, <1>3, NothingIsThere DEF Overseen
  <2> QED
    BY <2>1 DEF Overseen
<1> QED
  BY <1>1, <1>2, <1>3 DEF Overseen

\* Every step keeps it.
LEMMA OverseenStep == IInv /\ Overseen /\ [Next]_vars => Overseen'
<1> SUFFICES ASSUME IInv, Overseen, [Next]_vars PROVE Overseen'
  OBVIOUS
<1>1. CASE UNCHANGED vars
  BY <1>1, OverseenClient DEF vars, external, question, history
<1>2. CASE PaginationLimit \/ BodyFails \/ Chunk \/ EndOfBody
  BY <1>2, OverseenClient
  DEF PaginationLimit, BodyFails, Chunk, EndOfBody, external, question, history
<1>3. CASE Ask
  BY <1>3, OverseenClient
  DEF Ask, ReplyError, ReplyPage, ReplyZone, ReplyToken, Ok, Reply, external, question, history
<1>4. CASE Recheck
  BY <1>4, OverseenRecheck
<1>5. CASE RemoveEntry \/ AddEntry
  BY <1>5, OverseenEdit DEF RemoveEntry, AddEntry
<1> QED
  BY <1>1, <1>2, <1>3, <1>4, <1>5 DEF Next, Client

\* For every page size, limit and listing: a record that is there all along is not
\* found missing by both lookups of plan_record if others make at most one change.
\* A change during the second lookup leaves the first one undisturbed.
THEOREM RecheckAlwaysCatches == Spec => []RecheckCatchesShift
<1>1. IInv /\ Overseen => RecheckCatchesShift
  <2> SUFFICES ASSUME IInv, Overseen, pc = "done", goal = "record", round = 2,
                      result = Nothing, edits <= 1
               PROVE  lasting = {}
    BY DEF RecheckCatchesShift
  <2>1. recent = 0 \/ recent = edits
    BY LookupAssumption DEF IInv, TypeInv, TypeOK
  <2>2. CASE recent = 0
    BY <2>2, NothingIsThere DEF Overseen
  <2>3. CASE recent = edits
    BY <2>3 DEF Overseen
  <2> QED
    BY <2>1, <2>2, <2>3
<1>2. IInv /\ Overseen /\ [Next]_vars => (IInv /\ Overseen)'
  BY StepSafe, OverseenStep
<1> QED
  BY <1>1, <1>2, InitSafe, OverseenInit, PTL DEF Spec
-----------------------------------------------------------------------------
(* Failures *)

\* parse_retry_after keeps a positive delay up to the cap.
LEMMA DelayKept ==
  ASSUME NEW header \in Int, header > 0
  PROVE  /\ ParseRetryAfter(header) >= 1
         /\ ParseRetryAfter(header) = header \/ header > MaxRetryAfter
         /\ ParseRetryAfter(header) <= MaxRetryAfter
  BY AnswerAssumption DEF ParseRetryAfter

\* The error that send makes of an error answer is the one it stands for.
LEMMA SendFollows ==
  ASSUME answer \in ErrorAnswer
  PROVE  Follows(Send(answer.status, answer.envelope, answer.header))
<1> DEFINE e == Send(answer.status, answer.envelope, answer.header)
           delay == ParseRetryAfter(answer.header)
<1>1. answer.header \in Int
  <2>1. answer.header \in Header \cup {NoHeader, 1}
    BY DEF ErrorAnswer
  <2> QED
    BY <2>1, AnswerAssumption DEF Header, Unreadable, NoHeader
<1>2. \/ answer.status \in {302, 401, 403, 404, 408, 409, 429, 503}
      \/ answer.status = 200 /\ answer.envelope \in {"empty", "refused", "garbage"}
  <2>1. \/ answer.status \in Status /\ ~IsSuccess(answer.status)
        \/ answer.status = 200 /\ answer.envelope \in Envelope \ {"result"}
    BY DEF ErrorAnswer
  <2>2. ASSUME answer.status \in Status, ~IsSuccess(answer.status)
        PROVE  answer.status \in {302, 401, 403, 404, 408, 409, 429, 503}
    BY <2>2 DEF Status, IsSuccess
  <2>3. Envelope \ {"result"} \subseteq {"empty", "refused", "garbage"}
    BY DEF Envelope
  <2> QED
    BY <2>1, <2>2, <2>3
<1>3. CASE answer.status = 401
  <2>1. e = Error("Authentication", 401, NoDelay)
    BY <1>3 DEF Send, IsSuccess
  <2>2. e.variant = "Authentication"
    BY <2>1 DEF Error
  <2> QED
    BY <1>3, <2>2 DEF Follows, FailureKind, IsAuthenticationFailure
<1>4. CASE answer.status = 403
  <2>1. e = Error("PermissionDenied", 403, NoDelay)
    BY <1>4 DEF Send, IsSuccess
  <2>2. e.variant = "PermissionDenied"
    BY <2>1 DEF Error
  <2> QED
    BY <1>4, <2>2 DEF Follows, FailureKind, IsAuthenticationFailure, IsRateLimited, IsTransient
<1>5. CASE answer.status = 429
  <2>1. e = Error("RateLimited", 429, delay)
    BY <1>5 DEF Send, IsSuccess
  <2>2. e.variant = "RateLimited" /\ e.delay = delay
    BY <2>1 DEF Error
  <2> HIDE DEF e, delay
  <2>3. answer.header > 0 => /\ delay >= 1 /\ delay <= MaxRetryAfter
                             /\ delay = answer.header \/ answer.header > MaxRetryAfter
    BY <1>1, DelayKept DEF delay
  <2>4. Follows(e)
    BY <1>5, <2>2, <2>3 DEF Follows, FailureKind, IsAuthenticationFailure, IsRateLimited
  <2> QED
    BY <2>4 DEF e
<1>6. CASE \/ answer.status \in {302, 404, 408, 409, 503}
           \/ answer.status = 200 /\ answer.envelope = "refused"
  <2>1. e = Error("Api", answer.status, delay)
    BY <1>6 DEF Send, IsSuccess
  <2>2. e.variant = "Api" /\ e.delay = delay /\ e.status = answer.status
    BY <2>1 DEF Error
  <2> HIDE DEF e, delay
  <2>3. answer.header > 0 => /\ delay >= 1 /\ delay <= MaxRetryAfter
                             /\ delay = answer.header \/ answer.header > MaxRetryAfter
    BY <1>1, DelayKept DEF delay
  <2>4. FailureKind(e) \in {"transient", "permanent"}
    BY <2>2 DEF FailureKind, IsAuthenticationFailure, IsRateLimited
  <2>5. answer.status \in {408, 503} => FailureKind(e) = "transient"
    BY <2>2 DEF FailureKind, IsAuthenticationFailure, IsRateLimited, IsTransient, IsServerError
  <2>6. answer.status \notin {401, 429}
    BY <1>6
  <2>7. Follows(e)
    BY <2>2, <2>3, <2>4, <2>5, <2>6 DEF Follows
  <2> QED
    BY <2>7 DEF e
<1>7. CASE answer.status = 200 /\ answer.envelope \in {"empty", "garbage"}
  <2>1. e = Bare("MissingResult") \/ e = Bare("MalformedResponse")
    BY <1>7 DEF Send, IsSuccess
  <2>2. e.variant \in {"MissingResult", "MalformedResponse"}
    BY <2>1 DEF Bare, Error
  <2> HIDE DEF e
  <2>3. Follows(e)
    BY <1>7, <2>2 DEF Follows, FailureKind, IsAuthenticationFailure, IsRateLimited, IsTransient
  <2> QED
    BY <2>3 DEF e
<1> QED
  BY <1>2, <1>3, <1>4, <1>5, <1>6, <1>7

\* What a lookup finds wrong in a result is no fault of the token, but for the
\* token's own status, and nothing to try again.
Objections ==
  {"AmbiguousZone", "AmbiguousRecord", "ZoneNotActive", "ZoneNotFound", "ZoneNameMismatch",
   "ZoneIdMismatch"}

\* The errors that results lead to.
LEMMA ResultFollows ==
  ASSUME Genuine, NEW e,
         e.variant \in Objections \/ (goal = "token" /\ e.variant = "TokenInactive")
  PROVE  Follows(e)
<1>1. answer.status = 200 /\ ~(answer.header > 0)
  BY DEF Genuine, NoHeader
<1> QED
  BY <1>1 DEF Follows, Objections, FailureKind, IsAuthenticationFailure, IsRateLimited, IsTransient

\* Which errors the handlers return.
LEMMA HandlersObject ==
  ASSUME pc' = "done", result'.kind = "failed",
         \/ goal \in Listed /\ HandlePage
         \/ goal = "explicit" /\ HandleZone
         \/ goal = "token" /\ HandleToken
  PROVE  \/ result'.error.variant \in Objections
         \/ goal = "token" /\ result'.error.variant = "TokenInactive"
<1>0. /\ \A id : Found(id).kind = "found"
      /\ Nothing.kind = "nothing"
      /\ \A variant : Failed(Bare(variant)).error.variant = variant
  BY DEF Found, Nothing, Failed, Bare, Error
<1>1. CASE goal \in Listed /\ HandlePage
  <2>1. \A id, idle : \/ Conclude(id, idle) \in {Found(id), Nothing}
                      \/ Conclude(id, idle) = Failed(Bare("ZoneNotActive"))
                      \/ Conclude(id, idle) = Failed(Bare("ZoneNotFound"))
    BY DEF Conclude
  <2>2. \/ result' = Failed(Bare("AmbiguousZone"))
        \/ result' = Failed(Bare("AmbiguousRecord"))
        \/ \E id, idle : result' = Conclude(id, idle)
    BY <1>1 DEF HandlePage, Return
  <2> QED
    BY <1>0, <2>1, <2>2 DEF Objections
<1>2. CASE goal = "explicit" /\ HandleZone
  <2>1. \/ \E variant \in {"ZoneNameMismatch", "ZoneIdMismatch", "ZoneNotActive"} :
             result' = Failed(Bare(variant))
        \/ result' = Found(wanted)
    BY <1>2 DEF HandleZone, Return
  <2> QED
    BY <1>0, <2>1 DEF Objections
<1>3. CASE goal = "token" /\ HandleToken
  <2>1. result' = Nothing \/ result' = Failed(Bare("TokenInactive"))
    BY <1>3 DEF HandleToken, Return
  <2> QED
    BY <1>0, <1>3, <2>1
<1> QED
  BY <1>1, <1>2, <1>3

\* For every cap, limit and listing: the failure that cloudflare_failure reports is
\* the one the server meant, with the delay it asked for up to the cap (send,
\* parse_retry_after, is_authentication_failure, is_rate_limited, is_transient).
THEOREM FailureAlwaysFollows == Spec => FailureFollowsAnswer
<1>1. ASSUME IInv, [Next]_vars, pc = "read", pc' = "done", result'.kind = "failed",
             result'.error.variant \notin {"Request", "ResponseTooLarge"}
      PROVE  Follows(result'.error)
  <2>0. \A e : Failed(e).error = e
    BY DEF Failed
  <2>1. EndOfBody
    <3>1. ~BodyFails /\ ~Chunk
      BY <1>1, <2>0 DEF BodyFails, Chunk, Return, Bare, Error
    <3>2. ~PaginationLimit /\ ~Ask /\ ~Recheck /\ ~RemoveEntry /\ ~AddEntry /\ ~UNCHANGED vars
      BY <1>1 DEF PaginationLimit, Ask, Recheck, RemoveEntry, AddEntry, Edit, vars
    <3> QED
      BY <1>1, <3>1, <3>2 DEF Next, Client
  <2> DEFINE error == Send(answer.status, answer.envelope, answer.header)
  <2>2. CASE error # NoError
    <3>1. answer \in ErrorAnswer
      BY <1>1, <2>2, ResultsAreNone DEF IInv, Fresh, Genuine
    <3>2. result' = Failed(error)
      BY <2>1, <2>2 DEF EndOfBody, Return
    <3> QED
      BY <2>0, <3>1, <3>2, SendFollows
  <2>3. CASE error = NoError
    <3>1. Genuine
      BY <1>1, <2>3, ErrorsAreFound DEF IInv, Fresh
    <3>2. \/ goal \in Listed /\ HandlePage
          \/ goal = "explicit" /\ HandleZone
          \/ goal = "token" /\ HandleToken
      BY <2>1, <2>3 DEF EndOfBody, Listed
    <3> QED
      BY <1>1, <3>1, <3>2, HandlersObject, ResultFollows
  <2> QED
    BY <2>2, <2>3
<1>2. IInv /\ [Next]_vars =>
        [ pc = "read" /\ pc' = "done" /\ result'.kind = "failed"
          /\ result'.error.variant \notin {"Request", "ResponseTooLarge"} =>
            Follows(result'.error) ]_vars
  BY <1>1
<1> QED
  BY <1>2, Inductive, PTL DEF Spec, FailureFollowsAnswer
=============================================================================
