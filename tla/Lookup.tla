------------------------------- MODULE Lookup -------------------------------
(***************************************************************************)
(* The reading requests of CloudflareClient (src/cloudflare.rs), request by *)
(* request and chunk by chunk: verify_token, resolve_explicit_zone_id, and  *)
(* the lookups of a zone and of a record, which read a listing page by page *)
(* while other people add and remove entries.  plan_record of               *)
(* src/updater.rs looks a record up a second time before it creates it.     *)
(* Sync and Check take a lookup as one step; this module says when they may.*)
(*                                                                          *)
(* An entry is a zone or a record of the listing the server filters, in the *)
(* server's order.                                                          *)
(***************************************************************************)
EXTENDS Answer, SequencesExt

CONSTANTS
  MaxPages,     \* MAX_PAGES
  PageSize,     \* ZONE_PAGE_SIZE, RECORD_PAGE_SIZE
  MaxBody,      \* MAX_RESPONSE_BYTES
  MaxPageNumber,\* largest page number (2^32 - 1 in the code)
  MaxEntries,   \* bound on the length of the listing
  MaxEdits      \* bound on the changes other people make

ASSUME LookupAssumption ==
  /\ MaxPages \in Nat \ {0}
  /\ PageSize \in Nat \ {0}
  /\ MaxBody \in Nat \ {0}
  /\ MaxPageNumber \in Nat /\ MaxPageNumber > MaxPages
  /\ MaxEntries \in Nat \ {0}
  /\ MaxEdits \in Nat

\* Identifiers are not used twice.
Id == 1..(MaxEntries + MaxEdits)
NoId == 0

VARIABLES
  (* Cloudflare: external *)
  listing,      \* the entries, in the server's order
  reports,      \* whether its result_info has a total_pages
  (* the request *)
  goal,         \* what is asked for
  wanted,       \* the configured zone_id of an explicit lookup
  round,        \* 2 for the second lookup of a missing record
  pc,           \* "ask", "read" or "done"
  page,         \* the page to ask for
  exact,        \* exact_match
  inactive,     \* inactive_match is some status
  answer,       \* the answer whose body is being read
  got,          \* bytes of it in memory
  result,       \* Ok(..) or Err(..)
  (* history *)
  edits,        \* changes since the first lookup began
  recent,       \* changes since this lookup began
  lasting       \* the exact matches that were there all the time

external == <<listing, reports>>
question == <<goal, wanted>>
history == <<edits, recent, lasting>>
vars == <<external, question, round, pc, page, exact, inactive, answer, got, result,
          history>>

Reports == {"total", "nothing", "endless"}
Goal == {"token", "explicit", "zone", "record"}

\* An entry: whether it has the name asked for (and, a record, the type), and
\* whether its status is active; records have no status.
Entry == [id : Id, same : BOOLEAN, active : BOOLEAN]
EntryOf(i) ==
  {e \in Entry : e.id = i /\ (goal = "record" \/ ~e.same => e.active)}

\* A match: of a zone, an active one.
Exact(e) == e.same /\ (goal = "record" \/ e.active)
Inactive(e) == e.same /\ goal # "record" /\ ~e.active

\* Where page p of the listing is, and whether it is as long as a page can be.
OnPage(p) == {i \in DOMAIN listing : (p - 1) * PageSize < i /\ i <= p * PageSize}
IsFull(p) == p * PageSize <= Len(listing)

\* A number of pages that is right for the listing: the last one is not empty.
IsTotal(n) == Len(listing) <= n * PageSize /\ (n = 0 \/ (n - 1) * PageSize < Len(listing))

Pending == [kind |-> "pending"]
Found(id) == [kind |-> "found", id |-> id]
Nothing == [kind |-> "nothing"]
Failed(e) == [kind |-> "failed", error |-> e]

\* An answer: HTTP status, Retry-After and envelope, and the result in it.
NoAnswer == [status |-> 0]
Answered(status, header, envelope, entries, full, more) ==
  [status |-> status, header |-> header, envelope |-> envelope, entries |-> entries,
   full |-> full, more |-> more]

Init ==
  /\ goal \in Goal
  /\ \E n \in 0..MaxEntries :
       listing \in {s \in [1..n -> UNION {EntryOf(i) : i \in Id}] :
                    \A i \in 1..n : s[i].id = i}
  /\ reports \in IF goal \in {"zone", "record"} THEN Reports ELSE {"nothing"}
  /\ wanted \in IF goal = "explicit" THEN Id ELSE {1}
  /\ round = 1
  /\ pc = "ask"
  /\ page = 1
  /\ exact = NoId
  /\ inactive = FALSE
  /\ answer = NoAnswer
  /\ got = 0
  /\ result = Pending
  /\ edits = 0
  /\ recent = 0
  /\ lasting = {listing[i].id : i \in {j \in DOMAIN listing : Exact(listing[j])}}

\* The request returns.
Return(res) ==
  /\ pc' = "done"
  /\ result' = res
  /\ answer' = NoAnswer
  /\ got' = 0
-----------------------------------------------------------------------------
(* The server: external *)

\* The errors, with and without a Retry-After: a status that is no success, with
\* whatever body, or an envelope that is no result.
Header == {Unreadable, 1, MaxRetryAfter + 1}
ErrorAnswer ==
  [status : {s \in Status : ~IsSuccess(s)}, header : Header, envelope : {"garbage"},
   entries : {{}}, full : {FALSE}, more : {FALSE}]
  \cup
  [status : {200}, header : {NoHeader, 1}, envelope : Envelope \ {"result"},
   entries : {{}}, full : {FALSE}, more : {FALSE}]

\* The headers of an answer arrive.
Reply(a) ==
  /\ answer' = a
  /\ got' = 0
  /\ pc' = "read"
  /\ UNCHANGED <<external, question, round, page, exact, inactive, result, history>>

\* Something is wrong with the request, the server or the envelope.
ReplyError == \E a \in ErrorAnswer : Reply(a)

Ok(entries, full, more) == Reply(Answered(200, NoHeader, "result", entries, full, more))

\* A page of the listing, and what result_info says: the right number of pages,
\* none, or always more than the page asked for.
ReplyPage ==
  /\ goal \in {"zone", "record"}
  /\ LET entries == {listing[i] : i \in OnPage(page)}
     IN \/ /\ reports = "total"
           /\ \E n \in 0..(MaxEntries + 1) : IsTotal(n) /\ Ok(entries, IsFull(page), page < n)
        \/ /\ reports = "nothing"
           /\ Ok(entries, IsFull(page), FALSE)
        \/ /\ reports = "endless"
           /\ Ok(entries, IsFull(page), TRUE)

\* GET zones/<id>: that zone, or, from a confused server, another one.
ReplyZone ==
  /\ goal = "explicit"
  /\ \E i \in DOMAIN listing : Ok({listing[i]}, FALSE, FALSE)

\* The verification endpoint: the token's status is `active'.
ReplyToken ==
  /\ goal = "token"
  /\ \E active \in BOOLEAN : Ok({}, active, FALSE)
-----------------------------------------------------------------------------
(* The client *)

\* Mutant of AtLimit: pages are asked for as long as there are any.
NeverAtLimit == FALSE

\* page > MAX_PAGES
AtLimit == page > MaxPages

\* Mutant of PaginationLimit: what the pages so far held is returned.
PartialAnswer ==
  /\ pc = "ask"
  /\ goal \in {"zone", "record"}
  /\ AtLimit
  /\ Return(IF exact = NoId THEN Nothing ELSE Found(exact))
  /\ UNCHANGED <<external, question, round, page, exact, inactive, history>>

\* The pages are used up.
PaginationLimit ==
  /\ pc = "ask"
  /\ goal \in {"zone", "record"}
  /\ AtLimit
  /\ Return(Failed(Bare("PaginationLimit")))
  /\ UNCHANGED <<external, question, round, page, exact, inactive, history>>

\* A request is sent and answered: no connection, or headers.
Ask ==
  /\ pc = "ask"
  /\ goal \in {"zone", "record"} => ~AtLimit
  /\ \/ /\ Return(Failed(Bare("Request")))
        /\ UNCHANGED <<external, question, round, page, exact, inactive, history>>
     \/ ReplyError
     \/ ReplyPage
     \/ ReplyZone
     \/ ReplyToken

\* The body cannot be read: the connection breaks, or Content-Length is too long.
BodyFails ==
  /\ pc = "read"
  /\ \E variant \in {"Request", "ResponseTooLarge"} : Return(Failed(Bare(variant)))
  /\ UNCHANGED <<external, question, round, page, exact, inactive, history>>

\* Mutant of Fits: the chunk that is too long is kept.
FitsBefore(n) == got <= MaxBody

\* body.len() + chunk.len() <= MAX_RESPONSE_BYTES
Fits(n) == got + n <= MaxBody

\* Another chunk; the body need not end by itself.
Chunk ==
  /\ pc = "read"
  /\ \E n \in 1..MaxBody :
       IF Fits(n)
       THEN /\ got' = got + n
            /\ UNCHANGED <<pc, result, answer>>
       ELSE Return(Failed(Bare("ResponseTooLarge")))
  /\ UNCHANGED <<external, question, round, page, exact, inactive, history>>

\* has_next_page: a total decides, otherwise a full page means another one.
HasNextPage ==
  IF reports = "nothing" THEN answer.full ELSE answer.more

\* saturating_add
NextPage == IF page < MaxPageNumber THEN page + 1 ELSE page

\* A second match, on this page or after one on an earlier page.
Ambiguous ==
  \/ \E e, f \in answer.entries : e # f /\ Exact(e) /\ Exact(f)
  \/ exact # NoId /\ \E e \in answer.entries : Exact(e)

\* The match after this page.
Match ==
  IF \E e \in answer.entries : Exact(e)
  THEN (CHOOSE e \in answer.entries : Exact(e)).id ELSE exact

\* What a lookup returns after its last page.
Conclude(id, idle) ==
  IF id # NoId THEN Found(id)
  ELSE IF goal = "record" THEN Nothing
  ELSE IF idle THEN Failed(Bare("ZoneNotActive"))
  ELSE Failed(Bare("ZoneNotFound"))

\* The loops of resolve_named_zone_id and of find_record, once around.
HandlePage ==
  LET idle == inactive \/ \E e \in answer.entries : Inactive(e)
  IN IF Ambiguous
     THEN /\ Return(Failed(Bare(IF goal = "zone" THEN "AmbiguousZone"
                                                 ELSE "AmbiguousRecord")))
          /\ UNCHANGED <<page, exact, inactive>>
     ELSE IF HasNextPage
     THEN /\ exact' = Match
          /\ inactive' = idle
          /\ page' = NextPage
          /\ pc' = "ask"
          /\ answer' = NoAnswer
          /\ got' = 0
          /\ UNCHANGED result
     ELSE /\ Return(Conclude(Match, idle))
          /\ UNCHANGED <<page, exact, inactive>>

\* resolve_explicit_zone_id
HandleZone ==
  \E e \in answer.entries :
    Return(IF ~e.same THEN Failed(Bare("ZoneNameMismatch"))
           ELSE IF e.id # wanted THEN Failed(Bare("ZoneIdMismatch"))
           ELSE IF ~e.active THEN Failed(Bare("ZoneNotActive"))
           ELSE Found(wanted))

\* verify_token
HandleToken == Return(IF answer.full THEN Nothing ELSE Failed(Bare("TokenInactive")))

\* The body is complete.
EndOfBody ==
  /\ pc = "read"
  /\ got = 0 => answer.envelope = "garbage"
  /\ LET error == Send(answer.status, answer.envelope, answer.header)
     IN IF error # NoError
        THEN Return(Failed(error)) /\ UNCHANGED <<page, exact, inactive>>
        ELSE \/ goal \in {"zone", "record"} /\ HandlePage
             \/ goal = "explicit" /\ HandleZone /\ UNCHANGED <<page, exact, inactive>>
             \/ goal = "token" /\ HandleToken /\ UNCHANGED <<page, exact, inactive>>
  /\ UNCHANGED <<external, question, round, history>>

\* Mutant of Recheck: the first lookup is believed.
NoRecheck ==
  /\ pc = "done"
  /\ result = Nothing
  /\ goal = "record"
  /\ round = 1
  /\ round' = 2
  /\ UNCHANGED <<external, question, pc, page, exact, inactive, answer, got, result, history>>

\* plan_record: a record that is missing and may be created is looked up again.
Recheck ==
  /\ pc = "done"
  /\ result = Nothing
  /\ goal = "record"
  /\ round = 1
  /\ round' = 2
  /\ pc' = "ask"
  /\ page' = 1
  /\ exact' = NoId
  /\ inactive' = FALSE
  /\ result' = Pending
  /\ recent' = 0
  /\ UNCHANGED <<external, question, answer, got, edits, lasting>>
-----------------------------------------------------------------------------
(* Other people: external *)

\* The listing is read when a request is answered, so changes are made before
\* requests; one that is made while an answer is read comes before the next.
Edit(new) ==
  /\ pc = "ask"
  /\ edits < MaxEdits
  /\ listing' = new
  /\ edits' = edits + 1
  /\ recent' = recent + 1
  /\ lasting' = lasting \cap {new[i].id : i \in {j \in DOMAIN new : Exact(new[j])}}
  /\ UNCHANGED <<reports, question, round, pc, page, exact, inactive, answer, got, result>>

\* An entry is removed, and the ones behind it move up.
RemoveEntry ==
  \E i \in DOMAIN listing : Edit(RemoveAt(listing, i))

\* An entry is added somewhere, and the ones behind it move back.
AddEntry ==
  /\ Len(listing) < MaxEntries
  /\ \E i \in 1..(Len(listing) + 1), e \in EntryOf(MaxEntries + edits + 1) :
       Edit(InsertAt(listing, i, e))
-----------------------------------------------------------------------------
Client == PaginationLimit \/ Ask \/ BodyFails \/ Chunk \/ EndOfBody \/ Recheck

Next == Client \/ RemoveEntry \/ AddEntry

Spec == Init /\ [][Next]_vars

\* The client's task goes on; a request is answered or times out.
FairSpec == Spec /\ WF_vars(Client)
-----------------------------------------------------------------------------
(* Properties *)

\* Every variable has its type; no answer takes more memory than the limit,
\* and no page past the limit is asked for.
TypeOK ==
  /\ listing \in Seq(Entry)
  /\ reports \in Reports
  /\ goal \in Goal
  /\ wanted \in Id
  /\ round \in {1, 2}
  /\ pc \in {"ask", "read", "done"}
  /\ page \in 1..(MaxPages + 1)
  /\ pc = "read" /\ goal \in {"zone", "record"} => page <= MaxPages
  /\ exact \in Id \cup {NoId}
  /\ inactive \in BOOLEAN
  /\ answer = NoAnswer \/ answer.entries \subseteq Entry
  /\ got \in 0..MaxBody
  /\ edits \in 0..MaxEdits
  /\ recent \in 0..edits
  /\ lasting \subseteq Id

Exacts == {i \in DOMAIN listing : Exact(listing[i])}

\* What the whole listing says: the answer of a lookup done in one step.
Verdict ==
  IF \E i, j \in Exacts : i # j
  THEN Failed(Bare(IF goal = "zone" THEN "AmbiguousZone" ELSE "AmbiguousRecord"))
  ELSE Conclude(IF Exacts = {} THEN NoId ELSE listing[CHOOSE i \in Exacts : TRUE].id,
                \E i \in DOMAIN listing : Inactive(listing[i]))

\* The errors that are no answer to the question.
NoVerdict ==
  {"Request", "ResponseTooLarge", "Authentication", "PermissionDenied", "RateLimited", "Api",
   "MalformedResponse", "MissingResult"}

\* While nobody changes the listing, a lookup says what a look at the whole
\* listing would have said, or fails.
PagingInvisible ==
  goal \in {"zone", "record"} /\ recent = 0 =>
    \/ result = Verdict
    \/ result.kind = "failed" /\ result.error.variant \in NoVerdict
    \/ /\ result = Failed(Bare("PaginationLimit"))
       /\ reports = "endless" \/ Len(listing) >= MaxPages * PageSize

\* The zone of a configured zone_id has that identifier and the name asked for,
\* and is active.
ExplicitZoneChecked ==
  goal = "explicit" /\ result.kind = "found" /\ edits = 0 =>
    \E i \in DOMAIN listing : listing[i] = [id |-> wanted, same |-> TRUE, active |-> TRUE]

\* What a lookup returns is true.  Paging is invisible, on however many pages
\* the listing is and whether or not the server counts them: matches are neither
\* chosen between nor missed, and past the page limit, but only past it, there is
\* an error and not the match seen so far (resolve_named_zone_id, find_record).
\* A configured zone_id is used for no other zone, even if the server mixes
\* zones up (resolve_explicit_zone_id).
LookupTruthful == pc = "done" => PagingInvisible /\ ExplicitZoneChecked

\* The second lookup makes up for what one change by somebody else can do to
\* the first: a record that was there all along is not found missing twice, so
\* that it is not created next to itself.
RecheckCatchesShift ==
  pc = "done" /\ goal = "record" /\ round = 2 /\ result = Nothing /\ edits <= 1 =>
    lasting = {}

\* An error that was made of the answer: only a rejected or inactive token and a
\* rate limit break the cycle off, an overloaded server is tried again, and a delay
\* it asks for is kept up to the cap, except with a rejected token or a refusal.
Follows(e) ==
  LET kind == FailureKind(e)
  IN /\ kind = "auth" <=> answer.status = 401
                          \/ (goal = "token" /\ e.variant = "TokenInactive")
     /\ kind = "rate" <=> answer.status = 429
     /\ answer.status \in {408, 503} => kind = "transient"
     /\ answer.header > 0 /\ e.variant \in {"Api", "RateLimited"} =>
          /\ e.delay >= 1
          /\ e.delay = answer.header \/ answer.header > MaxRetryAfter
          /\ e.delay <= MaxRetryAfter

\* What the updater reports is what the server said: the failure of a request whose
\* body was read follows from the answer (send, cloudflare_failure).
FailureFollowsAnswer ==
  [][ pc = "read" /\ pc' = "done" /\ result'.kind = "failed"
      /\ result'.error.variant \notin {"Request", "ResponseTooLarge"} =>
        Follows(result'.error) ]_vars

\* A lookup ends, even if the server always announces another page or sends a
\* body without an end.
LookupEnds == <>(pc = "done" /\ (round = 2 \/ goal # "record" \/ result # Nothing))
=============================================================================
