------------------------------- MODULE Sync -------------------------------
(***************************************************************************)
(* The synchronisation of DNS records with the public addresses of the      *)
(* host: the daemon's loop (src/daemon.rs), a cycle of the updater          *)
(* (src/updater.rs), the zone cache of the API client (src/cloudflare.rs),  *)
(* and, as its environment, Cloudflare and the network.                     *)
(*                                                                          *)
(* An action is what the program does between two awaits.  The program is   *)
(* one task: it is interrupted only where it waits for an answer, and there *)
(* a deadline may expire, a signal may arrive, the answer may be lost, and   *)
(* the world may change.                                                    *)
(***************************************************************************)
EXTENDS Integers, FiniteSets

CONSTANTS
  N,            \* number of configured records; the records are 1..N
  Zone,         \* names of the configured zones
  ZoneOf,       \* ZoneOf[r]: the zone of record r
  ExplicitId,   \* ExplicitId[r]: its zone_id, NoId when the file has none
  FamilyOf,     \* FamilyOf[r]: the address family of its record type
  Creates,      \* the records with create_if_missing
  Addr,         \* public addresses
  Slow,         \* records whose lookups may hang until the deadline at any time
  Broken,       \* families whose discovery may fail at any time
  LateApply,    \* an abandoned request may still be processed later on
  MaxFaults,    \* bound on failing requests, expiring deadlines and crashes
  MaxChanges    \* bound on changes other people make

Record == 1..N
Family == {FamilyOf[r] : r \in Record}     \* the families that are needed
NoId == 0
NoAddr == "none"

ASSUME SyncAssumption ==
  /\ N \in Nat \ {0}
  /\ ZoneOf \in [Record -> Zone]
  /\ ExplicitId \in [Record -> Nat]
  /\ DOMAIN FamilyOf = Record
  /\ Creates \subseteq Record
  /\ Slow \subseteq Record
  /\ Broken \subseteq Family
  /\ NoAddr \notin Addr
  /\ LateApply \in BOOLEAN
  /\ MaxFaults \in Nat
  /\ MaxChanges \in Nat

VARIABLES
  (* Cloudflare and the network: external *)
  public,       \* public[f]: the host's address now
  zoneId,       \* zoneId[z]: the identifier of the active zone z, or NoId
  lastZoneId,   \* identifiers are never used twice
  dns,          \* dns[r]: the entries with r's type and name
  lastEntry,    \* lastEntry[r]: neither are those of entries
  zombies,      \* requests their sender gave up on, not processed yet
  (* the process *)
  pc,           \* where the daemon waits
  cursor,       \* record_cursor, modulo N
  start,        \* start_index of this cycle
  offset,       \* records of this cycle already handled
  found,        \* DiscoveredAddresses
  cache,        \* zone_cache
  zid,          \* the zone identifier of the record being planned
  req,          \* the mutation in flight
  late,         \* the cycle's deadline has passed
  stop,         \* CycleControl::stop_requested
  failures,     \* kinds of the failures in the cycle's report
  interrupted,  \* CycleReport::interrupted
  (* history and bounds *)
  calm,         \* nothing but this cycle changed the world since it began
  foreign,      \* foreign[r]: entries that did not come from an awaited create
  faults, changes

external == <<public, zoneId, lastZoneId, dns, lastEntry, zombies>>
process == <<pc, cursor, start, offset, found, cache, zid, req, late, stop,
             failures, interrupted>>
vars == <<external, process, calm, foreign, faults, changes>>

\* The kinds of failures of a cycle (cloudflare_failure).
Kind == {"auth", "rate", "transient", "permanent"}

\* The record under work, and the cache key of its zone.
Current == ((start + offset) % N) + 1
Key(r) == <<ZoneOf[r], ExplicitId[r]>>
Keys == {Key(r) : r \in Record}

NoReq == [kind |-> "none"]

InCycle == pc \notin {"stopped", "sleep"}
InPlan == pc \in {"zone", "find", "recheck"}

Entry(i, a, m) == [id |-> i, addr |-> a, managed |-> m]

\* What record r should look like now.
InSync(r) ==
  \E e \in dns[r] : dns[r] = {e} /\ e.addr = public[FamilyOf[r]] /\ e.managed

Init ==
  /\ public \in [Family -> Addr]
  /\ zoneId = [z \in Zone |-> 1]
  /\ lastZoneId = 1
  /\ dns \in [Record -> {{}} \cup {{Entry(1, a, TRUE)} : a \in Addr}]
  /\ lastEntry = [r \in Record |-> 1]
  /\ zombies = {}
  /\ pc = "stopped"
  /\ cursor = 0
  /\ start = 0
  /\ offset = 0
  /\ found = [f \in Family |-> NoAddr]
  /\ cache = [k \in Keys |-> NoId]
  /\ zid = NoId
  /\ req = NoReq
  /\ late = FALSE
  /\ stop = FALSE
  /\ failures = {}
  /\ interrupted = FALSE
  /\ calm = FALSE
  /\ foreign = [r \in Record |-> 0]
  /\ faults = 0
  /\ changes = 0

Fault == faults < MaxFaults /\ faults' = faults + 1

NothingFound == [f \in Family |-> NoAddr]
EmptyCache == [k \in Keys |-> NoId]

-----------------------------------------------------------------------------
(* The daemon's loop *)

\* run_cycle_locked with a fresh CycleControl, deadline and report.
BeginCycle ==
  /\ pc' = "discover"
  /\ failures' = {}
  /\ interrupted' = FALSE
  /\ calm' = TRUE
  /\ UNCHANGED <<external, cursor, cache, start, offset, found, zid, req, late, stop,
                 foreign, faults, changes>>

\* A new process: the first cycle starts without a delay.
Start == pc = "stopped" /\ BeginCycle

\* The delay before the next cycle is over.
Wake == pc = "sleep" /\ BeginCycle

\* The locals of a cycle are gone.
CycleDropped ==
  /\ start' = 0
  /\ offset' = 0
  /\ found' = NothingFound
  /\ zid' = NoId
  /\ late' = FALSE

\* The process is gone, with its cache, its cursor and its report.
ProcessGone ==
  /\ CycleDropped
  /\ pc' = "stopped"
  /\ cursor' = 0
  /\ cache' = EmptyCache
  /\ stop' = FALSE
  /\ failures' = {}
  /\ interrupted' = FALSE

\* Mutant of EndCycle: the daemon forgets that it was asked to stop.
ForgetfulEndCycle(kinds, cut, newCache) ==
  /\ CycleDropped
  /\ pc' = "sleep"
  /\ cache' = newCache
  /\ failures' = failures \cup kinds
  /\ interrupted' = cut
  /\ UNCHANGED <<cursor, stop>>

\* The cycle returns its report, and the daemon sleeps, or returns when a
\* signal has been received meanwhile.
EndCycle(kinds, cut, newCache) ==
  IF stop THEN ProcessGone
  ELSE /\ CycleDropped
       /\ pc' = "sleep"
       /\ cache' = newCache
       /\ failures' = failures \cup kinds
       /\ interrupted' = cut
       /\ UNCHANGED <<cursor, stop>>

\* The signal wins the select: asleep, or with no mutation in flight, the
\* daemon returns (the cycle is dropped); otherwise it awaits the cycle.
Signal ==
  /\ pc # "stopped"
  /\ ~stop
  /\ IF req # NoReq
     THEN /\ stop' = TRUE
          /\ UNCHANGED <<pc, cursor, start, offset, found, cache, zid, late, failures,
                         interrupted>>
     ELSE ProcessGone
  /\ UNCHANGED <<external, req, calm, foreign, faults, changes>>
-----------------------------------------------------------------------------
(* The cycle *)

\* The record is done, or has failed; the loop goes on.
NextRecord(kinds, newCache) ==
  /\ failures' = failures \cup kinds
  /\ offset' = offset + 1
  /\ pc' = "next"
  /\ zid' = NoId
  /\ cache' = newCache
  /\ UNCHANGED <<cursor, start, found, late, stop, interrupted>>

\* A record's planning goes on.
PlanOn(next) ==
  /\ pc' = next
  /\ UNCHANGED <<cursor, start, offset, found, late, stop, failures, interrupted>>

\* A failed record: authentication failures and rate limits abort the cycle.
RecordFails(kind, newCache) ==
  IF kind \in {"auth", "rate"} THEN EndCycle({kind}, FALSE, newCache)
                               ELSE NextRecord({kind}, newCache)

\* Mutant of Discover: every cycle starts at the first record.
FixedStartDiscover ==
  /\ pc = "discover"
  /\ \E failed \in SUBSET Broken :
       /\ found' = [f \in Family |-> IF f \in failed THEN NoAddr ELSE public[f]]
       /\ failures' = IF failed = {} THEN {} ELSE {"transient"}
  /\ start' = cursor
  /\ pc' = "next"
  /\ UNCHANGED <<external, cursor, offset, cache, zid, req, late, stop, interrupted, calm,
                 foreign, faults, changes>>

\* discover_required_addresses has joined both families; a family without an
\* address is one transient failure.  The cursor moves on.
Discover ==
  /\ pc = "discover"
  /\ \E failed \in SUBSET Family :
       /\ IF failed \subseteq Broken THEN UNCHANGED faults ELSE Fault
       /\ found' = [f \in Family |-> IF f \in failed THEN NoAddr ELSE public[f]]
       /\ failures' = IF failed = {} THEN {} ELSE {"transient"}
  /\ start' = cursor
  /\ cursor' = (cursor + 1) % N
  /\ pc' = "next"
  /\ UNCHANGED <<external, offset, cache, zid, req, late, stop, interrupted, calm,
                 foreign, changes>>

\* The head of the loop over the records.
Loop ==
  /\ pc = "next"
  /\ IF offset = N THEN EndCycle({}, interrupted, cache)
     ELSE IF stop THEN EndCycle({}, TRUE, cache)
     ELSE IF found[FamilyOf[Current]] = NoAddr THEN NextRecord({}, cache)
     ELSE PlanOn("zone") /\ UNCHANGED <<cache, zid>>
  /\ UNCHANGED <<external, req, calm, foreign, faults, changes>>

\* resolve_zone_id: from the cache, or from Cloudflare, by name or by
\* verifying the configured identifier.
ResolveZone ==
  /\ pc = "zone"
  /\ LET r == Current
         active == zoneId[ZoneOf[r]]
     IN \/ /\ cache[Key(r)] # NoId
           /\ zid' = cache[Key(r)]
           /\ PlanOn("find")
           /\ UNCHANGED cache
        \/ /\ cache[Key(r)] = NoId
           /\ active # NoId /\ ExplicitId[r] \in {NoId, active}
           /\ zid' = active
           /\ cache' = [cache EXCEPT ![Key(r)] = active]
           /\ PlanOn("find")
        \/ /\ cache[Key(r)] = NoId
           /\ active = NoId \/ ExplicitId[r] \notin {NoId, active}
           /\ RecordFails("permanent", cache)
  /\ UNCHANGED <<external, req, calm, foreign, faults, changes>>

\* The cache after invalidate_zone_after_not_found.
Invalidated(id) == [k \in Keys |-> IF cache[k] = id THEN NoId ELSE cache[k]]

\* Mutant of UpToDate: ttl and proxied are not compared.
SameAddress(e) == e.addr = found[FamilyOf[Current]]

\* Mutant of UpToDate: the texts of the addresses are compared, and they differ.
NeverUpToDate(e) == FALSE

\* plan_existing_record: nothing to do.
UpToDate(e) == e.addr = found[FamilyOf[Current]] /\ e.managed

\* begin_mutation and the request of execute_record_plan.
SendMutation(kind, id) ==
  /\ req' = [kind |-> kind, rec |-> Current, zid |-> zid, entry |-> id,
             addr |-> found[FamilyOf[Current]], status |-> "sent"]
  /\ PlanOn("mutate")
  /\ UNCHANGED <<cache, zid>>

\* Mutant of ExecutePlan: the deadline is not looked at again.
LateExecutePlan(upToDate, kind, id) ==
  IF upToDate THEN NextRecord({}, cache) /\ UNCHANGED req ELSE SendMutation(kind, id)

\* plan_record has returned: past the deadline the plan is thrown away.
ExecutePlan(upToDate, kind, id) ==
  IF late THEN EndCycle({"transient"}, FALSE, cache) /\ UNCHANGED req
  ELSE IF upToDate THEN NextRecord({}, cache) /\ UNCHANGED req
  ELSE SendMutation(kind, id)

\* find_record reads every page, and refuses to choose between two exact matches.
Ambiguous(r) == Cardinality(dns[r]) > 1

\* find_record has answered, the first time or the second: 404 for a stale
\* zone identifier, AmbiguousRecord, the record, or nothing.
Find ==
  /\ pc \in {"find", "recheck"}
  /\ LET r == Current
     IN IF zid # zoneId[ZoneOf[r]]
        THEN RecordFails("permanent", Invalidated(zid)) /\ UNCHANGED req
        ELSE \/ /\ Ambiguous(r)
                /\ RecordFails("permanent", cache)
                /\ UNCHANGED req
             \/ \E e \in dns[r] :
                  dns[r] = {e} /\ ExecutePlan(UpToDate(e), "update", e.id)
             \/ /\ dns[r] = {} /\ r \notin Creates
                /\ RecordFails("permanent", cache)
                /\ UNCHANGED req
             \/ /\ dns[r] = {} /\ r \in Creates /\ pc = "find"
                /\ PlanOn("recheck")
                /\ UNCHANGED <<cache, zid, req>>
             \/ /\ dns[r] = {} /\ r \in Creates /\ pc = "recheck"
                /\ ExecutePlan(FALSE, "create", NoId)
  /\ UNCHANGED <<external, calm, foreign, faults, changes>>

\* Mutant of ReadFails: a failed lookup is taken for a missing record.
MissingOnFailure ==
  /\ pc = "find"
  /\ Current \in Creates
  /\ Fault
  /\ SendMutation("create", NoId)
  /\ UNCHANGED <<external, calm, foreign, changes>>

\* A read fails: refused (401, 403, 429), or no usable answer.
ReadFails ==
  /\ InPlan
  /\ pc = "zone" => cache[Key(Current)] = NoId
  /\ Fault
  /\ \E kind \in Kind : RecordFails(kind, cache)
  /\ UNCHANGED <<external, req, calm, foreign, changes>>

\* timeout_at(deadline, ...) around the discovery and around plan_record.
DeadlineExceeded ==
  /\ late
  /\ pc = "discover" \/ InPlan
  /\ EndCycle({"transient"}, FALSE, cache)
  /\ UNCHANGED <<external, req, calm, foreign, faults, changes>>

\* The response to the mutation arrives.
MutationAnswered ==
  /\ pc = "mutate"
  /\ \/ /\ req.status = "applied"
        /\ NextRecord({}, cache)
     \/ /\ req.status = "notfound"
        /\ RecordFails("permanent", Invalidated(req.zid))
  /\ req' = NoReq
  /\ UNCHANGED <<external, calm, foreign, faults, changes>>

\* A request that has not been processed is lost, or stays on its way.
Abandon(q) ==
  zombies' \in IF q # NoReq /\ q.status = "sent" /\ LateApply
               THEN {zombies, zombies \cup {q}} ELSE {zombies}

\* The mutation is refused before it is applied, or its response is unusable
\* or does not come in time.
MutationFails ==
  /\ pc = "mutate"
  /\ Fault
  /\ \/ \E kind \in {"auth", "rate", "permanent"} :
          /\ req.status = "sent"
          /\ RecordFails(kind, cache)
          /\ UNCHANGED zombies
     \/ /\ RecordFails("transient", cache)
        /\ Abandon(req)
  /\ req' = NoReq
  /\ UNCHANGED <<public, zoneId, lastZoneId, dns, lastEntry, calm, foreign, changes>>

\* The process is killed.
Crash ==
  /\ pc # "stopped"
  /\ Fault
  /\ ProcessGone
  /\ req' = NoReq
  /\ Abandon(req)
  /\ UNCHANGED <<public, zoneId, lastZoneId, dns, lastEntry, calm, foreign, changes>>

\* The deadline of the cycle passes: while a slow lookup is waited for ...
Expire ==
  /\ InCycle
  /\ ~late
  /\ late' = TRUE
  /\ UNCHANGED <<external, pc, cursor, start, offset, found, cache, zid, req, stop,
                 failures, interrupted, calm, foreign, changes>>

ExpireOnSlow ==
  /\ pc \in {"find", "recheck"}
  /\ Current \in Slow
  /\ Expire
  /\ UNCHANGED faults

\* ... or, as a fault, anywhere else.
ExpireEarly == Expire /\ Fault
-----------------------------------------------------------------------------
(* Cloudflare and the rest of the world: external *)

\* Whether Cloudflare can process q, and what r's entries are afterwards.
Applicable(q) ==
  /\ q.zid = zoneId[ZoneOf[q.rec]]
  /\ q.kind = "update" => \E e \in dns[q.rec] : e.id = q.entry

Apply(q) ==
  IF q.kind = "create"
  THEN /\ dns' = [dns EXCEPT ![q.rec] = @ \cup {Entry(lastEntry[q.rec] + 1, q.addr, TRUE)}]
       /\ lastEntry' = [lastEntry EXCEPT ![q.rec] = @ + 1]
  ELSE /\ dns' = [dns EXCEPT ![q.rec] =
            {e \in @ : e.id # q.entry} \cup {Entry(q.entry, q.addr, TRUE)}]
       /\ UNCHANGED lastEntry

\* The mutation in flight reaches Cloudflare.
ProcessMutation ==
  /\ pc = "mutate"
  /\ req.status = "sent"
  /\ IF Applicable(req) THEN Apply(req) ELSE UNCHANGED <<dns, lastEntry>>
  /\ req' = [req EXCEPT !.status = IF Applicable(req) THEN "applied" ELSE "notfound"]
  /\ UNCHANGED <<public, zoneId, lastZoneId, zombies, pc, cursor, start, offset, found,
                 cache, zid, late, stop, failures, interrupted, calm, foreign, faults,
                 changes>>

\* A request given up on reaches Cloudflare after all.
ProcessZombie ==
  \E q \in zombies :
    /\ zombies' = zombies \ {q}
    /\ IF Applicable(q)
       THEN /\ Apply(q)
            /\ calm' = FALSE
            /\ foreign' = [foreign EXCEPT ![q.rec] = @ + (IF q.kind = "create" THEN 1 ELSE 0)]
       ELSE UNCHANGED <<dns, lastEntry, calm, foreign>>
    /\ UNCHANGED <<public, zoneId, lastZoneId, process, faults, changes>>

Change ==
  /\ changes < MaxChanges
  /\ changes' = changes + 1
  /\ calm' = FALSE
  /\ UNCHANGED <<zombies, process, faults>>

\* The provider assigns another address.
NewAddress ==
  /\ Change
  /\ \E f \in Family, a \in Addr :
       /\ a # public[f]
       /\ public' = [public EXCEPT ![f] = a]
  /\ UNCHANGED <<zoneId, lastZoneId, dns, lastEntry, foreign>>

\* A zone leaves the account, or comes back under another identifier.
MoveZone ==
  /\ Change
  /\ \E z \in Zone, id \in {NoId, lastZoneId + 1} :
       /\ zoneId' = [zoneId EXCEPT ![z] = id]
       /\ lastZoneId' = IF id = NoId THEN lastZoneId ELSE id
  /\ UNCHANGED <<public, dns, lastEntry, foreign>>

\* Someone edits, deletes or adds an entry in the dashboard.
EditEntry ==
  /\ Change
  /\ \E r \in Record, e \in UNION {dns[q] : q \in Record} :
       /\ e \in dns[r]
       /\ e.managed
       /\ dns' = [dns EXCEPT ![r] = (@ \ {e}) \cup {[e EXCEPT !.managed = FALSE]}]
  /\ UNCHANGED <<public, zoneId, lastZoneId, lastEntry, foreign>>

DeleteEntry ==
  /\ Change
  /\ \E r \in Record :
       \E e \in dns[r] : dns' = [dns EXCEPT ![r] = @ \ {e}]
  /\ UNCHANGED <<public, zoneId, lastZoneId, lastEntry, foreign>>

AddEntry ==
  /\ Change
  /\ \E r \in Record, a \in Addr :
       /\ dns' = [dns EXCEPT ![r] = @ \cup {Entry(lastEntry[r] + 1, a, FALSE)}]
       /\ lastEntry' = [lastEntry EXCEPT ![r] = @ + 1]
       /\ foreign' = [foreign EXCEPT ![r] = @ + 1]
  /\ UNCHANGED <<public, zoneId, lastZoneId>>
-----------------------------------------------------------------------------
Progress ==
  \/ Wake \/ Discover \/ Loop \/ ResolveZone \/ Find \/ DeadlineExceeded
  \/ ProcessMutation \/ MutationAnswered
  \/ ExpireOnSlow

Failure == ReadFails \/ MutationFails \/ Crash \/ ExpireEarly

World ==
  \/ ProcessZombie \/ NewAddress \/ MoveZone \/ EditEntry \/ DeleteEntry \/ AddEntry

Next == Start \/ Signal \/ Progress \/ Failure \/ World

Spec == Init /\ [][Next]_vars

\* Timers fire, requests are answered or time out, and the task runs on.  The
\* process is not forced to be started, and nobody is forced to change or to
\* break anything.
FairSpec == Spec /\ WF_vars(Progress)
-----------------------------------------------------------------------------
(* Properties *)

Request ==
  [kind : {"update", "create"}, rec : Record, zid : Nat, entry : Nat, addr : Addr,
   status : {"sent", "applied", "notfound"}]

\* CycleReport::is_success is worth something: after a cycle that reports no
\* failure, every configured record exists once, with the host's address and
\* the configured settings -- unless somebody else, or a request given up on in
\* an earlier cycle, changed something while or since the cycle ran.
SuccessMeansSynced ==
  (pc = "sleep" /\ failures = {} /\ ~interrupted /\ calm) => \A r \in Record : InSync(r)

\* The updater never creates a second entry by itself: a record has at most one
\* entry more than other people added, or than creates that were given up on
\* and processed late added -- across failed requests, restarts and crashes.
NoDuplicates == \A r \in Record : Cardinality(dns[r]) <= 1 + foreign[r]

\* A mutation only starts before the cycle's deadline and before shutdown is
\* requested, and the daemon only stops without its answer when it is killed.
MutationsBounded ==
  [][ /\ (req = NoReq /\ req' # NoReq) => (~late /\ ~stop)
      /\ (req # NoReq /\ pc' = "stopped") => faults' = faults + 1 ]_vars

\* A record that a cycle can repair at all: at most one entry, one that exists
\* or may be created, in a zone the configuration still names, with lookups
\* that answer and a family that can be discovered.
Repairable(r) ==
  /\ r \notin Slow
  /\ FamilyOf[r] \notin Broken
  /\ Cardinality(dns[r]) <= 1
  /\ dns[r] = {} => r \in Creates
  /\ zoneId[ZoneOf[r]] # NoId
  /\ ExplicitId[r] \in {NoId, zoneId[ZoneOf[r]]}

\* Every record that stays repairable while the daemon keeps running ends up in
\* sync for good: whatever failed, moved or was cached before, and whatever
\* keeps failing for other records, other zones or the other family.
Converges ==
  \A r \in Record :
    (<>[](pc # "stopped" /\ Repairable(r))) => <>[]InSync(r)

\* The daemon stops writing when nothing changes any more: it does not fight
\* with itself over a record.
Quiesces == <>[](req = NoReq) \/ []<>(pc = "stopped")

\* A requested shutdown ends the process.
StopHonoured == stop ~> pc = "stopped"
=============================================================================
