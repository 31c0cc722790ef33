---------------------------- MODULE EntityCache ----------------------------
(***************************************************************************)
(* The entity list of the web server (internal/web/handlers.go): a cache   *)
(* of one flattened list of every source's entities, filled by at most one *)
(* scan at a time (singleflight), that reads every source in parallel.     *)
(* Handlers look the list up, wait for or lead a scan, write entities and  *)
(* invalidate the cache; a rescan merges newly discovered sources.         *)
(*                                                                         *)
(* A list is abstracted to what freshness depends on: which sources its    *)
(* scan visited, which of them failed, and the version of each source's    *)
(* directory that was read.  The contents of the backing array, which the  *)
(* ?kind= filter rewrites in place, are modelled in EntityListing.         *)
(***************************************************************************)
EXTENDS Naturals

CONSTANTS
    Request,      \* handler goroutines; one is reused after its response
    Source,       \* the configuration directories that may be discovered
    InitSources,  \* the sources discovered at startup
    Empty,        \* the sources whose directory holds no entity
    NoOne,        \* no leader: the singleflight group is empty
    MaxScans,     \* bound: no new request once this many scans have started
    MaxLapses,    \* bound: no expiry, refresh, write or rescan beyond this
    MaxChanges,   \* bound: no change of a source beyond this version
    MaxFails      \* bound: failed source reads

ASSUME SourcesAssumption == InitSources \subseteq Source /\ Empty \subseteq Source
ASSUME NoOneAssumption == NoOne \notin Request
ASSUME BoundsAssumption ==
    MaxScans \in Nat /\ MaxLapses \in Nat /\ MaxChanges \in Nat /\ MaxFails \in Nat

VARIABLES
    sources,  \* s.sources, as the set of its IDs
    version,  \* version[s]: how often s's directory has changed
    cached,   \* entityCache.entries
    fresh,    \* time.Since(entityCache.fetchAt) < entityCacheTTL
    flight,   \* the leader of the singleflight call, or NoOne
    result,   \* the list that call returns
    scan,     \* the scan of the leader, as far as it got
    pc,       \* where each request's handler is
    op,       \* what each request does with the list
    found,    \* the sources a rescan request's discovery returned
    held,     \* the list each request holds
    floor,    \* history: the state of the sources at the last barrier
    base,     \* history: floor at the time each request began
    scans,    \* history: scans started
    lapses,   \* history: events after which the cache may be rescanned
    fails     \* bound: source reads that failed

cacheVars == <<cached, fresh>>
flightVars == <<flight, result, scan>>
worldVars == <<sources, version>>
reqVars == <<pc, op, found, held>>
histVars == <<floor, base, scans, lapses, fails>>
vars == <<cacheVars, flightVars, worldVars, reqVars, histVars>>

PC == {"idle", "lookup", "join", "wait", "recheck", "snapshot", "scan",
       "leave", "have", "merge", "invalidate"}
Leading == {"recheck", "snapshot", "scan", "leave"}
Op == {"list", "write", "promote"}

(* What is known of the sources at one moment. *)
View == [known : SUBSET Source, at : [Source -> Nat]]
List == [visited : SUBSET Source, failed : SUBSET Source,
         seen : [Source -> Nat], filled : BOOLEAN]
Scan == [visited : SUBSET Source, pending : SUBSET Source,
         failed : SUBSET Source, seen : [Source -> Nat], filled : BOOLEAN]

Now == [known |-> sources, at |-> version]
Unseen == [s \in Source |-> 0]
NoList == [visited |-> {}, failed |-> {}, seen |-> Unseen, filled |-> FALSE]
NoView == [known |-> {}, at |-> Unseen]
NoScan == [visited |-> {}, pending |-> {}, failed |-> {}, seen |-> Unseen,
           filled |-> FALSE]

(* A list reflects a view when its scan visited every source of the view   *)
(* and read, of each source that did not fail, that version or a later one.*)
Reflects(l, view) ==
    /\ view.known \subseteq l.visited
    /\ \A s \in view.known \ l.failed : view.at[s] <= l.seen[s]

(* cachedEntities: a non-empty list within its TTL. *)
Hit == cached.filled /\ fresh

-----------------------------------------------------------------------------
Init ==
    /\ sources = InitSources
    /\ version = Unseen
    /\ cached = NoList
    /\ fresh = FALSE
    /\ flight = NoOne
    /\ result = NoList
    /\ scan = NoScan
    /\ pc = [r \in Request |-> "idle"]
    /\ op = [r \in Request |-> "list"]
    /\ found = [r \in Request |-> {}]
    /\ held = [r \in Request |-> NoList]
    /\ floor = NoView
    /\ base = [r \in Request |-> NoView]
    /\ scans = 0
    /\ lapses = 0
    /\ fails = 0

Goto(r, label) == pc' = [pc EXCEPT ![r] = label]

-----------------------------------------------------------------------------
(* The requests. *)

(* A handler that calls allEntities starts: GET /api/entities and the      *)
(* other readers, the warm-up at startup, PUT of an entity, a promote.     *)
Begin(r, o) ==
    /\ pc[r] = "idle"
    /\ scans < MaxScans
    /\ o = "list" \/ lapses < MaxLapses
    /\ Goto(r, "lookup")
    /\ op' = [op EXCEPT ![r] = o]
    /\ base' = [base EXCEPT ![r] = floor]
    /\ UNCHANGED <<cacheVars, flightVars, worldVars, found, held,
                   floor, scans, lapses, fails>>

(* allEntities, the first cachedEntities call. *)
Lookup(r) ==
    /\ pc[r] = "lookup"
    /\ \/ /\ Hit
          /\ held' = [held EXCEPT ![r] = cached]
          /\ Goto(r, "have")
       \/ /\ ~Hit
          /\ Goto(r, "join")
          /\ UNCHANGED held
    /\ UNCHANGED <<cacheVars, flightVars, worldVars, op, found,
                   histVars>>

(* Mutant of Join: the scans are not collapsed, every caller makes its own. *)
JoinAlone(r) ==
    /\ pc[r] = "join"
    /\ flight' = r
    /\ Goto(r, "recheck")
    /\ UNCHANGED <<cacheVars, result, scan, worldVars, op, found, held, histVars>>

(* group.Do: the first caller leads, the others wait for its result. *)
Join(r) ==
    /\ pc[r] = "join"
    /\ \/ /\ flight = NoOne
          /\ flight' = r
          /\ Goto(r, "recheck")
       \/ /\ flight # NoOne
          /\ Goto(r, "wait")
          /\ UNCHANGED flight
    /\ UNCHANGED <<cacheVars, result, scan, worldVars, op, found,
                   held, histVars>>

(* Mutant of Recheck: the leader scans without a second look at the cache. *)
RecheckBlind(r) ==
    /\ pc[r] = "recheck"
    /\ Goto(r, "snapshot")
    /\ UNCHANGED <<cacheVars, flightVars, worldVars, op, found, held, histVars>>

(* The leader's second cachedEntities call, inside the flight. *)
Recheck(r) ==
    /\ pc[r] = "recheck"
    /\ \/ /\ Hit
          /\ result' = cached
          /\ Goto(r, "leave")
       \/ /\ ~Hit
          /\ Goto(r, "snapshot")
          /\ UNCHANGED result
    /\ UNCHANGED <<cacheVars, flight, scan, worldVars, op, found,
                   held, histVars>>

(* scanAllSources takes its snapshot of the sources and starts the reads. *)
Snapshot(r) ==
    /\ pc[r] = "snapshot"
    /\ scan' = [NoScan EXCEPT !.visited = sources, !.pending = sources]
    /\ scans' = scans + 1
    /\ Goto(r, "scan")
    /\ UNCHANGED <<cacheVars, flight, result, worldVars, op, found,
                   held, floor, base, lapses, fails>>

(* One source's Entities call returns what its directory holds now. *)
ReadSource(r, s) ==
    /\ pc[r] = "scan"
    /\ s \in scan.pending
    /\ scan' = [scan EXCEPT !.pending = @ \ {s},
                            !.seen[s] = version[s],
                            !.filled = @ \/ s \notin Empty]
    /\ UNCHANGED <<cacheVars, flight, result, worldVars, reqVars, histVars>>

(* One source's Entities call fails: an unreachable volume, or the context *)
(* of the request that leads the scan is cancelled.                        *)
FailSource(r, s) ==
    /\ pc[r] = "scan"
    /\ s \in scan.pending
    /\ fails < MaxFails
    /\ scan' = [scan EXCEPT !.pending = @ \ {s}, !.failed = @ \union {s}]
    /\ fails' = fails + 1
    /\ UNCHANGED <<cacheVars, flight, result, worldVars, reqVars, floor, base,
                   scans, lapses>>

(* scanAllSources: the list is that of the sources that did not fail. *)
Flatten(s) ==
    [visited |-> s.visited, failed |-> s.failed, seen |-> s.seen, filled |-> s.filled]

(* The leader stores the list, stamped with the time the scan ended. *)
Store(r) ==
    /\ pc[r] = "scan"
    /\ scan.pending = {}
    /\ result' = Flatten(scan)
    /\ cached' = result'
    /\ fresh' = TRUE
    /\ lapses' = IF scan.filled THEN lapses ELSE lapses + 1
    /\ scan' = NoScan
    /\ Goto(r, "leave")
    /\ UNCHANGED <<flight, worldVars, op, found, held, floor, base, scans, fails>>

(* Mutant of Callers: the leader returns, the waiters are forgotten. *)
LeaderOnly(r) == {r}

Callers(r) == {q \in Request : q = r \/ pc[q] = "wait"}

(* The flight ends: the leader and every waiter return with its result. *)
Leave(r) ==
    /\ pc[r] = "leave"
    /\ flight' = NoOne
    /\ result' = NoList
    /\ pc' = [q \in Request |-> IF q \in Callers(r) THEN "have" ELSE pc[q]]
    /\ held' = [q \in Request |-> IF q \in Callers(r) THEN result ELSE held[q]]
    /\ UNCHANGED <<cacheVars, scan, worldVars, op, found, histVars>>

(* The handler is done with its list and returns to the pool, or goes on   *)
(* to invalidate the cache.                                                *)
Finish(r, label) ==
    /\ Goto(r, label)
    /\ op' = [op EXCEPT ![r] = "list"]
    /\ held' = [held EXCEPT ![r] = NoList]
    /\ base' = [base EXCEPT ![r] = NoView]

(* A reader responds with the list; a writer that does not find its entity *)
(* or its target source, or is refused by a read-only one, responds, too.  *)
Respond(r) ==
    /\ pc[r] = "have"
    /\ Finish(r, "idle")
    /\ UNCHANGED <<cacheVars, flightVars, worldVars, found, floor, scans, lapses,
                   fails>>

(* The write of handleEntityWrite goes to the source of a listed entity,   *)
(* that of handlePromote to any current source.                            *)
Writable(r) ==
    CASE op[r] = "write" -> held[r].visited \ (held[r].failed \union Empty)
      [] op[r] = "promote" -> sources
      [] OTHER -> {}

Change(s) ==
    /\ version[s] < MaxChanges
    /\ version' = [version EXCEPT ![s] = @ + 1]

WriteEntity(r, s) ==
    /\ pc[r] = "have"
    /\ s \in Writable(r)
    /\ Change(s)
    /\ \/ Finish(r, "invalidate")
       \/ Finish(r, "idle")      \* it failed half way: a 500, no invalidation
    /\ UNCHANGED <<cacheVars, flightVars, sources, found, floor, scans, lapses,
                   fails>>

(* The sources' directories are edited by Claude Code and by hand, too. *)
Edit(s) ==
    /\ Change(s)
    /\ UNCHANGED <<cacheVars, flightVars, sources, reqVars, histVars>>

(* handleSourcesRescan: discovery runs outside any lock ... *)
Discover(r, D) ==
    /\ pc[r] = "idle"
    /\ lapses < MaxLapses
    /\ found' = [found EXCEPT ![r] = D]
    /\ Goto(r, "merge")
    /\ UNCHANGED <<cacheVars, flightVars, worldVars, op, held, histVars>>

(* Mutant of Merge: the discovered sources replace the current ones. *)
MergeReplaces(r) ==
    /\ pc[r] = "merge"
    /\ sources' = found[r]
    /\ found' = [found EXCEPT ![r] = {}]
    /\ Goto(r, IF found[r] \subseteq sources THEN "idle" ELSE "invalidate")
    /\ UNCHANGED <<cacheVars, flightVars, version, op, held, histVars>>

(* ... its result is merged into the sources of that later moment ... *)
Merge(r) ==
    /\ pc[r] = "merge"
    /\ sources' = sources \union found[r]
    /\ found' = [found EXCEPT ![r] = {}]
    /\ Goto(r, IF found[r] \subseteq sources THEN "idle" ELSE "invalidate")
    /\ UNCHANGED <<cacheVars, flightVars, version, op, held, histVars>>

(* Mutant of Lapse: an invalidation leaves the list's time of fetch. *)
LapseStaysFresh ==
    /\ lapses' = lapses + 1
    /\ floor' = IF flight = NoOne THEN Now ELSE floor
    /\ UNCHANGED <<cacheVars, flightVars, worldVars, base, scans, fails>>

(* The cache lapses.  When no scan is in flight this is a barrier: every   *)
(* scan that follows reads the sources as they are now, or later.          *)
Lapse ==
    /\ fresh' = FALSE
    /\ lapses' = lapses + 1
    /\ floor' = IF flight = NoOne THEN Now ELSE floor
    /\ UNCHANGED <<cached, flightVars, worldVars, base, scans, fails>>

(* ... and only after a merge that added a source, as after a write, is    *)
(* the cache invalidated.                                                  *)
Invalidate(r) ==
    /\ pc[r] = "invalidate"
    /\ Lapse
    /\ Goto(r, "idle")
    /\ UNCHANGED <<op, found, held>>

(* handleRefresh: POST /api/refresh. *)
HandleRefresh ==
    /\ lapses < MaxLapses
    /\ Lapse
    /\ UNCHANGED reqVars

(* Thirty seconds pass since the list was stored. *)
Expire ==
    /\ fresh
    /\ lapses < MaxLapses
    /\ Lapse
    /\ UNCHANGED reqVars

-----------------------------------------------------------------------------
(* What a started handler does next, and what may happen besides. *)
Step(r) ==
    \/ Lookup(r) \/ Join(r) \/ Recheck(r) \/ Snapshot(r) \/ Store(r)
    \/ Leave(r) \/ Respond(r) \/ Merge(r) \/ Invalidate(r)
    \/ \E s \in Source : ReadSource(r, s) \/ FailSource(r, s) \/ WriteEntity(r, s)

Next ==
    \/ \E r \in Request :
        \/ \E o \in Op : Begin(r, o)
        \/ \E D \in SUBSET Source : Discover(r, D)
        \/ Step(r)
    \/ \E s \in Source : Edit(s)
    \/ HandleRefresh
    \/ Expire

(* Started handlers are scheduled, and every source call returns. *)
Spec == Init /\ [][Next]_vars /\ \A r \in Request : WF_vars(Step(r))

-----------------------------------------------------------------------------
(* Properties *)

Types ==
    /\ sources \in SUBSET Source
    /\ version \in [Source -> Nat]
    /\ cached \in List
    /\ fresh \in BOOLEAN
    /\ flight \in Request \union {NoOne}
    /\ result \in List
    /\ scan \in Scan
    /\ pc \in [Request -> PC]
    /\ op \in [Request -> Op]
    /\ found \in [Request -> SUBSET Source]
    /\ held \in [Request -> List]
    /\ floor \in View
    /\ base \in [Request -> View]
    /\ scans \in Nat
    /\ lapses \in Nat
    /\ fails \in Nat

(* Types; only its leader is inside a flight, so that never two scans run  *)
(* side by side, and nobody waits for a flight that has none.              *)
TypeOK ==
    /\ Types
    /\ \A r \in Request : pc[r] \in Leading <=> flight = r
    /\ \A r \in Request : pc[r] = "wait" => flight # NoOne

(* Concurrent cold requests share one scan, and a request queued behind a  *)
(* scan does not repeat it: there is at most one scan per lapse of the     *)
(* cache (an invalidation, the TTL, an empty result), plus the first one.  *)
ScanBudget == scans <= 1 + lapses

(* An invalidation that finds no scan in flight is a barrier: a request    *)
(* that begins after it is answered with a list whose scan visited every   *)
(* source known then and read it as it was then or later, except for the   *)
(* sources whose read failed.                                              *)
BarrierVisible ==
    \A r \in Request : pc[r] = "have" => Reflects(held[r], base[r])

(* Concurrent rescans merge: none drops a source another one added, or one *)
(* known before it started discovering.                                    *)
SourcesKept == [][sources \subseteq sources']_vars

(* Every request that started is answered: a waiter of the flight is       *)
(* released by its leader whatever happens to the sources.                 *)
Answered == \A r \in Request : pc[r] # "idle" ~> pc[r] = "idle"
=============================================================================
