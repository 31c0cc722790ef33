------------------------------ MODULE DepGraph ------------------------------
(***************************************************************************)
(* The dependency resolver and graph (internal/graph, internal/deps and    *)
(* internal/web/status.go).  A status cycle probes every process-compose   *)
(* instance and Docker side by side; from what the probes found, Resolve   *)
(* rates the declared needs of each entity for the badges, and BuildGraph  *)
(* makes the graph that the diagnosis walks towards a root cause and the   *)
(* blast radius walks back to the dependents.  Meanwhile the services      *)
(* panel writes the states of the bridges anew, in place and unlocked.     *)
(*                                                                         *)
(* An instance is named by the tier it is; names are compared without case *)
(* and are model values or strings.  A node's ID is the tuple of its kind, *)
(* its instance (services and instances only) and its name.                *)
(***************************************************************************)
EXTENDS Naturals, Sequences, FiniteSets, FiniteSetsExt

CONSTANTS
    Tier,         \* the configured instances
    Process,      \* their processes: a set of <<tier, name>>
    BridgeName,   \* the bridges of bridges.yaml
    Declared,     \* the containers of containers.yaml without services
    Entity,       \* the entities: [id, mcp, key, name, scope] records
    Rules,        \* dependencies.yaml: a sequence of [entity, scope, needs]
    Alike,        \* pairs of names one of which contains the other
    MaxEvents     \* bound: bridges whose state is written anew

(* What the constants are assumed to be: the two tiers, processes of them, *)
(* and entities that their IDs tell apart; finitely many of each.          *)
Assumptions ==
    /\ IsFiniteSet(Process) /\ IsFiniteSet(BridgeName) /\ IsFiniteSet(Declared)
    /\ IsFiniteSet(Entity) /\ IsFiniteSet(DOMAIN Rules)
    /\ \A i \in DOMAIN Rules : IsFiniteSet(Rules[i].needs)
    /\ Tier \subseteq {"windows", "wsl"}
    /\ \A p \in Process : p = <<p[1], p[2]>> /\ p[1] \in Tier
    /\ \A e, f \in Entity : e.id = f.id => e = f

VARIABLES
    css,      \* what each process does, as statusClass names it
    bridge,   \* s.bridges: the state last observed of each bridge
    held,     \* history: the states each bridge had since BuildGraph began
    docker,   \* what Docker says of each declared container
    probe,    \* where the probe of each instance, and of Docker, is
    up,       \* instanceUp: the instances that answered the ping
    listed,   \* the instances whose process list was read
    seen,     \* what the Docker probe found of each container
    answer,   \* the badges and the graph that were made of it
    events    \* bound: bridges whose state was written anew

vars == <<css, bridge, held, docker, probe, up, listed, seen, answer, events>>
world == <<css, bridge, held, docker, answer, events>>

CSS == {"running", "starting", "stopped"}
BridgeState == {"active", "drifted", "missing", "unknown"}
ContainerState == {"running", "stopped", "missing", "unknown"}
Docker == "docker"
NoAnswer == [badges |-> <<>>, health |-> <<>>, edges |-> {}, moved |-> {}]
PC == {"start", "ping", "list", "done"}

Init ==
    /\ css \in [Process -> CSS]
    /\ bridge \in [BridgeName -> BridgeState]
    /\ held = [b \in BridgeName |-> {}]
    /\ docker \in [Declared -> ContainerState \ {"unknown"}]
    /\ probe = [t \in Tier \cup {Docker} |-> "start"]
    /\ up = [t \in Tier |-> FALSE]
    /\ listed = {}
    /\ seen = [c \in Declared |-> "missing"]
    /\ answer = NoAnswer
    /\ events = 0

-----------------------------------------------------------------------------
(* gatherStatusInputs: one goroutine per instance, and one for Docker,     *)
(* each under a timeout of its own.                                        *)

Gather ==
    /\ \A t \in DOMAIN probe : probe[t] = "start"
    /\ probe' = [t \in DOMAIN probe |-> IF t = Docker THEN "list" ELSE "ping"]
    /\ UNCHANGED <<world, up, listed, seen>>

Ping(t) ==
    /\ probe[t] = "ping"
    /\ \/ up' = [up EXCEPT ![t] = TRUE] /\ probe' = [probe EXCEPT ![t] = "list"]
       \/ UNCHANGED up /\ probe' = [probe EXCEPT ![t] = "done"]
    /\ UNCHANGED <<world, listed, seen>>

Processes(t) ==
    /\ probe[t] = "list"
    /\ \/ listed' = listed \cup {t}
       \/ UNCHANGED listed
    /\ probe' = [probe EXCEPT ![t] = "done"]
    /\ UNCHANGED <<world, up, seen>>

(* snapshotContainers: a lookup that fails leaves its container unknown.   *)
Snapshot ==
    /\ probe[Docker] = "list"
    /\ \E failed \in SUBSET Declared :
        seen' = [c \in Declared |-> IF c \in failed THEN "unknown" ELSE docker[c]]
    /\ probe' = [probe EXCEPT ![Docker] = "done"]
    /\ UNCHANGED <<world, up, listed>>

(* rebuildBridgeViews, of any request for the services panel: under        *)
(* bridgesMu, which those who read the states do not take.  What it wrote  *)
(* before BuildGraph began is in Init.                                     *)
Rebuild(b) ==
    /\ events < MaxEvents /\ held[b] # {}
    /\ events' = events + 1
    /\ \E s \in BridgeState :
        /\ bridge' = [bridge EXCEPT ![b] = s]
        /\ held' = [held EXCEPT ![b] = @ \cup {s}]
    /\ UNCHANGED <<css, docker, answer, probe, up, listed, seen>>

procs == {p \in Process : p[1] \in listed}
anyOnline == \E t \in Tier : up[t]

-----------------------------------------------------------------------------
(* Ratings, from best to worst. *)
RefOK == 0  RefStopped == 1  RefMissing == 2  RefUnresolved == 3  RefOffline == 4
HealthOK == 0  HealthDegraded == 1  HealthOffline == 2  HealthDown == 3
HealthMissing == 4  HealthUnknown == 5
isBad(h) == h \in {HealthOffline, HealthDown, HealthMissing, HealthUnknown}

(* deps.Match: the needs of every rule for the entity, each once. *)
scopeMatches(pattern, scope) ==
    \/ pattern \in {"*", scope}
    \/ pattern = "project:*" /\ scope # "host"

Match(e) == UNION {Rules[i].needs :
    i \in {j \in DOMAIN Rules : Rules[j].entity = e.key /\ scopeMatches(Rules[j].scope, e.scope)}}

(* A ref: the need's rating and the supplier it points at, with the raw    *)
(* state of one that was found.                                            *)
Ref(state, kind, inst, name, raw) ==
    [state |-> state, node |-> <<kind, inst, name>>, raw |-> raw]

(* Mutant of refStateFromCSS: a process that is coming up is not there yet. *)
refStateRunning(c) == IF c = "running" THEN RefOK ELSE RefStopped

refStateFromCSS(c) == IF c \in {"running", "starting"} THEN RefOK ELSE RefStopped

(* resolveService: the first process of the name, in the order of the      *)
(* instances; TierOrder says which of two comes first.                     *)
TierOrder(a, b) == a = b \/ (a = "windows" /\ b = "wsl")
resolveService(n) ==
    LET hits == {p \in procs : p[2] = n.name /\ n.tier \in {"", p[1]}} IN
    IF hits # {}
    THEN LET p == CHOOSE q \in hits : \A o \in hits : TierOrder(q[1], o[1])
         IN Ref(refStateFromCSS(css[p]), "service", p[1], p[2], css[p])
    ELSE Ref(IF anyOnline THEN RefMissing ELSE RefOffline, "service", n.tier, n.name, "")

(* The needs that find a bridge; reads[<<e, n>>] is the state that the one *)
(* of need n of entity e was read in.                                      *)
bridgeReads ==
    UNION {{<<e, n>> : n \in {m \in Match(e) : m.kind = "bridge" /\ m.name \in BridgeName}} : e \in Entity}

resolveBridge(e, n, reads) ==
    IF n.name \notin BridgeName THEN Ref(RefMissing, "bridge", "", n.name, "")
    ELSE LET s == reads[<<e, n>>] IN
         Ref(CASE s = "active" -> RefOK [] s = "drifted" -> RefStopped
               [] s = "missing" -> RefMissing [] OTHER -> RefUnresolved,
             "bridge", "", n.name,
             CASE s = "active" -> "running" [] s = "drifted" -> "error"
               [] s = "missing" -> "stopped" [] OTHER -> "unknown")

resolveContainer(n) ==
    IF n.name \notin Declared THEN Ref(RefMissing, "container", "", n.name, "")
    ELSE LET s == seen[n.name] IN
         Ref(CASE s = "running" -> RefOK [] s = "stopped" -> RefStopped
               [] s = "missing" -> RefMissing [] OTHER -> RefUnresolved,
             "container", "", n.name,
             CASE s = "running" -> "running" [] s \in {"stopped", "missing"} -> "stopped"
               [] OTHER -> "unknown")

(* legacyMCPMatch: an MCP server without rules is matched to a process     *)
(* whose name contains its own or is contained in it, a sound one if any.  *)
legacyMCPMatch(e) ==
    LET like == {p \in procs : p[2] = e.name \/ <<e.name, p[2]>> \in Alike}
        rated(p) == refStateFromCSS(css[p])
        best == {p \in like : \A q \in like : rated(p) <= rated(q)} IN
    IF like = {} THEN Ref(IF anyOnline THEN RefUnresolved ELSE RefOffline, "service", "", "", "")
    ELSE LET p == CHOOSE q \in best : \A o \in best : TierOrder(q[1], o[1])
         IN Ref(rated(p), "service", p[1], p[2], css[p])

(* resolveOne. *)
Refs(e, reads) ==
    LET needs == Match(e) IN
    IF needs = {} THEN IF e.mcp THEN {legacyMCPMatch(e)} ELSE {}
    ELSE {CASE n.kind = "service" -> resolveService(n)
            [] n.kind = "bridge" -> resolveBridge(e, n, reads)
            [] OTHER -> resolveContainer(n) : n \in needs}

rollup(refs) == Max({RefOK} \cup {r.state : r \in refs})

(* resolveMCPStatuses and entityRefsCSSState: the badges an entity may get, *)
(* from its roll-up and the first of its refs in that state.               *)
Badges(refs) ==
    LET state == rollup(refs) IN
    {CASE state \in {RefOK, RefStopped} -> IF rep.raw # "" THEN rep.raw ELSE "stopped"
       [] state = RefMissing -> "stopped"
       [] state = RefUnresolved -> "unresolved"
       [] OTHER -> "offline" : rep \in {r \in refs : r.state = state}}

-----------------------------------------------------------------------------
(* BuildGraph: a function from the IDs of the nodes to their health, and   *)
(* the edges from consumers to suppliers.                                  *)

healthFromRefState(s) ==
    CASE s = RefOK -> HealthOK [] s = RefStopped -> HealthDown
      [] s = RefOffline -> HealthOffline [] OTHER -> HealthMissing
healthFromCSS(c) ==
    CASE c = "running" -> HealthOK [] c = "starting" -> HealthDegraded [] OTHER -> HealthDown
healthFromState(s) ==      \* healthFromBridge and healthFromContainer
    CASE s \in {"active", "running"} -> HealthOK [] s \in {"drifted", "stopped"} -> HealthDown
      [] s = "missing" -> HealthMissing [] OTHER -> HealthUnknown

instanceID(t) == <<"instance", t, "">>
entityNodeID(e) == <<"entity", "", e.id>>
instanceHealth(t) == IF t \in Tier /\ ~up[t] THEN HealthOffline ELSE HealthOK

(* The nodes made of what was observed, with their health; drawn[b] is the *)
(* state that the node of bridge b was made of.                            *)
Observed(drawn) ==
    [id \in {<<"service", p[1], p[2]>> : p \in procs} \cup {<<"bridge", "", b>> : b \in BridgeName}
            \cup {<<"container", "", c>> : c \in Declared} |->
        CASE id[1] = "service" -> healthFromCSS(css[<<id[2], id[3]>>])
          [] id[1] = "bridge" -> healthFromState(drawn[id[3]])
          [] OTHER -> healthFromState(seen[id[3]])]

(* supplierNodeFor, for a ref that matched nothing: a node of the health   *)
(* of the ref or, when it is a service of an offline tier, Offline.        *)
synthesized(ref) ==
    IF ref.node[1] = "service" /\ instanceHealth(ref.node[2]) = HealthOffline
    THEN HealthOffline ELSE healthFromRefState(ref.state)

(* The suppliers; refs that point at one synthesized node agree on its     *)
(* health.                                                                 *)
supplierHealth(refs, drawn) ==
    LET all == UNION {refs[e] : e \in Entity}
        observed == Observed(drawn) IN
    [id \in DOMAIN observed \cup {r.node : r \in all} |->
        IF id \in DOMAIN observed THEN observed[id]
        ELSE synthesized(CHOOSE r \in all : r.node = id)]

(* worstSupplier: an entity is as well as the worst of its suppliers.      *)
worstSupplier(refs, supplier) ==
    Max({healthFromRefState(rollup(refs))} \cup {supplier[r.node] : r \in refs})

(* The kind of a node tells an entity from an instance and a supplier.     *)
BuildGraph(refs, drawn) ==
    LET graphed == {e \in Entity : refs[e] # {}}
        supplier == supplierHealth(refs, drawn)
        services == {id \in DOMAIN supplier : id[1] = "service" /\ id[2] # ""}
        tiers == {instanceID(t) : t \in Tier \cup {s[2] : s \in services}}
        entities == {entityNodeID(e) : e \in graphed} IN
    [health |-> [id \in DOMAIN supplier \cup tiers \cup entities |->
        CASE id \in tiers -> instanceHealth(id[2])
          [] id \in entities -> LET e == CHOOSE f \in graphed : entityNodeID(f) = id
                               IN worstSupplier(refs[e], supplier)
          [] OTHER -> supplier[id]],
     edges |-> (UNION {{<<entityNodeID(e), r.node>> : r \in refs[e]} : e \in graphed})
               \cup {<<id, instanceID(id[2])>> : id \in services}]

(* The badges of a page and the graph of a diagnosis or a blast radius are *)
(* made of a gathering each; here of the same one.  An entity has moved    *)
(* when a need of it found its bridge in another state than the node did.  *)
Answered(drawn, reads) ==
    LET refs == [e \in Entity |-> Refs(e, reads)]
        g == BuildGraph(refs, drawn) IN
    [badges |-> [e \in {f \in Entity : refs[f] # {}} |-> Badges(refs[e])],
     health |-> g.health, edges |-> g.edges,
     moved |-> {x[1] : x \in {y \in bridgeReads : reads[y] # drawn[y[2].name]}}]

Build ==
    /\ answer = NoAnswer
    /\ \A t \in DOMAIN probe : probe[t] = "done"
    /\ \A b \in BridgeName : held[b] = {}
    /\ held' = [b \in BridgeName |-> {bridge[b]}]
    /\ UNCHANGED <<css, bridge, docker, answer, probe, up, listed, seen, events>>

(* BuildGraph reads the states of the bridges for their nodes, and again   *)
(* for every need of every entity.  Other goroutines write them meanwhile, *)
(* so each read finds one of the states the bridge had since it began.     *)
Answer ==
    /\ answer = NoAnswer
    /\ \A t \in DOMAIN probe : probe[t] = "done"
    /\ \E drawn \in [BridgeName -> BridgeState], reads \in [bridgeReads -> BridgeState] :
        /\ \A b \in BridgeName : drawn[b] \in held[b]
        /\ \A x \in bridgeReads : reads[x] \in held[x[2].name]
        /\ answer' = Answered(drawn, reads)
    /\ held' = [b \in BridgeName |-> {}]
    /\ UNCHANGED <<css, bridge, docker, probe, up, listed, seen, events>>

Next ==
    \/ Gather \/ Snapshot \/ Build \/ Answer
    \/ \E t \in Tier : Ping(t) \/ Processes(t)
    \/ \E b \in BridgeName : Rebuild(b)

Spec == Init /\ [][Next]_vars

-----------------------------------------------------------------------------
(* The suppliers a node may blame. *)
faults(h, es, n) == {s \in DOMAIN h : <<n, s>> \in es /\ isBad(h[s])}

(* Diagnose: from a node along the worst bad supplier, the first in the    *)
(* order of their IDs, until there is none or it was visited.              *)
further(h, es, path) ==
    LET bad == faults(h, es, path[Len(path)])
        worst == CHOOSE s \in bad : \A o \in bad : h[o] <= h[s] IN
    IF bad = {} \/ worst \in {path[i] : i \in DOMAIN path} THEN path ELSE Append(path, worst)

Diagnose(h, es, id) ==
    LET path[k \in Nat] == IF k = 0 THEN <<id>> ELSE further(h, es, path[k - 1])
    IN path[Cardinality(DOMAIN h)]

(* Mutant of BlastRadius: only the direct dependents. *)
Dependents(h, es, id) == {n \in DOMAIN h : <<n, id>> \in es}

(* BlastRadius: everything that a breadth-first search against the edges   *)
(* reaches, without its start.                                             *)
wider(h, es, found) == found \cup (DOMAIN h \cap {edge[1] : edge \in {x \in es : x[2] \in found}})

BlastRadius(h, es, id) ==
    LET reach[k \in Nat] == IF k = 0 THEN {id} ELSE wider(h, es, reach[k - 1])
    IN reach[Cardinality(DOMAIN h)] \ {id}

-----------------------------------------------------------------------------
TypeOK ==
    /\ css \in [Process -> CSS]
    /\ bridge \in [BridgeName -> BridgeState]
    /\ \A b \in BridgeName : held[b] = {} \/ bridge[b] \in held[b]
    /\ probe \in [Tier \cup {Docker} -> PC]
    /\ up \in [Tier -> BOOLEAN]
    /\ listed \subseteq {t \in Tier : up[t]}
    /\ seen \in [Declared -> ContainerState]

(* The two walks over the graph agree and end where they should.  The      *)
(* diagnosis of a node in trouble leads from fault to fault to one that no *)
(* fault of a supplier explains; what it started from is in the blast      *)
(* radius of every step; and when all of its faulty suppliers are services *)
(* of one unreachable tier, it ends at that tier and nowhere before.  An   *)
(* entity in trouble has a fault to blame, unless a bridge that it needs   *)
(* was written anew between the read for its node and the read for it.     *)
CauseFound ==
    LET h == answer.health
        es == answer.edges IN
    \A id \in DOMAIN h :
        LET path == Diagnose(h, es, id)
            root == path[Len(path)] IN
        /\ faults(h, es, root) = {}
        /\ \A i \in 2 .. Len(path) : isBad(h[path[i]]) /\ id \in BlastRadius(h, es, path[i])
        /\ (id[1] = "entity" /\ isBad(h[id]) /\ \A e \in answer.moved : id # entityNodeID(e)) =>
                Len(path) > 1
        /\ \A t \in Tier : (~up[t] /\ {s[2] : s \in faults(h, es, id)} = {t}) => root = instanceID(t)

(* The badge and the graph, worked out apart from one another, agree on    *)
(* the same observations: an entity's badge is that of a sound supplier    *)
(* just when the graph holds nothing against it.  Only the node of a       *)
(* bridge that was read before its state was written anew can still tell   *)
(* against an entity whose badge is sound; never the other way round.      *)
BadgeAgrees ==
    answer # NoAnswer =>
        \A e \in DOMAIN answer.badges :
            LET sound == ~isBad(answer.health[entityNodeID(e)]) IN
            \A b \in answer.badges[e] :
                /\ sound => b \in {"running", "starting"}
                /\ b \in {"running", "starting"} /\ e \notin answer.moved => sound
                /\ b = "offline" => ~anyOnline
=============================================================================
