------------------------------ MODULE Bridges ------------------------------
(***************************************************************************)
(* The network bridges (internal/web/bridges.go and the `bridges` commands *)
(* of cmd/infra-mngmt): bridges declared in bridges.yaml are applied,      *)
(* paused, reset and refreshed by concurrent web handlers and by separate  *)
(* command-line processes.  A bridge of the Windows tier is a netsh rule,  *)
(* written by one elevated script per request; one of the WSL tier is a    *)
(* relay process, declared in a fragment file that process-compose reads.  *)
(*                                                                         *)
(* Nothing but the list of loaded bridges is locked: between its probe,    *)
(* its elevated script, its snapshot of the list, the write of the         *)
(* fragment, the reload and each start or stop, a request can be overtaken *)
(* by any other one.                                                       *)
(***************************************************************************)
EXTENDS Naturals

CONSTANTS
    Request,      \* handler goroutines and command-line processes
    Cli,          \* the requests made by the command line
    Windows, Wsl, \* the bridges of each tier
    Targets,      \* the sets of bridges one request can name: a bridge,
                  \*   the members of a composite, all of them
    InitDeclared, \* the bridges declared at startup
    Files,        \* what the user may write to bridges.yaml later
    Reconciles,   \* a reload drops what the fragment no longer declares
    NoOne,        \* nobody holds bridgesMu
    MaxRequests,  \* bound: requests
    MaxEvents,    \* bound: edits, tampering, crashes
    MaxFails      \* bound: declined and stopped scripts, failed writes and calls

Bridge == Windows \union Wsl

ASSUME TiersAssumption == Windows \intersect Wsl = {}
ASSUME RequestAssumption == Cli \subseteq Request /\ NoOne \notin Request
ASSUME DeclaredAssumption ==
    /\ InitDeclared \subseteq Bridge
    /\ Files \subseteq SUBSET Bridge
    /\ Targets \subseteq SUBSET Bridge
ASSUME ReconcilesAssumption == Reconciles \in BOOLEAN
ASSUME BoundsAssumption ==
    MaxRequests \in Nat /\ MaxEvents \in Nat /\ MaxFails \in Nat

VARIABLES
    declared,  \* bridges.yaml
    loaded,    \* s.bridges, without the composite parents
    writer,    \* the request that holds bridgesMu to render the views
    netsh,     \* netsh[w]: the portproxy rule of w
    fragment,  \* the relays declared in process-compose.bridges.yaml
    up,        \* the WSL process-compose instance is up ...
    defs,      \* ... the bridge processes it knows
    running,   \* ... and those that run
    pc, verb,  \* where each request is, and what it does
    conf,      \* the bridges.yaml it read: a command, a refresh
    sel,       \* the bridges it names
    need,      \* the Windows bridges its elevated script has still to do
    render,    \* the fragment it is about to write
    left,      \* the relays it has still to start or to stop
    missed,    \* history: the requests with a failed call to process-compose
    lost,      \* history: a reload failed since the last one that did not
    claims,    \* history: the requests no rival has disturbed
    requests, events, fails  \* bounds

listVars == <<declared, loaded, writer>>
wslVars == <<fragment, up, defs, running>>
reqVars == <<pc, verb, conf, sel, need, render, left>>
histVars == <<missed, lost, claims, requests, events, fails>>
vars == <<listVars, netsh, wslVars, reqVars, histVars>>

Rule == {"absent", "drifted", "installed"}
Verb == {"apply", "pause", "reset", "refresh", "list"}
PC == {"idle", "probe", "elevate", "stop", "snapshot", "write", "reload",
       "start", "swap", "view", "render"}

Init ==
    /\ declared = InitDeclared
    /\ loaded = InitDeclared
    /\ writer = NoOne
    /\ netsh = [w \in Windows |-> "absent"]
    /\ fragment = {}
    /\ up = TRUE
    /\ defs = {}
    /\ running = {}
    /\ pc = [r \in Request |-> "idle"]
    /\ verb = [r \in Request |-> "list"]
    /\ conf = [r \in Request |-> {}]
    /\ sel = [r \in Request |-> {}]
    /\ need = [r \in Request |-> {}]
    /\ render = [r \in Request |-> {}]
    /\ left = [r \in Request |-> {}]
    /\ missed = {}
    /\ lost = FALSE
    /\ claims = {}
    /\ requests = 0
    /\ events = 0
    /\ fails = 0

Goto(r, label) == pc' = [pc EXCEPT ![r] = label]

(* Two applies work from the same list: both read bridges.yaml as it is,   *)
(* or no fragment of an older list is about to be written.                 *)
SameList(q, r) ==
    IF r \in Cli THEN q \in Cli /\ conf[q] = declared
    ELSE q \notin Cli /\ (pc[q] = "write" => render[q] = loaded \intersect Wsl)

(* Two requests of the same kind whose effects add up do not disturb each  *)
(* other: two applies from the same list, two pauses, anything and a poll. *)
Compatible(q, v, r) ==
    \/ "list" \in {verb[q], v}
    \/ verb[q] = v /\ v = "pause"
    \/ verb[q] = v /\ v = "apply" /\ SameList(q, r)

Claim(r, v) ==
    claims' = IF \A q \in Request \ {r} : pc[q] = "idle" \/ Compatible(q, v, r)
              THEN claims \union {r} ELSE {}

-----------------------------------------------------------------------------
(* Requests begin. *)

Start(r, v) ==
    /\ pc[r] = "idle"
    /\ requests < MaxRequests
    /\ requests' = requests + 1
    /\ verb' = [verb EXCEPT ![r] = v]
    /\ Claim(r, v)
    /\ UNCHANGED <<listVars, netsh, wslVars, need, render, missed, lost, events, fails>>

(* An apply, a pause or a reset of the bridges a name stands for: the web  *)
(* takes them from the loaded list, the command line from bridges.yaml.    *)
(* A name that stands for none is refused.                                 *)
Begin(r, v, t) ==
    /\ r \in Cli \/ writer = NoOne
    /\ LET list == IF r \in Cli THEN declared ELSE loaded
           named == t \intersect list
       IN  /\ named # {}
           /\ sel' = [sel EXCEPT ![r] = named]
           /\ left' = [left EXCEPT ![r] = named \intersect Wsl]
           /\ conf' = [conf EXCEPT ![r] = IF r \in Cli THEN declared ELSE {}]
    /\ Start(r, v)
    /\ Goto(r, "probe")

HandleBridgeApply(r, t) == r \notin Cli /\ Begin(r, "apply", t)
HandleBridgesApplyAll(r) == HandleBridgeApply(r, Bridge)
HandleBridgePause(r, t) == r \notin Cli /\ Begin(r, "pause", t)
HandleBridgeReset(r, t) == r \notin Cli /\ Begin(r, "reset", t)

(* `infra-mngmt bridges apply`, pause and reset take the same steps. *)
RunBridgesApply(r, t) == r \in Cli /\ Begin(r, "apply", t)
RunBridgesPause(r, t) == r \in Cli /\ Begin(r, "pause", t)
RunBridgesReset(r, t) == r \in Cli /\ Begin(r, "reset", t)

(* handleBridgesRefresh reads bridges.yaml before it takes the lock. *)
BeginRefresh(r) ==
    /\ r \notin Cli
    /\ conf' = [conf EXCEPT ![r] = declared]
    /\ Start(r, "refresh")
    /\ Goto(r, "swap")
    /\ UNCHANGED <<sel, left>>

(* A poll of the services panel. *)
BeginList(r) ==
    /\ r \notin Cli
    /\ Start(r, "list")
    /\ Goto(r, "view")
    /\ UNCHANGED <<conf, sel, left>>

-----------------------------------------------------------------------------
(* The Windows tier. *)

(* The web touches the fragment for its WSL bridges, the commands always. *)
TouchesFragment(r) == left[r] # {} \/ r \in Cli

AfterWindows(r) ==
    IF ~TouchesFragment(r) THEN "view"
    ELSE IF verb[r] = "apply" THEN "snapshot" ELSE "stop"

(* windowsBridgesNeedingApply skips rules in place, and ...NeedingRemoval  *)
(* absent ones; a failed probe, an unresolved listen address or a failing  *)
(* connect test puts others on the list.  A reset does not probe.          *)
Settled(r) ==
    CASE verb[r] = "apply" -> {w \in sel[r] \intersect Windows : netsh[w] = "installed"}
      [] verb[r] = "pause" -> {w \in sel[r] \intersect Windows : netsh[w] = "absent"}
      [] OTHER -> {}

Probe(r, skipped) ==
    /\ pc[r] = "probe"
    /\ skipped \subseteq Settled(r)
    /\ LET needing == (sel[r] \intersect Windows) \ skipped
       IN  /\ need' = [need EXCEPT ![r] = needing]
           /\ Goto(r, IF needing = {} THEN AfterWindows(r) ELSE "elevate")
    /\ UNCHANGED <<listVars, netsh, wslVars, verb, conf, sel, render, left, histVars>>

(* PowerShellApply, PowerShellRemove: what the script does to its rules.   *)
(* An apply deletes a rule before it adds it.                              *)
Script(r, done, deleted) ==
    netsh' = [w \in Windows |->
                 IF w \in done THEN IF verb[r] = "apply" THEN "installed" ELSE "absent"
                 ELSE IF w \in deleted THEN "absent" ELSE netsh[w]]

Elevate(r) ==
    /\ pc[r] = "elevate"
    /\ Script(r, need[r], {})
    /\ need' = [need EXCEPT ![r] = {}]
    /\ Goto(r, AfterWindows(r))
    /\ UNCHANGED <<listVars, wslVars, verb, conf, sel, render, left, histVars>>

(* The elevated script stops at its own error, or a netsh call in it       *)
(* fails.  Only the error of the powershell that launched it comes back,   *)
(* and that one succeeded: the request goes on as if every rule was done.  *)
(* A rule that was deleted and not added again disturbs the other requests.*)
ScriptStops(r, done, deleted) ==
    /\ pc[r] = "elevate"
    /\ fails < MaxFails
    /\ done \subseteq need[r] /\ done # need[r]
    /\ deleted \subseteq IF verb[r] = "apply" THEN need[r] \ done ELSE {}
    /\ Script(r, done, deleted)
    /\ need' = [need EXCEPT ![r] = @ \ done]
    /\ fails' = fails + 1
    /\ claims' = IF deleted = {} THEN claims ELSE claims \intersect {r}
    /\ Goto(r, AfterWindows(r))
    /\ UNCHANGED <<listVars, wslVars, verb, conf, sel, render, left,
                   missed, lost, requests, events>>

Finish(r) ==
    /\ Goto(r, "idle")
    /\ verb' = [verb EXCEPT ![r] = "list"]
    /\ conf' = [conf EXCEPT ![r] = {}]
    /\ sel' = [sel EXCEPT ![r] = {}]
    /\ need' = [need EXCEPT ![r] = {}]
    /\ left' = [left EXCEPT ![r] = {}]
    /\ missed' = missed \ {r}
    /\ claims' = claims \ {r}

(* A request that fails leaves the rest undone. *)
Abort(r) ==
    /\ fails < MaxFails
    /\ fails' = fails + 1
    /\ Finish(r)
    /\ UNCHANGED <<lost, requests, events>>

(* The user declines the prompt, or powershell.exe cannot be launched. *)
Decline(r) ==
    /\ pc[r] = "elevate"
    /\ Abort(r)
    /\ UNCHANGED <<listVars, netsh, wslVars, render>>

-----------------------------------------------------------------------------
(* The WSL tier. *)

(* Mutant of RenderComposeFragment: bridges of any tier become processes. *)
RenderEveryTier(B) == B

RenderComposeFragment(B) == B \intersect Wsl

(* Mutant of Dropped: a reset renders the full list, as an apply does. *)
DroppedNone(r) == {}

Dropped(r) == IF verb[r] = "reset" THEN sel[r] ELSE {}

(* snapshotAllBridges; a reset leaves out its own selection. *)
Snapshot(r) ==
    /\ pc[r] = "snapshot"
    /\ r \in Cli \/ writer = NoOne
    /\ LET all == IF r \in Cli THEN conf[r] ELSE loaded
       IN  render' = [render EXCEPT ![r] = RenderComposeFragment(all \ Dropped(r))]
    /\ Goto(r, "write")
    /\ UNCHANGED <<listVars, netsh, wslVars, verb, conf, sel, need, left, histVars>>

(* Mutant of WriteFragment: the reload after the write is forgotten. *)
WriteUnread(r) ==
    /\ pc[r] = "write"
    /\ fragment' = render[r]
    /\ render' = [render EXCEPT ![r] = {}]
    /\ Goto(r, IF verb[r] = "apply" THEN "start" ELSE "view")
    /\ UNCHANGED <<listVars, netsh, up, defs, running, verb, conf, sel, need,
                   left, histVars>>

(* WriteFragment replaces the file: a temporary file and a rename. *)
WriteFragment(r) ==
    /\ pc[r] = "write"
    /\ fragment' = render[r]
    /\ render' = [render EXCEPT ![r] = {}]
    /\ Goto(r, "reload")
    /\ UNCHANGED <<listVars, netsh, up, defs, running, verb, conf, sel, need,
                   left, histVars>>

WriteFails(r) ==
    /\ pc[r] = "write"
    /\ render' = [render EXCEPT ![r] = {}]
    /\ Abort(r)
    /\ UNCHANGED <<listVars, netsh, wslVars>>

(* A call that process-compose does not answer is logged and forgotten. *)
Miss(r) ==
    /\ missed' = missed \union {r}
    /\ fails' = IF up THEN fails + 1 ELSE fails
    /\ up => fails < MaxFails
    /\ UNCHANGED <<claims, requests, events>>

(* Mutant of AfterReload: an apply relies on the reload to start relays. *)
AfterReloadUnstarted(r) == "view"

AfterReload(r) == IF verb[r] = "apply" THEN "start" ELSE "view"

(* process-compose reads the fragment, starts the relays that are new to   *)
(* it and, when its version does, drops those that are gone.               *)
Reload(r) ==
    /\ pc[r] = "reload"
    /\ up
    /\ defs' = IF Reconciles THEN fragment ELSE defs \union fragment
    /\ running' = (running \intersect defs') \union (fragment \ defs)
    /\ lost' = FALSE
    /\ Goto(r, AfterReload(r))
    /\ UNCHANGED <<listVars, netsh, fragment, up, verb, conf, sel, need, render,
                   left, missed, claims, requests, events, fails>>

ReloadFails(r) ==
    /\ pc[r] = "reload"
    /\ Miss(r)
    /\ lost' = TRUE
    /\ Goto(r, AfterReload(r))
    /\ UNCHANGED <<listVars, netsh, wslVars, verb, conf, sel, need, render, left>>

(* startWSLBridgeProcesses, stopWSLBridgeProcesses: one call per relay. *)
Call(r, b) ==
    /\ pc[r] \in {"start", "stop"}
    /\ b \in left[r]
    /\ left' = [left EXCEPT ![r] = @ \ {b}]
    /\ UNCHANGED <<listVars, netsh, fragment, up, defs, pc, verb, conf, sel, need,
                   render, lost>>

CallProcess(r, b) ==
    /\ Call(r, b)
    /\ up
    /\ running' = IF pc[r] = "stop" THEN running \ {b}
                  ELSE running \union ({b} \intersect defs)
    /\ UNCHANGED <<missed, claims, requests, events, fails>>

CallFails(r, b) ==
    /\ Call(r, b)
    /\ Miss(r)
    /\ UNCHANGED running

CallsDone(r) ==
    /\ pc[r] \in {"start", "stop"}
    /\ left[r] = {}
    /\ Goto(r, IF pc[r] = "stop" /\ verb[r] = "reset" THEN "snapshot" ELSE "view")
    /\ UNCHANGED <<listVars, netsh, wslVars, verb, conf, sel, need, render, left, histVars>>

-----------------------------------------------------------------------------
(* The list and its views. *)

(* handleBridgesRefresh replaces the loaded list. *)
Swap(r) ==
    /\ pc[r] = "swap"
    /\ writer = NoOne
    /\ loaded' = conf[r]
    /\ Goto(r, "view")
    /\ UNCHANGED <<declared, writer, netsh, wslVars, verb, conf, sel, need, render,
                   left, histVars>>

(* rebuildBridgeViews holds the lock while it probes both tiers. *)
ViewBegin(r) ==
    /\ pc[r] = "view"
    /\ r \notin Cli
    /\ writer = NoOne
    /\ writer' = r
    /\ Goto(r, "render")
    /\ UNCHANGED <<declared, loaded, netsh, wslVars, verb, conf, sel, need, render,
                   left, histVars>>

(* Mutant of ViewEnd: the lock is not released. *)
ViewEndLocked(r) ==
    /\ pc[r] = "render" \/ (pc[r] = "view" /\ r \in Cli)
    /\ Finish(r)
    /\ UNCHANGED <<listVars, netsh, wslVars, render, lost, requests, events, fails>>

(* The response; a command prints its status table without a lock. *)
ViewEnd(r) ==
    /\ \/ pc[r] = "render" /\ writer' = NoOne
       \/ pc[r] = "view" /\ r \in Cli /\ UNCHANGED writer
    /\ Finish(r)
    /\ UNCHANGED <<declared, loaded, netsh, wslVars, render, lost, requests, events, fails>>

-----------------------------------------------------------------------------
(* The world: every event voids the claims of the requests under way. *)

Event ==
    /\ events < MaxEvents
    /\ events' = events + 1
    /\ claims' = {}
    /\ UNCHANGED <<loaded, writer, reqVars, missed, requests, fails>>

(* The user edits bridges.yaml. *)
EditFile(D) ==
    /\ declared' = D
    /\ Event
    /\ UNCHANGED <<netsh, wslVars, lost>>

(* A rule is changed or lost outside this program. *)
Tamper(w, rule) ==
    /\ rule \in {"absent", "drifted"}
    /\ netsh' = [netsh EXCEPT ![w] = rule]
    /\ Event
    /\ UNCHANGED <<declared, wslVars, lost>>

(* The process-compose instance stops, with every relay ... *)
Crash ==
    /\ up
    /\ up' = FALSE
    /\ defs' = {}
    /\ running' = {}
    /\ Event
    /\ UNCHANGED <<declared, netsh, fragment, lost>>

(* ... and starts again, from the fragment on disk. *)
Boot ==
    /\ ~up
    /\ up' = TRUE
    /\ defs' = fragment
    /\ running' = fragment
    /\ lost' = FALSE
    /\ claims' = {}
    /\ UNCHANGED <<listVars, netsh, fragment, reqVars, missed, requests, events, fails>>

-----------------------------------------------------------------------------
Step(r) ==
    \/ \E skipped \in SUBSET Windows : Probe(r, skipped)
    \/ Elevate(r) \/ Decline(r)
    \/ (\E done, deleted \in SUBSET Windows : ScriptStops(r, done, deleted))
    \/ Snapshot(r) \/ WriteFragment(r) \/ WriteFails(r)
    \/ Reload(r) \/ ReloadFails(r)
    \/ (\E b \in Wsl : CallProcess(r, b) \/ CallFails(r, b))
    \/ CallsDone(r)
    \/ Swap(r) \/ ViewBegin(r) \/ ViewEnd(r)

Next ==
    \/ \E r \in Request :
        \/ \E t \in Targets :
            \/ HandleBridgeApply(r, t) \/ RunBridgesApply(r, t)
            \/ HandleBridgePause(r, t) \/ RunBridgesPause(r, t)
            \/ HandleBridgeReset(r, t) \/ RunBridgesReset(r, t)
        \/ HandleBridgesApplyAll(r)
        \/ BeginRefresh(r)
        \/ BeginList(r)
        \/ Step(r)
    \/ \E D \in Files : EditFile(D)
    \/ \E w \in Windows, rule \in Rule : Tamper(w, rule)
    \/ Crash
    \/ Boot

(* A request under way takes its next step: scripts end (the user answers  *)
(* the prompt), calls to process-compose time out, and bridgesMu lets      *)
(* every waiter in sooner or later.                                        *)
Spec == Init /\ [][Next]_vars /\ \A r \in Request : SF_vars(Step(r))

-----------------------------------------------------------------------------
(* Properties *)

TypeOK ==
    /\ declared \in SUBSET Bridge
    /\ loaded \in SUBSET Bridge
    /\ writer \in Request \union {NoOne}
    /\ netsh \in [Windows -> Rule]
    /\ fragment \in SUBSET Wsl
    /\ up \in BOOLEAN
    /\ defs \in SUBSET Wsl
    /\ running \in SUBSET defs
    /\ pc \in [Request -> PC]
    /\ verb \in [Request -> Verb]
    /\ conf \in [Request -> SUBSET Bridge]
    /\ sel \in [Request -> SUBSET Bridge]
    /\ need \in [Request -> SUBSET Windows]
    /\ render \in [Request -> SUBSET Wsl]
    /\ left \in [Request -> SUBSET Wsl]
    /\ missed \in SUBSET Request
    /\ lost \in BOOLEAN
    /\ claims \in SUBSET Request
    /\ requests \in 0..MaxRequests
    /\ events \in 0..MaxEvents
    /\ fails \in 0..MaxFails

(* A request about to respond, undisturbed and with every call answered.   *)
(* Its elevated script may have stopped: the request does not know.        *)
Completed(r, v) ==
    /\ pc[r] = "view"
    /\ verb[r] = v
    /\ r \in claims \ missed

(* The fragment is the authoritative state: however many requests rewrite  *)
(* it, once every writer has reloaded and no reload failed, process-compose*)
(* knows the relays of the last fragment - and only those, if its version  *)
(* drops the others.                                                       *)
FragmentIsRead ==
    (up /\ ~lost /\ \A r \in Request : pc[r] # "reload") =>
        /\ fragment \subseteq defs
        /\ Reconciles => defs = fragment

(* An apply that no pause, reset, refresh, outside event or apply of       *)
(* another list disturbed, but maybe other applies, misses no rule but     *)
(* those its own script stopped before - not those it skipped after a      *)
(* probe that was stale by then - and, however its script ended, has its   *)
(* relays declared, known and running.                                     *)
ApplyDelivers ==
    \A r \in Request : Completed(r, "apply") =>
        /\ \A w \in (sel[r] \intersect Windows) \ need[r] : netsh[w] = "installed"
        /\ sel[r] \intersect Wsl \subseteq fragment \intersect running

(* A pause that only other pauses ran beside, or a reset that nothing ran  *)
(* beside, leaves no rule but those its own script stopped before, and no  *)
(* relay of its bridges; the reset has them out of the fragment too, even  *)
(* with a process-compose that never drops a definition.                   *)
RemovalDelivers ==
    \A r \in Request : Completed(r, "pause") \/ Completed(r, "reset") =>
        /\ \A w \in (sel[r] \intersect Windows) \ need[r] : netsh[w] = "absent"
        /\ sel[r] \intersect running = {}
        /\ verb[r] = "reset" => sel[r] \intersect fragment = {}

(* Every request ends, though the views are rendered under a lock that     *)
(* other requests need for their snapshots.                                *)
Handled == \A r \in Request : pc[r] # "idle" ~> pc[r] = "idle"
=============================================================================
