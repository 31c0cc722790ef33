--------------------------- MODULE BridgesProofs ---------------------------
(***************************************************************************)
(* Proofs about Bridges, for every set of requests and bridges and every   *)
(* bound: its types, that the fragment on disk is what process-compose     *)
(* knows once its writers have reloaded it, and that an apply, a pause and *)
(* a reset deliver what they stand for when no rival worked against them.  *)
(***************************************************************************)
EXTENDS Bridges, TLAPS

-----------------------------------------------------------------------------
(* Types *)

(* The initial state is well typed. *)
LEMMA TypeInit == Init => TypeOK
<1> SUFFICES ASSUME Init PROVE TypeOK
    OBVIOUS
<1>1. up \in BOOLEAN /\ lost \in BOOLEAN
    BY Zenon DEF Init
<1>2. requests \in 0..MaxRequests /\ events \in 0..MaxEvents /\ fails \in 0..MaxFails
    BY BoundsAssumption DEF Init
<1>3. /\ declared \in SUBSET Bridge /\ loaded \in SUBSET Bridge
      /\ writer \in Request \union {NoOne} /\ netsh \in [Windows -> Rule]
      /\ fragment \in SUBSET Wsl /\ defs \in SUBSET Wsl /\ running \in SUBSET defs
      /\ missed \in SUBSET Request /\ claims \in SUBSET Request
    BY DeclaredAssumption DEF Init, Rule
<1>4. /\ pc \in [Request -> PC] /\ verb \in [Request -> Verb]
      /\ conf \in [Request -> SUBSET Bridge] /\ sel \in [Request -> SUBSET Bridge]
      /\ need \in [Request -> SUBSET Windows] /\ render \in [Request -> SUBSET Wsl]
      /\ left \in [Request -> SUBSET Wsl]
    BY DEF Init, PC, Verb
<1> QED
    BY <1>1, <1>2, <1>3, <1>4 DEF TypeOK

(* The beginning of a request keeps the types of what every beginning      *)
(* changes.                                                                *)
LEMMA StartTypes ==
    ASSUME TypeOK, NEW r \in Request, NEW v \in Verb, Start(r, v)
    PROVE  /\ requests' \in 0..MaxRequests
           /\ verb' \in [Request -> Verb]
           /\ claims' \in SUBSET Request
<1>1. requests' \in 0..MaxRequests
    BY BoundsAssumption DEF TypeOK, Start
<1>2. verb' \in [Request -> Verb]
    BY DEF TypeOK, Start
<1>3. claims' \in SUBSET Request
    BY DEF TypeOK, Start, Claim
<1> QED
    BY <1>1, <1>2, <1>3

(* So does the end of one ... *)
LEMMA FinishTypes ==
    ASSUME TypeOK, NEW r \in Request, Finish(r)
    PROVE  /\ pc' \in [Request -> PC] /\ verb' \in [Request -> Verb]
           /\ conf' \in [Request -> SUBSET Bridge] /\ sel' \in [Request -> SUBSET Bridge]
           /\ left' \in [Request -> SUBSET Wsl] /\ need' \in [Request -> SUBSET Windows]
           /\ missed' \in SUBSET Request /\ claims' \in SUBSET Request
<1>1. {} \in SUBSET Bridge /\ {} \in SUBSET Wsl /\ {} \in SUBSET Windows /\ "idle" \in PC /\ "list" \in Verb
    BY DEF PC, Verb
<1> QED
    BY <1>1 DEF TypeOK, Finish, Goto

(* ... an aborted one, ... *)
LEMMA AbortTypes ==
    ASSUME TypeOK, NEW r \in Request, Abort(r)
    PROVE  fails' \in 0..MaxFails /\ Finish(r) /\ UNCHANGED <<lost, requests, events>>
BY BoundsAssumption DEF TypeOK, Abort

(* ... a call that fails, ... *)
LEMMA MissTypes ==
    ASSUME TypeOK, NEW r \in Request, Miss(r)
    PROVE  missed' \in SUBSET Request /\ fails' \in 0..MaxFails
BY BoundsAssumption DEF TypeOK, Miss

(* ... a script, ... *)
LEMMA ScriptTypes ==
    ASSUME TypeOK, NEW r \in Request, NEW done, NEW deleted, Script(r, done, deleted)
    PROVE  netsh' \in [Windows -> Rule]
BY DEF TypeOK, Script, Rule

(* ... and an event. *)
LEMMA EventTypes ==
    ASSUME TypeOK, Event
    PROVE  events' \in 0..MaxEvents /\ claims' \in SUBSET Request
BY BoundsAssumption DEF TypeOK, Event

(* Every step keeps the types. *)
LEMMA TypeStep == TypeOK /\ [Next]_vars => TypeOK'
<1> SUFFICES ASSUME TypeOK, [Next]_vars PROVE TypeOK'
    OBVIOUS
<1> USE DEF listVars, wslVars, reqVars, histVars
<1>1. ASSUME NEW r \in Request, NEW v \in {"apply", "pause", "reset"},
             NEW t, Begin(r, v, t)
      PROVE  TypeOK'
    <2>1. v \in Verb /\ Start(r, v)
        BY <1>1 DEF Verb, Begin
    <2>2. /\ sel' \in [Request -> SUBSET Bridge]
          /\ conf' \in [Request -> SUBSET Bridge]
          /\ left' \in [Request -> SUBSET Wsl]
        BY <1>1 DEF TypeOK, Begin
    <2>3. pc' \in [Request -> PC]
        BY <1>1 DEF TypeOK, Begin, Goto, PC
    <2> QED
        BY <2>1, <2>2, <2>3, StartTypes DEF TypeOK, Start
<1>2. ASSUME NEW r \in Request, BeginRefresh(r) PROVE TypeOK'
    <2>1. "refresh" \in Verb /\ Start(r, "refresh")
        BY <1>2 DEF Verb, BeginRefresh
    <2>2. conf' \in [Request -> SUBSET Bridge] /\ pc' \in [Request -> PC]
        BY <1>2 DEF TypeOK, BeginRefresh, Goto, PC
    <2> QED
        BY <1>2, <2>1, <2>2, StartTypes DEF TypeOK, Start, BeginRefresh
<1>3. ASSUME NEW r \in Request, BeginList(r) PROVE TypeOK'
    <2>1. "list" \in Verb /\ Start(r, "list")
        BY <1>3 DEF Verb, BeginList
    <2>2. pc' \in [Request -> PC]
        BY <1>3 DEF TypeOK, BeginList, Goto, PC
    <2> QED
        BY <1>3, <2>1, <2>2, StartTypes DEF TypeOK, Start, BeginList
<1>4. ASSUME NEW r \in Request, NEW skipped \in SUBSET Windows, Probe(r, skipped)
      PROVE  TypeOK'
    <2>1. need' \in [Request -> SUBSET Windows]
        BY <1>4 DEF TypeOK, Probe
    <2>2. pc' \in [Request -> PC]
        BY <1>4 DEF TypeOK, Probe, Goto, PC, AfterWindows
    <2> QED
        BY <1>4, <2>1, <2>2 DEF TypeOK, Probe
<1>5. ASSUME NEW r \in Request, Elevate(r) PROVE TypeOK'
    <2>1. netsh' \in [Windows -> Rule]
        BY <1>5, ScriptTypes DEF Elevate
    <2>2. pc' \in [Request -> PC] /\ need' \in [Request -> SUBSET Windows]
        BY <1>5 DEF TypeOK, Elevate, Goto, PC, AfterWindows
    <2> QED
        BY <1>5, <2>1, <2>2 DEF TypeOK, Elevate
<1>6. ASSUME NEW r \in Request, NEW done \in SUBSET Windows,
             NEW deleted \in SUBSET Windows, ScriptStops(r, done, deleted)
      PROVE  TypeOK'
    <2>1. netsh' \in [Windows -> Rule]
        BY <1>6, ScriptTypes DEF ScriptStops
    <2>2. pc' \in [Request -> PC] /\ need' \in [Request -> SUBSET Windows]
        BY <1>6 DEF TypeOK, ScriptStops, Goto, PC, AfterWindows
    <2>3. fails' \in 0..MaxFails
        BY <1>6, BoundsAssumption DEF TypeOK, ScriptStops
    <2>4. claims' \in SUBSET Request
        BY <1>6 DEF TypeOK, ScriptStops
    <2> QED
        BY <1>6, <2>1, <2>2, <2>3, <2>4 DEF TypeOK, ScriptStops
<1>23. ASSUME NEW r \in Request, Decline(r) PROVE TypeOK'
    <2>1. Abort(r)
        BY <1>23 DEF Decline
    <2> QED
        BY <1>23, <2>1, AbortTypes, FinishTypes DEF TypeOK, Decline
<1>7. ASSUME NEW r \in Request, Snapshot(r) PROVE TypeOK'
    <2>1. render' \in [Request -> SUBSET Wsl] /\ pc' \in [Request -> PC]
        BY <1>7 DEF TypeOK, Snapshot, RenderComposeFragment, Goto, PC
    <2> QED
        BY <1>7, <2>1 DEF TypeOK, Snapshot
<1>8. ASSUME NEW r \in Request, WriteFragment(r) PROVE TypeOK'
    <2>1. /\ fragment' \in SUBSET Wsl /\ render' \in [Request -> SUBSET Wsl]
          /\ pc' \in [Request -> PC]
        BY <1>8 DEF TypeOK, WriteFragment, Goto, PC
    <2> QED
        BY <1>8, <2>1 DEF TypeOK, WriteFragment
<1>9. ASSUME NEW r \in Request, WriteFails(r) PROVE TypeOK'
    <2>1. render' \in [Request -> SUBSET Wsl] /\ Abort(r)
        BY <1>9 DEF TypeOK, WriteFails
    <2> QED
        BY <1>9, <2>1, AbortTypes, FinishTypes DEF TypeOK, WriteFails
<1>10. ASSUME NEW r \in Request, Reload(r) PROVE TypeOK'
    <2>1. defs' \in SUBSET Wsl /\ running' \in SUBSET defs'
        BY <1>10 DEF TypeOK, Reload
    <2>2. pc' \in [Request -> PC]
        BY <1>10 DEF TypeOK, Reload, Goto, PC, AfterReload
    <2>3. lost' \in BOOLEAN
        BY <1>10, Zenon DEF Reload
    <2> QED
        BY <1>10, <2>1, <2>2, <2>3 DEF TypeOK, Reload
<1>11. ASSUME NEW r \in Request, ReloadFails(r) PROVE TypeOK'
    <2>1. pc' \in [Request -> PC]
        BY <1>11 DEF TypeOK, ReloadFails, Goto, PC, AfterReload
    <2>2. lost' \in BOOLEAN
        BY <1>11, Zenon DEF ReloadFails
    <2>3. Miss(r)
        BY <1>11 DEF ReloadFails
    <2> QED
        BY <1>11, <2>1, <2>2, <2>3, MissTypes DEF TypeOK, ReloadFails, Miss
<1>12. ASSUME NEW r \in Request, NEW b \in Wsl, CallProcess(r, b) PROVE TypeOK'
    <2>1. left' \in [Request -> SUBSET Wsl] /\ running' \in SUBSET defs'
        BY <1>12 DEF TypeOK, CallProcess, Call
    <2> QED
        BY <1>12, <2>1 DEF TypeOK, CallProcess, Call
<1>13. ASSUME NEW r \in Request, NEW b \in Wsl, CallFails(r, b) PROVE TypeOK'
    <2>1. left' \in [Request -> SUBSET Wsl] /\ Miss(r)
        BY <1>13 DEF TypeOK, CallFails, Call
    <2> QED
        BY <1>13, <2>1, MissTypes DEF TypeOK, CallFails, Call, Miss
<1>14. ASSUME NEW r \in Request, CallsDone(r) PROVE TypeOK'
    <2>1. pc' \in [Request -> PC]
        BY <1>14 DEF TypeOK, CallsDone, Goto, PC
    <2> QED
        BY <1>14, <2>1 DEF TypeOK, CallsDone
<1>15. ASSUME NEW r \in Request, Swap(r) PROVE TypeOK'
    <2>1. loaded' \in SUBSET Bridge /\ pc' \in [Request -> PC]
        BY <1>15 DEF TypeOK, Swap, Goto, PC
    <2> QED
        BY <1>15, <2>1 DEF TypeOK, Swap
<1>16. ASSUME NEW r \in Request, ViewBegin(r) PROVE TypeOK'
    <2>1. writer' \in Request \union {NoOne} /\ pc' \in [Request -> PC]
        BY <1>16 DEF TypeOK, ViewBegin, Goto, PC
    <2> QED
        BY <1>16, <2>1 DEF TypeOK, ViewBegin
<1>17. ASSUME NEW r \in Request, ViewEnd(r) PROVE TypeOK'
    <2>1. writer' \in Request \union {NoOne} /\ Finish(r)
        BY <1>17 DEF TypeOK, ViewEnd
    <2> QED
        BY <1>17, <2>1, FinishTypes DEF TypeOK, ViewEnd
<1>18. ASSUME NEW D \in Files, EditFile(D) PROVE TypeOK'
    <2>1. declared' \in SUBSET Bridge /\ Event
        BY <1>18, DeclaredAssumption DEF EditFile
    <2> QED
        BY <1>18, <2>1, EventTypes DEF TypeOK, EditFile, Event
<1>19. ASSUME NEW w \in Windows, NEW rule \in Rule, Tamper(w, rule) PROVE TypeOK'
    <2>1. netsh' \in [Windows -> Rule] /\ Event
        BY <1>19 DEF TypeOK, Tamper
    <2> QED
        BY <1>19, <2>1, EventTypes DEF TypeOK, Tamper, Event
<1>20. CASE Crash
    <2>1. up' \in BOOLEAN
        BY <1>20, Zenon DEF Crash
    <2>2. defs' = {} /\ running' = {} /\ Event
        BY <1>20 DEF Crash
    <2> QED
        BY <1>20, <2>1, <2>2, EventTypes DEF TypeOK, Crash, Event
<1>21. CASE Boot
    <2>1. up' \in BOOLEAN /\ lost' \in BOOLEAN
        BY <1>21, Zenon DEF Boot
    <2>2. defs' = fragment /\ running' = fragment /\ claims' = {}
        BY <1>21 DEF Boot
    <2>3. UNCHANGED <<listVars, netsh, fragment, reqVars, missed, requests, events, fails>>
        BY <1>21 DEF Boot
    <2> QED
        BY <2>1, <2>2, <2>3 DEF TypeOK, listVars, reqVars
<1>22. CASE UNCHANGED vars
    BY <1>22 DEF TypeOK, vars
<1> QED
    BY <1>1, <1>2, <1>3, <1>4, <1>5, <1>6, <1>7, <1>8, <1>9, <1>10, <1>11, <1>12,
       <1>13, <1>14, <1>15, <1>16, <1>17, <1>18, <1>19, <1>20, <1>21, <1>22, <1>23
    DEF Next, Step, HandleBridgeApply, HandleBridgesApplyAll, HandleBridgePause,
        HandleBridgeReset, RunBridgesApply, RunBridgesPause, RunBridgesReset

(* Bridges is well typed: no request stops or starts what is not a relay,  *)
(* and only relays process-compose knows run.                              *)
THEOREM TypeCorrect == Spec => []TypeOK
BY TypeInit, TypeStep, PTL DEF Spec

-----------------------------------------------------------------------------
(* The fragment *)

(* Most steps neither touch the fragment, nor process-compose's view of    *)
(* it, nor bring a request past its reload.                                *)
LEMMA QuietStep ==
    ASSUME FragmentIsRead,
           UNCHANGED <<fragment, up, defs, lost>>,
           \A q \in Request : pc[q] = "reload" => pc'[q] = "reload"
    PROVE  FragmentIsRead'
BY DEF FragmentIsRead

(* A request that moves from another label leaves those at the reload      *)
(* where they are.                                                         *)
LEMMA GotoElsewhere ==
    ASSUME TypeOK, NEW r \in Request, NEW label, Goto(r, label), pc[r] # "reload"
    PROVE  \A q \in Request : pc[q] = "reload" => pc'[q] = "reload"
BY DEF TypeOK, Goto

(* The writers of the fragment, its readers, and everybody else.           *)
LEMMA FragmentStep == TypeOK /\ FragmentIsRead /\ [Next]_vars => FragmentIsRead'
<1> SUFFICES ASSUME TypeOK, FragmentIsRead, [Next]_vars PROVE FragmentIsRead'
    OBVIOUS
<1> USE DEF listVars, wslVars, reqVars, histVars
<1>1. ASSUME NEW r \in Request, WriteFragment(r) PROVE FragmentIsRead'
    <2>1. pc'[r] = "reload"
        BY <1>1 DEF TypeOK, WriteFragment, Goto
    <2> QED
        BY <2>1 DEF FragmentIsRead
<1>2. ASSUME NEW r \in Request, Reload(r) PROVE FragmentIsRead'
    <2>1. fragment' \subseteq defs' /\ (Reconciles => defs' = fragment')
        BY <1>2 DEF Reload
    <2> QED
        BY <2>1 DEF FragmentIsRead
<1>3. ASSUME NEW r \in Request, ReloadFails(r) PROVE FragmentIsRead'
    BY <1>3 DEF ReloadFails, FragmentIsRead
<1>4. CASE Crash
    BY <1>4 DEF Crash, FragmentIsRead
<1>5. CASE Boot
    BY <1>5 DEF Boot, FragmentIsRead
<1>6. ASSUME NEW r \in Request,
             \/ \E v \in {"apply", "pause", "reset"} : \E t : Begin(r, v, t)
             \/ BeginRefresh(r) \/ BeginList(r)
      PROVE  FragmentIsRead'
    <2>1. UNCHANGED <<fragment, up, defs, lost>>
        BY <1>6 DEF Begin, BeginRefresh, BeginList, Start
    <2>2. pc[r] # "reload" /\ \E label : Goto(r, label)
        BY <1>6 DEF Begin, BeginRefresh, BeginList, Start
    <2> QED
        BY <2>1, <2>2, GotoElsewhere, QuietStep
<1>7. ASSUME NEW r \in Request,
             \/ \E skipped \in SUBSET Windows : Probe(r, skipped)
             \/ \E done, deleted \in SUBSET Windows : ScriptStops(r, done, deleted)
             \/ Elevate(r) \/ Snapshot(r) \/ CallsDone(r) \/ Swap(r) \/ ViewBegin(r)
      PROVE  FragmentIsRead'
    <2>1. UNCHANGED <<fragment, up, defs, lost>>
        BY <1>7 DEF Probe, Elevate, ScriptStops, Snapshot, CallsDone, Swap, ViewBegin
    <2>2. pc[r] # "reload" /\ \E label : Goto(r, label)
        BY <1>7 DEF Probe, Elevate, ScriptStops, Snapshot, CallsDone, Swap, ViewBegin
    <2> QED
        BY <2>1, <2>2, GotoElsewhere, QuietStep
<1>8. ASSUME NEW r \in Request,
             Decline(r) \/ WriteFails(r) \/ ViewEnd(r)
      PROVE  FragmentIsRead'
    <2>1. UNCHANGED <<fragment, up, defs, lost>>
        BY <1>8 DEF Decline, WriteFails, ViewEnd, Abort
    <2>2. pc[r] # "reload" /\ Goto(r, "idle")
        BY <1>8 DEF Decline, WriteFails, ViewEnd, Abort, Finish
    <2> QED
        BY <2>1, <2>2, GotoElsewhere, QuietStep
<1>9. ASSUME NEW r \in Request, NEW b \in Wsl, CallProcess(r, b) \/ CallFails(r, b)
      PROVE  FragmentIsRead'
    <2>1. UNCHANGED <<fragment, up, defs, lost, pc>>
        BY <1>9 DEF CallProcess, CallFails, Call
    <2> QED
        BY <2>1, QuietStep
<1>10. ASSUME (\E D \in Files : EditFile(D))
              \/ (\E w \in Windows, rule \in Rule : Tamper(w, rule))
       PROVE  FragmentIsRead'
    <2>1. UNCHANGED <<fragment, up, defs, lost, pc>>
        BY <1>10 DEF EditFile, Tamper, Event
    <2> QED
        BY <2>1, QuietStep
<1>11. CASE UNCHANGED vars
    <2>1. UNCHANGED <<fragment, up, defs, lost, pc>>
        BY <1>11 DEF vars
    <2> QED
        BY <2>1, QuietStep
<1> QED
    BY <1>1, <1>2, <1>3, <1>4, <1>5, <1>6, <1>7, <1>8, <1>9, <1>10, <1>11
    DEF Next, Step, HandleBridgeApply, HandleBridgesApplyAll, HandleBridgePause,
        HandleBridgeReset, RunBridgesApply, RunBridgesPause, RunBridgesReset

(* Whatever requests, commands and crashes do to each other, once every    *)
(* writer of the fragment has had its reload answered, process-compose     *)
(* knows every relay the fragment declares - and, with a version that      *)
(* drops definitions, no other one.                                        *)
THEOREM FragmentIsAuthoritative == Spec => []FragmentIsRead
<1>1. Init => FragmentIsRead
    BY DEF Init, FragmentIsRead
<1> QED
    BY <1>1, TypeInit, TypeStep, FragmentStep, PTL DEF Spec

-----------------------------------------------------------------------------
(* What an undisturbed request delivers *)

(* The verbs that change something. *)
Work == {"apply", "pause", "reset"}

(* Where a request can be, and what it holds there. *)
Shape(r) ==
    /\ pc[r] \in {"probe", "elevate"} =>
          verb[r] \in Work /\ left[r] = sel[r] \intersect Wsl
    /\ pc[r] \in {"snapshot", "write", "reload"} =>
          \/ verb[r] = "apply" /\ left[r] = sel[r] \intersect Wsl
          \/ verb[r] = "reset" /\ left[r] = {}
    /\ pc[r] = "start" => verb[r] = "apply"
    /\ pc[r] = "stop" => verb[r] \in {"pause", "reset"}
    /\ pc[r] = "swap" => verb[r] = "refresh"
    /\ pc[r] \in {"view", "render"} /\ verb[r] \in Work => left[r] = {}
    /\ pc[r] = "idle" => need[r] = {}
    /\ pc[r] = "idle" => r \notin claims
    /\ verb[r] \in Work /\ r \in Cli => sel[r] \subseteq conf[r]
    /\ verb[r] = "apply" /\ r \in Cli /\ pc[r] = "write" => render[r] = conf[r] \intersect Wsl

(* Why q, which is under way, does not disturb the undisturbed r: they are *)
(* of a kind, and two applies write fragments with each other's relays.    *)
Peace(r, q) ==
    \/ verb[r] = "list"
    \/ verb[q] = "list"
    \/ verb[r] = "pause" /\ verb[q] = "pause"
    \/ /\ verb[r] = "apply" /\ verb[q] = "apply"
       /\ r \in Cli <=> q \in Cli
       /\ r \in Cli => conf[r] = conf[q]
       /\ pc[q] = "write" => sel[r] \intersect Wsl \subseteq render[q]

(* The loaded list still has what an undisturbed web request selected. *)
Listed(r) == verb[r] \in Work /\ r \notin Cli => sel[r] \subseteq loaded

Goal(v) == IF v = "apply" THEN "installed" ELSE "absent"

(* After its probe, the rules of a request are in place, or the script     *)
(* will put them there.                                                    *)
Rules(r) ==
    verb[r] \in Work /\ pc[r] # "probe" =>
        \A w \in sel[r] \intersect Windows : w \in need[r] \/ netsh[w] = Goal(verb[r])

(* How far an apply is: rendered, written, known, and running but for what *)
(* it has still to start.                                                  *)
Applied(r) ==
    verb[r] = "apply" =>
        /\ pc[r] = "write" => sel[r] \intersect Wsl \subseteq render[r]
        /\ pc[r] \in {"reload", "start", "view", "render"} =>
              sel[r] \intersect Wsl \subseteq fragment
        /\ pc[r] \in {"start", "view", "render"} /\ r \notin missed =>
              /\ sel[r] \intersect Wsl \subseteq defs
              /\ sel[r] \intersect Wsl \subseteq running \union left[r]

(* How far a pause or a reset is. *)
Removed(r) ==
    verb[r] \in {"pause", "reset"} /\ r \notin missed =>
        /\ sel[r] \intersect running \subseteq left[r]
        /\ verb[r] = "reset" /\ pc[r] = "write" => sel[r] \intersect render[r] = {}
        /\ verb[r] = "reset" /\ pc[r] \in {"reload", "view", "render"} =>
              sel[r] \intersect fragment = {}

Progress(r) == Rules(r) /\ Applied(r) /\ Removed(r)

Shaped == \A r \in Request : Shape(r)
Peaceful == \A r \in claims, q \in Request : q # r /\ pc[q] # "idle" => Peace(r, q)
Undisturbed == \A r \in claims : Listed(r) /\ Progress(r)

(* The inductive invariant. *)
IInv == TypeOK /\ Shaped /\ Peaceful /\ Undisturbed

(* A step leaves the request q where it is. *)
Same(q) ==
    /\ pc'[q] = pc[q] /\ verb'[q] = verb[q] /\ conf'[q] = conf[q] /\ sel'[q] = sel[q]
    /\ need'[q] = need[q] /\ render'[q] = render[q] /\ left'[q] = left[q]
    /\ q \in missed' <=> q \in missed

(* The steps of the world, and how requests begin. *)
World ==
    \/ \E D \in Files : EditFile(D)
    \/ \E w \in Windows, rule \in Rule : Tamper(w, rule)
    \/ Crash
    \/ Boot

Beginning(r) ==
    \/ \E v \in Work : \E t : Begin(r, v, t)
    \/ BeginRefresh(r) \/ BeginList(r)

(* A step is one of these. *)
LEMMA Steps ==
    ASSUME Next
    PROVE  World \/ \E r \in Request : Beginning(r) \/ Step(r)
BY DEF Next, World, Beginning, Work, HandleBridgeApply, HandleBridgesApplyAll,
       HandleBridgePause, HandleBridgeReset, RunBridgesApply, RunBridgesPause,
       RunBridgesReset

(* An outside event leaves every request where it is, and voids the claims. *)
LEMMA WorldFrame ==
    ASSUME World
    PROVE  UNCHANGED reqVars /\ claims' = {}
BY DEF World, EditFile, Tamper, Crash, Boot, Event

(* A step of one request leaves the others where they are. *)
LEMMA StepFrame ==
    ASSUME TypeOK, NEW r \in Request, Step(r)
    PROVE  /\ \A q \in Request \ {r} : Same(q)
           /\ claims' \subseteq claims
<1> USE DEF TypeOK, Same, Goto, listVars, wslVars, histVars
<1>1. ASSUME NEW skipped \in SUBSET Windows, Probe(r, skipped)
      PROVE  (\A q \in Request \ {r} : Same(q)) /\ claims' \subseteq claims
    BY <1>1 DEF Probe
<1>2. ASSUME Elevate(r) \/ Snapshot(r) \/ WriteFragment(r)
      PROVE  (\A q \in Request \ {r} : Same(q)) /\ claims' \subseteq claims
    BY <1>2 DEF Elevate, Snapshot, WriteFragment
<1>3. ASSUME Decline(r) \/ WriteFails(r) \/ ViewEnd(r)
      PROVE  (\A q \in Request \ {r} : Same(q)) /\ claims' \subseteq claims
    <2>1. Finish(r)
        BY <1>3 DEF Decline, WriteFails, ViewEnd, Abort
    <2>2. render' = render \/ render' = [render EXCEPT ![r] = {}]
        BY <1>3 DEF Decline, WriteFails, ViewEnd
    <2> QED
        BY <2>1, <2>2 DEF Finish
<1>4. ASSUME Reload(r) \/ ReloadFails(r) \/ CallsDone(r)
      PROVE  (\A q \in Request \ {r} : Same(q)) /\ claims' \subseteq claims
    BY <1>4 DEF Reload, ReloadFails, CallsDone, Miss
<1>5. ASSUME NEW b \in Wsl, CallProcess(r, b) \/ CallFails(r, b)
      PROVE  (\A q \in Request \ {r} : Same(q)) /\ claims' \subseteq claims
    BY <1>5 DEF CallProcess, CallFails, Call, Miss
<1>6. ASSUME Swap(r) \/ ViewBegin(r)
      PROVE  (\A q \in Request \ {r} : Same(q)) /\ claims' \subseteq claims
    BY <1>6 DEF Swap, ViewBegin
<1>7. ASSUME NEW done \in SUBSET Windows, NEW deleted \in SUBSET Windows,
             ScriptStops(r, done, deleted)
      PROVE  (\A q \in Request \ {r} : Same(q)) /\ claims' \subseteq claims
    BY <1>7 DEF ScriptStops
<1> QED
    BY <1>1, <1>2, <1>3, <1>4, <1>5, <1>6, <1>7 DEF Step

(* So does its beginning, which claims it and keeps the other claims, or   *)
(* voids them all.                                                         *)
LEMMA BeginFrame ==
    ASSUME TypeOK, NEW r \in Request, Beginning(r)
    PROVE  /\ \A q \in Request \ {r} : Same(q)
           /\ pc[r] = "idle" /\ pc'[r] \in {"probe", "swap", "view"}
           /\ claims' = claims \union {r} \/ claims' = {}
           /\ UNCHANGED <<loaded, declared, netsh, fragment, defs, running, need, render, missed>>
<1> USE DEF TypeOK, Same, Goto, Start, Claim, listVars, wslVars
<1>1. ASSUME NEW v \in Work, NEW t, Begin(r, v, t)
      PROVE  /\ \A q \in Request \ {r} : Same(q)
             /\ pc[r] = "idle" /\ pc'[r] = "probe"
             /\ claims' = claims \union {r} \/ claims' = {}
             /\ UNCHANGED <<loaded, declared, netsh, fragment, defs, running, need, render, missed>>
    BY <1>1 DEF Begin
<1>2. ASSUME BeginRefresh(r) \/ BeginList(r)
      PROVE  /\ \A q \in Request \ {r} : Same(q)
             /\ pc[r] = "idle" /\ pc'[r] \in {"swap", "view"}
             /\ claims' = claims \union {r} \/ claims' = {}
             /\ UNCHANGED <<loaded, declared, netsh, fragment, defs, running, need, render, missed>>
    BY <1>2 DEF BeginRefresh, BeginList
<1> QED
    BY <1>1, <1>2 DEF Beginning

(* Another request's step leaves a request in the shape it is in. *)
LEMMA ShapeFrame ==
    ASSUME NEW q \in Request, Shape(q), Same(q), q \in claims' => q \in claims
    PROVE  Shape(q)'
BY DEF Shape, Same

(* Every step of a request leaves it in shape. *)
LEMMA ShapeMove ==
    ASSUME TypeOK, NEW r \in Request, Shape(r), Step(r)
    PROVE  Shape(r)'
<1> USE DEF TypeOK, Shape, Goto, Work, listVars, wslVars, histVars
<1>1. ASSUME NEW skipped \in SUBSET Windows, Probe(r, skipped) PROVE Shape(r)'
    BY <1>1 DEF Probe, AfterWindows, TouchesFragment
<1>2. ASSUME Elevate(r) PROVE Shape(r)'
    BY <1>2 DEF Elevate, AfterWindows, TouchesFragment
<1>3. ASSUME Snapshot(r) PROVE Shape(r)'
    BY <1>3 DEF Snapshot, RenderComposeFragment, Dropped
<1>4. ASSUME WriteFragment(r) PROVE Shape(r)'
    BY <1>4 DEF WriteFragment
<1>5. ASSUME Decline(r) \/ WriteFails(r) \/ ViewEnd(r)
      PROVE  Shape(r)'
    <2>1. Finish(r)
        BY <1>5 DEF Decline, WriteFails, ViewEnd, Abort
    <2>2. pc'[r] = "idle" /\ verb'[r] = "list" /\ r \notin claims'
        BY <2>1 DEF Finish
    <2>3. need'[r] = {}
        BY <2>1 DEF Finish
    <2> QED
        BY <2>2, <2>3
<1>6. ASSUME Reload(r) \/ ReloadFails(r) PROVE Shape(r)'
    BY <1>6 DEF Reload, ReloadFails, AfterReload, Miss
<1>7. ASSUME NEW b \in Wsl, CallProcess(r, b) \/ CallFails(r, b) PROVE Shape(r)'
    BY <1>7 DEF CallProcess, CallFails, Call, Miss
<1>8. ASSUME CallsDone(r) PROVE Shape(r)'
    BY <1>8 DEF CallsDone
<1>9. ASSUME Swap(r) \/ ViewBegin(r) PROVE Shape(r)'
    BY <1>9 DEF Swap, ViewBegin
<1>10. ASSUME NEW done \in SUBSET Windows, NEW deleted \in SUBSET Windows,
              ScriptStops(r, done, deleted)
       PROVE  Shape(r)'
    BY <1>10 DEF ScriptStops, AfterWindows, TouchesFragment
<1> QED
    BY <1>1, <1>2, <1>3, <1>4, <1>5, <1>6, <1>7, <1>8, <1>9, <1>10 DEF Step

(* Requests begin in shape. *)
LEMMA ShapeBegin ==
    ASSUME TypeOK, NEW r \in Request, Shape(r), Beginning(r)
    PROVE  Shape(r)'
<1> USE DEF TypeOK, Shape, Goto, Work, listVars, wslVars, Start
<1>1. ASSUME NEW v \in Work, NEW t, Begin(r, v, t) PROVE Shape(r)'
    BY <1>1 DEF Begin
<1>2. ASSUME BeginRefresh(r) \/ BeginList(r) PROVE Shape(r)'
    BY <1>2 DEF BeginRefresh, BeginList
<1> QED
    BY <1>1, <1>2 DEF Beginning

(* Every request stays in shape. *)
LEMMA ShapeStep == TypeOK /\ Shaped /\ [Next]_vars => Shaped'
<1> SUFFICES ASSUME TypeOK, Shaped, [Next]_vars, NEW q \in Request
             PROVE  Shape(q)'
    BY DEF Shaped
<1>1. Shape(q)
    BY DEF Shaped
<1>2. CASE World
    BY <1>1, <1>2, WorldFrame DEF Shape, reqVars
<1>3. ASSUME NEW r \in Request, Beginning(r) PROVE Shape(q)'
    <2>1. CASE q = r
        BY <1>1, <1>3, <2>1, ShapeBegin
    <2>2. CASE q # r
        <3>1. Same(q) /\ (q \in claims' => q \in claims)
            BY <1>3, <2>2, BeginFrame
        <3> QED
            BY <1>1, <3>1, ShapeFrame
    <2> QED
        BY <2>1, <2>2
<1>4. ASSUME NEW r \in Request, Step(r) PROVE Shape(q)'
    <2>1. CASE q = r
        BY <1>1, <1>4, <2>1, ShapeMove
    <2>2. CASE q # r
        <3>1. Same(q) /\ (q \in claims' => q \in claims)
            BY <1>4, <2>2, StepFrame
        <3> QED
            BY <1>1, <3>1, ShapeFrame
    <2> QED
        BY <2>1, <2>2
<1>5. CASE UNCHANGED vars
    BY <1>1, <1>5 DEF Shape, vars, reqVars, histVars
<1> QED
    BY <1>2, <1>3, <1>4, <1>5, Steps

-----------------------------------------------------------------------------
(* Rivals *)

(* A request under way that changes something beside an undisturbed one is *)
(* another apply, of the same list, or another pause.                      *)
LEMMA Rivals ==
    ASSUME Peaceful, NEW s \in claims, NEW r \in Request, r # s,
           pc[r] # "idle", verb[r] # "list", verb[s] \in Work
    PROVE  /\ verb[r] = verb[s]
           /\ verb[s] \in {"apply", "pause"}
           /\ verb[s] = "apply" =>
                /\ s \in Cli <=> r \in Cli
                /\ s \in Cli => conf[s] = conf[r]
                /\ pc[r] = "write" => sel[s] \intersect Wsl \subseteq render[r]
BY DEF Peaceful, Peace, Work

(* Two requests that neither begin, nor reach the write of a fragment,     *)
(* stay at peace.                                                          *)
LEMMA PeaceFrame ==
    ASSUME NEW r \in Request, NEW q \in Request, Peace(r, q),
           verb'[r] = verb[r], conf'[r] = conf[r], sel'[r] = sel[r],
           verb'[q] = verb[q], conf'[q] = conf[q],
           pc'[q] = "write" => pc[q] = "write" /\ render'[q] = render[q]
    PROVE  Peace(r, q)'
BY DEF Peace

(* A step that does not end a request keeps what it works from.            *)
LEMMA Kept ==
    ASSUME TypeOK, NEW r \in Request, Step(r), pc'[r] # "idle"
    PROVE  /\ verb'[r] = verb[r] /\ conf'[r] = conf[r] /\ sel'[r] = sel[r]
           /\ pc'[r] = "write" => \/ Snapshot(r)
                                  \/ pc[r] = "write" /\ render'[r] = render[r]
<1> USE DEF TypeOK, Goto
<1>1. ASSUME NEW skipped \in SUBSET Windows, Probe(r, skipped)
      PROVE  verb' = verb /\ conf' = conf /\ sel' = sel /\ pc'[r] # "write"
    BY <1>1 DEF Probe, AfterWindows
<1>2. ASSUME Elevate(r) \/ WriteFragment(r)
      PROVE  verb' = verb /\ conf' = conf /\ sel' = sel /\ pc'[r] # "write"
    BY <1>2 DEF Elevate, WriteFragment, AfterWindows
<1>3. CASE Snapshot(r)
    BY <1>3 DEF Snapshot
<1>4. ASSUME Decline(r) \/ WriteFails(r) \/ ViewEnd(r)
      PROVE  pc'[r] = "idle"
    BY <1>4 DEF Decline, WriteFails, ViewEnd, Abort, Finish
<1>5. ASSUME Reload(r) \/ ReloadFails(r) \/ CallsDone(r)
      PROVE  verb' = verb /\ conf' = conf /\ sel' = sel /\ pc'[r] # "write"
    BY <1>5 DEF Reload, ReloadFails, CallsDone, AfterReload
<1>6. ASSUME NEW b \in Wsl, CallProcess(r, b) \/ CallFails(r, b)
      PROVE  verb' = verb /\ conf' = conf /\ sel' = sel /\ pc'[r] # "write"
    BY <1>6 DEF CallProcess, CallFails, Call
<1>7. ASSUME Swap(r) \/ ViewBegin(r)
      PROVE  verb' = verb /\ conf' = conf /\ sel' = sel /\ pc'[r] # "write"
    BY <1>7 DEF Swap, ViewBegin
<1>8. ASSUME NEW done \in SUBSET Windows, NEW deleted \in SUBSET Windows,
             ScriptStops(r, done, deleted)
      PROVE  verb' = verb /\ conf' = conf /\ sel' = sel /\ pc'[r] # "write"
    BY <1>8 DEF ScriptStops, AfterWindows
<1> QED
    BY <1>1, <1>2, <1>3, <1>4, <1>5, <1>6, <1>7, <1>8 DEF Step

(* A request under way stays under way, or ends. *)
LEMMA Moving ==
    ASSUME TypeOK, NEW r \in Request, Step(r)
    PROVE  pc[r] # "idle" /\ (pc'[r] = "idle" => r \notin claims')
<1> USE DEF TypeOK, Goto
<1>1. ASSUME NEW skipped \in SUBSET Windows, Probe(r, skipped)
      PROVE  pc[r] # "idle" /\ pc'[r] # "idle"
    BY <1>1 DEF Probe, AfterWindows
<1>2. ASSUME Elevate(r) \/ WriteFragment(r) \/ Snapshot(r)
      PROVE  pc[r] # "idle" /\ pc'[r] # "idle"
    BY <1>2 DEF Elevate, WriteFragment, Snapshot, AfterWindows
<1>3. ASSUME Decline(r) \/ WriteFails(r) \/ ViewEnd(r)
      PROVE  pc[r] # "idle" /\ r \notin claims'
    BY <1>3 DEF Decline, WriteFails, ViewEnd, Abort, Finish
<1>4. ASSUME Reload(r) \/ ReloadFails(r) \/ CallsDone(r)
      PROVE  pc[r] # "idle" /\ pc'[r] # "idle"
    BY <1>4 DEF Reload, ReloadFails, CallsDone, AfterReload
<1>5. ASSUME NEW b \in Wsl, CallProcess(r, b) \/ CallFails(r, b)
      PROVE  pc[r] # "idle" /\ pc'[r] # "idle"
    BY <1>5 DEF CallProcess, CallFails, Call
<1>6. ASSUME Swap(r) \/ ViewBegin(r)
      PROVE  pc[r] # "idle" /\ pc'[r] # "idle"
    BY <1>6 DEF Swap, ViewBegin
<1>7. ASSUME NEW done \in SUBSET Windows, NEW deleted \in SUBSET Windows,
             ScriptStops(r, done, deleted)
      PROVE  pc[r] # "idle" /\ pc'[r] # "idle"
    BY <1>7 DEF ScriptStops, AfterWindows
<1> QED
    BY <1>1, <1>2, <1>3, <1>4, <1>5, <1>6, <1>7 DEF Step

(* An apply that renders the fragment beside an undisturbed one declares   *)
(* the relays of both.                                                     *)
LEMMA RendersBoth ==
    ASSUME TypeOK, Shaped, Peaceful, NEW s \in claims, Listed(s),
           NEW r \in Request, r # s, Snapshot(r)
    PROVE  Peace(s, r)'
<1>1. Same(s)
    BY StepFrame DEF Step, TypeOK
<1>2. Peace(s, r)
    BY DEF Peaceful, Snapshot
<1>3. verb' = verb /\ conf' = conf /\ sel' = sel
    BY DEF Snapshot
<1>4. CASE ~(verb[s] = "apply" /\ verb[r] = "apply")
    BY <1>2, <1>3, <1>4 DEF Peace
<1>5. CASE verb[s] = "apply" /\ verb[r] = "apply"
    <2>1. (s \in Cli <=> r \in Cli) /\ (s \in Cli => conf[s] = conf[r])
        BY <1>2, <1>5 DEF Peace
    <2>2. s \in Request /\ Shape(s)
        BY DEF TypeOK, Shaped
    <2>3. sel[s] \subseteq IF r \in Cli THEN conf[r] ELSE loaded
        BY <1>5, <2>1, <2>2 DEF Shape, Listed, Work
    <2>4. render'[r] = (IF r \in Cli THEN conf[r] ELSE loaded) \intersect Wsl
        BY <1>5 DEF Snapshot, TypeOK, RenderComposeFragment, Dropped
    <2>5. sel'[s] \intersect Wsl \subseteq render'[r]
        BY <1>3, <2>3, <2>4
    <2> QED
        BY <1>3, <1>5, <2>1, <2>5 DEF Peace
<1> QED
    BY <1>4, <1>5

(* A request that begins without voiding the claims is at peace with all   *)
(* that are under way, and they with it.                                   *)
LEMMA PeaceBegin ==
    ASSUME TypeOK, Shaped, NEW r \in Request, Beginning(r), r \in claims',
           NEW q \in Request, q # r, pc[q] # "idle"
    PROVE  Peace(r, q)' /\ (q \in claims => Peace(q, r)')
<1>1. Same(q) /\ Shape(q)
    BY BeginFrame DEF Shaped
<1>2. ASSUME NEW v \in Work, NEW t, Begin(r, v, t)
      PROVE  Peace(r, q)' /\ (q \in claims => Peace(q, r)')
    <2>1. Start(r, v) /\ verb'[r] = v /\ pc'[r] = "probe"
        BY <1>2 DEF TypeOK, Begin, Start, Goto
    <2>2. Compatible(q, v, r)
        BY <2>1 DEF Start, Claim
    <2>3. CASE "list" \in {verb[q], v} \/ (verb[q] = v /\ v = "pause")
        BY <1>1, <2>1, <2>3 DEF Peace, Same
    <2>4. CASE verb[q] = v /\ v = "apply" /\ SameList(q, r)
        <3>1. r \in Cli <=> q \in Cli
            BY <2>4 DEF SameList
        <3>2. r \in Cli => conf'[r] = conf[q]
            BY <1>2, <2>4 DEF SameList, Begin, TypeOK
        <3>3. pc[q] = "write" => sel'[r] \intersect Wsl \subseteq render[q]
            BY <1>1, <1>2, <2>4 DEF SameList, Begin, TypeOK, Shape
        <3> QED
            BY <1>1, <2>1, <2>4, <3>1, <3>2, <3>3 DEF Peace, Same
    <2> QED
        BY <2>2, <2>3, <2>4 DEF Compatible
<1>3. ASSUME NEW v \in {"refresh", "list"}, Start(r, v), pc'[r] # "write"
      PROVE  Peace(r, q)' /\ (q \in claims => Peace(q, r)')
    <2>1. verb'[r] = v
        BY <1>3 DEF TypeOK, Start
    <2>2. Compatible(q, v, r)
        BY <1>3 DEF Start, Claim
    <2> QED
        BY <1>1, <1>3, <2>1, <2>2 DEF Peace, Same, Compatible
<1> QED
    BY <1>2, <1>3, BeginFrame DEF Beginning, BeginRefresh, BeginList

(* Undisturbed requests stay at peace with what runs beside them. *)
LEMMA PeaceStep == IInv /\ [Next]_vars => Peaceful'
<1> SUFFICES ASSUME IInv, [Next]_vars,
                    NEW s \in claims', NEW q \in Request, q # s, pc'[q] # "idle"
             PROVE  Peace(s, q)'
    BY DEF Peaceful
<1> USE DEF IInv
<1>1. CASE World
    BY <1>1, WorldFrame
<1>2. ASSUME NEW r \in Request, Beginning(r) PROVE Peace(s, q)'
    <2>1. s \in claims \union {r} /\ r \in claims' /\ s \in Request
        BY <1>2, BeginFrame DEF TypeOK
    <2>2. CASE s = r
        <3>1. pc[q] # "idle"
            BY <1>2, <2>2, BeginFrame DEF Same
        <3> QED
            BY <1>2, <2>1, <2>2, <3>1, PeaceBegin
    <2>3. CASE q = r
        <3>1. s \in claims /\ pc[s] # "idle"
            BY <2>1, <2>3 DEF Shaped, Shape
        <3> QED
            BY <1>2, <2>1, <2>3, <3>1, PeaceBegin
    <2>4. CASE s # r /\ q # r
        <3>1. Same(s) /\ Same(q) /\ s \in claims
            BY <1>2, <2>1, <2>4, BeginFrame
        <3>2. Peace(s, q)
            BY <3>1 DEF Peaceful, Same
        <3> QED
            BY <2>1, <3>1, <3>2, PeaceFrame DEF Same
    <2> QED
        BY <2>2, <2>3, <2>4
<1>3. ASSUME NEW r \in Request, Step(r) PROVE Peace(s, q)'
    <2>1. s \in claims /\ s \in Request
        BY <1>3, StepFrame DEF TypeOK
    <2>2. pc[q] # "idle"
        BY <1>3, StepFrame, Moving DEF Same
    <2>3. Peace(s, q)
        BY <2>1, <2>2 DEF Peaceful
    <2>4. CASE s = r
        <3>1. Same(q) /\ pc'[s] # "idle"
            BY <1>3, <2>4, StepFrame, Moving
        <3> QED
            BY <1>3, <2>1, <2>3, <2>4, <3>1, Kept, PeaceFrame DEF Same
    <2>5. CASE q = r
        <3>1. Same(s)
            BY <1>3, <2>1, <2>5, StepFrame
        <3>2. CASE Snapshot(r)
            BY <2>1, <2>5, <3>2, RendersBoth DEF Undisturbed
        <3>3. CASE ~Snapshot(r)
            BY <1>3, <2>1, <2>3, <2>5, <3>1, <3>3, Kept, PeaceFrame DEF Same
        <3> QED
            BY <3>2, <3>3
    <2>6. CASE s # r /\ q # r
        <3>1. Same(s) /\ Same(q)
            BY <1>3, <2>1, <2>6, StepFrame
        <3> QED
            BY <2>1, <2>3, <3>1, PeaceFrame DEF Same
    <2> QED
        BY <2>4, <2>5, <2>6
<1>4. CASE UNCHANGED vars
    BY <1>4 DEF Peaceful, Peace, vars, reqVars, histVars
<1> QED
    BY <1>1, <1>2, <1>3, <1>4, Steps

-----------------------------------------------------------------------------
(* Progress *)

(* A step of another request takes nothing from what s has achieved. *)
Harmless(s) ==
    /\ Same(s)
    /\ verb[s] \in Work => loaded' = loaded
    /\ verb[s] \in Work =>
          \A w \in sel[s] \intersect Windows : netsh'[w] \in {netsh[w], Goal(verb[s])}
    /\ verb[s] = "apply" =>
          \A x \in sel[s] \intersect Wsl :
              /\ x \in fragment => x \in fragment'
              /\ x \in fragment /\ x \in defs => x \in defs'
              /\ x \in fragment /\ x \in defs /\ x \in running => x \in running'
    /\ verb[s] \in {"pause", "reset"} => sel[s] \intersect running' \subseteq running
    /\ verb[s] = "reset" => sel[s] \intersect fragment' \subseteq fragment

LEMMA HarmlessKeeps ==
    ASSUME NEW s \in Request, Listed(s), Progress(s), Harmless(s)
    PROVE  Listed(s)' /\ Progress(s)'
<1> USE DEF Harmless, Same
<1>1. Listed(s)'
    BY DEF Listed
<1>2. Rules(s)'
    BY DEF Progress, Rules
<1>3. Applied(s)'
    BY DEF Progress, Applied
<1>4. Removed(s)'
    BY DEF Progress, Removed
<1> QED
    BY <1>1, <1>2, <1>3, <1>4 DEF Progress

(* Steps that leave the rules, the fragment and process-compose alone. *)
LEMMA HarmlessIdle ==
    ASSUME NEW s \in Request, Same(s), UNCHANGED <<loaded, netsh, fragment, defs, running>>
    PROVE  Harmless(s)
BY DEF Harmless

(* An elevated script installs what an apply beside it wants installed,    *)
(* and removes what a pause beside it wants removed.                       *)
LEMMA HarmlessScript ==
    ASSUME TypeOK, Shaped, Peaceful, NEW r \in Request, NEW s \in claims, s # r, Same(s),
           pc[r] = "elevate", NEW done, Script(r, done, {}),
           UNCHANGED <<loaded, fragment, defs, running>>
    PROVE  Harmless(s)
<1>1. verb[r] \in Work
    BY DEF Shaped, Shape
<1>2. verb[s] \in Work => Goal(verb[r]) = Goal(verb[s])
    BY <1>1, Rivals DEF Work
<1>3. \A w \in Windows : netsh'[w] \in {netsh[w], Goal(verb[r])}
    BY DEF Script, Goal
<1> QED
    BY <1>2, <1>3 DEF Harmless

(* A fragment written, or reloaded, beside an apply has its relays.        *)
LEMMA HarmlessWrite ==
    ASSUME TypeOK, Shaped, Peaceful, NEW r \in Request, NEW s \in claims, s # r, Same(s),
           WriteFragment(r)
    PROVE  Harmless(s)
<1>1. pc[r] = "write" /\ fragment' = render[r]
      /\ UNCHANGED <<loaded, netsh, defs, running>>
    BY DEF WriteFragment, listVars
<1>2. verb[r] \in {"apply", "reset"}
    BY <1>1 DEF Shaped, Shape
<1>3. verb[s] \in Work => verb[s] = "apply" /\ sel[s] \intersect Wsl \subseteq render[r]
    BY <1>1, <1>2, Rivals DEF Work
<1> QED
    BY <1>1, <1>3 DEF Harmless, Work

LEMMA HarmlessReload ==
    ASSUME TypeOK, Shaped, Peaceful, NEW r \in Request, NEW s \in claims, s # r, Same(s),
           Reload(r)
    PROVE  Harmless(s)
<1>1. /\ pc[r] = "reload"
      /\ defs' = IF Reconciles THEN fragment ELSE defs \union fragment
      /\ running' = (running \intersect defs') \union (fragment \ defs)
      /\ UNCHANGED <<loaded, netsh, fragment>>
    BY DEF Reload, listVars
<1>2. verb[r] \in {"apply", "reset"}
    BY <1>1 DEF Shaped, Shape
<1>3. verb[s] \in Work => verb[s] = "apply"
    BY <1>1, <1>2, Rivals DEF Work
<1>4. \A x \in fragment : x \in defs' /\ (x \in running => x \in running')
    BY <1>1
<1> QED
    BY <1>1, <1>3, <1>4 DEF Harmless, Work

(* Relays are started beside applies only, and stopped beside pauses only. *)
LEMMA HarmlessCall ==
    ASSUME TypeOK, Shaped, Peaceful, NEW r \in Request, NEW s \in claims, s # r, Same(s),
           NEW b \in Wsl, CallProcess(r, b)
    PROVE  Harmless(s)
<1>1. /\ pc[r] \in {"start", "stop"}
      /\ running' = IF pc[r] = "stop" THEN running \ {b}
                    ELSE running \union ({b} \intersect defs)
      /\ UNCHANGED <<loaded, netsh, fragment, defs>>
    BY DEF CallProcess, Call, listVars
<1>2. /\ pc[r] = "start" => verb[r] = "apply"
      /\ pc[r] = "stop" => verb[r] \in {"pause", "reset"}
    BY DEF Shaped, Shape
<1>3. verb[s] \in Work => verb[s] = verb[r]
    BY <1>1, <1>2, Rivals
<1> QED
    BY <1>1, <1>2, <1>3 DEF Harmless, Work

(* No refresh runs beside an undisturbed request. *)
LEMMA HarmlessSwap ==
    ASSUME TypeOK, Shaped, Peaceful, NEW r \in Request, NEW s \in claims, s # r, Same(s),
           Swap(r)
    PROVE  Harmless(s)
<1>1. pc[r] = "swap" /\ UNCHANGED <<netsh, fragment, defs, running>>
    BY DEF Swap, wslVars
<1>2. verb[r] = "refresh"
    BY <1>1 DEF Shaped, Shape
<1>3. verb[s] \notin Work
    BY <1>1, <1>2, Rivals DEF Work
<1> QED
    BY <1>1, <1>3 DEF Harmless, Work

(* What runs beside an undisturbed request is harmless to it. *)
LEMMA StepHarmless ==
    ASSUME TypeOK, Shaped, Peaceful, NEW r \in Request, Step(r),
           NEW s \in claims', s # r
    PROVE  Harmless(s)
<1>1. s \in claims /\ s \in Request /\ Same(s)
    BY StepFrame DEF TypeOK
<1> USE <1>1 DEF listVars, wslVars
<1>2. ASSUME NEW skipped \in SUBSET Windows, Probe(r, skipped) PROVE Harmless(s)
    BY <1>2, HarmlessIdle DEF Probe
<1>3. ASSUME Elevate(r) PROVE Harmless(s)
    BY <1>3, HarmlessScript DEF Elevate
<1>4. ASSUME NEW done \in SUBSET Windows, NEW deleted \in SUBSET Windows,
             ScriptStops(r, done, deleted)
      PROVE  Harmless(s)
    <2>1. deleted = {}
        BY <1>4 DEF ScriptStops
    <2> QED
        BY <1>4, <2>1, HarmlessScript DEF ScriptStops
<1>5. ASSUME Decline(r) \/ Snapshot(r) \/ WriteFails(r) \/ ReloadFails(r) \/ CallsDone(r)
             \/ ViewBegin(r) \/ ViewEnd(r)
      PROVE  Harmless(s)
    BY <1>5, HarmlessIdle
    DEF Decline, Snapshot, WriteFails, ReloadFails, CallsDone, ViewBegin, ViewEnd
<1>6. ASSUME NEW b \in Wsl, CallFails(r, b) PROVE Harmless(s)
    BY <1>6, HarmlessIdle DEF CallFails, Call
<1> QED
    BY <1>2, <1>3, <1>4, <1>5, <1>6, HarmlessWrite, HarmlessReload, HarmlessCall,
       HarmlessSwap DEF Step

(* The request's own steps: each brings it nearer to what it promises. *)
LEMMA OwnProgress ==
    ASSUME TypeOK, NEW r \in Request, Shape(r), Listed(r), Progress(r), Step(r),
           r \in claims'
    PROVE  Listed(r)' /\ Progress(r)'
<1> USE DEF TypeOK, Shape, Goto, Work, listVars, wslVars, histVars
<1>1. ASSUME NEW skipped \in SUBSET Windows, Probe(r, skipped)
      PROVE  Listed(r)' /\ Progress(r)'
    <2>1. UNCHANGED <<loaded, netsh, fragment, defs, running, verb, sel, left, missed>>
        BY <1>1 DEF Probe
    <2>2. /\ need'[r] = (sel[r] \intersect Windows) \ skipped
          /\ skipped \subseteq Settled(r)
          /\ pc[r] = "probe" /\ pc'[r] \in {"elevate", "snapshot", "stop", "view"}
          /\ pc'[r] = "view" => left[r] = {}
        BY <1>1 DEF Probe, AfterWindows, TouchesFragment
    <2>3. Rules(r)'
        BY <2>1, <2>2 DEF Rules, Settled, Goal
    <2>4. Applied(r)'
        BY <2>1, <2>2 DEF Progress, Applied
    <2>5. Removed(r)'
        BY <2>1, <2>2 DEF Progress, Removed
    <2> QED
        BY <2>1, <2>3, <2>4, <2>5 DEF Progress, Listed
<1>2. ASSUME Elevate(r) PROVE Listed(r)' /\ Progress(r)'
    <2>1. UNCHANGED <<loaded, fragment, defs, running, verb, sel, left, missed>>
        BY <1>2 DEF Elevate
    <2>2. /\ pc[r] = "elevate" /\ pc'[r] \in {"snapshot", "stop", "view"}
          /\ pc'[r] = "view" => left[r] = {}
        BY <1>2 DEF Elevate, AfterWindows, TouchesFragment
    <2>3. Rules(r)'
        BY <1>2, <2>1, <2>2 DEF Progress, Rules, Elevate, Script, Goal
    <2>4. Applied(r)'
        BY <2>1, <2>2 DEF Progress, Applied
    <2>5. Removed(r)'
        BY <2>1, <2>2 DEF Progress, Removed
    <2> QED
        BY <2>1, <2>3, <2>4, <2>5 DEF Progress, Listed
<1>3. ASSUME Snapshot(r) PROVE Listed(r)' /\ Progress(r)'
    <2>1. /\ UNCHANGED <<loaded, netsh, fragment, defs, running, verb, sel, need, left, missed>>
          /\ pc[r] = "snapshot" /\ pc'[r] = "write"
        BY <1>3 DEF Snapshot
    <2>2. render'[r] = ((IF r \in Cli THEN conf[r] ELSE loaded) \ Dropped(r)) \intersect Wsl
        BY <1>3 DEF Snapshot, RenderComposeFragment
    <2>3. verb[r] \in Work
        BY <2>1
    <2>4. Rules(r)'
        BY <2>1 DEF Progress, Rules
    <2>5. Applied(r)'
        BY <2>1, <2>2 DEF Applied, Listed, Dropped
    <2>6. Removed(r)'
        BY <2>1, <2>2 DEF Progress, Removed, Dropped
    <2> QED
        BY <2>1, <2>4, <2>5, <2>6 DEF Progress, Listed
<1>4. ASSUME WriteFragment(r) PROVE Listed(r)' /\ Progress(r)'
    <2>1. /\ UNCHANGED <<loaded, netsh, defs, running, verb, sel, need, left, missed>>
          /\ pc[r] = "write" /\ pc'[r] = "reload" /\ fragment' = render[r]
        BY <1>4 DEF WriteFragment
    <2>2. Rules(r)'
        BY <2>1 DEF Progress, Rules
    <2>3. Applied(r)'
        BY <2>1 DEF Progress, Applied
    <2>4. Removed(r)'
        BY <2>1 DEF Progress, Removed
    <2> QED
        BY <2>1, <2>2, <2>3, <2>4 DEF Progress, Listed
<1>5. ASSUME Reload(r) PROVE Listed(r)' /\ Progress(r)'
    <2>1. /\ UNCHANGED <<loaded, netsh, fragment, verb, sel, need, left, missed>>
          /\ pc[r] = "reload" /\ pc'[r] = IF verb[r] = "apply" THEN "start" ELSE "view"
          /\ defs' = IF Reconciles THEN fragment ELSE defs \union fragment
          /\ running' = (running \intersect defs') \union (fragment \ defs)
        BY <1>5 DEF Reload, AfterReload
    <2>2. Rules(r)'
        BY <2>1 DEF Progress, Rules
    <2>3. Applied(r)'
        BY <2>1 DEF Progress, Applied
    <2>4. Removed(r)'
        BY <2>1 DEF Progress, Removed
    <2> QED
        BY <2>1, <2>2, <2>3, <2>4 DEF Progress, Listed
<1>6. ASSUME ReloadFails(r) PROVE Listed(r)' /\ Progress(r)'
    <2>1. /\ UNCHANGED <<loaded, netsh, fragment, defs, running, verb, sel, need, left>>
          /\ pc[r] = "reload" /\ pc'[r] = IF verb[r] = "apply" THEN "start" ELSE "view"
          /\ r \in missed'
        BY <1>6 DEF ReloadFails, AfterReload, Miss
    <2>2. Rules(r)' /\ Applied(r)' /\ Removed(r)'
        BY <2>1 DEF Progress, Rules, Applied, Removed
    <2> QED
        BY <2>1, <2>2 DEF Progress, Listed
<1>7. ASSUME NEW b \in Wsl, CallProcess(r, b) PROVE Listed(r)' /\ Progress(r)'
    <2>1. /\ UNCHANGED <<loaded, netsh, fragment, defs, pc, verb, sel, need, missed>>
          /\ pc[r] \in {"start", "stop"} /\ left'[r] = left[r] \ {b}
          /\ running' = IF pc[r] = "stop" THEN running \ {b}
                        ELSE running \union ({b} \intersect defs)
        BY <1>7 DEF CallProcess, Call
    <2>2. Rules(r)'
        BY <2>1 DEF Progress, Rules
    <2>3. Applied(r)'
        BY <2>1 DEF Progress, Applied
    <2>4. Removed(r)'
        BY <2>1 DEF Progress, Removed
    <2> QED
        BY <2>1, <2>2, <2>3, <2>4 DEF Progress, Listed
<1>8. ASSUME NEW b \in Wsl, CallFails(r, b) PROVE Listed(r)' /\ Progress(r)'
    <2>1. /\ UNCHANGED <<loaded, netsh, fragment, defs, running, pc, verb, sel, need>>
          /\ pc[r] \in {"start", "stop"} /\ r \in missed'
        BY <1>8 DEF CallFails, Call, Miss
    <2>2. Rules(r)' /\ Applied(r)' /\ Removed(r)'
        BY <2>1 DEF Progress, Rules, Applied, Removed
    <2> QED
        BY <2>1, <2>2 DEF Progress, Listed
<1>9. ASSUME CallsDone(r) PROVE Listed(r)' /\ Progress(r)'
    <2>1. /\ UNCHANGED <<loaded, netsh, fragment, defs, running, verb, sel, need, left, missed>>
          /\ pc[r] \in {"start", "stop"} /\ left[r] = {}
          /\ pc'[r] = IF pc[r] = "stop" /\ verb[r] = "reset" THEN "snapshot" ELSE "view"
        BY <1>9 DEF CallsDone
    <2>2. Rules(r)'
        BY <2>1 DEF Progress, Rules
    <2>3. Applied(r)' /\ Removed(r)'
        BY <2>1 DEF Progress, Applied, Removed
    <2> QED
        BY <2>1, <2>2, <2>3 DEF Progress, Listed
<1>10. ASSUME Swap(r) PROVE Listed(r)' /\ Progress(r)'
    <2>1. verb[r] = "refresh" /\ verb' = verb
        BY <1>10 DEF Swap
    <2> QED
        BY <2>1 DEF Progress, Rules, Applied, Removed, Listed
<1>11. ASSUME ViewBegin(r) PROVE Listed(r)' /\ Progress(r)'
    <2>1. /\ UNCHANGED <<loaded, netsh, fragment, defs, running, verb, sel, need, left, missed>>
          /\ pc[r] = "view" /\ pc'[r] = "render"
        BY <1>11 DEF ViewBegin
    <2> QED
        BY <2>1 DEF Progress, Rules, Applied, Removed, Listed
<1>12. ASSUME Decline(r) \/ WriteFails(r) \/ ViewEnd(r)
       PROVE  FALSE
    BY <1>12 DEF Decline, WriteFails, ViewEnd, Abort, Finish
<1>13. ASSUME NEW done \in SUBSET Windows, NEW deleted \in SUBSET Windows,
              ScriptStops(r, done, deleted)
       PROVE  Listed(r)' /\ Progress(r)'
    <2>1. UNCHANGED <<loaded, fragment, defs, running, verb, sel, left, missed>>
        BY <1>13 DEF ScriptStops
    <2>2. /\ pc[r] = "elevate" /\ pc'[r] \in {"snapshot", "stop", "view"}
          /\ pc'[r] = "view" => left[r] = {}
        BY <1>13 DEF ScriptStops, AfterWindows, TouchesFragment
    <2>3. /\ need'[r] = need[r] \ done /\ deleted \subseteq need[r] \ done
          /\ \A w \in Windows : netsh'[w] = IF w \in done THEN Goal(verb[r])
                                            ELSE IF w \in deleted THEN "absent" ELSE netsh[w]
        BY <1>13 DEF ScriptStops, Script, Goal
    <2>4. Rules(r)'
        BY <2>1, <2>2, <2>3 DEF Progress, Rules
    <2>5. Applied(r)'
        BY <2>1, <2>2 DEF Progress, Applied
    <2>6. Removed(r)'
        BY <2>1, <2>2 DEF Progress, Removed
    <2> QED
        BY <2>1, <2>4, <2>5, <2>6 DEF Progress, Listed
<1> QED
    BY <1>1, <1>2, <1>3, <1>4, <1>5, <1>6, <1>7, <1>8, <1>9, <1>10, <1>11, <1>12,
       <1>13 DEF Step

(* A request that begins has nothing to show yet, and selects from the     *)
(* list it will render.                                                    *)
LEMMA ProgressBegin ==
    ASSUME TypeOK, NEW r \in Request, Shape(r), Beginning(r)
    PROVE  Listed(r)' /\ Progress(r)'
<1> USE DEF TypeOK, Goto, Work, listVars, wslVars, Start
<1>1. ASSUME NEW v \in Work, NEW t, Begin(r, v, t) PROVE Listed(r)' /\ Progress(r)'
    <2>1. pc'[r] = "probe" /\ verb'[r] = v /\ UNCHANGED <<loaded, running>>
        BY <1>1 DEF Begin
    <2>2. /\ r \notin Cli => sel'[r] \subseteq loaded
          /\ left'[r] = sel'[r] \intersect Wsl
        BY <1>1 DEF Begin
    <2> QED
        BY <2>1, <2>2 DEF Listed, Progress, Rules, Applied, Removed
<1>2. ASSUME BeginRefresh(r) \/ BeginList(r) PROVE Listed(r)' /\ Progress(r)'
    <2>1. verb'[r] \in {"refresh", "list"}
        BY <1>2 DEF BeginRefresh, BeginList
    <2> QED
        BY <2>1 DEF Listed, Progress, Rules, Applied, Removed
<1> QED
    BY <1>1, <1>2 DEF Beginning

(* Undisturbed requests keep what they have achieved. *)
LEMMA ProgressStep == IInv /\ [Next]_vars => Undisturbed'
<1> SUFFICES ASSUME IInv, [Next]_vars, NEW s \in claims'
             PROVE  Listed(s)' /\ Progress(s)'
    BY DEF Undisturbed
<1> USE DEF IInv
<1>1. CASE World
    BY <1>1, WorldFrame
<1>2. ASSUME NEW r \in Request, Beginning(r) PROVE Listed(s)' /\ Progress(s)'
    <2>1. s \in claims \union {r}
        BY <1>2, BeginFrame
    <2>2. CASE s = r
        BY <1>2, <2>2, ProgressBegin DEF Shaped
    <2>3. CASE s # r
        <3>1. s \in claims /\ s \in Request /\ Same(s)
            BY <1>2, <2>1, <2>3, BeginFrame DEF TypeOK
        <3>2. Harmless(s)
            BY <1>2, <3>1, BeginFrame, HarmlessIdle
        <3> QED
            BY <3>1, <3>2, HarmlessKeeps DEF Undisturbed
    <2> QED
        BY <2>2, <2>3
<1>3. ASSUME NEW r \in Request, Step(r) PROVE Listed(s)' /\ Progress(s)'
    <2>1. s \in claims /\ s \in Request
        BY <1>3, StepFrame DEF TypeOK
    <2>2. Listed(s) /\ Progress(s) /\ Shape(s)
        BY <2>1 DEF Undisturbed, Shaped
    <2>3. CASE s = r
        BY <1>3, <2>2, <2>3, OwnProgress
    <2>4. CASE s # r
        BY <1>3, <2>1, <2>2, <2>4, StepHarmless, HarmlessKeeps
    <2> QED
        BY <2>3, <2>4
<1>4. CASE UNCHANGED vars
    BY <1>4 DEF Undisturbed, Listed, Progress, Rules, Applied, Removed,
                vars, listVars, wslVars, reqVars, histVars
<1> QED
    BY <1>1, <1>2, <1>3, <1>4, Steps

(* The inductive invariant holds initially, and every step keeps it.       *)
LEMMA Inductive == Spec => []IInv
<1>1. Init => IInv
    <2> SUFFICES ASSUME Init PROVE IInv
        OBVIOUS
    <2>1. Shaped
        BY DEF Init, Shaped, Shape, Work
    <2>2. Peaceful /\ Undisturbed
        BY DEF Init, Peaceful, Undisturbed
    <2> QED
        BY <2>1, <2>2, TypeInit DEF IInv
<1>2. IInv /\ [Next]_vars => IInv'
    BY TypeStep, ShapeStep, PeaceStep, ProgressStep DEF IInv
<1> QED
    BY <1>1, <1>2, PTL DEF Spec

(* Whatever other requests do at the same time, an apply that responds     *)
(* with every call to process-compose answered, and that no pause, reset,  *)
(* refresh, apply of another list or outside event ran beside, has its     *)
(* relays declared and running, and its netsh rules in place but for those *)
(* its own elevated script stopped before.                                 *)
THEOREM ApplyKeepsItsWord == Spec => []ApplyDelivers
<1>1. IInv => ApplyDelivers
    <2> SUFFICES ASSUME IInv, NEW r \in Request, Completed(r, "apply")
                 PROVE  /\ \A w \in (sel[r] \intersect Windows) \ need[r] : netsh[w] = "installed"
                        /\ sel[r] \intersect Wsl \subseteq fragment \intersect running
        BY DEF ApplyDelivers
    <2>1. /\ pc[r] = "view" /\ verb[r] = "apply" /\ verb[r] \in Work
          /\ r \in claims /\ r \notin missed
        BY DEF Completed, Work
    <2>2. Shape(r) /\ Progress(r)
        BY <2>1 DEF IInv, Shaped, Undisturbed
    <2>3. left[r] = {}
        BY <2>1, <2>2 DEF Shape
    <2>4. \A w \in (sel[r] \intersect Windows) \ need[r] : netsh[w] = "installed"
        BY <2>1, <2>2, <2>3 DEF Progress, Rules, Goal
    <2>5. sel[r] \intersect Wsl \subseteq fragment \intersect running
        BY <2>1, <2>2, <2>3 DEF Progress, Applied
    <2> QED
        BY <2>4, <2>5
<1> QED
    BY <1>1, Inductive, PTL

(* A pause beside which only pauses ran, or a reset beside which nothing   *)
(* but polls did, responds with its relays stopped, and its netsh rules    *)
(* gone but for those its own elevated script stopped before; the reset    *)
(* has its relays out of the fragment too.                                 *)
THEOREM RemovalKeepsItsWord == Spec => []RemovalDelivers
<1>1. IInv => RemovalDelivers
    <2> SUFFICES ASSUME IInv, NEW r \in Request,
                        Completed(r, "pause") \/ Completed(r, "reset")
                 PROVE  /\ \A w \in (sel[r] \intersect Windows) \ need[r] : netsh[w] = "absent"
                        /\ sel[r] \intersect running = {}
                        /\ verb[r] = "reset" => sel[r] \intersect fragment = {}
        BY DEF RemovalDelivers
    <2>1. /\ pc[r] = "view" /\ verb[r] \in {"pause", "reset"} /\ verb[r] \in Work
          /\ r \in claims /\ r \notin missed
        BY DEF Completed, Work
    <2>2. Shape(r) /\ Progress(r)
        BY <2>1 DEF IInv, Shaped, Undisturbed
    <2>3. left[r] = {}
        BY <2>1, <2>2 DEF Shape
    <2>4. \A w \in (sel[r] \intersect Windows) \ need[r] : netsh[w] = "absent"
        BY <2>1, <2>2, <2>3 DEF Progress, Rules, Goal
    <2>5. /\ sel[r] \intersect running = {}
          /\ verb[r] = "reset" => sel[r] \intersect fragment = {}
        BY <2>1, <2>2, <2>3 DEF Progress, Removed
    <2> QED
        BY <2>4, <2>5
<1> QED
    BY <1>1, Inductive, PTL
=============================================================================
