----------------------------- MODULE WakeProofs -----------------------------
(***************************************************************************)
(* Proofs about the wake island and its service worker, for any number of  *)
(* tasks, rounds, versions and faults.                                     *)
(***************************************************************************)
EXTENDS Wake, TLAPS

LEMMA Bounds ==
    /\ MaxTasks \in Nat \ {0} /\ MaxRounds \in Nat /\ MaxVersion \in Nat
    /\ MaxFaults \in Nat /\ MaxGestures \in Nat
BY TasksAssumption, BoundsAssumption

(* The machine, the page and its tasks; the worker and its caches.  A      *)
(* version that is neither active nor waiting has cached nothing yet, so   *)
(* an install overwrites nothing.                                          *)
PageInv ==
    /\ vm \in {"up", "booting", "down"}
    /\ faults \in 0..MaxFaults /\ gestures \in 0..MaxGestures
    /\ visible \in BOOLEAN /\ reloading \in BOOLEAN /\ timer \in BOOLEAN /\ waking \in BOOLEAN
    /\ page \in {"live", "shell", "inert"}
    /\ pill \in {"hidden", "active", "failed"}
    /\ task \in [Task -> Step] /\ left \in [Task -> 0..MaxRounds]
    /\ check \in {"idle", "asking"}
WakeInv == waking \/ pill = "active" => \E t \in Task : task[t] \in {"post", "loop", "wakePing"}
WorkerInv ==
    /\ active \in 0..MaxVersion /\ installing \in {0, active + 1} /\ installing <= MaxVersion
    /\ caches \in [Version -> SUBSET Shell]
    /\ \A v \in Version : v > active /\ v # installing => caches[v] = {}

LEMMA WorkerInit == Init => WorkerInv
BY Bounds DEF Init, WorkerInv, Version

LEMMA WorkerNext == WorkerInv /\ [Next]_vars => WorkerInv'
<1> SUFFICES ASSUME WorkerInv, [Next]_vars PROVE WorkerInv'
    OBVIOUS
<1>1. CASE Load
    BY <1>1, Bounds DEF WorkerInv, Version, Load
<1>2. CASE Install
    BY <1>2, Bounds DEF WorkerInv, Version, Install
<1>3. CASE Activate
    BY <1>3, Bounds, SMTT(30) DEF WorkerInv, Version, Activate, Old
<1>4. CASE UNCHANGED workerVars
    BY <1>4 DEF WorkerInv, workerVars
<1>5. ASSUME NEW t \in Task, Advance(t) PROVE UNCHANGED workerVars
    BY <1>5 DEF Advance, PollAnswered, PollUnanswered, Forwarded, NotForwarded, Posted, NextRound,
                WakeAnswered, WakeUnanswered, TimedOut, RunWake, workerVars
<1>6. Tick \/ Click \/ Hide \/ Show \/ UserReload \/ CheckVersion \/ Boot \/ StartedByOther \/ Stop
      => UNCHANGED workerVars
    BY DEF Tick, Click, RunWake, Hide, Show, UserReload, CheckVersion, Boot, StartedByOther, Stop,
       workerVars
<1> QED
    BY <1>1, <1>2, <1>3, <1>4, <1>5, <1>6 DEF Next, vars

LEMMA PageInit == Init => PageInv /\ WakeInv
<1> SUFFICES ASSUME Init PROVE PageInv /\ WakeInv
    OBVIOUS
<1>1. task \in [Task -> Step]
    BY DEF Init, NoTasks, Step
<1>2. left \in [Task -> 0..MaxRounds]
    BY Bounds DEF Init
<1> QED
    <2>1. vm = "up" /\ faults = 0 /\ gestures = 0 /\ page = "live" /\ pill = "hidden" /\ check = "idle"
        BY DEF Init
    <2>2. visible = TRUE /\ reloading = FALSE /\ timer = TRUE /\ waking = FALSE
        BY DEF Init
    <2>3. faults \in 0..MaxFaults /\ gestures \in 0..MaxGestures
        BY <2>1, Bounds
    <2>4. visible \in BOOLEAN /\ reloading \in BOOLEAN /\ timer \in BOOLEAN /\ waking \in BOOLEAN
        BY <2>2
    <2>5. WakeInv
        BY <2>1, <2>2 DEF WakeInv
    <2> QED
        BY <1>1, <1>2, <2>1, <2>3, <2>4, <2>5 DEF PageInv

LEMMA PageNext == PageInv /\ WakeInv /\ [Next]_vars => PageInv' /\ WakeInv'
<1> SUFFICES ASSUME PageInv, WakeInv, [Next]_vars PROVE PageInv' /\ WakeInv'
    OBVIOUS
<1>1. ASSUME NEW t \in Task, PollAnswered(t) PROVE PageInv' /\ WakeInv'
    BY <1>1, Bounds DEF PageInv, WakeInv, Step, PollAnswered, HideAndReload, worldVars
<1>2. ASSUME NEW t \in Task, PollUnanswered(t) PROVE PageInv' /\ WakeInv'
    BY <1>2, Bounds DEF PageInv, WakeInv, Step, PollUnanswered, Unanswered, RunWake
<1>3. ASSUME NEW t \in Task, Forwarded(t) \/ NotForwarded(t) PROVE PageInv' /\ WakeInv'
    BY <1>3, Bounds DEF PageInv, WakeInv, Step, Forwarded, NotForwarded, Posted
<1>4. ASSUME NEW t \in Task, NextRound(t) PROVE PageInv' /\ WakeInv'
    BY <1>4, Bounds DEF PageInv, WakeInv, Step, NextRound, worldVars
<1>5. ASSUME NEW t \in Task, WakeAnswered(t) PROVE PageInv' /\ WakeInv'
    BY <1>5, Bounds DEF PageInv, WakeInv, Step, WakeAnswered, HideAndReload, worldVars
<1>6. ASSUME NEW t \in Task, WakeUnanswered(t) PROVE PageInv' /\ WakeInv'
    BY <1>6, Bounds DEF PageInv, WakeInv, Step, WakeUnanswered, Unanswered
<1>7. ASSUME NEW t \in Task, TimedOut(t) PROVE PageInv' /\ WakeInv'
    BY <1>7, Bounds DEF PageInv, WakeInv, Step, TimedOut, worldVars
<1>8. CASE Tick
    BY <1>8, Bounds DEF PageInv, WakeInv, Step, Tick, PollOnce, FirstFree, worldVars
<1>9. CASE Click
    BY <1>9, Bounds DEF PageInv, WakeInv, Step, Click, RunWake, FirstFree, Gesture
<1>10. CASE Hide
    <2>1. UNCHANGED <<vm, faults, page, reloading, waking, pill, task, left, check>>
        BY <1>10 DEF Hide, Gesture
    <2>2. gestures' \in 0..MaxGestures /\ visible' \in BOOLEAN /\ timer' \in BOOLEAN
        <3>1. gestures' \in 0..MaxGestures
            BY <1>10, Bounds DEF PageInv, Hide, Gesture
        <3>2. visible' \in BOOLEAN
            BY <1>10 DEF Hide
        <3>3. timer' \in BOOLEAN
            BY <1>10 DEF PageInv, Hide
        <3> QED
            BY <3>1, <3>2, <3>3
    <2> QED
        BY <2>1, <2>2 DEF PageInv, WakeInv
<1>11. CASE Show
    <2>1. UNCHANGED <<vm, faults, page, reloading, waking, pill, left, check>>
        BY <1>11 DEF Show, Gesture
    <2>2. gestures' \in 0..MaxGestures /\ visible' \in BOOLEAN /\ timer' \in BOOLEAN
        <3>1. gestures' \in 0..MaxGestures
            BY <1>11, Bounds DEF PageInv, Show, Gesture
        <3>2. visible' \in BOOLEAN
            BY <1>11 DEF Show
        <3>3. timer' \in BOOLEAN
            BY <1>11 DEF PageInv, Show
        <3> QED
            BY <3>1, <3>2, <3>3
    <2>3. UNCHANGED task \/ \E t \in FirstFree : task' = [task EXCEPT ![t] = "ping"]
        BY <1>11 DEF Show, PollOnce
    <2>4. task' \in [Task -> Step] /\ \A t \in Task : task[t] # "none" => task'[t] = task[t]
        BY <2>3 DEF PageInv, Step, FirstFree
    <2> QED
        BY <2>1, <2>2, <2>4 DEF PageInv, WakeInv
<1>12. CASE UserReload
    BY <1>12, Bounds DEF PageInv, WakeInv, UserReload, Gesture
<1>13. CASE Load
    <2>1. UNCHANGED worldVars /\ page' \in {"live", "shell", "inert"} /\ reloading' = FALSE
          /\ waking' = FALSE /\ pill' = "hidden" /\ check' = "idle"
        BY <1>13 DEF Load
    <2>2. timer' \in BOOLEAN
        BY <1>13 DEF Load
    <2>3. left' \in [Task -> 0..MaxRounds]
        BY <1>13, Bounds DEF Load
    <2>4. task' \in [Task -> Step]
        BY <1>13 DEF Load, NoTasks, Step
    <2> QED
        BY <2>1, <2>2, <2>3, <2>4 DEF PageInv, WakeInv, worldVars
<1>14. CASE CheckVersion
    BY <1>14 DEF PageInv, WakeInv, CheckVersion, worldVars
<1>15. CASE Install \/ Activate
    BY <1>15 DEF PageInv, WakeInv, Install, Activate, worldVars, pageVars
<1>16. CASE Boot \/ StartedByOther \/ Stop
    BY <1>16, Bounds DEF PageInv, WakeInv, Boot, StartedByOther, Stop, pageVars
<1>17. CASE UNCHANGED vars
    BY <1>17 DEF PageInv, WakeInv, vars, worldVars, pageVars
<1> QED
    BY <1>1, <1>2, <1>3, <1>4, <1>5, <1>6, <1>7, <1>8, <1>9, <1>10, <1>11, <1>12, <1>13, <1>14,
       <1>15, <1>16, <1>17 DEF Next, Advance

LEMMA Inductive == Spec => [](PageInv /\ WakeInv /\ WorkerInv)
BY WorkerInit, WorkerNext, PageInit, PageNext, PTL DEF Spec

(* However wakes overlap, wakeInProgress and an active pill are set only   *)
(* while a wake is under way; and all else is of its type.                 *)
THEOREM TypeCorrect == Spec => []TypeOK
<1>1. PageInv /\ WakeInv /\ WorkerInv => TypeOK
    BY DEF PageInv, WakeInv, WorkerInv, TypeOK, Wakes
<1> QED
    BY <1>1, Inductive, PTL

(* No install or activation of the service worker, complete or cut short,  *)
(* and no reload loses what the tab can be served while the machine is     *)
(* down.                                                                   *)
THEOREM ShellSurvives == Spec => ShellKept
<1>1. WorkerInv /\ [Next]_vars => [Served \subseteq Served']_vars
    <2> SUFFICES ASSUME WorkerInv, Next PROVE Served \subseteq Served'
        BY DEF vars, workerVars, Served
    <2>1. CASE UNCHANGED workerVars
        BY <2>1 DEF workerVars, Served
    <2>2. CASE Load
        BY <2>2, Bounds DEF WorkerInv, Version, Load, Served
    <2>3. CASE Install
        <3>1. \A v \in Version : caches[v] \subseteq caches'[v]
            BY <2>3, Bounds DEF WorkerInv, Version, Install
        <3> QED
            BY <2>3, <3>1 DEF Install, Served
    <2>4. CASE Activate
        <3>1. installing \in Version /\ active' # 0
            BY <2>4, Bounds DEF WorkerInv, Version, Activate
        <3>2. CASE caches' = [v \in Version |-> IF v = installing THEN caches[v] \union Old ELSE {}]
            BY <3>1, <3>2 DEF WorkerInv, Old, Served
        <3>3. CASE \E copied \in SUBSET Old : caches' = [caches EXCEPT ![installing] = @ \union copied]
            BY <3>1, <3>3 DEF WorkerInv, Served
        <3> QED
            BY <2>4, <3>2, <3>3 DEF Activate
    <2>5. ASSUME NEW t \in Task, Advance(t) PROVE UNCHANGED workerVars
        BY <2>5 DEF Advance, PollAnswered, PollUnanswered, Forwarded, NotForwarded, Posted,
           NextRound,
                    WakeAnswered, WakeUnanswered, TimedOut, RunWake, workerVars
    <2>6. Tick \/ Click \/ Hide \/ Show \/ UserReload \/ CheckVersion \/ Boot \/ StartedByOther \/ Stop
          => UNCHANGED workerVars
        BY DEF Tick, Click, RunWake, Hide, Show, UserReload, CheckVersion, Boot, StartedByOther,
           Stop, workerVars
    <2> QED
        BY <2>1, <2>2, <2>3, <2>4, <2>5, <2>6 DEF Next
<1> QED
    BY <1>1, Inductive, PTL DEF Spec, ShellKept
=============================================================================
