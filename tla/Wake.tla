-------------------------------- MODULE Wake --------------------------------
(***************************************************************************)
(* The wake island of the dashboard.  The backend lives in a WSL machine   *)
(* that stops when idle.  A visible tab pings it (static/js/wake.js), and  *)
(* when a ping fails asks the wake proxy on the Windows side               *)
(* (cmd/wake-proxy) to start the machine, pings until it answers or 90 s   *)
(* have passed, and reloads.  A service worker (static/sw.js) serves the   *)
(* page and its script from a cache while the machine is down.             *)
(*                                                                         *)
(* Every asynchronous call of pollOnce or runWake is a task of its own:    *)
(* nothing but wakeInProgress, read before a ping and set after it, keeps  *)
(* them apart.  The 2 s rounds of a wake are counted, not timed.           *)
(***************************************************************************)
EXTENDS Naturals

CONSTANTS
    MaxTasks,     \* asynchronous calls under way at a time
    MaxRounds,    \* pings of a wake before it times out
    MaxVersion,   \* versions of the service worker
    MaxFaults,    \* stops of the machine and pings it is too slow for
    MaxGestures   \* times the user hides, shows or reloads the tab, or clicks the pill

ASSUME TasksAssumption == MaxTasks \in Nat \ {0}
ASSUME BoundsAssumption == {MaxRounds, MaxVersion, MaxFaults, MaxGestures} \subseteq Nat

VARIABLES
    vm,          \* the machine and the backend in it
    faults, gestures,
    visible,     \* document.visibilityState
    page,        \* live, shell: from the cache, or inert: no script runs
    reloading,   \* a reload is under way, and the old page still runs
    timer,       \* pollTimer
    waking,      \* wakeInProgress
    pill,        \* the wake chip
    task,        \* where each asynchronous call is
    left,        \* rounds before a wake's timeout
    check,       \* checkVersion of the build chip (static/js/app.js)
    active,      \* the service worker in control, 0 if none
    installing,  \* the one that waits to be activated, 0 if none
    caches       \* what each version has cached

pageVars == <<page, reloading, timer, waking, pill, task, left, check>>
worldVars == <<vm, faults, gestures, visible>>
workerVars == <<active, installing, caches>>
vars == <<worldVars, pageVars, workerVars>>

Task == 1..MaxTasks
Version == 1..MaxVersion
Shell == {"/", "wake.js"}
Step == {"none", "ping", "post", "loop", "wakePing"}
Wakes == {t \in Task : task[t] \in {"post", "loop", "wakePing"}}

(* What the worker in control can answer by itself: caches.match looks in  *)
(* the caches of every version.                                            *)
Served == IF active = 0 THEN {} ELSE UNION {caches[v] : v \in Version}

NoTasks == [t \in Task |-> "none"]

Init ==
    /\ vm = "up"
    /\ faults = 0
    /\ gestures = 0
    /\ visible = TRUE
    /\ page = "live"
    /\ reloading = FALSE
    /\ timer = TRUE
    /\ waking = FALSE
    /\ pill = "hidden"
    /\ task = [NoTasks EXCEPT ![1] = "ping"]
    /\ left = [t \in Task |-> 0]
    /\ check = "idle"
    /\ active = 0
    /\ installing = 0
    /\ caches = [v \in Version |-> {}]

-----------------------------------------------------------------------------
(* wake.js *)

FirstFree == {t \in Task : task[t] = "none" /\ \A u \in 1..t - 1 : task[u] # "none"}

(* Mutant of PollOnce: it does not look whether the tab is visible. *)
PollOnceHidden(seen) ==
    IF ~waking
    THEN \E t \in FirstFree : task' = [task EXCEPT ![t] = "ping"]
    ELSE UNCHANGED task

(* pollOnce up to its ping. *)
PollOnce(seen) ==
    IF seen /\ ~waking
    THEN \E t \in FirstFree : task' = [task EXCEPT ![t] = "ping"]
    ELSE UNCHANGED task

(* The timer fires.  A ping ends within 4 s, and the timer is set 30 s     *)
(* before: at a tick every earlier ping has ended.                         *)
Tick ==
    /\ page # "inert"
    /\ timer
    /\ \A t \in Task : task[t] # "ping"
    /\ PollOnce(visible)
    /\ UNCHANGED <<worldVars, workerVars, page, reloading, timer, waking, pill, left, check>>

(* runWake up to its POST, as the continuation of a task or of a click. *)
RunWake(t) ==
    /\ waking' = TRUE
    /\ pill' = "active"
    /\ task' = [task EXCEPT ![t] = "post"]
    /\ UNCHANGED <<visible, page, reloading, timer, left, check, workerVars>>

HideAndReload(t) ==
    /\ pill' = "hidden"
    /\ reloading' = TRUE
    /\ task' = [task EXCEPT ![t] = "none"]
    /\ UNCHANGED <<page, timer, left, check>>

(* Mutant of PollAnswered: a pill that is shown stays. *)
PollAnsweredKeepsPill(t) ==
    /\ task[t] = "ping"
    /\ vm = "up"
    /\ task' = [task EXCEPT ![t] = "none"]
    /\ UNCHANGED <<worldVars, workerVars, page, reloading, timer, waking, pill, left, check>>

(* The backend answers the ping of a poll. *)
PollAnswered(t) ==
    /\ task[t] = "ping"
    /\ vm = "up"
    /\ IF pill # "hidden"
       THEN HideAndReload(t) /\ UNCHANGED waking
       ELSE /\ task' = [task EXCEPT ![t] = "none"]
            /\ UNCHANGED <<page, reloading, timer, waking, pill, left, check>>
    /\ UNCHANGED <<worldVars, workerVars>>

(* No answer in 4 s: the machine is not up, or slow. *)
Unanswered ==
    /\ vm = "up" => faults < MaxFaults
    /\ faults' = IF vm = "up" THEN faults + 1 ELSE faults
    /\ UNCHANGED <<vm, gestures>>

PollUnanswered(t) ==
    /\ task[t] = "ping"
    /\ Unanswered
    /\ RunWake(t)

(* The POST has ended, with any answer or none, and has no timeout of its  *)
(* own: some rounds of the 90 s are left, or none.                         *)
Posted(t) ==
    /\ task[t] = "post"
    /\ task' = [task EXCEPT ![t] = "loop"]
    /\ \E n \in 0..MaxRounds : left' = [left EXCEPT ![t] = n]
    /\ UNCHANGED <<faults, gestures, visible, page, reloading, timer, waking, pill, check,
                   workerVars>>

(* wake-proxy knows host, origin and route, reads its token and reaches    *)
(* process-compose, which starts the machine.                              *)
Forwarded(t) ==
    /\ Posted(t)
    /\ vm' = IF vm = "down" THEN "booting" ELSE vm

(* One of these fails, or there is no proxy. *)
NotForwarded(t) ==
    /\ Posted(t)
    /\ UNCHANGED vm

NextRound(t) ==
    /\ task[t] = "loop"
    /\ left[t] > 0
    /\ left' = [left EXCEPT ![t] = @ - 1]
    /\ task' = [task EXCEPT ![t] = "wakePing"]
    /\ UNCHANGED <<worldVars, workerVars, page, reloading, timer, waking, pill, check>>

WakeAnswered(t) ==
    /\ task[t] = "wakePing"
    /\ vm = "up"
    /\ HideAndReload(t)
    /\ waking' = FALSE
    /\ UNCHANGED <<worldVars, workerVars>>

WakeUnanswered(t) ==
    /\ task[t] = "wakePing"
    /\ Unanswered
    /\ task' = [task EXCEPT ![t] = "loop"]
    /\ UNCHANGED <<visible, page, reloading, timer, waking, pill, left, check, workerVars>>

(* Mutant of TimedOut: wakeInProgress stays set. *)
TimedOutWaking(t) ==
    /\ task[t] = "loop"
    /\ left[t] = 0
    /\ pill' = "failed"
    /\ task' = [task EXCEPT ![t] = "none"]
    /\ UNCHANGED <<worldVars, workerVars, page, reloading, timer, waking, left, check>>

TimedOut(t) ==
    /\ task[t] = "loop"
    /\ left[t] = 0
    /\ pill' = "failed"
    /\ waking' = FALSE
    /\ task' = [task EXCEPT ![t] = "none"]
    /\ UNCHANGED <<worldVars, workerVars, page, reloading, timer, left, check>>

-----------------------------------------------------------------------------
(* The tab *)

Gesture ==
    /\ gestures < MaxGestures
    /\ gestures' = gestures + 1
    /\ UNCHANGED <<vm, faults>>

(* A click on the pill retries a wake that failed. *)
Click ==
    /\ page # "inert"
    /\ visible
    /\ pill = "failed"
    /\ \E t \in FirstFree : RunWake(t)
    /\ Gesture

(* stopPollLoop; a wake under way goes on. *)
Hide ==
    /\ visible
    /\ visible' = FALSE
    /\ timer' = FALSE
    /\ Gesture
    /\ UNCHANGED <<workerVars, page, reloading, waking, pill, task, left, check>>

(* startPollLoop; no poll at once if the timer runs, as it does on a page  *)
(* that was loaded in the background.                                      *)
Show ==
    /\ ~visible
    /\ visible' = TRUE
    /\ IF timer \/ page = "inert"
       THEN UNCHANGED <<timer, task>>
       ELSE timer' = TRUE /\ PollOnce(TRUE)
    /\ Gesture
    /\ UNCHANGED <<workerVars, page, reloading, waking, pill, left, check>>

UserReload ==
    /\ ~reloading
    /\ reloading' = TRUE
    /\ Gesture
    /\ UNCHANGED <<visible, page, timer, waking, pill, task, left, check, workerVars>>

(* The page loads, network first, and its script starts afresh: the timer  *)
(* runs whether the tab is visible or not.                                 *)
Load ==
    /\ reloading
    /\ reloading' = FALSE
    /\ page' = IF vm = "up" THEN "live" ELSE IF Shell \subseteq Served THEN "shell" ELSE "inert"
    /\ caches' = IF vm = "up" /\ active # 0 THEN [caches EXCEPT ![active] = Shell] ELSE caches
    /\ timer' = (page' # "inert")
    /\ waking' = FALSE
    /\ pill' = "hidden"
    /\ task' = IF page' # "inert" /\ visible THEN [NoTasks EXCEPT ![1] = "ping"] ELSE NoTasks
    /\ left' = [t \in Task |-> 0]
    /\ check' = "idle"
    /\ UNCHANGED <<worldVars, active, installing>>

(* app.js asks for the version every 30 s, to mark a page that is out of   *)
(* date; it is no part of the shell.                                       *)
CheckVersion ==
    /\ page = "live"
    /\ check' = IF check = "idle" THEN "asking" ELSE "idle"
    /\ UNCHANGED <<worldVars, workerVars, page, reloading, timer, waking, pill, task, left>>

-----------------------------------------------------------------------------
(* sw.js *)

(* The script registers or updates the worker, whose install caches what   *)
(* it can get of the shell.                                                *)
Install ==
    /\ page # "inert"
    /\ vm = "up"
    /\ installing = 0
    /\ active < MaxVersion
    /\ installing' = active + 1
    /\ \E got \in SUBSET Shell : caches' = [caches EXCEPT ![active + 1] = got]
    /\ UNCHANGED <<worldVars, pageVars, active>>

Old == UNION {caches[v] : v \in Version \ {installing}}

(* Mutant of Activate: the old caches are deleted as they are. *)
ActivateUncopied ==
    /\ installing # 0
    /\ active' = installing
    /\ installing' = 0
    /\ caches' = [v \in Version |-> IF v = installing THEN caches[v] ELSE {}]
    /\ UNCHANGED <<worldVars, pageVars>>

(* What the new cache misses is copied from the old ones before they are   *)
(* deleted; the browser may end the worker in between.                     *)
Activate ==
    /\ installing # 0
    /\ active' = installing
    /\ installing' = 0
    /\ \/ caches' = [v \in Version |-> IF v = installing THEN caches[v] \union Old ELSE {}]
       \/ \E copied \in SUBSET Old : caches' = [caches EXCEPT ![installing] = @ \union copied]
    /\ UNCHANGED <<worldVars, pageVars>>

-----------------------------------------------------------------------------
(* The machine *)

Boot ==
    /\ vm = "booting"
    /\ vm' = "up"
    /\ UNCHANGED <<faults, gestures, visible, pageVars, workerVars>>

(* Somebody else starts it. *)
StartedByOther ==
    /\ vm = "down"
    /\ vm' = "booting"
    /\ UNCHANGED <<faults, gestures, visible, pageVars, workerVars>>

(* vmIdleTimeout, or `wsl --shutdown`. *)
Stop ==
    /\ vm # "down"
    /\ faults < MaxFaults
    /\ vm' = "down"
    /\ faults' = faults + 1
    /\ UNCHANGED <<gestures, visible, pageVars, workerVars>>

-----------------------------------------------------------------------------
Advance(t) ==
    \/ PollAnswered(t) \/ PollUnanswered(t)
    \/ Forwarded(t) \/ NotForwarded(t)
    \/ NextRound(t) \/ WakeAnswered(t) \/ WakeUnanswered(t) \/ TimedOut(t)

Next ==
    \/ \E t \in Task : Advance(t)
    \/ Tick \/ Click \/ Hide \/ Show \/ UserReload \/ Load \/ CheckVersion
    \/ Install \/ Activate
    \/ Boot \/ StartedByOther \/ Stop

(* Timers fire, fetches end, loads end and a machine that boots comes up;  *)
(* the proxy forwards a wake sooner or later when asked again and again.   *)
Fairness ==
    /\ WF_vars(Tick) /\ WF_vars(Load) /\ WF_vars(CheckVersion) /\ WF_vars(Boot)
    /\ \A t \in Task : WF_vars(Advance(t))
    /\ SF_vars(\E t \in Task : Forwarded(t))

Spec == Init /\ [][Next]_vars /\ Fairness

-----------------------------------------------------------------------------
(* Properties *)

(* However wakes overlap, wakeInProgress, which suppresses every poll, is  *)
(* set only while a wake is under way to clear it, and an active pill is   *)
(* never left behind by one.                                               *)
TypeOK ==
    /\ vm \in {"up", "booting", "down"}
    /\ faults \in 0..MaxFaults
    /\ gestures \in 0..MaxGestures
    /\ {visible, reloading, timer, waking} \subseteq BOOLEAN
    /\ page \in {"live", "shell", "inert"}
    /\ pill \in {"hidden", "active", "failed"}
    /\ task \in [Task -> Step]
    /\ left \in [Task -> 0..MaxRounds]
    /\ check \in {"idle", "asking"}
    /\ active \in 0..MaxVersion
    /\ installing \in {0, active + 1}
    /\ caches \in [Version -> SUBSET Shell]
    /\ waking \/ pill = "active" => Wakes # {}

(* A tab that stays visible and has its script brings the machine back,    *)
(* whatever timed out, overlapped, was lost or was hidden on the way, and  *)
(* clears the pill without a click.                                        *)
Recovers ==
    <>[](visible /\ page # "inert") => <>[](vm = "up" /\ pill = "hidden" /\ ~waking)

(* wake.js falls silent in a tab that stays hidden, also when the page was *)
(* reloaded there and its timer runs.                                      *)
PollsEnd == <>[]~visible => <>[](task = NoTasks)

(* No update of the service worker loses what the tab could be served      *)
(* while the machine is down, even if it installs without reaching the     *)
(* backend or ends half-way through its activation.                        *)
ShellKept == [][Served \subseteq Served']_vars

(* "Goes silent when the tab is hidden, so an unused tab doesn't keep the  *)
(* WSL VM warm" (wake.js): nor does the rest of the page ask.              *)
GoesSilent == <>[]~visible => <>[](task = NoTasks /\ check = "idle")
=============================================================================
