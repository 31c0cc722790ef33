----------------------------- MODULE Workloads -----------------------------
(***************************************************************************)
(* The declared containers (internal/web/containers.go over                *)
(* internal/containers, internal/docker/compose.go and the container calls *)
(* of internal/docker/client.go): containers.yaml is a list of entries,    *)
(* each started and stopped through docker compose, through the Docker API *)
(* or not at all; a request finds its entry, acts on it and answers with   *)
(* the services panel.  A refresh replaces the list, without a lock, while *)
(* requests walk it.                                                       *)
(*                                                                         *)
(* Names are compared without case and are model values.  Docker, compose  *)
(* and the programs in the containers are the environment.                 *)
(***************************************************************************)
EXTENDS Sequences, Naturals

CONSTANTS
    Request,     \* handler goroutines; each serves one request
    Container,   \* containers of the Docker host, by name
    Files,       \* versions of containers.yaml: sequences of entries
    NoEntry,     \* findContainerDecl's nil
    MaxLoads,    \* bound: versions of the file that are loaded
    MaxEvents    \* bound: changes Docker and its users make on their own

Mode == {"compose", "image", "external"}
(* An entry: its name, how it is run, and the containers of its services;  *)
(* an entry without services is the one container of its name.             *)
Entry == [name : Container, mode : Mode, services : SUBSET Container]
Runs(e) == IF e.services = {} THEN {e.name} ELSE e.services

(* Validate: names are unique and services need a compose file. *)
Valid(file) ==
    /\ \A i, j \in DOMAIN file : file[i].name = file[j].name => i = j
    /\ \A i \in DOMAIN file : file[i].services # {} => file[i].mode = "compose"

(* What the constants are assumed to be. *)
Assumptions ==
    /\ MaxLoads \in Nat /\ MaxEvents \in Nat
    /\ \A f \in Files : f \in Seq(Entry)
    /\ NoEntry \notin Entry \cup Request

VARIABLES
    arrays,  \* every list of entries that was loaded, oldest first
    list,    \* s.containerDecls: the index of one of them
    state,   \* state[c]: what Docker says of container c
    ours,    \* the containers that carry the labels of their compose project
    pc,      \* where each request is
    want,    \* the name and action it asks for
    walk,    \* findContainerDecl: its index and the length it started with
    found,   \* the entry of the name, as <<array, index>>, or NoEntry
    done,    \* the entry it acts on, whether compose reported success, and
             \* (history) whether the list was replaced as it was found
    page,    \* the states the answer shows for it: its rows and their roll-up
    calm,    \* history: nobody else changed those containers meanwhile
    events   \* bound: changes Docker and its users made

vars == <<arrays, list, state, ours, pc, want, walk, found, done, page, calm, events>>
worldVars == <<state, ours, calm, events>>

State == {"absent", "created", "running", "restarting", "paused", "exited", "removing"}
Action == {"start", "stop"}
PC == {"idle", "find", "take", "branch", "compose", "verify", "direct", "render",
       "done", "failed", "panicked"}

Init ==
    /\ \E f \in Files : Valid(f) /\ arrays = <<f>>
    /\ list = 1
    /\ state \in [Container -> {"absent", "running"}]
    /\ ours \in {{}, Container}
    /\ pc = [r \in Request |-> "idle"]
    /\ want = [r \in Request |-> [name |-> NoEntry, act |-> "start"]]
    /\ walk = [r \in Request |-> [i |-> 1, len |-> 0]]
    /\ found = [r \in Request |-> NoEntry]
    /\ done = [r \in Request |-> [entry |-> NoEntry, soft |-> FALSE, astray |-> FALSE]]
    /\ page = [r \in Request |-> {}]
    /\ calm = [r \in Request |-> TRUE]
    /\ events = 0

Goto(r, label) == pc' = [pc EXCEPT ![r] = label]
Now == arrays[list]
At(p) == arrays[p[1]][p[2]]

(* Request r (or the environment, NoEntry) changes the containers of cs:   *)
(* whoever else is acting on one of them is no longer undisturbed.         *)
Changes(r, cs) ==
    calm' = [q \in Request |->
        calm[q] /\ (q = r \/ done[q].entry = NoEntry \/ Runs(done[q].entry) \cap cs = {})]

-----------------------------------------------------------------------------
(* POST /api/decl-container/start and /stop. *)

Begin(r, n, a) ==
    /\ pc[r] = "idle"
    /\ Goto(r, "find")
    /\ want' = [want EXCEPT ![r] = [name |-> n, act |-> a]]
    /\ walk' = [walk EXCEPT ![r] = [i |-> 1, len |-> Len(Now)]]
    /\ UNCHANGED <<arrays, list, found, done, page, worldVars>>

(* One turn of findContainerDecl's loop.  The range expression was         *)
(* evaluated once, the name is taken from the list as it is now: an index  *)
(* beyond a list that became shorter is a panic.                           *)
Find(r) ==
    LET i == walk[r].i IN
    /\ pc[r] = "find"
    /\ \/ i > walk[r].len /\ Goto(r, "branch") /\ UNCHANGED <<walk, found>>
       \/ i <= walk[r].len /\ i > Len(Now) /\ Goto(r, "panicked") /\ UNCHANGED <<walk, found>>
       \/ /\ i <= walk[r].len /\ i <= Len(Now) /\ Now[i].name = want[r].name
          /\ found' = [found EXCEPT ![r] = <<list, i>>]
          /\ Goto(r, "take")
          /\ UNCHANGED walk
       \/ /\ i <= walk[r].len /\ i <= Len(Now) /\ Now[i].name # want[r].name
          /\ walk' = [walk EXCEPT ![r].i = i + 1]
          /\ UNCHANGED <<pc, found>>
    /\ UNCHANGED <<arrays, list, want, done, page, worldVars>>

(* Its return reads the list again: the pointer is to the element of that  *)
(* index in the list as it is by then.  (A slice header that is half the   *)
(* old and half the new one is left out.)                                  *)
Take(r) ==
    LET i == walk[r].i IN
    /\ pc[r] = "take"
    /\ \/ i > Len(Now) /\ Goto(r, "panicked") /\ UNCHANGED <<found, done>>
       \/ /\ i <= Len(Now)
          /\ found' = [found EXCEPT ![r] = <<list, i>>]
          /\ done' = [done EXCEPT ![r].astray = found[r] # <<list, i>>]
          /\ Goto(r, "branch")
    /\ UNCHANGED <<arrays, list, want, walk, page, worldVars>>

(* containerLifecycleByName: the entry is read through the pointer.  A     *)
(* name without an entry is a container to be found by that name.          *)
Branch(r) ==
    LET entry == IF found[r] = NoEntry
                 THEN [name |-> want[r].name, mode |-> "external", services |-> {}]
                 ELSE At(found[r]) IN
    /\ pc[r] = "branch"
    /\ done' = [done EXCEPT ![r].entry = entry]
    /\ found' = [found EXCEPT ![r] = NoEntry]
    /\ walk' = [walk EXCEPT ![r] = [i |-> 1, len |-> 0]]
    /\ Goto(r, CASE entry.mode = "compose" -> "compose"
                 [] entry.mode = "image" -> "failed"      \* 501
                 [] OTHER -> "direct")
    /\ UNCHANGED <<arrays, list, want, page, worldVars>>

(* What `docker compose` makes of one container of the entry.  Containers  *)
(* without the project's labels it leaves alone, or trips over when it is  *)
(* to create one of that name.                                             *)
Up(s) == IF s \in {"absent", "created", "exited"} THEN "running" ELSE s
Down(s) == "absent"

(* composeAction, the compose pass: best effort, its error only logged. *)
Compose(r) ==
    LET cs == Runs(done[r].entry)
        up == want[r].act = "start"
        reach == {c \in cs : c \in ours \/ (up /\ state[c] = "absent")} IN
    /\ pc[r] = "compose"
    /\ \/ /\ up => reach = cs
          /\ state' = [c \in Container |-> IF c \notin reach THEN state[c]
                                           ELSE IF up THEN Up(state[c]) ELSE Down(state[c])]
          /\ ours' = ours \cup reach
          /\ done' = [done EXCEPT ![r].soft = (reach = cs)]
          /\ Changes(r, reach)
       \/ UNCHANGED <<state, ours, done, calm>>
    /\ Goto(r, "verify")
    /\ UNCHANGED <<arrays, list, want, walk, found, page, events>>

(* ContainerStart and ContainerStop as the daemon serves them: it refuses  *)
(* to start a paused container or one that is being removed.               *)
Start(r, c) ==
    /\ \/ /\ state[c] \in {"created", "exited"}
          /\ state' = [state EXCEPT ![c] = "running"]
          /\ Changes(r, {c}) /\ Goto(r, "render")
       \/ state[c] \in {"running", "restarting"} /\ Goto(r, "render") /\ UNCHANGED <<state, calm>>
       \/ Goto(r, "failed") /\ UNCHANGED <<state, calm>>
    /\ UNCHANGED <<ours, events>>

Stop(r, c) ==
    /\ \/ /\ state[c] \in {"running", "restarting", "paused"}
          /\ state' = [state EXCEPT ![c] = "exited"]
          /\ Changes(r, {c}) /\ Goto(r, "render")
       \/ state[c] \in {"created", "exited"} /\ Goto(r, "render") /\ UNCHANGED <<state, calm>>
       \/ Goto(r, "failed") /\ UNCHANGED <<state, calm>>
    /\ UNCHANGED <<ours, events>>

Act(r, c) == IF want[r].act = "start" THEN Start(r, c) ELSE Stop(r, c)

(* Mutant of Verify: compose's word is taken for it. *)
VerifyNot(r) ==
    /\ pc[r] = "verify"
    /\ Goto(r, "render")
    /\ UNCHANGED <<arrays, list, want, walk, found, done, page, worldVars>>

(* composeAction, the second half: FindByName(entry.name), and the API     *)
(* call unless the container's state is, or is not, exactly "running".     *)
(* What is not found is left at that; a failed lookup is a 500.            *)
Verify(r) ==
    LET c == done[r].entry.name
        asIs == state[c] = "absent" \/ (want[r].act = "stop" <=> state[c] # "running") IN
    /\ pc[r] = "verify"
    /\ \/ asIs /\ Goto(r, "render") /\ UNCHANGED worldVars
       \/ ~asIs /\ Act(r, c)
       \/ Goto(r, "failed") /\ UNCHANGED worldVars
    /\ UNCHANGED <<arrays, list, want, walk, found, done, page>>

(* externalContainerAction: no compose, whatever the state. *)
Direct(r) ==
    LET c == done[r].entry.name IN
    /\ pc[r] = "direct"
    /\ \/ state[c] # "absent" /\ Act(r, c)
       \/ Goto(r, "failed") /\ UNCHANGED worldVars
    /\ UNCHANGED <<arrays, list, want, walk, found, done, page>>

(* mapContainerState. *)
Shown(s) ==
    CASE s \in {"running", "restarting"} -> "Running"
      [] s \in {"exited", "dead", "paused", "created"} -> "Stopped"
      [] s = "absent" -> "Missing"
      [] OTHER -> "Unknown"

(* buildContainerProjectGroups: the state of a project from its services.  *)
RollUp(shown, cs) ==
    LET running == {c \in cs : shown[c] = "Running"} IN
    IF running = {} THEN "Stopped" ELSE IF running = cs THEN "Running" ELSE "degraded"

(* The answer is handleServicesPartial's shell, which polls for its         *)
(* containers at once: handleServicesContainers builds the rows and the    *)
(* projects of the list as it is by then, so what is no longer declared,   *)
(* or never was, is not shown; each lookup in Docker may fail.             *)
Render(r) ==
    LET e == done[r].entry
        cs == {c \in Runs(e) : \E i \in DOMAIN Now : Now[i] = e} IN
    /\ pc[r] = "render"
    /\ \E unknown \in SUBSET cs :
        LET shown == [c \in cs |-> IF c \in unknown THEN "Unknown" ELSE Shown(state[c])] IN
        page' = [page EXCEPT ![r] = {shown[c] : c \in cs} \cup
                    IF cs = {} \/ e.services = {} THEN {} ELSE {RollUp(shown, cs)}]
    /\ Goto(r, "done")
    /\ UNCHANGED <<arrays, list, want, walk, found, done, worldVars>>

-----------------------------------------------------------------------------
(* Mutant of Refresh: the new entries are copied over the old array. *)
RefreshInPlace(f) ==
    /\ Len(arrays) < MaxLoads
    /\ arrays' = Append([arrays EXCEPT ![list] =
                         [i \in DOMAIN @ |-> IF i \in DOMAIN f THEN f[i] ELSE @[i]]], f)
    /\ UNCHANGED <<list, pc, want, walk, found, done, page, worldVars>>

(* POST /api/containers/refresh: a file that does not validate is refused. *)
Refresh(f) ==
    /\ Len(arrays) < MaxLoads
    /\ Valid(f)
    /\ arrays' = Append(arrays, f)
    /\ list' = Len(arrays) + 1
    /\ UNCHANGED <<pc, want, walk, found, done, page, worldVars>>

(* Docker's restart policies, crashes, and the user's own docker commands. *)
Moves == {<<"running", "exited">>, <<"running", "restarting">>, <<"restarting", "running">>,
          <<"running", "paused">>, <<"exited", "removing">>, <<"removing", "absent">>,
          <<"absent", "created">>}

Event(c) ==
    /\ events < MaxEvents
    /\ events' = events + 1
    /\ \E s \in State : <<state[c], s>> \in Moves /\ state' = [state EXCEPT ![c] = s]
    /\ Changes(NoEntry, {c})
    /\ UNCHANGED <<arrays, list, ours, pc, want, walk, found, done, page>>

Next ==
    \/ \E r \in Request :
        \/ \E n \in Container, a \in Action : Begin(r, n, a)
        \/ Find(r) \/ Take(r) \/ Branch(r) \/ Compose(r) \/ Verify(r) \/ Direct(r) \/ Render(r)
    \/ \E f \in Files : Refresh(f)
    \/ \E c \in Container : Event(c)

Spec == Init /\ [][Next]_vars

-----------------------------------------------------------------------------
TypeOK ==
    /\ list \in DOMAIN arrays
    /\ state \in [Container -> State]
    /\ ours \subseteq Container
    /\ pc \in [Request -> PC]
    /\ \A r \in Request :
        /\ walk[r].i \in 1 .. walk[r].len + 1
        /\ found[r] = NoEntry \/ found[r][1] \in 1 .. list
        /\ page[r] # {} => pc[r] = "done"

(* A request acts on an entry that some version of the file declared, or   *)
(* on the container itself; and the entry has the name it asked for, in    *)
(* whatever lists were loaded before and after.  One case is excepted: a   *)
(* refresh between the comparison and the return of findContainerDecl      *)
(* leads the request astray, to the entry that now stands in that place.   *)
ActsOnNamed ==
    \A r \in Request :
        LET e == done[r].entry IN
        e # NoEntry =>
            /\ e.name = want[r].name \/ done[r].astray
            /\ e.mode # "external" => \E f \in Files : \E i \in DOMAIN f : f[i] = e

(* A request that is answered with the panel has had its way, when nobody  *)
(* else touched its containers and every lookup for the panel succeeded:   *)
(* a stopped entry is not shown as running, a started one not as stopped.  *)
(* The exceptions are the code's: compose leaves a paused container paused *)
(* and the stop of a compose entry leaves a restarting one alone; and a    *)
(* project, whose name is no container, is only what compose made of it.   *)
AnswerShown ==
    \A r \in Request :
        LET e == done[r].entry
            left == {state[c] : c \in Runs(e)} IN
        (/\ pc[r] = "done" /\ calm[r] /\ "Unknown" \notin page[r]
         /\ e.services = {} \/ done[r].soft) =>
            IF want[r].act = "stop"
            THEN "Running" \in page[r] => e.mode = "compose" /\ "restarting" \in left
            ELSE "Stopped" \in page[r] => e.mode = "compose" /\ "paused" \in left
=============================================================================
