----------------------------- MODULE Supervisor -----------------------------
(***************************************************************************)
(* One process-compose instance and the dashboard's two clients of it      *)
(* (internal/compose and the process handlers of internal/web/handlers.go):*)
(* the client made at startup, with the token as it was then, and the      *)
(* bootstrapper, which reads the token anew, spawns a supervisor and waits *)
(* for its port to answer.  Starts are not serialised: two of them may     *)
(* spawn two supervisors, of which the second to ask finds the port taken. *)
(* process-compose, its processes and the files are the environment.       *)
(***************************************************************************)
EXTENDS Naturals

CONSTANTS
    Request,      \* handler goroutines; each serves one request
    Proc,         \* the processes of the instance's compose file
    Token,        \* contents of the token file
    NoToken,      \* no token file, or no token
    MaxEvents     \* bound: changes the environment makes on its own

(* What the constants are assumed to be. *)
Assumptions == MaxEvents \in Nat /\ "shell" \notin Request

VARIABLES
    exe,       \* the instance's binary is a Windows one
    file,      \* what the token file holds
    fragment,  \* the bridges fragment exists
    clientTok, \* the token s.compose's client was made with
    server,    \* who holds the port: Nobody, or the supervisor: its token, whether
               \* it was given the fragment, and which start spawned it
    status,    \* status[p]: what the supervisor says of p
    spawned,   \* supervisors that were launched and have not opened the port
    pc,        \* where each request is
    op,        \* what it does, and to which process
    tok,       \* the token a start read
    extras,    \* a start passes the fragment on to the supervisor
    calm,      \* history: nobody else changed the supervisor or its processes
    events     \* bound: changes of the environment

reqVars == <<pc, op, tok, extras, calm>>
envVars == <<exe, file, fragment, clientTok, server, status, spawned, events>>
vars == <<exe, file, fragment, clientTok, server, status, spawned, pc, op, tok, extras, calm, events>>

Status == {"Disabled", "Launching", "Running", "Restarting", "Completed", "Error"}
Op == [act : {"boot", "card", "reload"}, proc : {NoToken}] \cup
      [act : {"start", "stop", "restart"}, proc : Proc]
PC == {"idle", "boot", "act", "wait", "card", "done", "offline", "failed"}
Nobody == [token |-> NoToken, both |-> FALSE, from |-> "nobody"]
Supervisors == [token : Token \cup {NoToken}, both : BOOLEAN, from : Request \cup {"shell"}]
Off == [p \in Proc |-> "Completed"]

Init ==
    /\ exe \in BOOLEAN /\ fragment \in BOOLEAN
    /\ file \in Token \cup {NoToken}
    /\ clientTok = file
    /\ server \in {Nobody, [token |-> file, both |-> FALSE, from |-> "shell"]}
    /\ status = [p \in Proc |-> IF server = Nobody THEN "Completed" ELSE "Running"]
    /\ spawned = {}
    /\ pc = [r \in Request |-> "idle"]
    /\ op = [r \in Request |-> [act |-> "card", proc |-> NoToken]]
    /\ tok = [r \in Request |-> NoToken]
    /\ extras = [r \in Request |-> FALSE]
    /\ calm = [r \in Request |-> TRUE]
    /\ events = 0

Goto(r, label) == pc' = [pc EXCEPT ![r] = label]

(* Ping and every other call need the supervisor's token, if it has one.   *)
Answers(t) == server # Nobody /\ server.token \in {NoToken, t}

(* What r, or the environment, does disturbs everybody else. *)
Disturb(rs) == calm' = [r \in Request |-> calm[r] /\ r \in rs]

Begin(r, o) ==
    /\ pc[r] = "idle"
    /\ op' = [op EXCEPT ![r] = o]
    /\ calm' = [calm EXCEPT ![r] = TRUE]
    /\ Goto(r, CASE o.act = "boot" -> "boot" [] o.act = "card" -> "card" [] OTHER -> "act")
    /\ UNCHANGED <<envVars, tok, extras>>

(* filterExisting looks for the fragment under the path it was converted   *)
(* to: a Windows path, if wslpath worked, is no file of this system.       *)
filterExisting(converted) == fragment /\ ~converted

(* Bootstrapper.Start up to the spawn: a missing binary or compose file    *)
(* ends it; a missing token file does not.                                 *)
Spawn(r) ==
    /\ pc[r] = "boot"
    /\ \/ \E converted \in BOOLEAN :
            /\ converted => exe
            /\ extras' = [extras EXCEPT ![r] = filterExisting(converted)]
            /\ tok' = [tok EXCEPT ![r] = file]
            /\ spawned' = spawned \cup {r}
            /\ Goto(r, "wait")
       \/ Goto(r, "failed") /\ UNCHANGED <<extras, tok, spawned>>
    /\ UNCHANGED <<exe, file, fragment, clientTok, server, status, op, calm, events>>

(* The spawned supervisor, in its own session: it reads its files and      *)
(* opens the port, or ends: the port is taken, or a file it was given is   *)
(* not there.                                                              *)
Boot(r) ==
    /\ r \in spawned
    /\ spawned' = spawned \ {r}
    /\ \/ /\ server = Nobody
          /\ extras[r] => fragment
          /\ server' = [token |-> file, both |-> extras[r], from |-> r]
          /\ status' = [p \in Proc |-> "Launching"]
          /\ Disturb({r})
       \/ /\ server # Nobody \/ (extras[r] /\ ~fragment)
          /\ UNCHANGED <<server, status, calm>>
    /\ UNCHANGED <<exe, file, fragment, clientTok, pc, op, tok, extras, events>>

(* Start's wait: a ping with the token it read, by whoever answers, ends   *)
(* it with success; five seconds without one, with an error.               *)
Wait(r) ==
    /\ pc[r] = "wait"
    /\ \/ Answers(tok[r]) /\ Goto(r, "done")
       \/ Goto(r, "failed")
    /\ UNCHANGED <<envVars, op, tok, extras, calm>>

(* Mutant of swallowed: the stop of a process reports no error at all. *)
swallowAll(act, p) == act = "stop"

(* Client.Stop: "is not running" is no error. *)
swallowed(act, p) ==
    act = "stop" /\ Answers(clientTok) /\ status[p] \in {"Disabled", "Completed", "Error"}

(* processAction and handleComposeReload, the call: what process-compose   *)
(* does with it, if it can be reached and knows the process' state fit.    *)
Moves(act, p, s) ==
    \/ act = "start" /\ status[p] \notin {"Launching", "Running", "Restarting"} /\ s = "Launching"
    \/ act = "stop" /\ status[p] \in {"Launching", "Running", "Restarting"} /\ s = "Completed"
    \/ act = "restart" /\ s = "Launching"

Act(r) ==
    LET act == op[r].act
        p == op[r].proc IN
    /\ pc[r] = "act"
    /\ \/ /\ Answers(clientTok) /\ act # "reload"
          /\ \E s \in Status : Moves(act, p, s) /\ status' = [status EXCEPT ![p] = s]
          /\ Disturb({r})
          /\ Goto(r, "done")
       \/ /\ Answers(clientTok) /\ act = "start" /\ status[p] \in {"Launching", "Running", "Restarting"}
          /\ Goto(r, "done")
          /\ UNCHANGED <<status, calm>>
       \/ /\ Answers(clientTok) /\ act = "reload"
          /\ \E s \in [Proc -> Status] :
                /\ \A q \in Proc : s[q] \in {status[q], "Launching"}
                /\ status' = s
          /\ Disturb({r})
          /\ Goto(r, "done")
       \/ /\ UNCHANGED <<status, calm>>                 \* an error, or no answer
          /\ Goto(r, IF swallowed(act, p) THEN "done" ELSE "failed")
    /\ UNCHANGED <<exe, file, fragment, clientTok, server, spawned, op, tok, extras, events>>

(* buildInstanceViews for handleServicesInstance: ping, then the list. *)
Card(r) ==
    /\ pc[r] = "card"
    /\ \/ Answers(clientTok) /\ Goto(r, "done")
       \/ Goto(r, "offline")
    /\ UNCHANGED <<envVars, op, tok, extras, calm>>

(* Processes come up, end and are restarted; the supervisor is shut down;  *)
(* the files change.                                                       *)
Drift ==
    /\ events < MaxEvents
    /\ events' = events + 1
    /\ Disturb({})
    /\ \/ /\ server # Nobody
          /\ \E p \in Proc, s \in {"Running", "Completed", "Error", "Restarting"} :
                status[p] \in {"Launching", "Running", "Restarting"} /\ status' = [status EXCEPT ![p] = s]
          /\ UNCHANGED <<server, file, fragment>>
       \/ /\ server # Nobody
          /\ server' = Nobody /\ status' = Off
          /\ UNCHANGED <<file, fragment>>
       \/ file' \in Token /\ UNCHANGED <<server, status, fragment>>
       \/ fragment' = ~fragment /\ UNCHANGED <<server, status, file>>
    /\ UNCHANGED <<exe, clientTok, spawned, pc, op, tok, extras>>

Next ==
    \/ \E r \in Request :
        \/ \E o \in Op : Begin(r, o)
        \/ Spawn(r) \/ Boot(r) \/ Wait(r) \/ Act(r) \/ Card(r)
    \/ Drift

Spec == Init /\ [][Next]_vars

-----------------------------------------------------------------------------
TypeOK ==
    /\ file \in Token \cup {NoToken}
    /\ server \in Supervisors \cup {Nobody}
    /\ status \in [Proc -> Status]
    /\ spawned \subseteq Request
    /\ pc \in [Request -> PC]
    /\ op \in [Request -> Op]
    /\ tok \in [Request -> Token \cup {NoToken}]

(* What an answer says of an instance is so, when nobody else changed it   *)
(* meanwhile.  After a start there is a supervisor on the port that takes  *)
(* the token of the file; the dashboard's own client reaches it if that    *)
(* token is still the one of the dashboard's start; and a Linux supervisor *)
(* that this start brought up runs the fragment if there is one.  After a  *)
(* stop the process is down, after a start or restart it is up.            *)
ActionsHold ==
    \A r \in Request : (pc[r] = "done" /\ calm[r]) =>
        CASE op[r].act = "boot" ->
                /\ Answers(tok[r]) /\ Answers(file)
                /\ clientTok = file => Answers(clientTok)
                /\ (server.from = r /\ ~exe) => (server.both <=> fragment)
          [] op[r].act = "stop" -> status[op[r].proc] \notin {"Launching", "Running", "Restarting"}
          [] op[r].act \in {"start", "restart"} ->
                status[op[r].proc] \in {"Launching", "Running", "Restarting"}
          [] OTHER -> Answers(clientTok)
=============================================================================
