------------------------------- MODULE Llama -------------------------------
(***************************************************************************)
(* One llama-server of the llama view (internal/web/llama.go over          *)
(* internal/llama/client.go): the drain, which erases busy slots until a   *)
(* poll finds none or a cap is hit, the load and unload of a router's      *)
(* models, and the card, which reads the list of models and then the slots *)
(* of each live one.  The server, its router and its clients, who keep     *)
(* sending tasks, are the environment; a single-model server lists its     *)
(* model without a status.                                                 *)
(***************************************************************************)
EXTENDS Naturals, FiniteSets

CONSTANTS
    Request,        \* handler goroutines; each serves one request
    Model,          \* presets of the server
    Slot,           \* slots of each loaded model
    NoModel,        \* the empty model ID
    MaxIterations   \* DrainOptions.MaxIterations

(* What the constants are assumed to be. *)
Assumptions == NoModel \notin Model /\ MaxIterations \in Nat \ {0}

VARIABLES
    router,   \* the server runs in router mode
    status,   \* status[m]: the router's status.value of m
    busy,     \* busy[m]: the slots of m that are processing
    pc,       \* where each request is
    op,       \* what it is for
    model,    \* the model it names
    iter,     \* DrainResult.Iterations
    todo,     \* the slots the last poll reported busy and still to be erased
    cap,      \* DrainResult.HitSafetyCap
    hit,      \* history: the models whose tasks the drain has cancelled
    quiet,    \* history: the last poll of the drain found no slot busy
    card      \* the card, as far as it is read: what each model is shown as

serverVars == <<router, status, busy>>
drainVars == <<iter, todo, cap, hit, quiet>>
vars == <<serverVars, pc, op, model, drainVars, card>>

Status == {"unloaded", "loading", "loaded", "sleeping"}
Live == {"loaded", "sleeping"}
Op == {"drain", "load", "unload", "card"}
PC == {"idle", "identify", "poll", "erase", "pause", "act", "read", "done", "failed", "panicked"}

(* What a card says of a model: its status and the slots that were busy,   *)
(* or "none" when they were not asked for or could not be read.            *)
Shown == [status : Status, read : BOOLEAN, busy : SUBSET Slot]

Init ==
    /\ router \in BOOLEAN
    /\ status \in [Model -> {"unloaded", "loaded"}]
    /\ ~router => Cardinality({m \in Model : status[m] = "loaded"}) = 1
    /\ busy = [m \in Model |-> {}]
    /\ pc = [r \in Request |-> "idle"]
    /\ op = [r \in Request |-> "drain"]
    /\ model = [r \in Request |-> NoModel]
    /\ iter = [r \in Request |-> 0]
    /\ todo = [r \in Request |-> {}]
    /\ cap = [r \in Request |-> FALSE]
    /\ hit = [r \in Request |-> {}]
    /\ quiet = [r \in Request |-> FALSE]
    /\ card = [r \in Request |-> <<>>]

Goto(r, label) == pc' = [pc EXCEPT ![r] = label]

Begin(r, o, m) ==
    /\ pc[r] = "idle"
    /\ op' = [op EXCEPT ![r] = o]
    /\ model' = [model EXCEPT ![r] = IF o \in {"load", "unload"} THEN m ELSE NoModel]
    /\ Goto(r, CASE o = "drain" -> "identify" [] o = "card" -> "read" [] OTHER -> "act")
    /\ UNCHANGED <<serverVars, drainVars, card>>

(* GET /v1/models: a single-model server's entries carry no status block.  *)
Omitted == "omitted"
Listed == [m \in Model |-> IF router THEN status[m] ELSE Omitted]
IsRouterMode(list) == \E m \in DOMAIN list : list[m] # Omitted

-----------------------------------------------------------------------------
(* POST drain. *)

(* handleLlamaDrain looks for a loaded model.  Every entry's status is     *)
(* dereferenced, and a single-model server's entry has none.               *)
Identify(r) ==
    /\ pc[r] = "identify"
    /\ \/ /\ \E m \in Model : Listed[m] = Omitted
          /\ Goto(r, "panicked")
          /\ UNCHANGED model
       \/ /\ \E m \in Model : Listed[m] = "loaded" /\ model' = [model EXCEPT ![r] = m]
          /\ Goto(r, "poll")
       \/ Goto(r, "poll") /\ UNCHANGED model          \* no list, or nothing loaded
    /\ UNCHANGED <<serverVars, op, drainVars, card>>

(* The slots the server reports: a router wants a loaded model's name.     *)
Answers(m) == IF router THEN m \in Model /\ status[m] = "loaded" ELSE m = NoModel
BusyOf(m) == IF m = NoModel THEN UNION {busy[n] : n \in Model} ELSE busy[m]

Finish(r, iterations, capped) ==
    /\ cap' = [cap EXCEPT ![r] = capped \/ iterations >= MaxIterations]
    /\ Goto(r, "done")

(* Drain, the head of the loop: count the round, look at the deadline,     *)
(* poll the slots; nothing busy ends it, and so does a failed poll.        *)
Poll(r) ==
    /\ pc[r] = "poll"
    /\ iter' = [iter EXCEPT ![r] = @ + 1]
    /\ \/ /\ Finish(r, iter[r] + 1, TRUE)              \* the deadline passed
          /\ UNCHANGED <<todo, quiet>>
       \/ /\ Answers(model[r]) /\ BusyOf(model[r]) = {}
          /\ quiet' = [quiet EXCEPT ![r] = TRUE]
          /\ Finish(r, iter[r] + 1, FALSE)
          /\ UNCHANGED todo
       \/ /\ Answers(model[r]) /\ BusyOf(model[r]) # {}
          /\ todo' = [todo EXCEPT ![r] = BusyOf(model[r])]
          /\ Goto(r, "erase")
          /\ UNCHANGED <<cap, quiet>>
       \/ Goto(r, "failed") /\ UNCHANGED <<todo, cap, quiet>>
    /\ UNCHANGED <<serverVars, op, model, hit, card>>

Erased(r, m, s) ==
    /\ busy' = [busy EXCEPT ![m] = @ \ {s}]
    /\ hit' = [hit EXCEPT ![r] = IF s \in busy[m] THEN @ \cup {m} ELSE @]

(* Mutant of Erase: the calls name whichever model is loaded now. *)
EraseLoaded(r) == \E s \in todo[r] :
    /\ pc[r] = "erase"
    /\ todo' = [todo EXCEPT ![r] = @ \ {s}]
    /\ Goto(r, IF todo[r] = {s} THEN "pause" ELSE "erase")
    /\ \E m \in Model : status[m] = "loaded" /\ Erased(r, m, s)
    /\ UNCHANGED <<router, status, op, model, iter, cap, quiet, card>>

(* EraseSlot of one reported slot: whatever it processes by now is         *)
(* cancelled; an error is passed over.                                     *)
Erase(r) == \E s \in todo[r] :
    /\ pc[r] = "erase"
    /\ todo' = [todo EXCEPT ![r] = @ \ {s}]
    /\ Goto(r, IF todo[r] = {s} THEN "pause" ELSE "erase")
    /\ \/ /\ Answers(model[r])
          /\ \E m \in Model : (model[r] \in {m, NoModel}) /\ Erased(r, m, s)
       \/ UNCHANGED <<busy, hit>>
    /\ UNCHANGED <<router, status, op, model, iter, cap, quiet, card>>

(* Mutant of Pause: one round more. *)
PauseOnceMore(r) ==
    /\ pc[r] = "pause"
    /\ \/ iter[r] <= MaxIterations /\ Goto(r, "poll") /\ UNCHANGED cap
       \/ iter[r] > MaxIterations /\ Finish(r, iter[r], FALSE)
       \/ Goto(r, "failed") /\ UNCHANGED cap
    /\ UNCHANGED <<serverVars, op, model, iter, todo, hit, quiet, card>>

(* The wait between rounds, which the request's end cuts short.            *)
Pause(r) ==
    /\ pc[r] = "pause"
    /\ \/ iter[r] < MaxIterations /\ Goto(r, "poll") /\ UNCHANGED cap
       \/ iter[r] >= MaxIterations /\ Finish(r, iter[r], FALSE)
       \/ Goto(r, "failed") /\ UNCHANGED cap
    /\ UNCHANGED <<serverVars, op, model, iter, todo, hit, quiet, card>>

-----------------------------------------------------------------------------
(* POST load and unload: loading is queued, and evicts what --models-max=1 *)
(* leaves no room for; an unload takes effect before it is answered.       *)
Lifecycle(r) ==
    LET m == model[r]
        out == IF op[r] = "unload" THEN {m} ELSE {n \in Model \ {m} : status[n] # "unloaded"} IN
    /\ pc[r] = "act"
    /\ \/ /\ router
          /\ status' = [n \in Model |->
                IF n \in out THEN "unloaded"
                ELSE IF n = m /\ status[m] \notin Live THEN "loading" ELSE status[n]]
          /\ busy' = [n \in Model |-> IF n \in out THEN {} ELSE busy[n]]
          /\ Goto(r, "done")
       \/ Goto(r, "failed") /\ UNCHANGED <<status, busy>>
    /\ UNCHANGED <<router, op, model, drainVars, card>>

(* probeLlamaServer and probeRouterModels: the list first, then the slots  *)
(* of the models that were live in it.  IsRouterMode tells by the statuses *)
(* which of the two layouts is shown.                                      *)
ReadModels(r) ==
    /\ pc[r] = "read" /\ card[r] = <<>>
    /\ \/ /\ IsRouterMode(Listed)
          /\ card' = [card EXCEPT ![r] =
                [m \in Model |-> [status |-> Listed[m], read |-> FALSE, busy |-> {}]]]
          /\ UNCHANGED pc
       \/ /\ ~IsRouterMode(Listed)      \* probeFlatLlama
          /\ card' = [card EXCEPT ![r] = [m \in {NoModel} |->
                [status |-> "loaded", read |-> TRUE, busy |-> BusyOf(NoModel)]]]
          /\ Goto(r, "done")
       \/ Goto(r, "failed") /\ UNCHANGED card
    /\ UNCHANGED <<serverVars, op, model, drainVars>>

Unread(r) == {m \in DOMAIN card[r] : card[r][m].status \in Live /\ ~card[r][m].read}

ReadSlots(r) ==
    /\ pc[r] = "read" /\ card[r] # <<>>
    /\ \/ \E m \in Unread(r) :
          /\ card' = [card EXCEPT ![r][m] =
                [@ EXCEPT !.read = TRUE, !.busy = IF Answers(m) THEN busy[m] ELSE {}]]
          /\ UNCHANGED pc
       \/ Unread(r) = {} /\ Goto(r, "done") /\ UNCHANGED card
    /\ UNCHANGED <<serverVars, op, model, drainVars>>

-----------------------------------------------------------------------------
(* The server and its clients. *)

Serve(m) ==
    /\ \/ /\ status[m] = "loading"
          /\ \E s \in {"loaded", "unloaded"} : status' = [status EXCEPT ![m] = s]
          /\ UNCHANGED busy
       \/ /\ router /\ status[m] = "loaded" /\ busy[m] = {}
          /\ status' = [status EXCEPT ![m] = "sleeping"]
          /\ UNCHANGED busy
       \/ /\ status[m] = "loaded"      \* a slot takes a task, new or deferred
          /\ \E s \in Slot \ busy[m] : busy' = [busy EXCEPT ![m] = @ \cup {s}]
          /\ UNCHANGED status
       \/ /\ \E s \in busy[m] : busy' = [busy EXCEPT ![m] = @ \ {s}]
          /\ UNCHANGED status
    /\ UNCHANGED <<router, pc, op, model, drainVars, card>>

Next ==
    \/ \E r \in Request :
        \/ \E o \in Op, m \in Model : Begin(r, o, m)
        \/ Identify(r) \/ Poll(r) \/ Erase(r) \/ Pause(r)
        \/ Lifecycle(r) \/ ReadModels(r) \/ ReadSlots(r)
    \/ \E m \in Model : Serve(m)

Spec == Init /\ [][Next]_vars

-----------------------------------------------------------------------------
TypeOK ==
    /\ status \in [Model -> Status]
    /\ busy \in [Model -> SUBSET Slot]
    /\ pc \in [Request -> PC]
    /\ model \in [Request -> Model \cup {NoModel}]
    /\ iter \in [Request -> 0 .. MaxIterations]
    /\ todo \in [Request -> SUBSET Slot]
    /\ \A r \in Request : \A m \in DOMAIN card[r] : card[r][m] \in Shown

(* A drain, whatever the server does meanwhile, keeps to its bound; it     *)
(* says that it was done, and not cut off, only after a poll that found    *)
(* nothing busy; and it cancels tasks of no other model than the one it    *)
(* set out to drain, though another may be loaded by then.                 *)
DrainHonest ==
    \A r \in Request : op[r] = "drain" =>
        /\ iter[r] <= MaxIterations
        /\ pc[r] = "done" /\ ~cap[r] => quiet[r]
        /\ model[r] # NoModel => hit[r] \subseteq {model[r]}
=============================================================================
