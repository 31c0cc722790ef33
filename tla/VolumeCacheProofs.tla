------------------------- MODULE VolumeCacheProofs -------------------------
(***************************************************************************)
(* Proofs about VolumeCache, for any callers, volumes and versions: its    *)
(* types, one fetch per key and none for what the cache holds, and that    *)
(* every step of the client is one of VolumeMemo or none.                  *)
(***************************************************************************)
EXTENDS VolumeCache, TLAPS

(* A caller asks for something from its call to its answer. *)
KeyInv == \A c \in Caller : IF pc[c] = "idle" THEN key[c] = NoKey ELSE key[c] \in Key

(* Whoever is inside the singleflight call of a key leads it. *)
LeaderInv ==
    \A c \in Caller : pc[c] \in Fetching \cup {"recheck", "leave"} => flight[key[c]] = c

(* A fetch runs only while there is nothing to hit. *)
ColdInv == \A c \in Caller : pc[c] \in Fetching => ~Hit(key[c])

IInv == TypeOK /\ KeyInv /\ LeaderInv /\ ColdInv

(* The floor lies in the past, and that of a call under way below it. *)
FloorInv ==
    /\ \A k \in Key : floor[k] <= disk[k]
    /\ \A c \in Caller : pc[c] # "idle" => low[c] <= floor[key[c]]

(* d is about to be answered with something no newer than v. *)
Behind(v, k) == \A d \in Caller : pc[d] = "have" /\ key[d] = k => held[d] <= v

(* What the cache holds, and what a fetch has read, was there, and is      *)
(* newer than the floor and than every answer on its way: fetches of a key *)
(* follow one another.                                                     *)
CacheInv == \A k \in Key : Hit(k) =>
    floor[k] <= cache[k] /\ cache[k] <= disk[k] /\ Behind(cache[k], k)
FetchedInv == \A c \in Caller : pc[c] \in {"put", "leave"} /\ held[c] # Err =>
    floor[key[c]] <= held[c] /\ held[c] <= disk[key[c]] /\ Behind(held[c], key[c])
LeaveInv == \A c \in Caller : pc[c] = "leave" => cache[key[c]] \in {Err, held[c]}

(* So an answer is one that VolumeMemo could give. *)
AnswerInv == \A c \in Caller : pc[c] = "have" /\ held[c] # Err =>
    low[c] <= held[c] /\ held[c] <= disk[key[c]]

PromiseInv == FloorInv /\ CacheInv /\ FetchedInv /\ LeaveInv /\ AnswerInv
-----------------------------------------------------------------------------
(* Types and flights *)

(* The first component of a key is its volume. *)
LEMMA VolumeOfKey == \A k \in Key : k[1] \in Volume
BY DEF Key

LEMMA IInit == Init => IInv
BY NoOneAssumption, EditsAssumption
   DEF Init, IInv, TypeOK, KeyInv, LeaderInv, ColdInv, PC, Fetching, Absent, Err

LEMMA INext == IInv /\ [Next]_vars => IInv'
<1> SUFFICES ASSUME IInv, [Next]_vars PROVE IInv'
    OBVIOUS
<1> USE NoOneAssumption, EditsAssumption
        DEF IInv, TypeOK, KeyInv, LeaderInv, ColdInv, PC, Fetching, Hit, Goto, Take, Err
<1>1. ASSUME NEW c \in Caller, NEW k \in Key, Ask(c, k) PROVE IInv'
    BY <1>1 DEF Ask
<1>2. ASSUME NEW c \in Caller, Get(c) PROVE IInv'
    BY <1>2 DEF Get
<1>3. ASSUME NEW c \in Caller, Do(c) PROVE IInv'
    BY <1>3 DEF Do
<1>4. ASSUME NEW c \in Caller, Recheck(c) PROVE IInv'
    BY <1>4 DEF Recheck
<1>5. ASSUME NEW c \in Caller, Find(c) PROVE IInv'
    BY <1>5, VolumeOfKey DEF Find, Absent, Via
<1>6. ASSUME NEW c \in Caller, Inspect(c) PROVE IInv'
    BY <1>6, VolumeOfKey DEF Inspect, Absent, Via
<1>7. ASSUME NEW c \in Caller, Exec(c) PROVE IInv'
    BY <1>7 DEF Exec
<1>8. ASSUME NEW c \in Caller, Sidecar(c) PROVE IInv'
    BY <1>8 DEF Sidecar
<1>9. ASSUME NEW c \in Caller, Put(c) PROVE IInv'
    BY <1>9 DEF Put
<1>10. ASSUME NEW c \in Caller, Leave(c) PROVE IInv'
    BY <1>10 DEF Leave
<1>11. ASSUME NEW c \in Caller, Return(c) PROVE IInv'
    BY <1>11 DEF Return
<1>12. ASSUME NEW k \in Key, Edit(k) PROVE IInv'
    BY <1>12 DEF Edit, callVars
<1>13. ASSUME NEW k \in Key, Expire(k) PROVE IInv'
    BY <1>13 DEF Expire, callVars
<1>14. ASSUME NEW v \in Volume, StartStop(v) PROVE IInv'
    BY <1>14 DEF StartStop, callVars
<1>15. ASSUME NEW v \in Volume, ExpireHost(v) PROVE IInv'
    BY <1>15 DEF ExpireHost, callVars, Absent
<1>16. ASSUME NEW v \in Volume, Invalidate(v) PROVE IInv'
    BY <1>16 DEF Invalidate, callVars
<1>17. CASE UNCHANGED vars
    BY <1>17 DEF vars, callVars
<1> QED
    BY <1>1, <1>2, <1>3, <1>4, <1>5, <1>6, <1>7, <1>8, <1>9, <1>10, <1>11, <1>12, <1>13, <1>14,
       <1>15, <1>16, <1>17 DEF Next, Step

(* The client's state is well typed, each flight has its leader and nobody *)
(* waits for one that has ended: volumeGroup is left by whoever entered it.*)
THEOREM TypeCorrect == Spec => []TypeOK
<1>1. IInv => TypeOK
    BY DEF IInv
<1> QED
    BY <1>1, IInit, INext, PTL DEF Spec

LEMMA IInvFetchOnMiss == IInv => FetchOnMiss
BY DEF IInv, LeaderInv, ColdInv, FetchOnMiss, Fetching

(* However callers, expiries and invalidations interleave, a key is        *)
(* fetched by one caller at a time, and only while the cache has no answer.*)
THEOREM OneFetch == Spec => []FetchOnMiss
BY IInit, INext, IInvFetchOnMiss, PTL DEF Spec
-----------------------------------------------------------------------------
(* The promise *)

LEMMA PromiseInit == Init => PromiseInv
BY NoOneAssumption, EditsAssumption
   DEF Init, PromiseInv, FloorInv, CacheInv, FetchedInv, LeaveInv, AnswerInv, Hit, Err

LEMMA PromiseNext == IInv /\ IInv' /\ PromiseInv /\ [Next]_vars => PromiseInv'
<1> SUFFICES ASSUME IInv, IInv', PromiseInv, [Next]_vars PROVE PromiseInv'
    OBVIOUS
<1> USE NoOneAssumption, EditsAssumption
        DEF IInv, TypeOK, KeyInv, LeaderInv, ColdInv, PromiseInv, FloorInv, CacheInv,
            FetchedInv, LeaveInv, AnswerInv, Behind, PC, Fetching, Hit, Goto, Take, Err
<1>1. ASSUME NEW c \in Caller, NEW k \in Key, Ask(c, k) PROVE PromiseInv'
    BY <1>1 DEF Ask
<1>2. ASSUME NEW c \in Caller, Get(c) PROVE PromiseInv'
    BY <1>2 DEF Get
<1>3. ASSUME NEW c \in Caller, Do(c) PROVE PromiseInv'
    BY <1>3 DEF Do
<1>4. ASSUME NEW c \in Caller, Recheck(c) PROVE PromiseInv'
    BY <1>4 DEF Recheck
<1>5. ASSUME NEW c \in Caller, Find(c) PROVE PromiseInv'
    BY <1>5 DEF Find, Absent, Via
<1>6. ASSUME NEW c \in Caller, Inspect(c) PROVE PromiseInv'
    BY <1>6 DEF Inspect, Absent, Via
<1>7. ASSUME NEW c \in Caller, Exec(c) PROVE PromiseInv'
    BY <1>7 DEF Exec
<1>8. ASSUME NEW c \in Caller, Sidecar(c) PROVE PromiseInv'
    BY <1>8 DEF Sidecar
<1>9. ASSUME NEW c \in Caller, Put(c) PROVE PromiseInv'
    BY <1>9 DEF Put
<1>10. ASSUME NEW c \in Caller, Leave(c) PROVE PromiseInv'
    BY <1>10 DEF Leave
<1>11. ASSUME NEW c \in Caller, Return(c) PROVE PromiseInv'
    BY <1>11 DEF Return
<1>12. ASSUME NEW k \in Key, Edit(k) PROVE PromiseInv'
    BY <1>12 DEF Edit, callVars
<1>13. ASSUME NEW k \in Key, Expire(k) PROVE PromiseInv'
    BY <1>13 DEF Expire, callVars
<1>14. ASSUME NEW v \in Volume, StartStop(v) PROVE PromiseInv'
    BY <1>14 DEF StartStop, callVars
<1>15. ASSUME NEW v \in Volume, ExpireHost(v) PROVE PromiseInv'
    BY <1>15 DEF ExpireHost, callVars, Absent
<1>16. ASSUME NEW v \in Volume, Invalidate(v) PROVE PromiseInv'
    BY <1>16 DEF Invalidate, callVars
<1>17. CASE UNCHANGED vars
    BY <1>17 DEF vars, callVars
<1> QED
    BY <1>1, <1>2, <1>3, <1>4, <1>5, <1>6, <1>7, <1>8, <1>9, <1>10, <1>11, <1>12, <1>13, <1>14,
       <1>15, <1>16, <1>17 DEF Next, Step
-----------------------------------------------------------------------------
(* Refinement *)

(* The answers as VolumeMemo sees them. *)
Got == [c \in Caller |-> IF pc[c] = "idle" THEN held[c] ELSE Blank]

LEMMA MemoInit == Init => Memo!Init
BY DEF Init, Memo!Init, Memo!Err, Err

(* A step that neither begins nor ends a call, nor changes the volume, is  *)
(* none of VolumeMemo.                                                     *)
LEMMA Stutter ==
    ASSUME TypeOK, TypeOK', NEW c \in Caller, pc[c] # "idle", pc'[c] # "idle",
           \A d \in Caller \ {c} : pc'[d] = pc[d] /\ held'[d] = held[d],
           UNCHANGED <<disk, floor, key, low>>
    PROVE  UNCHANGED Memo!vars
<1>1. Got' = Got
    BY DEF Got, TypeOK
<1> QED
    BY <1>1 DEF Memo!vars, Memo!Blank, Got, Blank

(* The steps inside a call other than its beginning and end. *)
LEMMA InsideStutters ==
    ASSUME IInv, IInv', NEW c \in Caller,
           Get(c) \/ Do(c) \/ Recheck(c) \/ Find(c) \/ Inspect(c)
           \/ Exec(c) \/ Sidecar(c) \/ Put(c)
    PROVE  UNCHANGED Memo!vars
<1> USE DEF IInv, TypeOK, Goto, Take
<1>1. CASE Get(c) \/ Do(c) \/ Recheck(c)
    BY <1>1, Stutter DEF Get, Do, Recheck
<1>2. CASE Find(c) \/ Inspect(c)
    BY <1>2, Stutter DEF Find, Inspect, Via
<1>3. CASE Exec(c) \/ Sidecar(c) \/ Put(c)
    BY <1>3, Stutter DEF Exec, Sidecar, Put
<1> QED
    BY <1>1, <1>2, <1>3

(* The end of a flight hands its result to callers that still wait.        *)
LEMMA LeaveStutters ==
    ASSUME IInv, NEW c \in Caller, Leave(c)
    PROVE  UNCHANGED Memo!vars
<1>1. Got' = Got
    BY DEF Got, IInv, TypeOK, Leave
<1> QED
    BY <1>1 DEF Memo!vars, Memo!Blank, Got, Blank, Leave

LEMMA AskAsks ==
    ASSUME IInv, NEW c \in Caller, NEW k \in Key, Ask(c, k)
    PROVE  Memo!Ask(c, k)
<1>1. Got' = [Got EXCEPT ![c] = Blank]
    BY DEF Got, IInv, TypeOK, Ask, Goto
<1>2. key[c] = NoKey
    BY DEF IInv, KeyInv, Ask
<1> QED
    BY <1>1, <1>2 DEF Ask, Memo!Ask, Memo!Blank, Got, Blank

(* An answer is one VolumeMemo could give, or its error. *)
LEMMA ReturnAnswers ==
    ASSUME IInv, PromiseInv, NEW c \in Caller, Return(c)
    PROVE  Memo!Give(c) \/ Memo!Refuse(c)
<1>1. key[c] \in Key
    BY DEF IInv, KeyInv, Return
<1>2. Got' = [Got EXCEPT ![c] = held[c]]
    BY DEF Got, IInv, TypeOK, Return, Goto
<1>3. CASE held[c] = Err
    <2>1. floor' = floor
        BY <1>1, <1>3, EditsAssumption DEF IInv, TypeOK, Return, Err
    <2> QED
        BY <1>1, <1>2, <1>3, <2>1 DEF Return, Memo!Refuse, Memo!Err, Memo!Blank, Got, Blank, Err
<1>4. CASE held[c] # Err
    <2>1. low[c] <= held[c] /\ held[c] <= disk[key[c]]
        BY <1>4 DEF PromiseInv, AnswerInv, Return
    <2>2. held[c] \in low[c] .. MaxEdits
        BY <2>1, EditsAssumption DEF IInv, TypeOK, Err
    <2> QED
        BY <1>1, <1>2, <2>1, <2>2 DEF Return, Memo!Give, Memo!Blank, Got, Blank
<1> QED
    BY <1>3, <1>4

(* What others do to the volume is the same in both, and an invalidation   *)
(* is a barrier for the keys that nobody is fetching.                      *)
LEMMA WorldMoves ==
    ASSUME IInv,
           \/ \E k \in Key : Edit(k) \/ Expire(k)
           \/ \E v \in Volume : StartStop(v) \/ ExpireHost(v) \/ Invalidate(v)
    PROVE  [Memo!Next]_(Memo!vars)
<1>1. ASSUME NEW k \in Key, Edit(k) PROVE Memo!Next
    BY <1>1 DEF Edit, callVars, Memo!Next, Memo!Edit
<1>2. ASSUME NEW k \in Key, Expire(k) PROVE UNCHANGED Memo!vars
    BY <1>2 DEF Expire, callVars, Memo!vars
<1>3. ASSUME NEW v \in Volume, StartStop(v) \/ ExpireHost(v) PROVE UNCHANGED Memo!vars
    BY <1>3 DEF StartStop, ExpireHost, callVars, Memo!vars
<1>4. ASSUME NEW v \in Volume, Invalidate(v) PROVE Memo!Next
    <2> DEFINE Idle == {k \in Key : k[1] = v /\ flight[k] = NoOne}
    <2>1. floor' = [k \in Key |-> IF k \in Idle THEN disk[k] ELSE floor[k]]
        BY <1>4 DEF Invalidate
    <2>2. Memo!Barrier
        BY <1>4, <2>1 DEF Invalidate, callVars, Memo!Barrier
    <2> QED
        BY <2>2 DEF Memo!Next
<1> QED
    BY <1>1, <1>2, <1>3, <1>4

(* The safety part of the promise: whatever the caches, flights, execs and *)
(* sidecars do, callers see answers that never go back in time and that    *)
(* respect the barriers.                                                   *)
THEOREM ImplementsMemo == Spec => Memo!Promise
<1>1. IInv /\ IInv' /\ PromiseInv /\ [Next]_vars => [Memo!Next]_(Memo!vars)
    <2> SUFFICES ASSUME IInv, IInv', PromiseInv, [Next]_vars PROVE [Memo!Next]_(Memo!vars)
        OBVIOUS
    <2>1. ASSUME NEW c \in Caller, NEW k \in Key, Ask(c, k) PROVE Memo!Next
        BY <2>1, AskAsks DEF Memo!Next
    <2>2. ASSUME NEW c \in Caller, Step(c) PROVE [Memo!Next]_(Memo!vars)
        BY <2>2, InsideStutters, LeaveStutters, ReturnAnswers DEF Step, Memo!Next
    <2>3. CASE UNCHANGED vars
        BY <2>3 DEF vars, callVars, Memo!vars
    <2> QED
        BY <2>1, <2>2, <2>3, WorldMoves DEF Next
<1> QED
    BY <1>1, IInit, INext, PromiseInit, PromiseNext, MemoInit, PTL DEF Spec, Memo!Promise
=============================================================================
