------------------------- MODULE EntityCacheProofs -------------------------
(***************************************************************************)
(* Proofs about EntityCache: its types, the scan budget, the barrier       *)
(* property and the growth of the sources, for every set of requests and   *)
(* sources and every bound.                                                *)
(***************************************************************************)
EXTENDS EntityCache, TLAPS

(* One view holds no more than another. *)
Precedes(v, w) ==
    v.known \subseteq w.known /\ \A s \in Source : v.at[s] <= w.at[s]

(* The request inside the flight is its leader. *)
LeaderInv == \A r \in Request : pc[r] \in Leading <=> flight = r
WaitInv == \A r \in Request : pc[r] = "wait" => flight # NoOne

(* A scan only runs while there is nothing to hit. *)
ColdInv == \A r \in Request : pc[r] \in {"snapshot", "scan"} => ~Hit

(* A scan is paid for by a lapse until it has filled the cache. *)
BudgetInv ==
    /\ scans <= 1 + lapses
    /\ Hit \/ (\E r \in Request : pc[r] = "scan") \/ scans <= lapses

(* The barrier lies in the past, and before it that of every request. *)
FloorInv == Precedes(floor, Now)
BaseInv == \A r \in Request : Precedes(base[r], floor)

(* What the cache, the scan and the flight hold is newer than the barrier. *)
CacheInv == Hit => Reflects(cached, floor)
ScanInv ==
    \A r \in Request : pc[r] = "scan" =>
        /\ floor.known \subseteq scan.visited
        /\ \A s \in floor.known \ (scan.failed \union scan.pending) :
                floor.at[s] <= scan.seen[s]
ResultInv == \A r \in Request : pc[r] = "leave" => Reflects(result, floor)

IInv ==
    /\ Types
    /\ LeaderInv /\ ColdInv /\ BudgetInv
    /\ FloorInv /\ BaseInv /\ CacheInv /\ ScanInv /\ ResultInv
    /\ BarrierVisible
-----------------------------------------------------------------------------
(* Types *)

(* The values every state starts from are well typed: no source read yet,  *)
(* no list, no scan, no view.                                              *)
LEMMA ConstantTypes ==
    /\ Unseen \in [Source -> Nat]
    /\ NoList \in List
    /\ NoScan \in Scan
    /\ NoView \in View
BY DEF Unseen, NoList, NoScan, NoView, List, Scan, View

(* A freshly built Server, its cache empty and no request running, is well *)
(* typed.                                                                  *)
LEMMA TypeInit == Init => Types
<1> SUFFICES ASSUME Init PROVE Types
    OBVIOUS
<1>1. fresh \in BOOLEAN
    BY Zenon DEF Init
<1>2. /\ sources \in SUBSET Source /\ version \in [Source -> Nat]
      /\ cached \in List /\ flight \in Request \union {NoOne}
      /\ result \in List /\ scan \in Scan
    BY ConstantTypes, SourcesAssumption DEF Init
<1>3. /\ pc \in [Request -> PC] /\ op \in [Request -> Op]
      /\ found \in [Request -> SUBSET Source] /\ held \in [Request -> List]
      /\ floor \in View /\ base \in [Request -> View]
    BY ConstantTypes DEF Init, PC, Op
<1>4. scans \in Nat /\ lapses \in Nat /\ fails \in Nat
    BY DEF Init
<1> QED
    BY <1>1, <1>2, <1>3, <1>4 DEF Types

(* A lapse keeps the types of what it changes. *)
LEMMA LapseTypes ==
    ASSUME Types, Lapse
    PROVE  fresh' \in BOOLEAN /\ lapses' \in Nat /\ floor' \in View
<1>1. fresh' \in BOOLEAN
    BY Zenon DEF Lapse
<1>2. lapses' \in Nat
    BY DEF Types, Lapse
<1>3. Now \in View
    BY DEF Types, Now, View
<1>4. floor' \in View
    BY <1>3 DEF Types, Lapse
<1> QED
    BY <1>1, <1>2, <1>4

(* Every step of a handler, of a scan or of the clock keeps the types.     *)
LEMMA TypeStep ==
    ASSUME Types, [Next]_vars
    PROVE  Types'
<1> USE ConstantTypes DEF Types, vars, cacheVars, flightVars, worldVars, reqVars, histVars
<1>1. ASSUME NEW r \in Request, NEW o \in Op, Begin(r, o)
       PROVE  Types'
    BY <1>1 DEF Begin, Goto, PC
<1>2. ASSUME NEW r \in Request, NEW D \in SUBSET Source, Discover(r, D)
       PROVE  Types'
    BY <1>2 DEF Discover, Goto, PC
<1>3. ASSUME NEW r \in Request, Lookup(r)
       PROVE  Types'
    BY <1>3 DEF Lookup, Goto, PC
<1>4. ASSUME NEW r \in Request, Join(r)
       PROVE  Types'
    BY <1>4 DEF Join, Goto, PC
<1>5. ASSUME NEW r \in Request, Recheck(r)
       PROVE  Types'
    BY <1>5 DEF Recheck, Goto, PC
<1>6. ASSUME NEW r \in Request, Snapshot(r)
       PROVE  Types'
    <2>1. scan' \in Scan
        BY <1>6 DEF Snapshot, Scan, NoScan
    <2> QED
        BY <1>6, <2>1 DEF Snapshot, Goto, PC
<1>7. ASSUME NEW r \in Request, Store(r)
       PROVE  Types'
    BY <1>7 DEF Store, Flatten, Goto, List, Scan, PC
<1>8. ASSUME NEW r \in Request, Leave(r)
       PROVE  Types'
    BY <1>8 DEF Leave, Callers, PC
<1>9. ASSUME NEW r \in Request, Respond(r)
       PROVE  Types'
    BY <1>9 DEF Respond, Finish, Goto, PC, Op
<1>10. ASSUME NEW r \in Request, Merge(r)
       PROVE  Types'
    BY <1>10 DEF Merge, Goto, PC
<1>11. ASSUME NEW r \in Request, Invalidate(r)
       PROVE  Types'
    BY <1>11, LapseTypes DEF Invalidate, Lapse, Goto, PC
<1>12. ASSUME NEW r \in Request, NEW s \in Source, ReadSource(r, s)
       PROVE  Types'
    BY <1>12 DEF ReadSource, Scan
<1>13. ASSUME NEW r \in Request, NEW s \in Source, FailSource(r, s)
       PROVE  Types'
    <2>1. scan' \in Scan
        BY <1>13 DEF FailSource, Scan
    <2> QED
        BY <1>13, <2>1 DEF FailSource
<1>14. ASSUME NEW r \in Request, NEW s \in Source, WriteEntity(r, s)
       PROVE  Types'
    BY <1>14 DEF WriteEntity, Change, Finish, Goto, PC, Op
<1>15. ASSUME NEW s \in Source, Edit(s)
       PROVE  Types'
    BY <1>15 DEF Edit, Change
<1>16. ASSUME HandleRefresh
       PROVE  Types'
    BY <1>16, LapseTypes DEF HandleRefresh, Lapse
<1>17. ASSUME Expire
       PROVE  Types'
    BY <1>17, LapseTypes DEF Expire, Lapse
<1>18. CASE UNCHANGED vars
    BY <1>18
<1> QED
    BY <1>1, <1>2, <1>3, <1>4, <1>5, <1>6, <1>7, <1>8, <1>9, <1>10, <1>11, <1>12, <1>13, <1>14,
       <1>15, <1>16, <1>17, <1>18 DEF Next, Step
-----------------------------------------------------------------------------
(* The inductive invariant *)

(* Requests enter and leave the flight with its leader. *)
LEMMA LeaderStep ==
    ASSUME Types, LeaderInv, [Next]_vars
    PROVE  LeaderInv'
<1> USE DEF Types, LeaderInv, Leading, PC, vars, cacheVars, flightVars, worldVars, reqVars,
            histVars
<1>1. ASSUME NEW r \in Request, NEW o \in Op, Begin(r, o) PROVE LeaderInv'
    BY <1>1 DEF Begin, Goto
<1>2. ASSUME NEW r \in Request, NEW D \in SUBSET Source, Discover(r, D) PROVE LeaderInv'
    BY <1>2 DEF Discover, Goto
<1>3. ASSUME NEW r \in Request, Lookup(r) PROVE LeaderInv'
    BY <1>3 DEF Lookup, Goto
<1>4. ASSUME NEW r \in Request, Join(r) PROVE LeaderInv'
    BY <1>4, NoOneAssumption DEF Join, Goto
<1>5. ASSUME NEW r \in Request, Recheck(r) PROVE LeaderInv'
    BY <1>5 DEF Recheck, Goto
<1>6. ASSUME NEW r \in Request, Snapshot(r) PROVE LeaderInv'
    BY <1>6 DEF Snapshot, Goto
<1>7. ASSUME NEW r \in Request, Store(r) PROVE LeaderInv'
    BY <1>7 DEF Store, Flatten, Goto
<1>8. ASSUME NEW r \in Request, Leave(r) PROVE LeaderInv'
    <2>1. pc[r] \in Leading /\ flight = r
        BY <1>8 DEF Leave, Callers
    <2>2. \A q \in Request : pc'[q] \notin Leading
        BY <1>8, <2>1 DEF Leave, Callers
    <2> QED
        BY <1>8, <2>2, NoOneAssumption DEF Leave, Callers
<1>9. ASSUME NEW r \in Request, Respond(r) PROVE LeaderInv'
    BY <1>9 DEF Respond, Finish, Goto
<1>10. ASSUME NEW r \in Request, Merge(r) PROVE LeaderInv'
    BY <1>10 DEF Merge, Goto
<1>11. ASSUME NEW r \in Request, Invalidate(r) PROVE LeaderInv'
    BY <1>11 DEF Invalidate, Lapse, Goto
<1>12. ASSUME NEW r \in Request, NEW s \in Source, ReadSource(r, s) PROVE LeaderInv'
    BY <1>12 DEF ReadSource
<1>13. ASSUME NEW r \in Request, NEW s \in Source, FailSource(r, s) PROVE LeaderInv'
    BY <1>13 DEF FailSource
<1>14. ASSUME NEW r \in Request, NEW s \in Source, WriteEntity(r, s) PROVE LeaderInv'
    BY <1>14 DEF WriteEntity, Change, Finish, Goto
<1>15. ASSUME NEW s \in Source, Edit(s) PROVE LeaderInv'
    BY <1>15 DEF Edit, Change
<1>16. ASSUME HandleRefresh PROVE LeaderInv'
    BY <1>16 DEF HandleRefresh, Lapse
<1>17. ASSUME Expire PROVE LeaderInv'
    BY <1>17 DEF Expire, Lapse
<1>18. CASE UNCHANGED vars
    BY <1>18
<1> QED
    BY <1>1, <1>2, <1>3, <1>4, <1>5, <1>6, <1>7, <1>8, <1>9, <1>10, <1>11, <1>12, <1>13, <1>14,
       <1>15, <1>16, <1>17, <1>18 DEF Next, Step

(* Whoever waits has a leader. *)
LEMMA WaitStep ==
    ASSUME Types, LeaderInv, WaitInv, [Next]_vars
    PROVE  WaitInv'
<1> USE DEF Types, LeaderInv, WaitInv, Leading, PC, vars, cacheVars, flightVars, worldVars, reqVars,
            histVars
<1>1. ASSUME NEW r \in Request, NEW o \in Op, Begin(r, o) PROVE WaitInv'
    BY <1>1 DEF Begin, Goto
<1>2. ASSUME NEW r \in Request, NEW D \in SUBSET Source, Discover(r, D) PROVE WaitInv'
    BY <1>2 DEF Discover, Goto
<1>3. ASSUME NEW r \in Request, Join(r) PROVE WaitInv'
    BY <1>3, NoOneAssumption DEF Join, Goto
<1>4. ASSUME NEW r \in Request, Leave(r) PROVE WaitInv'
    BY <1>4 DEF Leave, Callers
<1>5. ASSUME NEW r \in Request,
             Lookup(r) \/ Recheck(r) \/ Snapshot(r) \/ Store(r) \/ Respond(r) \/ Merge(r) \/ Invalidate(r)
      PROVE  WaitInv'
    <2>1. flight' = flight
        BY <1>5 DEF Lookup, Recheck, Snapshot, Store, Respond, Merge, Invalidate, Lapse
    <2>2. \A q \in Request : pc'[q] = "wait" => pc[q] = "wait"
        BY <1>5 DEF Lookup, Recheck, Snapshot, Store, Respond, Merge, Invalidate, Finish, Goto
    <2> QED
        BY <2>1, <2>2
<1>6. ASSUME NEW r \in Request, NEW s \in Source,
             ReadSource(r, s) \/ FailSource(r, s) \/ WriteEntity(r, s)
      PROVE  WaitInv'
    BY <1>6 DEF ReadSource, FailSource, WriteEntity, Change, Finish, Goto
<1>7. CASE (\E s \in Source : Edit(s)) \/ HandleRefresh \/ Expire \/ UNCHANGED vars
    BY <1>7 DEF Edit, Change, HandleRefresh, Expire, Lapse
<1> QED
    BY <1>1, <1>2, <1>3, <1>4, <1>5, <1>6, <1>7 DEF Next, Step

(* The types hold, a flight is its leader's alone and nobody waits for     *)
(* none: for all instances, however many requests there are.               *)
THEOREM TypeCorrect == Spec => []TypeOK
<1> DEFINE Inv == Types /\ LeaderInv /\ WaitInv
<1>1. Init => Inv
    <2>1. Init => LeaderInv /\ WaitInv
        BY NoOneAssumption DEF Init, LeaderInv, WaitInv, Leading
    <2> QED
        BY <2>1, TypeInit
<1>2. Inv /\ [Next]_vars => Inv'
    BY TypeStep, LeaderStep, WaitStep
<1>3. Inv => TypeOK
    BY DEF TypeOK, LeaderInv, WaitInv
<1> QED
    BY <1>1, <1>2, <1>3, PTL DEF Spec

(* Nobody fills the cache behind the back of a scan. *)
LEMMA ColdStep ==
    ASSUME Types, LeaderInv, ColdInv, [Next]_vars
    PROVE  ColdInv'
<1> USE DEF Types, LeaderInv, ColdInv, Leading, PC, Hit, vars, cacheVars, flightVars, worldVars,
            reqVars, histVars
<1>1. ASSUME NEW r \in Request, NEW o \in Op, Begin(r, o) PROVE ColdInv'
    BY <1>1 DEF Begin, Goto
<1>2. ASSUME NEW r \in Request, NEW D \in SUBSET Source, Discover(r, D) PROVE ColdInv'
    BY <1>2 DEF Discover, Goto
<1>3. ASSUME NEW r \in Request, Lookup(r) PROVE ColdInv'
    BY <1>3 DEF Lookup, Goto
<1>4. ASSUME NEW r \in Request, Join(r) PROVE ColdInv'
    BY <1>4 DEF Join, Goto
<1>5. ASSUME NEW r \in Request, Recheck(r) PROVE ColdInv'
    BY <1>5 DEF Recheck, Goto
<1>6. ASSUME NEW r \in Request, Snapshot(r) PROVE ColdInv'
    BY <1>6 DEF Snapshot, Goto
<1>7. ASSUME NEW r \in Request, Store(r) PROVE ColdInv'
    BY <1>7 DEF Store, Flatten, Goto
<1>8. ASSUME NEW r \in Request, Leave(r) PROVE ColdInv'
    BY <1>8 DEF Leave, Callers
<1>9. ASSUME NEW r \in Request, Respond(r) PROVE ColdInv'
    BY <1>9 DEF Respond, Finish, Goto
<1>10. ASSUME NEW r \in Request, Merge(r) PROVE ColdInv'
    BY <1>10 DEF Merge, Goto
<1>11. ASSUME NEW r \in Request, Invalidate(r) PROVE ColdInv'
    BY <1>11 DEF Invalidate, Lapse, Goto
<1>12. ASSUME NEW r \in Request, NEW s \in Source, ReadSource(r, s) PROVE ColdInv'
    BY <1>12 DEF ReadSource
<1>13. ASSUME NEW r \in Request, NEW s \in Source, FailSource(r, s) PROVE ColdInv'
    BY <1>13 DEF FailSource
<1>14. ASSUME NEW r \in Request, NEW s \in Source, WriteEntity(r, s) PROVE ColdInv'
    BY <1>14 DEF WriteEntity, Change, Finish, Goto
<1>15. ASSUME NEW s \in Source, Edit(s) PROVE ColdInv'
    BY <1>15 DEF Edit, Change
<1>16. ASSUME HandleRefresh PROVE ColdInv'
    BY <1>16 DEF HandleRefresh, Lapse
<1>17. ASSUME Expire PROVE ColdInv'
    BY <1>17 DEF Expire, Lapse
<1>18. CASE UNCHANGED vars
    BY <1>18
<1> QED
    BY <1>1, <1>2, <1>3, <1>4, <1>5, <1>6, <1>7, <1>8, <1>9, <1>10, <1>11, <1>12, <1>13, <1>14,
       <1>15, <1>16, <1>17, <1>18 DEF Next, Step

(* Each scan is paid for. *)
LEMMA BudgetStep ==
    ASSUME Types, LeaderInv, ColdInv, BudgetInv, [Next]_vars
    PROVE  BudgetInv'
<1> USE DEF Types, LeaderInv, ColdInv, BudgetInv, Leading, PC, Hit, vars, cacheVars, flightVars,
            worldVars, reqVars, histVars
<1>1. ASSUME NEW r \in Request, NEW o \in Op, Begin(r, o) PROVE BudgetInv'
    BY <1>1 DEF Begin, Goto
<1>2. ASSUME NEW r \in Request, NEW D \in SUBSET Source, Discover(r, D) PROVE BudgetInv'
    BY <1>2 DEF Discover, Goto
<1>3. ASSUME NEW r \in Request, Lookup(r) PROVE BudgetInv'
    BY <1>3 DEF Lookup, Goto
<1>4. ASSUME NEW r \in Request, Join(r) PROVE BudgetInv'
    BY <1>4 DEF Join, Goto
<1>5. ASSUME NEW r \in Request, Recheck(r) PROVE BudgetInv'
    BY <1>5 DEF Recheck, Goto
<1>6. ASSUME NEW r \in Request, Snapshot(r) PROVE BudgetInv'
    BY <1>6 DEF Snapshot, Goto
<1>7. ASSUME NEW r \in Request, Store(r) PROVE BudgetInv'
    BY <1>7 DEF Store, Flatten, Goto, List, Scan
<1>8. ASSUME NEW r \in Request, Leave(r) PROVE BudgetInv'
    BY <1>8 DEF Leave, Callers
<1>9. ASSUME NEW r \in Request, Respond(r) PROVE BudgetInv'
    BY <1>9 DEF Respond, Finish, Goto
<1>10. ASSUME NEW r \in Request, Merge(r) PROVE BudgetInv'
    BY <1>10 DEF Merge, Goto
<1>11. ASSUME NEW r \in Request, Invalidate(r) PROVE BudgetInv'
    BY <1>11 DEF Invalidate, Lapse, Goto
<1>12. ASSUME NEW r \in Request, NEW s \in Source, ReadSource(r, s) PROVE BudgetInv'
    BY <1>12 DEF ReadSource
<1>13. ASSUME NEW r \in Request, NEW s \in Source, FailSource(r, s) PROVE BudgetInv'
    BY <1>13 DEF FailSource
<1>14. ASSUME NEW r \in Request, NEW s \in Source, WriteEntity(r, s) PROVE BudgetInv'
    BY <1>14 DEF WriteEntity, Change, Finish, Goto
<1>15. ASSUME NEW s \in Source, Edit(s) PROVE BudgetInv'
    BY <1>15 DEF Edit, Change
<1>16. ASSUME HandleRefresh PROVE BudgetInv'
    BY <1>16 DEF HandleRefresh, Lapse
<1>17. ASSUME Expire PROVE BudgetInv'
    BY <1>17 DEF Expire, Lapse
<1>18. CASE UNCHANGED vars
    BY <1>18
<1> QED
    BY <1>1, <1>2, <1>3, <1>4, <1>5, <1>6, <1>7, <1>8, <1>9, <1>10, <1>11, <1>12, <1>13, <1>14,
       <1>15, <1>16, <1>17, <1>18 DEF Next, Step

(* Barriers only move forward. *)
LEMMA FloorStep ==
    ASSUME Types, FloorInv, BaseInv, [Next]_vars
    PROVE  (FloorInv /\ BaseInv)'
<1> USE DEF Types, FloorInv, BaseInv, Precedes, Now, View, vars, cacheVars, flightVars,
            worldVars, reqVars, histVars
<1>1. ASSUME NEW r \in Request, NEW o \in Op, Begin(r, o) PROVE (FloorInv /\ BaseInv)'
    BY <1>1 DEF Begin, Goto
<1>2. ASSUME NEW r \in Request, NEW D \in SUBSET Source, Discover(r, D) PROVE (FloorInv /\ BaseInv)'
    BY <1>2 DEF Discover, Goto
<1>3. ASSUME NEW r \in Request, Lookup(r) PROVE (FloorInv /\ BaseInv)'
    BY <1>3 DEF Lookup, Goto
<1>4. ASSUME NEW r \in Request, Join(r) PROVE (FloorInv /\ BaseInv)'
    BY <1>4 DEF Join, Goto
<1>5. ASSUME NEW r \in Request, Recheck(r) PROVE (FloorInv /\ BaseInv)'
    BY <1>5 DEF Recheck, Goto
<1>6. ASSUME NEW r \in Request, Snapshot(r) PROVE (FloorInv /\ BaseInv)'
    BY <1>6 DEF Snapshot, Goto
<1>7. ASSUME NEW r \in Request, Store(r) PROVE (FloorInv /\ BaseInv)'
    BY <1>7 DEF Store, Flatten, Goto
<1>8. ASSUME NEW r \in Request, Leave(r) PROVE (FloorInv /\ BaseInv)'
    BY <1>8 DEF Leave, Callers
<1>9. ASSUME NEW r \in Request, Respond(r) PROVE (FloorInv /\ BaseInv)'
    BY <1>9 DEF Respond, Finish, Goto, NoView, Unseen
<1>10. ASSUME NEW r \in Request, Merge(r) PROVE (FloorInv /\ BaseInv)'
    BY <1>10 DEF Merge, Goto
<1>11. ASSUME NEW r \in Request, Invalidate(r) PROVE (FloorInv /\ BaseInv)'
    BY <1>11 DEF Invalidate, Lapse, Goto
<1>12. ASSUME NEW r \in Request, NEW s \in Source, ReadSource(r, s) PROVE (FloorInv /\ BaseInv)'
    BY <1>12 DEF ReadSource
<1>13. ASSUME NEW r \in Request, NEW s \in Source, FailSource(r, s) PROVE (FloorInv /\ BaseInv)'
    BY <1>13 DEF FailSource
<1>14. ASSUME NEW r \in Request, NEW s \in Source, WriteEntity(r, s) PROVE (FloorInv /\ BaseInv)'
    <2>1. floor' = floor /\ sources' = sources
        BY <1>14 DEF WriteEntity
    <2>2. version' \in [Source -> Nat] /\ \A t \in Source : version[t] <= version'[t]
        BY <1>14 DEF WriteEntity, Change
    <2>3. FloorInv'
        BY <2>1, <2>2
    <2>4. base' = [base EXCEPT ![r] = NoView]
        BY <1>14 DEF WriteEntity, Finish
    <2>5. Precedes(NoView, floor)
        BY DEF NoView, Unseen
    <2>6. ASSUME NEW q \in Request PROVE Precedes(base'[q], floor)
        BY <2>4, <2>5
    <2> QED
        BY <2>1, <2>3, <2>6
<1>15. ASSUME NEW s \in Source, Edit(s) PROVE (FloorInv /\ BaseInv)'
    BY <1>15 DEF Edit, Change
<1>16. ASSUME HandleRefresh PROVE (FloorInv /\ BaseInv)'
    BY <1>16 DEF HandleRefresh, Lapse
<1>17. ASSUME Expire PROVE (FloorInv /\ BaseInv)'
    BY <1>17 DEF Expire, Lapse
<1>18. CASE UNCHANGED vars
    BY <1>18
<1> QED
    BY <1>1, <1>2, <1>3, <1>4, <1>5, <1>6, <1>7, <1>8, <1>9, <1>10, <1>11, <1>12, <1>13, <1>14,
       <1>15, <1>16, <1>17, <1>18 DEF Next, Step

(* A hit is no older than the barrier. *)
LEMMA CacheStep ==
    ASSUME Types, LeaderInv, FloorInv, CacheInv, ScanInv, [Next]_vars
    PROVE  CacheInv'
<1> USE DEF Types, LeaderInv, FloorInv, CacheInv, ScanInv, Hit, Reflects, List, Scan, View, vars,
            cacheVars, flightVars, worldVars, reqVars, histVars
<1>1. ASSUME NEW r \in Request, NEW o \in Op, Begin(r, o) PROVE CacheInv'
    BY <1>1 DEF Begin, Goto
<1>2. ASSUME NEW r \in Request, NEW D \in SUBSET Source, Discover(r, D) PROVE CacheInv'
    BY <1>2 DEF Discover, Goto
<1>3. ASSUME NEW r \in Request, Lookup(r) PROVE CacheInv'
    BY <1>3 DEF Lookup, Goto
<1>4. ASSUME NEW r \in Request, Join(r) PROVE CacheInv'
    BY <1>4 DEF Join, Goto
<1>5. ASSUME NEW r \in Request, Recheck(r) PROVE CacheInv'
    BY <1>5 DEF Recheck, Goto
<1>6. ASSUME NEW r \in Request, Snapshot(r) PROVE CacheInv'
    BY <1>6 DEF Snapshot, Goto
<1>7. ASSUME NEW r \in Request, Store(r) PROVE CacheInv'
    BY <1>7 DEF Store, Flatten, Goto
<1>8. ASSUME NEW r \in Request, Leave(r) PROVE CacheInv'
    BY <1>8 DEF Leave, Callers
<1>9. ASSUME NEW r \in Request, Respond(r) PROVE CacheInv'
    BY <1>9 DEF Respond, Finish, Goto
<1>10. ASSUME NEW r \in Request, Merge(r) PROVE CacheInv'
    BY <1>10 DEF Merge, Goto
<1>11. ASSUME NEW r \in Request, Invalidate(r) PROVE CacheInv'
    BY <1>11 DEF Invalidate, Lapse, Goto
<1>12. ASSUME NEW r \in Request, NEW s \in Source, ReadSource(r, s) PROVE CacheInv'
    BY <1>12 DEF ReadSource
<1>13. ASSUME NEW r \in Request, NEW s \in Source, FailSource(r, s) PROVE CacheInv'
    BY <1>13 DEF FailSource
<1>14. ASSUME NEW r \in Request, NEW s \in Source, WriteEntity(r, s) PROVE CacheInv'
    BY <1>14 DEF WriteEntity, Change, Finish, Goto
<1>15. ASSUME NEW s \in Source, Edit(s) PROVE CacheInv'
    BY <1>15 DEF Edit, Change
<1>16. ASSUME HandleRefresh PROVE CacheInv'
    BY <1>16 DEF HandleRefresh, Lapse
<1>17. ASSUME Expire PROVE CacheInv'
    BY <1>17 DEF Expire, Lapse
<1>18. CASE UNCHANGED vars
    BY <1>18
<1> QED
    BY <1>1, <1>2, <1>3, <1>4, <1>5, <1>6, <1>7, <1>8, <1>9, <1>10, <1>11, <1>12, <1>13, <1>14,
       <1>15, <1>16, <1>17, <1>18 DEF Next, Step

(* A step that starts no scan and touches neither the scan nor the barrier *)
(* keeps what the scan has read ...                                        *)
LEMMA QuietScan ==
    ASSUME ScanInv, UNCHANGED <<scan, floor>>,
           \A q \in Request : pc'[q] = "scan" => pc[q] = "scan"
    PROVE  ScanInv'
BY DEF ScanInv

(* ... and one that ends no scan keeps what the flight returns. *)
LEMMA QuietResult ==
    ASSUME ResultInv, UNCHANGED <<result, floor>>,
           \A q \in Request : pc'[q] = "leave" => pc[q] = "leave"
    PROVE  ResultInv'
BY DEF ResultInv, Reflects

(* What a scan has read is no older than the barrier. *)
LEMMA ScanStep ==
    ASSUME Types, LeaderInv, FloorInv, ScanInv, [Next]_vars
    PROVE  ScanInv'
<1> USE DEF Types, LeaderInv, FloorInv, ScanInv, Precedes, Now, Leading, PC, Scan, View, vars,
            cacheVars, flightVars, worldVars, reqVars, histVars
<1>1. ASSUME NEW r \in Request, NEW o \in Op, Begin(r, o) PROVE ScanInv'
    BY <1>1 DEF Begin, Goto
<1>2. ASSUME NEW r \in Request, NEW D \in SUBSET Source, Discover(r, D) PROVE ScanInv'
    BY <1>2 DEF Discover, Goto
<1>3. ASSUME NEW r \in Request, Lookup(r) PROVE ScanInv'
    <2>1. \A q \in Request : pc'[q] = "scan" => pc[q] = "scan"
        BY <1>3 DEF Lookup, Goto
    <2>2. UNCHANGED <<scan, floor>>
        BY <1>3 DEF Lookup
    <2> QED
        BY <2>1, <2>2, QuietScan
<1>4. ASSUME NEW r \in Request, Join(r) PROVE ScanInv'
    <2>1. \A q \in Request : pc'[q] = "scan" => pc[q] = "scan"
        BY <1>4 DEF Join, Goto
    <2>2. UNCHANGED <<scan, floor>>
        BY <1>4 DEF Join
    <2> QED
        BY <2>1, <2>2, QuietScan
<1>5. ASSUME NEW r \in Request, Recheck(r) PROVE ScanInv'
    <2>1. \A q \in Request : pc'[q] = "scan" => pc[q] = "scan"
        BY <1>5 DEF Recheck, Goto
    <2>2. UNCHANGED <<scan, floor>>
        BY <1>5 DEF Recheck
    <2> QED
        BY <2>1, <2>2, QuietScan
<1>6. ASSUME NEW r \in Request, Snapshot(r) PROVE ScanInv'
    BY <1>6 DEF Snapshot, Goto, NoScan
<1>7. ASSUME NEW r \in Request, Store(r) PROVE ScanInv'
    BY <1>7 DEF Store, Flatten, Goto
<1>8. ASSUME NEW r \in Request, Leave(r) PROVE ScanInv'
    BY <1>8 DEF Leave, Callers
<1>9. ASSUME NEW r \in Request, Respond(r) PROVE ScanInv'
    BY <1>9 DEF Respond, Finish, Goto
<1>10. ASSUME NEW r \in Request, Merge(r) PROVE ScanInv'
    BY <1>10 DEF Merge, Goto
<1>11. ASSUME NEW r \in Request, Invalidate(r) PROVE ScanInv'
    BY <1>11, NoOneAssumption DEF Invalidate, Lapse, Goto
<1>12. ASSUME NEW r \in Request, NEW s \in Source, ReadSource(r, s) PROVE ScanInv'
    BY <1>12 DEF ReadSource
<1>13. ASSUME NEW r \in Request, NEW s \in Source, FailSource(r, s) PROVE ScanInv'
    BY <1>13 DEF FailSource
<1>14. ASSUME NEW r \in Request, NEW s \in Source, WriteEntity(r, s) PROVE ScanInv'
    <2>1. \A q \in Request : pc'[q] = "scan" => pc[q] = "scan"
        BY <1>14 DEF WriteEntity, Finish, Goto
    <2>2. UNCHANGED <<scan, floor>>
        BY <1>14 DEF WriteEntity
    <2> QED
        BY <2>1, <2>2, QuietScan
<1>15. ASSUME NEW s \in Source, Edit(s) PROVE ScanInv'
    BY <1>15 DEF Edit, Change
<1>16. ASSUME HandleRefresh PROVE ScanInv'
    BY <1>16, NoOneAssumption DEF HandleRefresh, Lapse
<1>17. ASSUME Expire PROVE ScanInv'
    BY <1>17, NoOneAssumption DEF Expire, Lapse
<1>18. CASE UNCHANGED vars
    BY <1>18
<1> QED
    BY <1>1, <1>2, <1>3, <1>4, <1>5, <1>6, <1>7, <1>8, <1>9, <1>10, <1>11, <1>12, <1>13, <1>14,
       <1>15, <1>16, <1>17, <1>18 DEF Next, Step

(* What the flight returns is no older than the barrier. *)
LEMMA ResultStep ==
    ASSUME Types, LeaderInv, CacheInv, ScanInv, ResultInv, [Next]_vars
    PROVE  ResultInv'
<1> USE DEF Types, LeaderInv, CacheInv, ScanInv, ResultInv, Reflects, Hit, Leading, PC, List,
            Scan, View, vars, cacheVars, flightVars, worldVars, reqVars, histVars
<1>1. ASSUME NEW r \in Request, NEW o \in Op, Begin(r, o) PROVE ResultInv'
    BY <1>1 DEF Begin, Goto
<1>2. ASSUME NEW r \in Request, NEW D \in SUBSET Source, Discover(r, D) PROVE ResultInv'
    BY <1>2 DEF Discover, Goto
<1>3. ASSUME NEW r \in Request, Lookup(r) PROVE ResultInv'
    <2>1. \A q \in Request : pc'[q] = "leave" => pc[q] = "leave"
        BY <1>3 DEF Lookup, Goto
    <2>2. UNCHANGED <<result, floor>>
        BY <1>3 DEF Lookup
    <2> QED
        BY <2>1, <2>2, QuietResult
<1>4. ASSUME NEW r \in Request, Join(r) PROVE ResultInv'
    BY <1>4 DEF Join, Goto
<1>5. ASSUME NEW r \in Request, Recheck(r) PROVE ResultInv'
    <2>1. CASE Hit
        <3>1. result' = cached /\ floor' = floor
            BY <1>5, <2>1 DEF Recheck
        <3>2. Reflects(cached, floor)
            BY <2>1
        <3> QED
            BY <3>1, <3>2
    <2>2. CASE ~Hit
        <3>1. \A q \in Request : pc'[q] = "leave" => pc[q] = "leave"
            BY <1>5, <2>2 DEF Recheck, Goto
        <3>2. UNCHANGED <<result, floor>>
            BY <1>5, <2>2 DEF Recheck
        <3> QED
            BY <3>1, <3>2, QuietResult
    <2> QED
        BY <2>1, <2>2
<1>6. ASSUME NEW r \in Request, Snapshot(r) PROVE ResultInv'
    BY <1>6 DEF Snapshot, Goto
<1>7. ASSUME NEW r \in Request, Store(r) PROVE ResultInv'
    BY <1>7 DEF Store, Flatten, Goto
<1>8. ASSUME NEW r \in Request, Leave(r) PROVE ResultInv'
    BY <1>8 DEF Leave, Callers
<1>9. ASSUME NEW r \in Request, Respond(r) PROVE ResultInv'
    BY <1>9 DEF Respond, Finish, Goto
<1>10. ASSUME NEW r \in Request, Merge(r) PROVE ResultInv'
    BY <1>10 DEF Merge, Goto
<1>11. ASSUME NEW r \in Request, Invalidate(r) PROVE ResultInv'
    BY <1>11, NoOneAssumption DEF Invalidate, Lapse, Goto
<1>12. ASSUME NEW r \in Request, NEW s \in Source, ReadSource(r, s) PROVE ResultInv'
    BY <1>12 DEF ReadSource
<1>13. ASSUME NEW r \in Request, NEW s \in Source, FailSource(r, s) PROVE ResultInv'
    BY <1>13 DEF FailSource
<1>14. ASSUME NEW r \in Request, NEW s \in Source, WriteEntity(r, s) PROVE ResultInv'
    <2>1. \A q \in Request : pc'[q] = "leave" => pc[q] = "leave"
        BY <1>14 DEF WriteEntity, Finish, Goto
    <2>2. UNCHANGED <<result, floor>>
        BY <1>14 DEF WriteEntity
    <2> QED
        BY <2>1, <2>2, QuietResult
<1>15. ASSUME NEW s \in Source, Edit(s) PROVE ResultInv'
    BY <1>15 DEF Edit, Change
<1>16. ASSUME HandleRefresh PROVE ResultInv'
    BY <1>16, NoOneAssumption DEF HandleRefresh, Lapse
<1>17. ASSUME Expire PROVE ResultInv'
    BY <1>17, NoOneAssumption DEF Expire, Lapse
<1>18. CASE UNCHANGED vars
    BY <1>18
<1> QED
    BY <1>1, <1>2, <1>3, <1>4, <1>5, <1>6, <1>7, <1>8, <1>9, <1>10, <1>11, <1>12, <1>13, <1>14,
       <1>15, <1>16, <1>17, <1>18 DEF Next, Step

(* What a request returns with is no older than its barrier. *)
LEMMA BarrierStep ==
    ASSUME Types, FloorInv, BaseInv, CacheInv, ResultInv, BarrierVisible, [Next]_vars
    PROVE  BarrierVisible'
<1> USE DEF Types, FloorInv, BaseInv, CacheInv, ResultInv, BarrierVisible, Precedes, Reflects,
            Hit, PC, List, View, vars, cacheVars, flightVars, worldVars, reqVars, histVars
<1>1. ASSUME NEW r \in Request, NEW o \in Op, Begin(r, o) PROVE BarrierVisible'
    BY <1>1 DEF Begin, Goto
<1>2. ASSUME NEW r \in Request, NEW D \in SUBSET Source, Discover(r, D) PROVE BarrierVisible'
    BY <1>2 DEF Discover, Goto
<1>3. ASSUME NEW r \in Request, Lookup(r) PROVE BarrierVisible'
    <2>1. \A q \in Request \ {r} :
              pc'[q] = pc[q] /\ held'[q] = held[q] /\ base'[q] = base[q]
        BY <1>3 DEF Lookup, Goto
    <2>2. pc'[r] = "have" => Reflects(cached, floor) /\ held'[r] = cached
        BY <1>3 DEF Lookup, Goto
    <2>3. Reflects(cached, floor) => Reflects(cached, base[r])
        BY <1>3
    <2>4. base'[r] = base[r]
        BY <1>3 DEF Lookup
    <2>5. Reflects(held[r], base[r])' \/ pc'[r] # "have"
        BY <2>2, <2>3, <2>4
    <2>6. ASSUME NEW q \in Request \ {r}, pc'[q] = "have"
          PROVE  Reflects(held[q], base[q])'
        BY <2>1, <2>6
    <2> QED
        BY <2>5, <2>6
<1>4. ASSUME NEW r \in Request, Join(r) PROVE BarrierVisible'
    <2>1. \A q \in Request : pc'[q] = "have" => pc[q] = "have"
        BY <1>4 DEF Join, Goto
    <2>2. UNCHANGED <<held, base>>
        BY <1>4 DEF Join
    <2> QED
        BY <2>1, <2>2
<1>5. ASSUME NEW r \in Request, Recheck(r) PROVE BarrierVisible'
    <2>1. \A q \in Request : pc'[q] = "have" => pc[q] = "have"
        BY <1>5 DEF Recheck, Goto
    <2>2. UNCHANGED <<held, base>>
        BY <1>5 DEF Recheck
    <2> QED
        BY <2>1, <2>2
<1>6. ASSUME NEW r \in Request, Snapshot(r) PROVE BarrierVisible'
    BY <1>6 DEF Snapshot, Goto
<1>7. ASSUME NEW r \in Request, Store(r) PROVE BarrierVisible'
    BY <1>7 DEF Store, Flatten, Goto
<1>8. ASSUME NEW r \in Request, Leave(r) PROVE BarrierVisible'
    BY <1>8 DEF Leave, Callers
<1>9. ASSUME NEW r \in Request, Respond(r) PROVE BarrierVisible'
    BY <1>9 DEF Respond, Finish, Goto
<1>10. ASSUME NEW r \in Request, Merge(r) PROVE BarrierVisible'
    BY <1>10 DEF Merge, Goto
<1>11. ASSUME NEW r \in Request, Invalidate(r) PROVE BarrierVisible'
    BY <1>11 DEF Invalidate, Lapse, Goto
<1>12. ASSUME NEW r \in Request, NEW s \in Source, ReadSource(r, s) PROVE BarrierVisible'
    BY <1>12 DEF ReadSource
<1>13. ASSUME NEW r \in Request, NEW s \in Source, FailSource(r, s) PROVE BarrierVisible'
    BY <1>13 DEF FailSource
<1>14. ASSUME NEW r \in Request, NEW s \in Source, WriteEntity(r, s) PROVE BarrierVisible'
    <2>1. pc'[r] # "have" /\ \A q \in Request \ {r} :
              pc'[q] = pc[q] /\ held'[q] = held[q] /\ base'[q] = base[q]
        BY <1>14 DEF WriteEntity, Finish, Goto
    <2> QED
        BY <2>1
<1>15. ASSUME NEW s \in Source, Edit(s) PROVE BarrierVisible'
    BY <1>15 DEF Edit, Change
<1>16. ASSUME HandleRefresh PROVE BarrierVisible'
    BY <1>16 DEF HandleRefresh, Lapse
<1>17. ASSUME Expire PROVE BarrierVisible'
    BY <1>17 DEF Expire, Lapse
<1>18. CASE UNCHANGED vars
    BY <1>18
<1> QED
    BY <1>1, <1>2, <1>3, <1>4, <1>5, <1>6, <1>7, <1>8, <1>9, <1>10, <1>11, <1>12, <1>13, <1>14,
       <1>15, <1>16, <1>17, <1>18 DEF Next, Step

(* The cold Server satisfies every conjunct of the inductive invariant.    *)
LEMMA InductiveInit == Init => IInv
<1> SUFFICES ASSUME Init PROVE IInv
    OBVIOUS
<1>1. Types
    BY TypeInit
<1>2. ~Hit
    BY Zenon DEF Init, Hit
<1>3. \A r \in Request : pc[r] = "idle" /\ base[r] = floor
    BY DEF Init
<1>4. LeaderInv
    BY <1>3, NoOneAssumption DEF Init, LeaderInv, Leading
<1>5. ColdInv /\ ScanInv /\ ResultInv /\ BarrierVisible
    BY <1>3 DEF ColdInv, ScanInv, ResultInv, BarrierVisible
<1>6. BudgetInv
    BY DEF Init, BudgetInv
<1>7. FloorInv /\ BaseInv
    BY <1>1, <1>3 DEF Init, FloorInv, BaseInv, Precedes, Now, NoView, Unseen
<1>8. CacheInv
    BY <1>2 DEF CacheInv
<1> QED
    BY <1>1, <1>4, <1>5, <1>6, <1>7, <1>8 DEF IInv

(* Every step keeps every conjunct of the inductive invariant: one lemma   *)
(* per conjunct, above.                                                    *)
LEMMA InductiveStep == IInv /\ [Next]_vars => IInv'
BY TypeStep, LeaderStep, ColdStep, BudgetStep, FloorStep, CacheStep, ScanStep,
   ResultStep, BarrierStep DEF IInv

(* The inductive invariant holds in every reachable state.                 *)
LEMMA Inductive == Spec => []IInv
BY InductiveInit, InductiveStep, PTL DEF Spec

-----------------------------------------------------------------------------
(* The results *)

(* Cold requests share scans: never more than one for each time the cache  *)
(* lapsed, and one to begin with.                                          *)
THEOREM ScansArePaidFor == Spec => []ScanBudget
<1>1. IInv => ScanBudget
    BY DEF IInv, BudgetInv, ScanBudget
<1> QED
    BY <1>1, Inductive, PTL

(* An invalidation with no scan in flight is seen by every later request.  *)
THEOREM BarriersAreVisible == Spec => []BarrierVisible
<1>1. IInv => BarrierVisible
    BY DEF IInv
<1> QED
    BY <1>1, Inductive, PTL

(* No step, of whatever rescan, loses a source. *)
THEOREM SourcesGrow == Spec => SourcesKept
<1>1. [Next]_vars => sources \subseteq sources'
    <2> SUFFICES ASSUME [Next]_vars PROVE sources \subseteq sources'
        OBVIOUS
    <2>1. ASSUME NEW r \in Request, Merge(r) PROVE sources \subseteq sources'
        BY <2>1 DEF Merge
    <2>2. ASSUME NEW r \in Request,
                 \/ Lookup(r) \/ Join(r) \/ Recheck(r) \/ Snapshot(r) \/ Store(r)
                 \/ Leave(r) \/ Respond(r)
          PROVE  sources' = sources
        BY <2>2 DEF Lookup, Join, Recheck, Snapshot, Store, Leave, Respond, worldVars
    <2>3. ASSUME NEW r \in Request, NEW s \in Source,
                 ReadSource(r, s) \/ FailSource(r, s) \/ WriteEntity(r, s)
          PROVE  sources' = sources
        BY <2>3 DEF ReadSource, FailSource, WriteEntity, worldVars
    <2>4. Lapse => sources' = sources
        BY DEF Lapse, worldVars
    <2>5. (\E r \in Request : Invalidate(r)) \/ HandleRefresh \/ Expire => Lapse
        BY DEF Invalidate, HandleRefresh, Expire
    <2>6. ASSUME NEW r \in Request, NEW o \in Op, Begin(r, o) PROVE sources' = sources
        BY <2>6 DEF Begin, worldVars
    <2>7. ASSUME NEW r \in Request, NEW D \in SUBSET Source, Discover(r, D)
          PROVE  sources' = sources
        BY <2>7 DEF Discover, worldVars
    <2>8. ASSUME NEW s \in Source, Edit(s) PROVE sources' = sources
        BY <2>8 DEF Edit
    <2>9. CASE UNCHANGED vars
        BY <2>9 DEF vars, worldVars
    <2> QED
        BY <2>1, <2>2, <2>3, <2>4, <2>5, <2>6, <2>7, <2>8, <2>9 DEF Next, Step
<1> QED
    BY <1>1, PTL DEF Spec, SourcesKept
=============================================================================
