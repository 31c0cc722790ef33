------------------------- MODULE EntityCacheRefresh -------------------------
(***************************************************************************)
(* EntityCache with the history of what the invalidations promise: the     *)
(* tests and comments of the repository expect the request after a         *)
(* refresh, a rescan or a write to see the sources as they are then.       *)
(***************************************************************************)
EXTENDS EntityCache

VARIABLES
    promised,  \* history: the sources at the last completed invalidation
    owed       \* history: promised at the time each request began

refreshVars == <<vars, promised, owed>>

RefreshInit == Init /\ promised = NoView /\ owed = [r \in Request |-> NoView]

RefreshNext ==
    \/ /\ HandleRefresh \/ \E r \in Request : Invalidate(r)
       /\ promised' = Now
       /\ UNCHANGED owed
    \/ \E r \in Request :
        /\ \E o \in Op : Begin(r, o)
        /\ owed' = [owed EXCEPT ![r] = promised]
        /\ UNCHANGED promised
    \/ /\ \/ Expire
          \/ \E s \in Source : Edit(s)
          \/ \E r \in Request :
                \/ \E D \in SUBSET Source : Discover(r, D)
                \/ Step(r) /\ pc[r] # "invalidate"
       /\ UNCHANGED <<promised, owed>>

RefreshSpec == RefreshInit /\ [][RefreshNext]_refreshVars

(* After an explicit invalidation has returned, the next entity fetch reads *)
(* each source again: what it returns is no older than the invalidation.    *)
(* (It is, when a scan that started earlier is still in flight: the scan    *)
(* stores its list as fresh after the invalidation.)                        *)
RefreshVisible ==
    \A r \in Request : pc[r] = "have" => Reflects(held[r], owed[r])
=============================================================================
