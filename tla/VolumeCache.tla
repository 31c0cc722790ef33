---------------------------- MODULE VolumeCache ----------------------------
(***************************************************************************)
(* The volume I/O of the Docker client (internal/docker/client.go).  The   *)
(* listing and each file of a volume are cached for volumeCacheTTL.  A     *)
(* miss is fetched by one caller per key (singleflight): by an exec in a   *)
(* running container that mounts the volume, found through a short-lived   *)
(* cache of its own, or else by a throwaway sidecar.                       *)
(*                                                                         *)
(* The contents behind a key are their version; Err stands for an error,   *)
(* and time is the two Expire actions.                                     *)
(***************************************************************************)
EXTENDS Integers

CONSTANTS
    Caller,    \* goroutines that call ReadVolume or ListVolume
    Volume,    \* named Docker volumes
    What,      \* "list:" and the "read:" paths of a volume
    NoOne,     \* no leader: no call of the key is in flight
    MaxEdits   \* bound: no change of a file beyond this version

ASSUME NoOneAssumption == NoOne \notin Caller
ASSUME EditsAssumption == MaxEdits \in Nat

Key == Volume \X What
NoKey == <<>>
Err == -1
Blank == -2

VARIABLES
    disk,     \* disk[k]: how often what k names has changed
    running,  \* running[v]: a running container mounts v
    cache,    \* cache[k]: volumeCache; Err if the entry is old or an error
    host,     \* host[v]: volumeContainerCache
    flight,   \* flight[k]: the leader of the singleflight call of k, or NoOne
    pc,       \* where each caller is
    key,      \* what it asks for
    held,     \* what it has read, or was answered with last
    floor,    \* history: the oldest version a new call may be answered with
    low       \* history: floor when the caller asked; 0 once it is answered

callVars == <<pc, key, held>>
vars == <<disk, running, cache, host, flight, callVars, floor, low>>

Fetching == {"find", "inspect", "exec", "sidecar", "put"}
PC == {"idle", "get", "do", "wait", "recheck", "leave", "have"} \cup Fetching

Absent == "absent"       \* no entry of volumeContainerCache within its TTL

Init ==
    /\ disk = [k \in Key |-> 0]
    /\ running \in [Volume -> BOOLEAN]
    /\ cache = [k \in Key |-> Err]
    /\ host = [v \in Volume |-> Absent]
    /\ flight = [k \in Key |-> NoOne]
    /\ pc = [c \in Caller |-> "idle"]
    /\ key = [c \in Caller |-> NoKey]
    /\ held = [c \in Caller |-> Err]
    /\ floor = [k \in Key |-> 0]
    /\ low = [c \in Caller |-> 0]

Goto(c, label) == pc' = [pc EXCEPT ![c] = label]
Take(c, data) == held' = [held EXCEPT ![c] = data]

(* volumeCacheGet: an entry that is too old or holds an error is a miss. *)
Hit(k) == cache[k] # Err

-----------------------------------------------------------------------------
(* A caller's way through ReadVolume or ListVolume. *)

Ask(c, k) ==
    /\ pc[c] = "idle"
    /\ Goto(c, "get")
    /\ key' = [key EXCEPT ![c] = k]
    /\ low' = [low EXCEPT ![c] = floor[k]]
    /\ held' = [held EXCEPT ![c] = Err]
    /\ UNCHANGED <<disk, running, cache, host, flight, floor>>

Get(c) ==
    /\ pc[c] = "get"
    /\ \/ Hit(key[c]) /\ Take(c, cache[key[c]]) /\ Goto(c, "have")
       \/ ~Hit(key[c]) /\ Goto(c, "do") /\ UNCHANGED held
    /\ UNCHANGED <<disk, running, cache, host, flight, key, floor, low>>

Do(c) ==
    /\ pc[c] = "do"
    /\ \/ /\ flight[key[c]] = NoOne
          /\ flight' = [flight EXCEPT ![key[c]] = c]
          /\ Goto(c, "recheck")
       \/ flight[key[c]] # NoOne /\ Goto(c, "wait") /\ UNCHANGED flight
    /\ UNCHANGED <<disk, running, cache, host, key, held, floor, low>>

(* Mutant of Recheck: the leader fetches without a second look. *)
RecheckBlind(c) ==
    /\ pc[c] = "recheck"
    /\ Goto(c, "find")
    /\ UNCHANGED <<disk, running, cache, host, flight, key, held, floor, low>>

Recheck(c) ==
    /\ pc[c] = "recheck"
    /\ \/ Hit(key[c]) /\ Take(c, cache[key[c]]) /\ Goto(c, "leave")
       \/ ~Hit(key[c]) /\ Goto(c, "find") /\ UNCHANGED held
    /\ UNCHANGED <<disk, running, cache, host, flight, key, floor, low>>

Via(found) == IF found THEN "exec" ELSE "sidecar"

(* containerForVolume: the cached answer, a negative one included. *)
Find(c) ==
    /\ pc[c] = "find"
    /\ LET h == host[key[c][1]] IN Goto(c, IF h = Absent THEN "inspect" ELSE Via(h = "up"))
    /\ UNCHANGED <<disk, running, cache, host, flight, key, held, floor, low>>

(* lookupContainerForVolume, whose result is cached whichever it is; a     *)
(* failed listing finds no container.                                      *)
Inspect(c) ==
    /\ pc[c] = "inspect"
    /\ \E found \in {running[key[c][1]], FALSE} :
        /\ host' = [host EXCEPT ![key[c][1]] = IF found THEN "up" ELSE "none"]
        /\ Goto(c, Via(found))
    /\ UNCHANGED <<disk, running, cache, flight, key, held, floor, low>>

(* execStdout: cat or find in the container, which may have stopped since  *)
(* it was found; whatever fails falls through to the sidecar.              *)
Exec(c) ==
    /\ pc[c] = "exec"
    /\ \/ running[key[c][1]] /\ Take(c, disk[key[c]]) /\ Goto(c, "put")
       \/ Goto(c, "sidecar") /\ UNCHANGED held
    /\ UNCHANGED <<disk, running, cache, host, flight, key, floor, low>>

(* runSidecar: succeeds, or fails at any of its calls to the daemon or     *)
(* because the leader's request was cancelled.                             *)
Sidecar(c) ==
    /\ pc[c] = "sidecar"
    /\ Take(c, disk[key[c]]) \/ Take(c, Err)
    /\ Goto(c, "put")
    /\ UNCHANGED <<disk, running, cache, host, flight, key, floor, low>>

Put(c) ==
    /\ pc[c] = "put"
    /\ cache' = [cache EXCEPT ![key[c]] = held[c]]
    /\ Goto(c, "leave")
    /\ UNCHANGED <<disk, running, host, flight, key, held, floor, low>>

(* Mutant of Leave: the waiters are not woken. *)
LeaveAlone(c) ==
    /\ pc[c] = "leave"
    /\ Goto(c, "have")
    /\ flight' = [flight EXCEPT ![key[c]] = NoOne]
    /\ UNCHANGED <<disk, running, cache, host, key, held, floor, low>>

(* The flight ends: the leader and everyone who waited have its result. *)
Leave(c) ==
    /\ pc[c] = "leave"
    /\ LET shared == {d \in Caller : pc[d] = "wait" /\ key[d] = key[c]} \cup {c} IN
       /\ pc' = [d \in Caller |-> IF d \in shared THEN "have" ELSE pc[d]]
       /\ held' = [d \in Caller |-> IF d \in shared THEN held[c] ELSE held[d]]
    /\ flight' = [flight EXCEPT ![key[c]] = NoOne]
    /\ UNCHANGED <<disk, running, cache, host, key, floor, low>>

Return(c) ==
    /\ pc[c] = "have"
    /\ floor' = [floor EXCEPT ![key[c]] = IF held[c] > @ THEN held[c] ELSE @]
    /\ Goto(c, "idle")
    /\ key' = [key EXCEPT ![c] = NoKey]
    /\ low' = [low EXCEPT ![c] = 0]
    /\ UNCHANGED <<disk, running, cache, host, flight, held>>

-----------------------------------------------------------------------------
(* The world: containers change the volume, start and stop; time passes. *)

Edit(k) ==
    /\ disk[k] < MaxEdits
    /\ disk' = [disk EXCEPT ![k] = @ + 1]
    /\ UNCHANGED <<running, cache, host, flight, callVars, floor, low>>

StartStop(v) ==
    /\ running' = [running EXCEPT ![v] = ~@]
    /\ UNCHANGED <<disk, cache, host, flight, callVars, floor, low>>

Expire(k) ==
    /\ cache[k] # Err
    /\ cache' = [cache EXCEPT ![k] = Err]
    /\ UNCHANGED <<disk, running, host, flight, callVars, floor, low>>

ExpireHost(v) ==
    /\ host[v] # Absent
    /\ host' = [host EXCEPT ![v] = Absent]
    /\ UNCHANGED <<disk, running, cache, flight, callVars, floor, low>>

(* Mutant of Invalidate: only one entry of the volume is dropped. *)
InvalidateOne(v) ==
    /\ \E w \in What : cache' = [cache EXCEPT ![<<v, w>>] = Err]
    /\ floor' = [k \in Key |-> IF k[1] = v /\ flight[k] = NoOne THEN disk[k] ELSE floor[k]]
    /\ UNCHANGED <<disk, running, host, flight, callVars, low>>

(* InvalidateVolumeCache drops the listing and the files of one volume.    *)
(* It does not reach a fetch in flight, which stores what it read later:   *)
(* the barrier holds for the keys nobody is fetching.                      *)
Invalidate(v) ==
    /\ cache' = [k \in Key |-> IF k[1] = v THEN Err ELSE cache[k]]
    /\ floor' = [k \in Key |-> IF k[1] = v /\ flight[k] = NoOne THEN disk[k] ELSE floor[k]]
    /\ UNCHANGED <<disk, running, host, flight, callVars, low>>

Step(c) ==
    \/ Get(c) \/ Do(c) \/ Recheck(c) \/ Find(c) \/ Inspect(c)
    \/ Exec(c) \/ Sidecar(c) \/ Put(c) \/ Leave(c) \/ Return(c)

Next ==
    \/ \E c \in Caller : Step(c) \/ \E k \in Key : Ask(c, k)
    \/ \E k \in Key : Edit(k) \/ Expire(k)
    \/ \E v \in Volume : StartStop(v) \/ ExpireHost(v) \/ Invalidate(v)

Spec == Init /\ [][Next]_vars /\ \A c \in Caller : WF_vars(Step(c))

-----------------------------------------------------------------------------
(* Each caller is at a step of the code and holds a version or an error,   *)
(* a flight is led by the caller that fetches its key, and nobody waits    *)
(* for a flight that has ended.                                            *)
TypeOK ==
    /\ disk \in [Key -> 0 .. MaxEdits]
    /\ running \in [Volume -> BOOLEAN]
    /\ cache \in [Key -> Err .. MaxEdits]
    /\ host \in [Volume -> {Absent, "up", "none"}]
    /\ flight \in [Key -> Caller \cup {NoOne}]
    /\ pc \in [Caller -> PC]
    /\ key \in [Caller -> Key \cup {NoKey}]
    /\ held \in [Caller -> Err .. MaxEdits]
    /\ floor \in [Key -> 0 .. MaxEdits]
    /\ low \in [Caller -> 0 .. MaxEdits]
    /\ \A k \in Key : flight[k] \in Caller =>
        key[flight[k]] = k /\ pc[flight[k]] \in Fetching \cup {"recheck", "leave"}
    /\ \A c \in Caller : pc[c] = "wait" => flight[key[c]] # NoOne

(* "Only one Docker call runs per key", and none for what the cache can    *)
(* answer: no two callers fetch one key, and nobody who is looking for a   *)
(* container or talks to one does so while the entry is fresh.             *)
FetchOnMiss ==
    \A c \in Caller : pc[c] \in Fetching =>
        /\ ~Hit(key[c])
        /\ \A d \in Caller \ {c} : pc[d] \in Fetching => key[d] # key[c]

(* The client keeps the promise of VolumeMemo: answers for a key never go  *)
(* back in time, an invalidation bounds those of the keys not in flight,   *)
(* and every call is answered.                                             *)
Memo == INSTANCE VolumeMemo WITH
    asks <- key,
    got <- [c \in Caller |-> IF pc[c] = "idle" THEN held[c] ELSE Blank]

KeepsPromise == Memo!Spec
=============================================================================
