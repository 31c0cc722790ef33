----------------------------- MODULE VolumeMemo -----------------------------
(***************************************************************************)
(* What the Docker client promises about the contents of a volume          *)
(* (internal/docker/client.go: ReadVolume, ListVolume,                     *)
(* InvalidateVolumeCache), with no cache and no flight in sight: every     *)
(* call is answered, with an error or with a version of what it asked for  *)
(* that is no older than any a call before it was answered with, nor than  *)
(* the last barrier an invalidation set.  VolumeCache implements this.     *)
(***************************************************************************)
EXTENDS Integers

CONSTANTS
    Caller,    \* goroutines that call the client
    Key,       \* what they ask for: the listing or one file of a volume
    NoKey,     \* asked by a caller that has no call under way
    MaxEdits   \* bound: no change of a file beyond this version

VARIABLES
    disk,   \* disk[k]: how often what k names has changed
    floor,  \* floor[k]: the oldest version a new call may be answered with
    asks,   \* asks[c]: what c asked for, or NoKey
    low,    \* low[c]: floor when c asked; 0 once it is answered
    got     \* got[c]: its last answer; Blank while it waits for the next

vars == <<disk, floor, asks, low, got>>

Err == -1
Blank == -2

Init ==
    /\ disk = [k \in Key |-> 0]
    /\ floor = [k \in Key |-> 0]
    /\ asks = [c \in Caller |-> NoKey]
    /\ low = [c \in Caller |-> 0]
    /\ got = [c \in Caller |-> Err]

(* A program in a container changes the volume. *)
Edit(k) ==
    /\ disk[k] < MaxEdits
    /\ disk' = [disk EXCEPT ![k] = @ + 1]
    /\ UNCHANGED <<floor, asks, low, got>>

Ask(c, k) ==
    /\ asks[c] = NoKey
    /\ asks' = [asks EXCEPT ![c] = k]
    /\ low' = [low EXCEPT ![c] = floor[k]]
    /\ got' = [got EXCEPT ![c] = Blank]
    /\ UNCHANGED <<disk, floor>>

(* An answer raises the floor to what it says. *)
Give(c) == \E v \in low[c] .. MaxEdits :
    /\ asks[c] \in Key
    /\ v <= disk[asks[c]]
    /\ floor' = [floor EXCEPT ![asks[c]] = IF v > @ THEN v ELSE @]
    /\ asks' = [asks EXCEPT ![c] = NoKey]
    /\ low' = [low EXCEPT ![c] = 0]
    /\ got' = [got EXCEPT ![c] = v]
    /\ UNCHANGED disk

Refuse(c) ==
    /\ asks[c] \in Key
    /\ asks' = [asks EXCEPT ![c] = NoKey]
    /\ low' = [low EXCEPT ![c] = 0]
    /\ got' = [got EXCEPT ![c] = Err]
    /\ UNCHANGED <<disk, floor>>

(* An invalidation makes the present contents the oldest answer for some   *)
(* of the keys: those that are not being fetched.                          *)
Barrier == \E idle \in SUBSET Key :
    /\ floor' = [k \in Key |-> IF k \in idle THEN disk[k] ELSE floor[k]]
    /\ UNCHANGED <<disk, asks, low, got>>

Next ==
    \/ \E k \in Key : Edit(k)
    \/ \E c \in Caller, k \in Key : Ask(c, k)
    \/ \E c \in Caller : Give(c) \/ Refuse(c)
    \/ Barrier

(* What it promises of the answers, and that there are answers. *)
Promise == Init /\ [][Next]_vars

Spec == Promise /\ \A c \in Caller : WF_vars(Give(c) \/ Refuse(c))
=============================================================================
