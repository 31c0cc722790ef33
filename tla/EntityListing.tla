--------------------------- MODULE EntityListing ---------------------------
(***************************************************************************)
(* The life of one cached entity list (internal/web/handlers.go): the      *)
(* slice that allEntities returns shares its backing array with the cache, *)
(* and handlers read it concurrently without a lock.  handleEntities       *)
(* filters it with `filtered := all[:0]`, that is, in place.               *)
(*                                                                         *)
(* An entity is its ID and its kind.  A struct is not copied atomically,   *)
(* so a copy into the array is two steps, with readers in between.         *)
(***************************************************************************)
EXTENDS Naturals, Sequences, Sieve

CONSTANTS
    Request,  \* handlers of GET /api/entities
    Stored,   \* the list as the scan stored it
    Kind,     \* the kinds a ?kind= parameter asks for
    NoKind    \* no parameter: the whole list

Element == [id : {Stored[i].id : i \in DOMAIN Stored}, kind : Kind]

Assumptions == NoKind \notin Kind /\ Stored \in Seq(Element) \ {<<>>}

VARIABLES
    array,  \* the backing array of entityCache.entries
    pc,     \* where each request is
    kind,   \* its kindFilter
    next,   \* the index its loop has reached
    kept,   \* len(filtered)
    hand,   \* the element its loop variable holds
    answer  \* the elements of its response so far

vars == <<array, pc, kind, next, kept, hand, answer>>

PC == {"idle", "filter", "copy", "copied", "encode", "done"}

Init ==
    /\ array = Stored
    /\ pc = [r \in Request |-> "idle"]
    /\ kind = [r \in Request |-> NoKind]
    /\ next = [r \in Request |-> 1]
    /\ kept = [r \in Request |-> 0]
    /\ hand = [r \in Request |-> Stored[1]]
    /\ answer = [r \in Request |-> <<>>]

Goto(r, label) == pc' = [pc EXCEPT ![r] = label]

(* Mutant of Begin: the list is filtered also when no kind is asked for. *)
BeginFiltering(r, k) ==
    /\ pc[r] = "idle"
    /\ kind' = [kind EXCEPT ![r] = k]
    /\ Goto(r, "filter")
    /\ UNCHANGED <<array, next, kept, hand, answer>>

(* The handler holds the slice; its length is that of the stored list. *)
Begin(r, k) ==
    /\ pc[r] = "idle"
    /\ kind' = [kind EXCEPT ![r] = k]
    /\ kept' = [kept EXCEPT ![r] = IF k = NoKind THEN Len(Stored) ELSE 0]
    /\ Goto(r, IF k = NoKind THEN "encode" ELSE "filter")
    /\ UNCHANGED <<array, next, hand, answer>>

(* for _, e := range all: the loop reads the array as it is by now. *)
Visit(r) ==
    /\ pc[r] = "filter"
    /\ next[r] <= Len(Stored)
    /\ hand' = [hand EXCEPT ![r] = array[next[r]]]
    /\ next' = [next EXCEPT ![r] = @ + 1]
    /\ IF array[next[r]].kind = kind[r]
       THEN /\ kept' = [kept EXCEPT ![r] = @ + 1]
            /\ Goto(r, "copy")
       ELSE UNCHANGED <<kept, pc>>
    /\ UNCHANGED <<array, kind, answer>>

(* filtered = append(filtered, e): all[:0] has the capacity of all. *)
CopyId(r) ==
    /\ pc[r] = "copy"
    /\ array' = [array EXCEPT ![kept[r]].id = hand[r].id]
    /\ Goto(r, "copied")
    /\ UNCHANGED <<kind, next, kept, hand, answer>>

CopyKind(r) ==
    /\ pc[r] = "copied"
    /\ array' = [array EXCEPT ![kept[r]].kind = hand[r].kind]
    /\ Goto(r, "filter")
    /\ UNCHANGED <<kind, next, kept, hand, answer>>

(* all = filtered *)
Filtered(r) ==
    /\ pc[r] = "filter"
    /\ next[r] > Len(Stored)
    /\ Goto(r, "encode")
    /\ UNCHANGED <<array, kind, next, kept, hand, answer>>

(* writeJSON encodes the slice from the array, one element after the other.*)
Encode(r) ==
    /\ pc[r] = "encode"
    /\ \/ /\ Len(answer[r]) < kept[r]
          /\ answer' = [answer EXCEPT ![r] = Append(@, array[Len(@) + 1])]
          /\ UNCHANGED pc
       \/ /\ Len(answer[r]) = kept[r]
          /\ Goto(r, "done")
          /\ UNCHANGED answer
    /\ UNCHANGED <<array, kind, next, kept, hand>>

Next ==
    \E r \in Request :
        \/ \E k \in Kind \union {NoKind} : Begin(r, k)
        \/ Visit(r) \/ CopyId(r) \/ CopyKind(r) \/ Filtered(r) \/ Encode(r)

Spec == Init /\ [][Next]_vars

-----------------------------------------------------------------------------
(* Properties *)

(* No loop runs past the array, and no filter ahead of its own loop.       *)
TypeOK ==
    /\ array \in [DOMAIN Stored -> Element]
    /\ pc \in [Request -> PC]
    /\ kind \in [Request -> Kind \union {NoKind}]
    /\ next \in [Request -> 1 .. Len(Stored) + 1]
    /\ kept \in [Request -> 0 .. Len(Stored)]
    /\ hand \in [Request -> Element]
    /\ \A r \in Request : Len(answer[r]) <= kept[r]

(* The whole list, or the elements of a kind in their order. *)
OfKind(k) == {e \in Element : e.kind = k}
Expected(r) == IF kind[r] = NoKind THEN Stored ELSE Sieved(Stored, OfKind(kind[r]))

(* A request is answered with what it asked for as long as no other one    *)
(* has filtered the same list: in-place compaction does not overtake its   *)
(* own loop, and readers of the whole list do not disturb each other.      *)
UnfilteredAnswers ==
    \A r \in Request :
        /\ pc[r] = "done"
        /\ \A q \in Request \ {r} : kind[q] = NoKind
        => answer[r] = Expected(r)

(* "The returned slice is the shared cache backing array - callers must    *)
(* treat it as read-only": no step changes the array.                      *)
ReadOnlyContract == [][array' = array]_vars
=============================================================================
