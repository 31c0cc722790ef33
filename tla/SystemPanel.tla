---------------------------- MODULE SystemPanel ----------------------------
(***************************************************************************)
(* The disk usage of a container engine and its pruning                    *)
(* (internal/web/system.go, internal/system/types.go, internal/docker/df.go*)
(* and internal/podman/client.go).  A confirm modal is made from one       *)
(* reading of the engine, listing what is unused and what a prune would    *)
(* reclaim; the prune it leads to is a later request, of one or several    *)
(* calls each of which the engine carries out on what it finds then.       *)
(*                                                                         *)
(* A layer, a container's own files, a volume and a build-cache record     *)
(* have size 1; an object is the pair of its category and its name.        *)
(***************************************************************************)
EXTENDS Naturals, FiniteSets, FiniteSetsExt, Sequences

CONSTANTS
    Image, Container, Volume, Record,
    Layers,      \* Layers[i]: the layers of an image
    NoImage,     \* the image of a container that does not exist
    MaxEvents    \* bound: changes other programs make to the engine

(* What the constants are assumed to be. *)
Assumptions ==
    /\ MaxEvents \in Nat /\ NoImage \notin Image
    /\ IsFiniteSet(Image) /\ IsFiniteSet(Container) /\ IsFiniteSet(Volume) /\ IsFiniteSet(Record)
    /\ \A i \in Image : IsFiniteSet(Layers[i])

VARIABLES
    engine,    \* docker or podman
    images,    \* the images that exist
    dangling,  \* those without a tag
    ctr,       \* ctr[c]: its image, its state and the volumes it mounts
    volumes,   \* the volumes that exist
    records,   \* build-cache records and which of them are in use
    pc,        \* where the request is
    op,        \* prune or remove, and of what
    modal,     \* what the modal was made of
    calls,     \* the calls the prune has yet to make
    broken,    \* one of them failed
    deleted,   \* history: what they deleted
    freed,     \* history: the size of what they deleted
    calm,      \* history: nothing else changed the engine since the modal
    events     \* bound: changes by others

engineVars == <<images, dangling, ctr, volumes, records>>
vars == <<engine, engineVars, pc, op, modal, calls, broken, deleted, freed, calm, events>>

State == {"running", "paused", "exited"}
NoContainer == [image |-> NoImage, state |-> "exited", vols |-> {}]
Category == {"images", "containers", "volumes", "buildcache"}
Op == [act : {"prune"}, key : Category \cup {"__safe__", "__all__"}, id : {NoImage}]
      \cup [act : {"remove"}, key : {"images"}, id : Image]
      \cup [act : {"remove"}, key : {"containers"}, id : Container]
      \cup [act : {"remove"}, key : {"volumes"}, id : Volume]
NoModal == [unused |-> {}, lost |-> {}, safe |-> 0, all |-> 0]

Live == {c \in Container : ctr[c].image # NoImage}
Held(i) == \E c \in Live : ctr[c].image = i
Mounted(v) == \E c \in Live : v \in ctr[c].vols
Footprint(is) == Cardinality(UNION {Layers[i] : i \in is})
Sized(k, ns) == {<<k, n>> : n \in ns}

Init ==
    /\ engine \in {"docker", "podman"}
    /\ images = Image
    /\ dangling \in SUBSET Image
    /\ ctr \in [Container -> {NoContainer} \cup
                [image : Image, state : State, vols : SUBSET Volume]]
    /\ volumes = Volume
    /\ records \in [all : {IF engine = "docker" THEN Record ELSE {}}, used : SUBSET Record]
    /\ records.used \subseteq records.all
    /\ pc = "idle"
    /\ op = [act |-> "prune", key |-> "images", id |-> NoImage]
    /\ modal = NoModal
    /\ calls = <<>>
    /\ broken = FALSE
    /\ deleted = {} /\ freed = 0
    /\ calm = TRUE
    /\ events = 0

-----------------------------------------------------------------------------
(* One reading of the engine.  For podman the listings are commands of     *)
(* their own: `lost` are those that failed, whose rows are empty; without  *)
(* `ps`, which its volumes' links are counted from, no volume is in use.   *)

Unused(lost) ==
    Sized("images", {i \in images : "images" \notin lost /\ ~Held(i)}) \cup
    Sized("containers", {c \in Live : "containers" \notin lost /\ ctr[c].state # "running"}) \cup
    Sized("volumes", {v \in volumes : "volumes" \notin lost /\ ("containers" \in lost \/ ~Mounted(v))}) \cup
    Sized("buildcache", records.all \ records.used)

(* Size - SharedSize of an image. *)
Unique(i) == Cardinality(Layers[i] \ UNION {Layers[j] : j \in images \ {i}})
UniqueSize(is) == MapThenSumSet(Unique, is)
FullSize(is) == MapThenSumSet(LAMBDA i : Cardinality(Layers[i]), is)

(* DFRow.Reclaimable.  Docker's images row is LayersSize less the unique   *)
(* sizes of the images in use.  Podman's is what its `system df` says,     *)
(* whether or not the images were listed, or the unique sizes of the       *)
(* unused ones listed, or their full sizes; the size of a podman volume is *)
(* not known.                                                              *)
Reclaimables(unused) ==
    LET free == {i \in images : ~Held(i)}
        of(k) == Cardinality({o \in unused : o[1] = k})
        row(n) == [k \in Category |-> CASE k = "images" -> n
                                        [] k = "volumes" /\ engine = "podman" -> 0
                                        [] OTHER -> of(k)] IN
    IF engine = "docker"
    THEN {row(Footprint(images) - UniqueSize({i \in images : Held(i)}))}
    ELSE {row(n) : n \in {0, UniqueSize(free), FullSize(free)}}

(* Mutant of SafeReclaim: a dangling image counts in full. *)
SafeReclaimFull(unused, row) ==
    LET loose == {i \in images \cap dangling : <<"images", i>> \in unused}
        size == FullSize(loose) IN
    row["buildcache"] + IF size > row["images"] THEN row["images"] ELSE size

(* SafeReclaim: the cache and the unique layers of the dangling images,    *)
(* the latter no more than the row's own figure.                           *)
SafeReclaim(unused, row) ==
    LET loose == {i \in images \cap dangling : <<"images", i>> \in unused}
        size == UniqueSize(loose) IN
    row["buildcache"] + IF size > row["images"] THEN row["images"] ELSE size

(* handleSystemConfirm: the modal, or a 400 when there is nothing to prune *)
(* or the object is not there or in use.                                   *)
Confirm(o) ==
    /\ pc = "idle"
    /\ op' = o
    /\ \E lost \in SUBSET (IF engine = "podman" THEN {"images", "containers", "volumes"} ELSE {}) :
       LET unused == Unused(lost) IN
       \E row \in Reclaimables(unused) :
        LET all == row["images"] + row["containers"] + row["volumes"] + row["buildcache"]
            loose == {i \in dangling : <<"images", i>> \in unused}
            safe == SafeReclaim(unused, row)
            shown == CASE o.act = "remove" -> unused \cap {<<o.key, o.id>>}
                       [] o.key = "__safe__" ->
                            {u \in unused : u[1] = "buildcache" \/ u \in Sized("images", loose)}
                       [] o.key = "__all__" -> unused
                       [] OTHER -> {u \in unused : u[1] = o.key}
            ok == CASE o.act = "remove" -> shown # {}
                    [] o.key = "__safe__" -> row["buildcache"] > 0 \/ loose # {}
                    [] o.key = "__all__" -> all > 0
                    [] OTHER -> row[o.key] > 0 IN
        \/ /\ ok
           /\ modal' = [unused |-> shown, lost |-> lost,
                        safe |-> IF o.key = "__safe__" THEN safe ELSE 0, all |-> all]
           /\ pc' = "modal"
        \/ ~ok /\ pc' = "refused" /\ UNCHANGED modal
    /\ UNCHANGED <<engine, engineVars, calls, broken, deleted, freed, calm, events>>

-----------------------------------------------------------------------------
(* Mutant of Calls: the safe prune passes the filter of the images row.    *)
CallsAll(o) ==
    CASE o.key = "__safe__" -> IF engine = "docker" THEN <<"images", "buildcache">> ELSE <<"images">>
      [] o.key = "__all__" -> <<"containers", "images", "volumes", "buildcache">>
      [] OTHER -> <<o.key>>

(* SafePrune, PruneAll and PruneCategory: the calls in their order; podman *)
(* prunes everything in one command, which goes the same way.              *)
Calls(o) ==
    CASE o.key = "__safe__" -> IF engine = "docker" THEN <<"dangling", "buildcache">> ELSE <<"dangling">>
      [] o.key = "__all__" -> <<"containers", "images", "volumes", "buildcache">>
      [] OTHER -> <<o.key>>

Proceed ==
    /\ pc = "modal"
    /\ pc' = "act"
    /\ calls' = IF op.act = "remove" THEN <<"remove">> ELSE Calls(op)
    /\ UNCHANGED <<engine, engineVars, op, modal, broken, deleted, freed, calm, events>>

(* What the engine deletes on a call: only what it finds unused then.      *)
Prunable(call) ==
    CASE call = "dangling" -> Sized("images", {i \in images \cap dangling : ~Held(i)})
      [] call = "images" -> Sized("images", {i \in images : ~Held(i)})
      [] call = "containers" -> Sized("containers", {c \in Live : ctr[c].state = "exited"})
      [] call = "volumes" -> Sized("volumes", {v \in volumes : ~Mounted(v)})
      [] call = "buildcache" -> Sized("buildcache", records.all \ records.used)
      [] OTHER -> {<<op.key, op.id>>} \cap
            (Sized("images", {i \in images : ~Held(i)}) \cup Sized("volumes", {v \in volumes : ~Mounted(v)})
             \cup Sized("containers", {c \in Live : ctr[c].state = "exited"}))

Delete(gone) ==
    LET left == {i \in images : <<"images", i>> \notin gone} IN
    /\ images' = left
    /\ ctr' = [c \in Container |-> IF <<"containers", c>> \in gone THEN NoContainer ELSE ctr[c]]
    /\ volumes' = {v \in volumes : <<"volumes", v>> \notin gone}
    /\ records' = [records EXCEPT !.all = {b \in @ : <<"buildcache", b>> \notin gone}]
    /\ deleted' = deleted \cup gone
    /\ freed' = freed + (Footprint(images) - Footprint(left)) + Cardinality({o \in gone : o[1] # "images"})

(* One call of the prune or the removal.  An error is kept, and the calls  *)
(* after it are made all the same; a removal of nothing is an error.       *)
Call ==
    /\ pc = "act" /\ calls # <<>>
    /\ calls' = Tail(calls)
    /\ \/ /\ Head(calls) = "remove" => Prunable("remove") # {}
          /\ Delete(Prunable(Head(calls)))
          /\ UNCHANGED <<broken, dangling>>
       \/ broken' = TRUE /\ UNCHANGED <<engineVars, deleted, freed>>
    /\ UNCHANGED <<engine, pc, op, modal, calm, events>>

(* The answer: an error, or the toast and the card, read anew. *)
Finish ==
    /\ pc = "act" /\ calls = <<>>
    /\ pc' = IF broken THEN "failed" ELSE "done"
    /\ UNCHANGED <<engine, engineVars, op, modal, calls, broken, deleted, freed, calm, events>>

(* Other users of the engine: a container is created, started, stopped or  *)
(* removed, a tag moves on to another image.                               *)
Event ==
    /\ events < MaxEvents /\ pc \in {"modal", "act"}
    /\ events' = events + 1
    /\ calm' = FALSE
    /\ \/ /\ \E c \in Container :
                \/ /\ ctr[c] = NoContainer
                   /\ \E i \in images, vs \in SUBSET volumes :
                        ctr' = [ctr EXCEPT ![c] = [image |-> i, state |-> "running", vols |-> vs]]
                \/ /\ ctr[c] # NoContainer
                   /\ \E s \in State \ {ctr[c].state} : ctr' = [ctr EXCEPT ![c].state = s]
                \/ ctr[c] # NoContainer /\ ctr' = [ctr EXCEPT ![c] = NoContainer]
          /\ UNCHANGED dangling
       \/ \E i \in images \ dangling : dangling' = dangling \cup {i} /\ UNCHANGED ctr
    /\ UNCHANGED <<engine, images, volumes, records, pc, op, modal, calls, broken, deleted, freed>>

Next == (\E o \in Op : Confirm(o)) \/ Proceed \/ Call \/ Finish \/ Event

Spec == Init /\ [][Next]_vars

-----------------------------------------------------------------------------
TypeOK ==
    /\ images \subseteq Image /\ volumes \subseteq Volume
    /\ ctr \in [Container -> {NoContainer} \cup [image : Image, state : State, vols : SUBSET Volume]]
    /\ \A c \in Live : ctr[c].image \in images
    /\ pc \in {"idle", "modal", "refused", "act", "failed", "done"}
    /\ op \in Op
    /\ modal.unused \subseteq Sized("images", Image) \cup Sized("containers", Container)
                              \cup Sized("volumes", Volume) \cup Sized("buildcache", Record)

(* Nothing is deleted that the modal did not speak of.  When nobody else   *)
(* changed the engine since and no listing was lost, a prune of one        *)
(* category, a safe prune or a removal deletes only what the modal         *)
(* counted, and a prune of everything, whose first call removes the        *)
(* stopped containers, besides that only what those held.  And whatever    *)
(* happened since, a safe prune deletes nothing but build cache and images *)
(* that have lost their tag.                                               *)
ConfirmCovers ==
    /\ (calm /\ modal.lost = {}) =>
        \A o \in deleted \ modal.unused :
            /\ op.key = "__all__"
            /\ \E u \in modal.unused : u[1] = "containers" /\ u \in deleted
            /\ o[1] \in {"images", "volumes"}
    /\ op.key = "__safe__" =>
        \A o \in deleted : o[1] = "buildcache" \/ o \in Sized("images", dangling)

(* The estimate of the safe prune is "never an inflated one": it is not    *)
(* above what the modal for everything would say, and a safe prune that    *)
(* succeeds on an unchanged engine frees at least that much, whatever the  *)
(* images share with one another.                                          *)
EstimateHonest ==
    /\ modal.safe <= modal.all
    /\ (pc = "done" /\ calm) => modal.safe <= freed
=============================================================================
