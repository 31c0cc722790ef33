------------------------------- MODULE Vault -------------------------------
(***************************************************************************)
(* The allow list of one vault container (internal/web/vault.go over       *)
(* internal/vault/client.go).  Allow and disallow read the list, change    *)
(* the copy and put it back, with no lock across the two calls; the panel  *)
(* reads the list and then one level of the directory tree, and marks each *)
(* directory as listed, covered by a listed ancestor, or neither.  The     *)
(* vault, an external service, keeps of a list only what it accepts.       *)
(*                                                                         *)
(* A path is the sequence of its components below the root.                *)
(***************************************************************************)
EXTENDS Sequences, SequencesExt, Naturals

CONSTANTS
    Request,      \* handler goroutines; each serves one request
    Dirs,         \* the directories of the vault
    Accepted,     \* the paths the vault keeps in a list
    InitAllowed   \* its list before any request

(* What the constants are assumed to be. *)
Assumptions ==
    /\ Accepted \subseteq Dirs /\ InitAllowed \subseteq Accepted
    /\ \A p \in Dirs : p \in Seq(STRING) \ {<<>>}

VARIABLES
    allowed,   \* the vault's list, a set: the vault removes duplicates
    pc,        \* where each request is
    op,        \* allow or disallow, the panel or only its tree
    path,      \* the path it names: to allow or disallow, or to show below
    got,       \* the list it read
    view,      \* the panel: the list shown and the mark of each directory
    calm       \* history: nobody else has put a list since it read its own

reqVars == <<pc, op, path>>
vars == <<allowed, reqVars, got, view, calm>>

Op == {"allow", "disallow", "panel", "tree"}
None == <<>>
NoView == [allowed |-> {}, mark |-> <<>>]

Init ==
    /\ allowed = InitAllowed
    /\ pc = [r \in Request |-> "idle"]
    /\ op = [r \in Request |-> "panel"]
    /\ path = [r \in Request |-> None]
    /\ got = [r \in Request |-> {}]
    /\ view = [r \in Request |-> NoView]
    /\ calm = [r \in Request |-> TRUE]

Goto(r, label) == pc' = [pc EXCEPT ![r] = label]

Begin(r, o, p) ==
    /\ pc[r] = "idle"
    /\ op' = [op EXCEPT ![r] = o]
    /\ path' = [path EXCEPT ![r] = p]
    /\ Goto(r, IF o \in {"panel", "tree"} THEN "list"
               ELSE IF p = None THEN "failed" ELSE "get")
    /\ UNCHANGED <<allowed, got, view, calm>>

(* vaultMutate, GetAllowlist. *)
Get(r) ==
    /\ pc[r] = "get"
    /\ \/ /\ got' = [got EXCEPT ![r] = allowed]
          /\ calm' = [calm EXCEPT ![r] = TRUE]
          /\ Goto(r, "put")
       \/ Goto(r, "failed") /\ UNCHANGED <<got, calm>>
    /\ UNCHANGED <<allowed, op, path, view>>

(* Mutant of Mutated: what a new path covers is tidied away. *)
MutatedTidy(r) ==
    IF op[r] = "allow"
    THEN {p \in got[r] : ~IsPrefix(path[r], p)} \cup {path[r]}
    ELSE got[r] \ {path[r]}

(* The mutations of handleVaultAllow and handleVaultDisallow. *)
Mutated(r) == IF op[r] = "allow" THEN got[r] \cup {path[r]} ELSE got[r] \ {path[r]}

(* PutAllowlist replaces the list.  When it fails the vault may have       *)
(* carried it out all the same, its answer being late or lost.             *)
Put(r) ==
    /\ pc[r] = "put"
    /\ \/ /\ allowed' = Mutated(r) \cap Accepted
          /\ calm' = [q \in Request |-> q = r /\ calm[q]]
          /\ Goto(r, "list") \/ Goto(r, "failed")
       \/ Goto(r, "failed") /\ UNCHANGED <<allowed, calm>>
    /\ UNCHANGED <<op, path, got, view>>

(* loadVaultPanel, GetAllowlist. *)
List(r) ==
    /\ pc[r] = "list"
    /\ \/ view' = [view EXCEPT ![r].allowed = allowed] /\ Goto(r, "tree")
       \/ Goto(r, "failed") /\ UNCHANGED view
    /\ UNCHANGED <<allowed, op, path, got, calm>>

(* Mutant of closestAllowedAncestor: only the parent is looked at. *)
allowedParent(p, list) ==
    LET dir == SubSeq(p, 1, Len(p) - 1) IN IF dir \in list THEN dir ELSE None

(* closestAllowedAncestor: up from the parent of p to below the root. *)
closestAllowedAncestor(p, list) ==
    LET up[n \in 0 .. Len(p)] ==
            IF n = 0 THEN None
            ELSE IF SubSeq(p, 1, n) \in list THEN SubSeq(p, 1, n)
            ELSE up[n - 1]
    IN up[Len(p) - 1]

(* buildVaultTree: the marks of the directories just below `at`. *)
ChildrenOf(at) == {p \in Dirs : Len(p) = Len(at) + 1 /\ IsPrefix(at, p)}

buildVaultTree(at, list) ==
    [p \in ChildrenOf(at) |->
        [explicit |-> p \in list,
         coveredBy |-> IF p \in list THEN None ELSE closestAllowedAncestor(p, list)]]

(* loadVaultPanel, Tree: the level asked for, after a change any that is   *)
(* open; the panel is shown without a tree when it cannot be read.         *)
Tree(r) ==
    /\ pc[r] = "tree"
    /\ \/ /\ \E at \in IF op[r] \in {"panel", "tree"} THEN {path[r]} ELSE Dirs \cup {None} :
                view' = [view EXCEPT ![r].mark = buildVaultTree(at, view[r].allowed)]
          /\ Goto(r, "done")
       \/ Goto(r, IF op[r] = "tree" THEN "failed" ELSE "done") /\ UNCHANGED view
    /\ UNCHANGED <<allowed, op, path, got, calm>>

Next ==
    \E r \in Request :
        \/ \E o \in Op, p \in Dirs \cup {None} : Begin(r, o, p)
        \/ Get(r) \/ Put(r) \/ List(r) \/ Tree(r)

Spec == Init /\ [][Next]_vars

-----------------------------------------------------------------------------
TypeOK ==
    /\ allowed \subseteq Accepted
    /\ pc \in [Request -> {"idle", "get", "put", "list", "tree", "done", "failed"}]
    /\ op \in [Request -> Op]
    /\ path \in [Request -> Dirs \cup {None}]
    /\ \A r \in Request : got[r] \subseteq Accepted /\ view[r].allowed \subseteq Accepted

(* What a panel answers to an allow or a disallow is its effect on the     *)
(* list as it was, no path but the one it names added or lost, unless      *)
(* another request put a list meanwhile; and no interleaving makes the     *)
(* vault allow a path that was not allowed and that nobody asked for.      *)
MutationHolds ==
    /\ \A r \in Request : (pc[r] = "done" /\ op[r] \in {"allow", "disallow"} /\ calm[r]) =>
        /\ view[r].allowed \ {path[r]} = got[r] \ {path[r]}
        /\ path[r] \in view[r].allowed <=> op[r] = "allow" /\ path[r] \in Accepted
    /\ allowed \subseteq InitAllowed \cup {path[r] : r \in {q \in Request : op[q] = "allow"}}

(* The marks "mirror the vault's own check semantics": a directory is      *)
(* shown as reachable just when some path of the list shown is a prefix of *)
(* it, and as covered by the nearest such path above it.                   *)
MarksMirror ==
    \A r \in Request : \A p \in DOMAIN view[r].mark :
        LET m == view[r].mark[p]
            over == {a \in view[r].allowed : IsPrefix(a, p)} IN
        /\ (m.explicit \/ m.coveredBy # None) <=> over # {}
        /\ m.coveredBy # None =>
            m.coveredBy \in over /\ \A a \in over : Len(a) <= Len(m.coveredBy)
=============================================================================
