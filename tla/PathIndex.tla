----------------------------- MODULE PathIndex -----------------------------
(***************************************************************************)
(* The path index of a source (internal/source/hostfs.go and dockervol.go):*)
(* Entities empties it and fills it again from what it lists, Read looks   *)
(* up the file of a kind and name in it and falls back to the conventional *)
(* path.  Scans and reads of a source run in handlers of their own, with   *)
(* no lock.  A host directory is walked, and indexes only what has no      *)
(* conventional path; a volume is listed in one call and indexed in full.  *)
(*                                                                         *)
(* A key is the pair of a kind and a name; MCP servers and hooks, which    *)
(* have no file of their own, are the business of another module.          *)
(***************************************************************************)
EXTENDS Naturals, FiniteSets

CONSTANTS
    Request,        \* handler goroutines
    Key,            \* kinds and names
    File,           \* paths that a scan recognises
    KeyOf,          \* KeyOf[f]: the kind and name it is an entity of
    Conventional,   \* the paths filePath and volumePath make; the others are nested
    MaxEvents       \* bound: files that come or go

NoFile == "none"

(* What the constants are assumed to be. *)
Assumptions ==
    /\ Key # {} /\ KeyOf \in [File -> Key] /\ Conventional \subseteq File
    /\ \A f, g \in Conventional : KeyOf[f] = KeyOf[g] => f = g
    /\ NoFile \notin File
    /\ MaxEvents \in Nat

VARIABLES
    volume,    \* the source is a Docker volume
    disk,      \* the files that exist
    index,     \* pathIndex: the keys indexed so far, each with a file
    pc,        \* where each request is
    key,       \* the key a read asks for
    todo,      \* the files a scan has yet to come to
    at,        \* the file it is at, or the one a read goes to
    behind,    \* the scans whose current assignment may still go to an older map
    crashed,   \* the runtime met two uses of the map at once and ended the process
    listing,   \* history: what the last scan, with those it overlapped, listed
    fresh,     \* history: no file came or went since a scan made its list
    settled,   \* history: nor since the scans of `listing` made theirs
    clean,     \* history: a read was met by neither scan nor change
    events     \* bound: files that came or went

scanVars == <<index, behind, todo, listing, settled>>
vars == <<volume, disk, scanVars, pc, key, at, crashed, fresh, clean, events>>

PC == {"idle", "reset", "visit", "assign", "lookup", "open", "found", "missing", "failed"}

Init ==
    /\ volume \in BOOLEAN
    /\ disk = File
    /\ index = <<>>
    /\ pc = [r \in Request |-> "idle"]
    /\ key = [r \in Request |-> CHOOSE k \in Key : TRUE]
    /\ todo = [r \in Request |-> {}]
    /\ at = [r \in Request |-> NoFile]
    /\ behind = {}
    /\ crashed = FALSE
    /\ listing = {}
    /\ fresh = [r \in Request |-> FALSE]
    /\ settled = FALSE
    /\ clean = [r \in Request |-> FALSE]
    /\ events = 0

Goto(r, label) == pc' = [pc EXCEPT ![r] = label]
Resting == {"idle", "found", "missing", "failed"}
Scanning == {r \in Request : pc[r] \in {"visit", "assign"}}
Indexed(f) == volume \/ f \notin Conventional

(* What the map does when another goroutine is inside an assignment to it  *)
(* is not defined; Go's runtime ends the process when it notices.          *)
Racing(r) == \E q \in Request \ {r} : pc[q] = "assign"

Crash(r) ==
    /\ pc[r] \in {"assign", "lookup"} /\ Racing(r)
    /\ crashed' = TRUE
    /\ UNCHANGED <<volume, disk, scanVars, pc, key, at, fresh, clean, events>>

-----------------------------------------------------------------------------
(* Entities, up to the reset: a volume is listed, which may fail. *)
Entities(r) ==
    /\ pc[r] \in Resting
    /\ at' = [at EXCEPT ![r] = NoFile]
    /\ \/ /\ todo' = [todo EXCEPT ![r] = IF volume THEN disk ELSE File]
          /\ fresh' = [fresh EXCEPT ![r] = TRUE]
          /\ Goto(r, "reset")
       \/ volume /\ Goto(r, "failed") /\ UNCHANGED <<todo, fresh>>
    /\ UNCHANGED <<volume, disk, index, behind, listing, settled, key, crashed, clean, events>>

(* Mutant of Reset: the new paths are added to the old ones. *)
ResetNot(r) ==
    /\ pc[r] = "reset"
    /\ listing' = IF Scanning = {} THEN {} ELSE listing
    /\ settled' = (fresh[r] /\ (Scanning = {} \/ settled))
    /\ clean' = [q \in Request |-> FALSE]
    /\ Goto(r, "visit")
    /\ UNCHANGED <<volume, disk, index, behind, todo, key, at, crashed, fresh, events>>

Reset(r) ==
    /\ pc[r] = "reset"
    /\ index' = <<>>
    /\ behind' = {q \in Request : pc[q] = "assign"}
    /\ listing' = IF Scanning = {} THEN {} ELSE listing
    /\ settled' = (fresh[r] /\ (Scanning = {} \/ settled))
    /\ clean' = [q \in Request |-> FALSE]
    /\ Goto(r, "visit")
    /\ UNCHANGED <<volume, disk, todo, key, at, crashed, fresh, events>>

(* The next file, in whatever order: of a host directory, if it is there.  *)
Visit(r) ==
    /\ pc[r] = "visit"
    /\ \/ \E f \in todo[r] :
            /\ todo' = [todo EXCEPT ![r] = @ \ {f}]
            /\ IF volume \/ f \in disk
               THEN /\ listing' = listing \cup {f}
                    /\ IF Indexed(f) THEN Goto(r, "assign") /\ at' = [at EXCEPT ![r] = f]
                       ELSE UNCHANGED <<pc, at>>
               ELSE UNCHANGED <<listing, pc, at>>
       \/ todo[r] = {} /\ Goto(r, "idle") /\ at' = [at EXCEPT ![r] = NoFile]
          /\ UNCHANGED <<todo, listing>>
    /\ UNCHANGED <<volume, disk, index, behind, settled, key, crashed, fresh, clean, events>>

(* The assignment, which is lost when it goes to a map that a reset has    *)
(* replaced since it was loaded.                                           *)
Assign(r) ==
    /\ pc[r] = "assign"
    /\ \/ index' = [k \in DOMAIN index \cup {KeyOf[at[r]]} |->
                        IF k = KeyOf[at[r]] THEN at[r] ELSE index[k]]
       \/ r \in behind /\ UNCHANGED index
    /\ behind' = behind \ {r}
    /\ Goto(r, "visit")
    /\ UNCHANGED <<volume, disk, todo, listing, settled, key, at, crashed, fresh, clean, events>>

-----------------------------------------------------------------------------
(* Read, and ReadFiles of all but skills. *)
Read(r, k) ==
    /\ pc[r] \in Resting
    /\ key' = [key EXCEPT ![r] = k]
    /\ at' = [at EXCEPT ![r] = NoFile]
    /\ clean' = [clean EXCEPT ![r] = settled /\ Scanning = {}]
    /\ Goto(r, "lookup")
    /\ UNCHANGED <<volume, disk, scanVars, crashed, fresh, events>>

(* filePath and volumePath, where the key has one. *)
Fallback(k) == {f \in Conventional : KeyOf[f] = k}

Lookup(r) ==
    /\ pc[r] = "lookup"
    /\ \/ /\ key[r] \in DOMAIN index
          /\ at' = [at EXCEPT ![r] = index[key[r]]]
          /\ Goto(r, "open")
       \/ /\ key[r] \notin DOMAIN index
          /\ \E f \in Fallback(key[r]) : at' = [at EXCEPT ![r] = f]
          /\ Goto(r, "open")
       \/ /\ key[r] \notin DOMAIN index /\ Fallback(key[r]) = {}
          /\ Goto(r, "missing")
          /\ UNCHANGED at
    /\ UNCHANGED <<volume, disk, scanVars, key, crashed, fresh, clean, events>>

Open(r) ==
    /\ pc[r] = "open"
    /\ Goto(r, IF at[r] \in disk THEN "found" ELSE "missing")
    /\ UNCHANGED <<volume, disk, scanVars, key, at, crashed, fresh, clean, events>>

-----------------------------------------------------------------------------
(* Claude Code and its users write and remove the files.  So does a PUT,   *)
(* which by Write goes to the conventional path of its key, whichever of   *)
(* the key's files is indexed.                                             *)
Change(f) ==
    /\ events < MaxEvents
    /\ events' = events + 1
    /\ disk' = IF f \in disk THEN disk \ {f} ELSE disk \cup {f}
    /\ fresh' = [r \in Request |-> FALSE]
    /\ settled' = FALSE
    /\ clean' = [r \in Request |-> FALSE]
    /\ UNCHANGED <<volume, index, behind, todo, listing, pc, key, at, crashed>>

Next ==
    /\ ~crashed
    /\ \/ \E r \in Request :
            \/ Entities(r) \/ Reset(r) \/ Visit(r) \/ Assign(r)
            \/ \E k \in Key : Read(r, k)
            \/ Lookup(r) \/ Open(r) \/ Crash(r)
       \/ \E f \in File : Change(f)

Spec == Init /\ [][Next]_vars

-----------------------------------------------------------------------------
TypeOK ==
    /\ disk \subseteq File /\ listing \subseteq File
    /\ DOMAIN index \subseteq Key
    /\ pc \in [Request -> PC]
    /\ key \in [Request -> Key]
    /\ todo \in [Request -> SUBSET File]
    /\ behind \subseteq {r \in Request : pc[r] = "assign"}
    /\ at \in [Request -> File \cup {NoFile}]

(* Whatever scans overlap, what they leave behind is theirs: between scans *)
(* the index holds no path but of a file they listed, under its own key.   *)
(* So the entity of a list can be read: when no file came or went since,   *)
(* a read that no scan meets finds a file of that kind and name.  It need  *)
(* not be the one listed: another project's of the same name may stand in  *)
(* the index.                                                              *)
IndexSound ==
    /\ Scanning = {} => \A k \in DOMAIN index : index[k] \in listing /\ KeyOf[index[k]] = k
    /\ \A r \in Request :
        (pc[r] \in {"found", "missing"} /\ clean[r] /\ \E f \in listing : KeyOf[f] = key[r]) =>
            pc[r] = "found" /\ at[r] \in listing /\ KeyOf[at[r]] = key[r]
=============================================================================
