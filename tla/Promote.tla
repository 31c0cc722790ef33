------------------------------ MODULE Promote ------------------------------
(***************************************************************************)
(* Copies into one host configuration directory (internal/web/promote.go   *)
(* over internal/source/hostfs.go): POST /api/promote, alone, with         *)
(* overwrite or as a mirror copy, and PUT /api/entity.  The target holds a *)
(* skill - a directory with SKILL.md and other files -, a single-file      *)
(* entity, and settings blocks, the keys of one settings.json.             *)
(*                                                                         *)
(* Nothing is locked.  The handlers of concurrent requests interleave at   *)
(* every system call: the create-only path relies on mkdir and O_EXCL, and *)
(* os.WriteFile is a truncation and, later, a write through its handle.    *)
(* A request writes a content of its own, by which it is known on disk.    *)
(***************************************************************************)
EXTENDS Naturals, FiniteSets

CONSTANTS
    Request,    \* handler goroutines: each serves one request
    Block,      \* MCP servers or hooks: keys of settings.json
    Extra,      \* files a skill may have beside SKILL.md
    Scalars,    \* settings.json has top-level settings that are no objects
    MaxFails    \* bound: failed system calls

SkillMD == "SKILL.md"
Note == "note"
File == {SkillMD} \union Extra
Path == File \union {Note}
Entity == {"skill", "plain"} \union Block

ASSUME NamesAssumption ==
    /\ Request \intersect {"none", "prior", "empty", "torn"} = {}
    /\ Extra \intersect {SkillMD, Note, "none", "gone"} = {}
    /\ Block \intersect {"skill", "plain"} = {}
ASSUME ScalarsAssumption == Scalars \in BOOLEAN
ASSUME BoundAssumption == MaxFails \in Nat

VARIABLES
    dir,       \* the skill's directory exists
    disk,      \* disk[p]: whose content the file p holds
    settings,  \* settings.json: its state and, if it is valid, its blocks
    pc, job,   \* where each request is, and what it asks
    todo,      \* the files it has still to open or to remove
    handle,    \* the file it has truncated or created and not yet written
    loaded,    \* the blocks it is about to save
    answer,    \* what it answered
    existed,   \* history: its entity existed when it began,
    before,    \*   and these were the blocks of settings.json
    claims,    \* history: the requests no rival and no failed read disturbed
    fails      \* bound

fsVars == <<dir, disk, settings>>
reqVars == <<pc, job, todo, handle, loaded, answer>>
histVars == <<existed, before, claims, fails>>
vars == <<fsVars, reqVars, histVars>>

PC == {"new", "check", "claim", "clear", "wipe", "rmdir", "write", "open", "body",
       "load", "truncate", "put", "respond", "done"}
Content == Request \union {"none", "prior", "empty", "torn"}
Keys == [Block -> Request \union {"none", "prior"}]
Settings == [state : {"missing", "valid", "empty", "torn"}, at : Keys]
Job == [entity : Entity, overwrite : BOOLEAN, mirror : BOOLEAN, parts : SUBSET File]

NoKeys == [b \in Block |-> "none"]
NoJob == [entity |-> "plain", overwrite |-> TRUE, mirror |-> FALSE, parts |-> {}]

(* The target's state is any that earlier requests can have left.          *)
Init ==
    /\ disk \in [Path -> {"none", "prior"}]
    /\ dir \in BOOLEAN
    /\ (\E f \in File : disk[f] = "prior") => dir
    /\ \/ settings = [state |-> "missing", at |-> NoKeys]
       \/ \E at \in [Block -> {"none", "prior"}] : settings = [state |-> "valid", at |-> at]
    /\ pc = [r \in Request |-> "new"]
    /\ job = [r \in Request |-> NoJob]
    /\ todo = [r \in Request |-> {}]
    /\ handle = [r \in Request |-> "none"]
    /\ loaded = [r \in Request |-> NoKeys]
    /\ answer = [r \in Request |-> "none"]
    /\ existed = [r \in Request |-> FALSE]
    /\ before = [r \in Request |-> NoKeys]
    /\ claims = {}
    /\ fails = 0

Goto(r, label) == pc' = [pc EXCEPT ![r] = label]

-----------------------------------------------------------------------------
(* A request begins. *)

(* What the listing shows: it reads the sections of settings.json whatever *)
(* else is in it, a skill by its SKILL.md, and a single-file entity by the *)
(* file at its conventional path, which filePath makes of kind and name.   *)
(* One of that name that is listed from elsewhere is another entity here.  *)
Exists(e) ==
    CASE e = "skill" -> disk[SkillMD] # "none"
      [] e = "plain" -> disk[Note] # "none"
      [] OTHER -> settings.at[e] # "none"

(* Two requests meet in one file. *)
Meet(e, d) == e = d \/ {e, d} \subseteq Block

Rivals(r, e) == {q \in Request \ {r} : pc[q] \notin {"new", "done"} /\ Meet(job[q].entity, e)}

(* Mutant of Stage: a copy without mirror never claims its place. *)
StageUnclaimed(j) == IF j.mirror THEN "clear" ELSE "write"

Stage(j) ==
    IF j.mirror THEN "clear" ELSE IF j.overwrite THEN "write" ELSE "claim"

Begin(r, j) ==
    /\ pc[r] = "new"
    /\ job' = [job EXCEPT ![r] = j]
    /\ existed' = [existed EXCEPT ![r] = Exists(j.entity)]
    /\ before' = [before EXCEPT ![r] = IF j.entity \in Block THEN settings.at ELSE NoKeys]
    /\ claims' = (claims \ Rivals(r, j.entity)) \union
                 (IF Rivals(r, j.entity) = {} THEN {r} ELSE {})
    /\ UNCHANGED <<fsVars, todo, handle, loaded, answer, fails>>

(* handlePromote has found both sources; the name may be a new one. *)
HandlePromote(r, e, overwrite, mirror, parts) ==
    LET j == [entity |-> e, overwrite |-> overwrite, mirror |-> mirror, parts |-> parts]
    IN  /\ Begin(r, j)
        /\ Goto(r, IF overwrite THEN Stage(j) ELSE "check")

(* handleEntityWrite: an entity of the cached list, which may be gone from *)
(* disk.  Write goes by its kind and name, not by the path it was listed   *)
(* with: an auto-memory or CLAUDE.md of another place gets a second file   *)
(* at the conventional path.  A settings block has no file and is refused. *)
HandleEntityWrite(r, e) ==
    /\ e \notin Block
    /\ Begin(r, [NoJob EXCEPT !.entity = e, !.parts = {SkillMD}])
    /\ Goto(r, "write")

(* The response; what the request kept in memory is gone. *)
Respond(r, a) ==
    /\ Goto(r, "done")
    /\ answer' = [answer EXCEPT ![r] = a]
    /\ todo' = [todo EXCEPT ![r] = {}]
    /\ handle' = [handle EXCEPT ![r] = "none"]
    /\ loaded' = [loaded EXCEPT ![r] = NoKeys]
    /\ existed' = [existed EXCEPT ![r] = FALSE]
    /\ before' = [before EXCEPT ![r] = NoKeys]
    /\ claims' = claims \ {r}
    /\ UNCHANGED job

(* Mutant of Has: a settings block is never there. *)
HasNoBlock(e) == e \notin Block /\ Exists(e)

(* Has: readSettingsBlock decodes settings.json as sections of blocks, and *)
(* skips a file in which anything else is at the top level.                *)
Has(e) == Exists(e) /\ ~(e \in Block /\ Scalars)

Check(r) ==
    /\ pc[r] = "check"
    /\ IF Has(job[r].entity)
       THEN Respond(r, "conflict")
       ELSE /\ Goto(r, Stage(job[r]))
            /\ UNCHANGED <<job, todo, handle, loaded, answer, existed, before, claims>>
    /\ UNCHANGED <<fsVars, fails>>

-----------------------------------------------------------------------------
(* Create only: WriteFilesExcl. *)

(* A skill claims its directory with a mkdir that fails if it exists. *)
ClaimSkill(r) ==
    /\ pc[r] = "claim"
    /\ job[r].entity = "skill"
    /\ \/ /\ dir
          /\ Respond(r, "conflict")
          /\ UNCHANGED dir
       \/ /\ ~dir
          /\ dir' = TRUE
          /\ Goto(r, "write")
          /\ UNCHANGED <<job, todo, handle, loaded, answer, existed, before, claims>>
    /\ UNCHANGED <<disk, settings, fails>>

(* A single file is created with O_EXCL. *)
ClaimFile(r) ==
    /\ pc[r] = "claim"
    /\ job[r].entity = "plain"
    /\ \/ /\ disk[Note] # "none"
          /\ Respond(r, "conflict")
          /\ UNCHANGED disk
       \/ /\ disk[Note] = "none"
          /\ disk' = [disk EXCEPT ![Note] = "empty"]
          /\ handle' = [handle EXCEPT ![r] = Note]
          /\ Goto(r, "body")
          /\ UNCHANGED <<job, todo, loaded, answer, existed, before, claims>>
    /\ UNCHANGED <<dir, settings, fails>>

(* A key of settings.json is looked up once more, and then written. *)
ClaimBlock(r) ==
    /\ pc[r] = "claim"
    /\ job[r].entity \in Block
    /\ IF Has(job[r].entity)
       THEN Respond(r, "conflict")
       ELSE /\ Goto(r, "write")
            /\ UNCHANGED <<job, todo, handle, loaded, answer, existed, before, claims>>
    /\ UNCHANGED <<fsVars, fails>>

-----------------------------------------------------------------------------
(* Mirror: Clear. *)

(* os.RemoveAll lists the directory, removes what it saw, then the         *)
(* directory.                                                              *)
ClearSkill(r) ==
    /\ pc[r] = "clear"
    /\ job[r].entity = "skill"
    /\ todo' = [todo EXCEPT ![r] = {f \in File : disk[f] # "none"}]
    /\ Goto(r, IF dir THEN "wipe" ELSE "write")
    /\ UNCHANGED <<fsVars, job, handle, loaded, answer, histVars>>

(* A removed file lives on for the handles that are open on it. *)
Unlink(p) ==
    /\ disk' = [disk EXCEPT ![p] = "none"]
    /\ handle' = [q \in Request |-> IF handle[q] = p THEN "gone" ELSE handle[q]]

Wipe(r, f) ==
    /\ pc[r] = "wipe"
    /\ f \in todo[r]
    /\ Unlink(f)
    /\ todo' = [todo EXCEPT ![r] = @ \ {f}]
    /\ UNCHANGED <<dir, settings, pc, job, loaded, answer, histVars>>

(* A file that appeared meanwhile fails the removal of the directory. *)
RemoveDir(r) ==
    /\ pc[r] = "wipe"
    /\ todo[r] = {}
    /\ \/ /\ \E f \in File : disk[f] # "none"
          /\ Respond(r, "error")
          /\ UNCHANGED dir
       \/ /\ \A f \in File : disk[f] = "none"
          /\ dir' = FALSE
          /\ Goto(r, "write")
          /\ UNCHANGED <<job, todo, handle, loaded, answer, existed, before, claims>>
    /\ UNCHANGED <<disk, settings, fails>>

ClearFile(r) ==
    /\ pc[r] = "clear"
    /\ job[r].entity = "plain"
    /\ Unlink(Note)
    /\ Goto(r, "write")
    /\ UNCHANGED <<dir, settings, job, todo, loaded, answer, histVars>>

(* clearSettingsKey: a missing file or key is as good as cleared. *)
ClearBlock(r) ==
    LET e == job[r].entity IN
    /\ pc[r] = "clear"
    /\ e \in Block
    /\ \/ /\ settings.state \in {"missing", "valid"}
          /\ settings.at[e] = "none"
          /\ Goto(r, "write")
          /\ UNCHANGED <<job, todo, handle, loaded, answer, existed, before, claims>>
       \/ /\ settings.state = "valid"
          /\ settings.at[e] # "none"
          /\ loaded' = [loaded EXCEPT ![r] = [settings.at EXCEPT ![e] = "none"]]
          /\ Goto(r, "truncate")
          /\ UNCHANGED <<job, todo, handle, answer, existed, before, claims>>
       \/ /\ settings.state \in {"empty", "torn"}
          /\ Respond(r, "error")
    /\ UNCHANGED <<fsVars, fails>>

-----------------------------------------------------------------------------
(* Write: WriteFiles. *)

WriteFiles(r) ==
    LET e == job[r].entity IN
    /\ pc[r] = "write"
    /\ dir' = (dir \/ e = "skill")
    /\ todo' = [todo EXCEPT ![r] = CASE e = "skill" -> job[r].parts
                                     [] e = "plain" -> {Note}
                                     [] OTHER -> {}]
    /\ Goto(r, IF e \in Block THEN "load" ELSE "open")
    /\ UNCHANGED <<disk, settings, job, handle, loaded, answer, histVars>>

(* Mutant of Open: the directory is not made again. *)
OpenBare(r, p) ==
    /\ pc[r] = "open"
    /\ p \in todo[r]
    /\ disk' = [disk EXCEPT ![p] = "empty"]
    /\ todo' = [todo EXCEPT ![r] = @ \ {p}]
    /\ handle' = [handle EXCEPT ![r] = p]
    /\ Goto(r, "body")
    /\ UNCHANGED <<dir, settings, job, loaded, answer, histVars>>

(* os.WriteFile opens its file, creating or truncating it ... *)
Open(r, p) ==
    /\ pc[r] = "open"
    /\ p \in todo[r]
    /\ dir' = (dir \/ p \in File)
    /\ disk' = [disk EXCEPT ![p] = "empty"]
    /\ todo' = [todo EXCEPT ![r] = @ \ {p}]
    /\ handle' = [handle EXCEPT ![r] = p]
    /\ Goto(r, "body")
    /\ UNCHANGED <<settings, job, loaded, answer, histVars>>

(* Mutant of Body: the first file of a skill ends the loop. *)
BodyOnce(r) ==
    /\ pc[r] = "body"
    /\ \/ handle[r] = "gone" /\ UNCHANGED disk
       \/ handle[r] \in Path /\ disk' = [disk EXCEPT ![handle[r]] = r]
    /\ handle' = [handle EXCEPT ![r] = "none"]
    /\ Goto(r, "respond")
    /\ UNCHANGED <<dir, settings, job, todo, loaded, answer, histVars>>

(* ... and writes from its beginning: over a rival's content that is       *)
(* longer, a mixture remains.                                              *)
Body(r) ==
    /\ pc[r] = "body"
    /\ \/ handle[r] = "gone" /\ UNCHANGED disk
       \/ handle[r] \in Path /\ disk' = [disk EXCEPT ![handle[r]] = r]
       \/ /\ handle[r] \in Path
          /\ disk[handle[r]] # "empty"
          /\ disk' = [disk EXCEPT ![handle[r]] = "torn"]
    /\ handle' = [handle EXCEPT ![r] = "none"]
    /\ Goto(r, IF todo[r] = {} THEN "respond" ELSE "open")
    /\ UNCHANGED <<dir, settings, job, todo, loaded, answer, histVars>>

(* A new settings.json; also a mutant of Spliced. *)
SplicedAlone(r) == [NoKeys EXCEPT ![job[r].entity] = r]

Spliced(r) == [settings.at EXCEPT ![job[r].entity] = r]

(* spliceSettings reads settings.json, or starts a new one ... *)
LoadSettings(r) ==
    /\ pc[r] = "load"
    /\ IF settings.state \in {"missing", "valid"}
       THEN /\ loaded' = [loaded EXCEPT ![r] = Spliced(r)]
            /\ Goto(r, "truncate")
            /\ UNCHANGED <<job, todo, handle, answer, existed, before, claims>>
       ELSE Respond(r, "error")
    /\ UNCHANGED <<fsVars, fails>>

(* ... and, like clearSettingsKey, saves it with os.WriteFile. *)
TruncateSettings(r) ==
    /\ pc[r] = "truncate"
    /\ settings' = [state |-> "empty", at |-> NoKeys]
    /\ Goto(r, "put")
    /\ UNCHANGED <<dir, disk, job, todo, handle, loaded, answer, histVars>>

PutSettings(r) ==
    /\ pc[r] = "put"
    /\ \/ settings' = [state |-> "valid", at |-> loaded[r]]
       \/ /\ settings.state # "empty"
          /\ settings' = [state |-> "torn", at |-> NoKeys]
    /\ loaded' = [loaded EXCEPT ![r] = NoKeys]
    /\ Goto(r, IF loaded[r][job[r].entity] = "none" THEN "write" ELSE "respond")
    /\ UNCHANGED <<dir, disk, job, todo, handle, answer, histVars>>

(* The cache is invalidated and the success reported. *)
Succeed(r) ==
    /\ pc[r] = "respond"
    /\ Respond(r, "ok")
    /\ UNCHANGED <<fsVars, fails>>

(* A failed read of settings.json is no error: to Has the block is absent, *)
(* to spliceSettings the file is.                                          *)
ReadFails(r) ==
    /\ job[r].entity \in Block
    /\ fails < MaxFails
    /\ fails' = fails + 1
    /\ claims' = claims \ {r}
    /\ \/ pc[r] = "check" /\ Goto(r, Stage(job[r])) /\ UNCHANGED loaded
       \/ pc[r] = "claim" /\ Goto(r, "write") /\ UNCHANGED loaded
       \/ /\ pc[r] = "load"
          /\ loaded' = [loaded EXCEPT ![r] = SplicedAlone(r)]
          /\ Goto(r, "truncate")
    /\ UNCHANGED <<fsVars, job, todo, handle, answer, existed, before>>

(* Any other system call may fail: a 500, with what was done so far. *)
Fail(r) ==
    /\ pc[r] \notin {"new", "respond", "done"}
    /\ fails < MaxFails
    /\ fails' = fails + 1
    /\ Respond(r, "error")
    /\ UNCHANGED fsVars

-----------------------------------------------------------------------------
Step(r) ==
    \/ Check(r)
    \/ ClaimSkill(r) \/ ClaimFile(r) \/ ClaimBlock(r)
    \/ ClearSkill(r) \/ (\E f \in File : Wipe(r, f)) \/ RemoveDir(r)
    \/ ClearFile(r) \/ ClearBlock(r)
    \/ WriteFiles(r) \/ (\E p \in Path : Open(r, p)) \/ Body(r)
    \/ LoadSettings(r) \/ TruncateSettings(r) \/ PutSettings(r)
    \/ Succeed(r) \/ ReadFails(r) \/ Fail(r)

(* The files of a skill at its source include its SKILL.md. *)
Next ==
    \E r \in Request :
        \/ \E e \in Entity, overwrite, mirror \in BOOLEAN, extra \in SUBSET Extra :
            /\ e # "skill" => extra = {}
            /\ HandlePromote(r, e, overwrite, mirror, {SkillMD} \union extra)
        \/ \E e \in Entity : HandleEntityWrite(r, e)
        \/ Step(r)

Spec == Init /\ [][Next]_vars

-----------------------------------------------------------------------------
(* Properties *)

(* Types; no file is without its directory, and no block in a file that    *)
(* cannot be parsed.                                                       *)
TypeOK ==
    /\ dir \in BOOLEAN
    /\ disk \in [Path -> Content]
    /\ \A f \in File : disk[f] # "none" => dir
    /\ settings \in Settings
    /\ settings.state # "valid" => settings.at = NoKeys
    /\ pc \in [Request -> PC]
    /\ job \in [Request -> Job]
    /\ todo \in [Request -> SUBSET Path]
    /\ handle \in [Request -> Path \union {"none", "gone"}]
    /\ loaded \in [Request -> Keys]
    /\ answer \in [Request -> {"none", "ok", "conflict", "error"}]
    /\ existed \in [Request -> BOOLEAN]
    /\ before \in [Request -> Keys]
    /\ claims \in SUBSET Request
    /\ fails \in 0..MaxFails

CreateOnly(r) == ~job[r].overwrite /\ ~job[r].mirror

(* The requests for an entity, and those of them that succeeded. *)
Asked(e) == {r \in Request : pc[r] # "new" /\ job[r].entity = e}
Winners(e) == {r \in Asked(e) : pc[r] = "respond" \/ answer[r] = "ok"}

(* "A double-submit or concurrent promote can't silently clobber": while   *)
(* all requests for a skill or a file are create-only, at most one         *)
(* succeeds, and the entity then holds its files and no others.            *)
OneWinner ==
    \A e \in {"skill", "plain"} : (\A r \in Asked(e) : CreateOnly(r)) =>
        /\ Cardinality(Winners(e)) <= 1
        /\ \A r \in Winners(e) : IF e = "plain" THEN disk[Note] = r
             ELSE \A f \in File : disk[f] = IF f \in job[r].parts THEN r ELSE "none"

(* A request about to report success that met no other in its files, nor a *)
(* settings.json it could not read.                                        *)
Completed(r) == pc[r] = "respond" /\ r \in claims

(* Without overwrite an existing entity is never written. *)
ConflictHonoured ==
    \A r \in Request : Completed(r) /\ ~job[r].overwrite => ~existed[r]

(* A success put the whole entity there, and a mirror copy left nothing    *)
(* else in the skill.                                                      *)
Delivered ==
    \A r \in Request : Completed(r) =>
        CASE job[r].entity = "skill" ->
                /\ \A f \in job[r].parts : disk[f] = r
                /\ job[r].mirror => \A f \in File \ job[r].parts : disk[f] = "none"
          [] job[r].entity = "plain" -> disk[Note] = r
          [] OTHER -> settings.state = "valid" /\ settings.at[job[r].entity] = r

(* "Siblings preserved": the other blocks are those there were before. *)
SettingsKept ==
    \A r \in Request : Completed(r) =>
        \A b \in Block \ {job[r].entity} :
            job[r].entity \in Block => settings.at[b] = before[r][b]
=============================================================================
