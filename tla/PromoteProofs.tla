--------------------------- MODULE PromoteProofs ---------------------------
(***************************************************************************)
(* Proofs about Promote, for any requests, blocks and files: create-only   *)
(* copies have one winner, and a request that met no other delivers its    *)
(* entity, honours a conflict and keeps the other settings.                *)
(***************************************************************************)
EXTENDS Promote, FiniteSetTheorems, TLAPS

(* The files a request writes. *)
Own(r) == IF job[r].entity = "skill" THEN job[r].parts ELSE {Note}

(* Where a request can be for its job, and what it holds there. *)
PlaceInv ==
    \A r \in Request :
        /\ pc[r] \in {"clear", "wipe"} => job[r].mirror
        /\ pc[r] = "wipe" => job[r].entity = "skill" /\ todo[r] \subseteq File
        /\ pc[r] \in {"load", "truncate", "put"} => job[r].entity \in Block
        /\ pc[r] \in {"open", "body"} => job[r].entity \notin Block /\ todo[r] \subseteq Own(r)
        /\ pc[r] \in {"new", "check", "claim"} => todo[r] = {}
        /\ IF pc[r] = "body" THEN handle[r] \in (Own(r) \union {"gone"}) \ todo[r]
                             ELSE handle[r] = "none"
        /\ handle[r] \in Path => disk[handle[r]] # "none"
        /\ answer[r] # "none" => pc[r] = "done"

IInv == TypeOK /\ PlaceInv

-----------------------------------------------------------------------------
(* One winner: while all requests for an entity are create-only, whoever   *)
(* is past the claim of it is alone there, though a failed one may have    *)
(* been there before.                                                      *)

Exclusive(e) == \A r \in Asked(e) : CreateOnly(r)
Past(e, labels) == {r \in Asked(e) : pc[r] \in labels \/ answer[r] = "ok"}
SkillHolders == Past("skill", {"write", "open", "body", "respond"})
FileHolders == Past("plain", {"write", "open", "body", "respond"})

(* What r has written of the skill: all but what it has still to do.       *)
Written(r) ==
    \A f \in File :
        CASE pc[r] = "write" \/ f \notin job[r].parts \/ f \in todo[r] -> disk[f] = "none"
          [] pc[r] = "body" /\ f = handle[r] -> disk[f] = "empty"
          [] OTHER -> disk[f] = r

SkillClaimed ==
    Exclusive("skill") => \A r \in SkillHolders :
        /\ dir
        /\ \A q \in SkillHolders : q = r
        /\ Written(r)
        /\ handle[r] # "gone"
        /\ pc[r] \notin {"write", "open", "body"} => todo[r] = {}

FileClaimed ==
    Exclusive("plain") => \A r \in FileHolders :
        /\ \A q \in FileHolders : q = r
        /\ pc[r] \in {"body", "respond", "done"}
        /\ handle[r] # "gone"
        /\ todo[r] = {}
        /\ disk[Note] = IF pc[r] = "body" THEN "empty" ELSE r

WinnerInv == SkillClaimed /\ FileClaimed

-----------------------------------------------------------------------------
(* Undisturbed requests. *)

Busy(r) == pc[r] \notin {"new", "done"}

(* A request in claims meets no other one. *)
AloneInv ==
    \A r \in claims :
        /\ Busy(r)
        /\ \A q \in Request \ {r} : Busy(q) => ~Meet(job[q].entity, job[r].entity)

(* Its skill or its file, as far as it has come. *)
SkillInv ==
    \A r \in claims : job[r].entity = "skill" =>
        /\ pc[r] = "wipe" => {f \in File : disk[f] # "none"} \subseteq todo[r]
        /\ pc[r] = "write" /\ job[r].mirror => \A f \in File : disk[f] = "none"
        /\ pc[r] \in {"open", "body", "respond"} =>
            /\ handle[r] # "gone"
            /\ \A f \in job[r].parts \ todo[r] : disk[f] = IF f = handle[r] THEN "empty" ELSE r
            /\ job[r].mirror => \A f \in File \ job[r].parts : disk[f] = "none"
        /\ pc[r] = "respond" => todo[r] = {}
FileInv ==
    \A r \in claims : job[r].entity = "plain" =>
        /\ pc[r] = "open" => todo[r] = {Note}
        /\ pc[r] = "body" => disk[Note] = "empty" /\ handle[r] # "gone" /\ todo[r] = {}
        /\ pc[r] = "respond" => disk[Note] = r

(* The other settings, where they are at each step. *)
Others(r, at) == \A b \in Block \ {job[r].entity} : at[b] = before[r][b]
BlockSound(r) ==
    /\ pc[r] \in {"truncate", "put"} =>
        Others(r, loaded[r]) /\ loaded[r][job[r].entity] \in {"none", r}
    /\ pc[r] = "put" => settings.state = "empty"
    /\ pc[r] \notin {"truncate", "put"} => Others(r, settings.at)
    /\ pc[r] = "respond" => settings.state = "valid" /\ settings.at[job[r].entity] = r
BlockInv == \A r \in claims : job[r].entity \in Block => BlockSound(r)

(* Nobody gets past the check of an entity that existed. *)
ConflictInv ==
    \A r \in claims : ~job[r].overwrite =>
        IF pc[r] = "check" THEN existed[r] = Exists(job[r].entity) ELSE ~existed[r]

AloneParts == AloneInv /\ SkillInv /\ FileInv /\ BlockInv
-----------------------------------------------------------------------------
(* Names, jobs and contents *)

LEMMA Names ==
    /\ Note \in Path /\ Note \notin File /\ File \subseteq Path /\ SkillMD \in File
    /\ \A f \in Path : f \in File \/ f = Note
    /\ \A p \in Path : p # "none" /\ p # "gone"
    /\ "skill" \notin Block /\ "plain" \notin Block
    /\ \A e \in Entity : e = "skill" \/ e = "plain" \/ e \in Block
    /\ {"skill", "plain"} \union Block \subseteq Entity
BY NamesAssumption DEF Path, File, Note, SkillMD, Entity

LEMMA Contents ==
    /\ {"none", "prior", "empty", "torn"} \union Request \subseteq Content
    /\ \A r \in Request : r # "none" /\ r # "prior" /\ r # "empty" /\ r # "torn"
BY NamesAssumption DEF Content

LEMMA Jobs ==
    /\ NoJob \in Job /\ ~NoJob.mirror /\ NoJob.overwrite
    /\ \A j \in Job : /\ j.entity \in Entity /\ j.overwrite \in BOOLEAN
                      /\ j.mirror \in BOOLEAN /\ j.parts \subseteq File
    /\ \A e \in Entity, overwrite, mirror \in BOOLEAN, parts \in SUBSET File :
        [entity |-> e, overwrite |-> overwrite, mirror |-> mirror, parts |-> parts] \in Job
BY DEF Job, NoJob, Entity

(* What handleEntityWrite is asked for. *)
WriteJob(e) == [NoJob EXCEPT !.entity = e, !.parts = {SkillMD}]

LEMMA WriteJobs ==
    ASSUME NEW e \in Entity
    PROVE  /\ WriteJob(e) \in Job
           /\ WriteJob(e).entity = e /\ WriteJob(e).parts = {SkillMD}
           /\ WriteJob(e).overwrite /\ ~WriteJob(e).mirror
BY Names DEF WriteJob, NoJob, Job

LEMMA Blocks ==
    /\ NoKeys \in Keys
    /\ \A b \in Block : NoKeys[b] = "none"
    /\ \A at \in Keys, b \in Block, x \in Request \union {"none"} : [at EXCEPT ![b] = x] \in Keys
    /\ \A s \in Settings : s.at \in Keys /\ s.state \in {"missing", "valid", "empty", "torn"}
    /\ \A at \in Keys, state \in {"missing", "valid", "empty", "torn"} :
        [state |-> state, at |-> at] \in Settings
BY DEF NoKeys, Keys, Settings

-----------------------------------------------------------------------------
(* Types *)

LEMMA IInit == Init => IInv
<1> SUFFICES ASSUME Init PROVE IInv
    OBVIOUS
<1>1. \A at \in [Block -> {"none", "prior"}] : at \in Keys
    BY DEF Keys
<1>2. settings \in Settings /\ (settings.state # "valid" => settings.at = NoKeys)
    <2>1. CASE settings = [state |-> "missing", at |-> NoKeys]
        BY <2>1, Blocks
    <2>2. ASSUME NEW at \in [Block -> {"none", "prior"}],
                 settings = [state |-> "valid", at |-> at]
          PROVE  settings \in Settings /\ settings.state = "valid"
        BY <2>2, <1>1, Blocks
    <2> QED
        BY <2>1, <2>2 DEF Init
<1>3. TypeOK
    BY <1>2, Names, Contents, Jobs, Blocks, BoundAssumption DEF Init, TypeOK, PC
<1>4. PlaceInv
    BY Names DEF Init, PlaceInv
<1> QED
    BY <1>3, <1>4 DEF IInv

(* A response leaves the file system alone and forgets the request. *)
Responds(r) ==
    /\ \E a \in {"ok", "conflict", "error"} : Respond(r, a)
    /\ UNCHANGED fsVars
    /\ fails' \in 0..MaxFails

LEMMA RespondInv ==
    ASSUME IInv, NEW r \in Request, Responds(r)
    PROVE  IInv'
<1> PICK a \in {"ok", "conflict", "error"} : Respond(r, a)
    BY DEF Responds
<1>1. TypeOK'
    BY Names, Blocks DEF IInv, TypeOK, PC, Responds, Respond, Goto, fsVars
<1>2. PlaceInv'
    BY Names DEF IInv, TypeOK, PlaceInv, Own, PC, Responds, Respond, Goto, fsVars
<1> QED
    BY <1>1, <1>2 DEF IInv

LEMMA BeginInv ==
    ASSUME IInv, NEW r \in Request, NEW j \in Job, Begin(r, j),
           \/ Goto(r, "check") \/ Goto(r, "write") \/ (j.mirror /\ Goto(r, "clear"))
    PROVE  IInv'
<1>1. job' \in [Request -> Job] /\ job'[r] = j
    BY DEF IInv, TypeOK, Begin
<1>2. Exists(j.entity) \in BOOLEAN
    BY DEF Exists
<1>3. existed' \in [Request -> BOOLEAN] /\ before' \in [Request -> Keys]
    BY <1>2, Blocks DEF IInv, TypeOK, Begin
<1>4. claims' \in SUBSET Request
    BY DEF IInv, TypeOK, Begin
<1>5. TypeOK'
    BY <1>1, <1>3, <1>4 DEF IInv, TypeOK, PC, Begin, Goto, fsVars
<1>6. PlaceInv'
    BY <1>1 DEF IInv, TypeOK, PlaceInv, Own, Begin, Goto, fsVars
<1> QED
    BY <1>5, <1>6 DEF IInv

LEMMA StartInv ==
    ASSUME IInv, NEW r \in Request, NEW e \in Entity,
           \/ HandleEntityWrite(r, e)
           \/ \E overwrite, mirror \in BOOLEAN, extra \in SUBSET Extra :
                HandlePromote(r, e, overwrite, mirror, {SkillMD} \union extra)
    PROVE  IInv'
<1>1. CASE HandleEntityWrite(r, e)
    <2> PICK j \in Job : j = WriteJob(e)
        BY WriteJobs
    <2>1. Begin(r, j) /\ Goto(r, "write")
        BY <1>1 DEF HandleEntityWrite, WriteJob
    <2> QED
        BY <2>1, BeginInv
<1>2. ASSUME NEW overwrite \in BOOLEAN, NEW mirror \in BOOLEAN, NEW extra \in SUBSET Extra,
             HandlePromote(r, e, overwrite, mirror, {SkillMD} \union extra)
      PROVE  IInv'
    <2>1. {SkillMD} \union extra \in SUBSET File
        BY DEF File
    <2> PICK j \in Job : j = [entity |-> e, overwrite |-> overwrite, mirror |-> mirror,
                              parts |-> {SkillMD} \union extra]
        BY <2>1, Jobs
    <2>2. Begin(r, j)
        BY <1>2 DEF HandlePromote
    <2>3. Goto(r, "check") \/ Goto(r, "write") \/ (j.mirror /\ Goto(r, "clear"))
        BY <1>2 DEF HandlePromote, Stage
    <2> QED
        BY <2>2, <2>3, BeginInv
<1> QED
    BY <1>1, <1>2

LEMMA StepInv ==
    ASSUME IInv, NEW r \in Request, Step(r)
    PROVE  IInv'
<1>1. CASE Check(r)
    <2>1. CASE Responds(r)
        BY <2>1, RespondInv
    <2>2. CASE ~Responds(r)
        BY <1>1, <2>2, Names DEF IInv, TypeOK, PlaceInv, Own, PC, Goto, Check, Stage, Responds,
           fsVars
    <2> QED
        BY <2>1, <2>2
<1>2. CASE ClaimSkill(r)
    <2>1. CASE Responds(r)
        BY <2>1, RespondInv
    <2>2. CASE ~Responds(r)
        <3>1. Goto(r, "write") /\ dir' /\ UNCHANGED <<disk, settings, job, todo, handle, loaded,
                                                     answer, existed, before, claims, fails>>
            BY <1>2, <2>2 DEF IInv, TypeOK, ClaimSkill, Responds, fsVars
        <3> QED
            BY <1>2, <3>1, Names DEF IInv, TypeOK, PlaceInv, Own, PC, Goto, ClaimSkill
    <2> QED
        BY <2>1, <2>2
<1>3. CASE ClaimFile(r)
    <2>1. CASE Responds(r)
        BY <2>1, RespondInv
    <2>2. CASE ~Responds(r)
        <3>1. disk' \in [Path -> Content]
            BY <1>3, <2>2, Names, Contents DEF IInv, TypeOK, PlaceInv, Goto, ClaimFile, Responds,
               fsVars
        <3>2. handle' \in [Request -> Path \union {"none", "gone"}]
            BY <1>3, <2>2, Names DEF IInv, TypeOK, PlaceInv, Goto, ClaimFile, Responds, fsVars
        <3>3. TypeOK'
            BY <1>3, <2>2, <3>1, <3>2, Names DEF IInv, TypeOK, PC, Goto, ClaimFile, Responds,
               fsVars
        <3>4. PlaceInv'
            BY <1>3, <2>2, <3>1, <3>2, Names DEF IInv, TypeOK, PlaceInv, Own, PC, Goto, ClaimFile,
               Responds, fsVars
        <3> QED
            BY <3>3, <3>4 DEF IInv
    <2> QED
        BY <2>1, <2>2
<1>4. CASE ClaimBlock(r)
    <2>1. CASE Responds(r)
        BY <2>1, RespondInv
    <2>2. CASE ~Responds(r)
        BY <1>4, <2>2, Names DEF IInv, TypeOK, PlaceInv, Own, PC, Goto, ClaimBlock, Responds,
           fsVars
    <2> QED
        BY <2>1, <2>2
<1>5. CASE ClearSkill(r)
    BY <1>5, Names DEF IInv, TypeOK, PlaceInv, Own, PC, Goto, ClearSkill, fsVars, histVars
<1>6. ASSUME NEW f \in File, Wipe(r, f) PROVE IInv'
    BY <1>6, Names, Contents DEF IInv, TypeOK, PlaceInv, Own, PC, Goto, Wipe, Unlink, histVars
<1>7. CASE RemoveDir(r)
    <2>1. CASE Responds(r)
        BY <2>1, RespondInv
    <2>2. CASE ~Responds(r)
        <3>1. TypeOK'
            BY <1>7, <2>2, Names DEF IInv, TypeOK, PC, Goto, RemoveDir, Responds, fsVars
        <3>2. PlaceInv'
            BY <1>7, <2>2, Names DEF IInv, TypeOK, PlaceInv, Own, PC, Goto, RemoveDir, Responds,
               fsVars
        <3> QED
            BY <3>1, <3>2 DEF IInv
    <2> QED
        BY <2>1, <2>2
<1>8. CASE ClearFile(r)
    BY <1>8, Names, Contents DEF IInv, TypeOK, PlaceInv, Own, PC, Goto, ClearFile, Unlink, histVars
<1>9. CASE ClearBlock(r)
    <2>1. \/ Responds(r)
          \/ UNCHANGED loaded /\ Goto(r, "write")
          \/ /\ loaded' = [loaded EXCEPT ![r] = [settings.at EXCEPT ![job[r].entity] = "none"]]
             /\ Goto(r, "truncate")
        BY <1>9 DEF IInv, TypeOK, ClearBlock, Responds, fsVars
    <2>2. CASE Responds(r)
        BY <2>2, RespondInv
    <2>3. CASE ~Responds(r)
        <3>1. [settings.at EXCEPT ![job[r].entity] = "none"] \in Keys
            BY <1>9, Blocks DEF IInv, TypeOK, ClearBlock
        <3>2. loaded' \in [Request -> Keys]
            BY <2>1, <2>3, <3>1 DEF IInv, TypeOK
        <3>3. /\ pc[r] = "clear" /\ job[r].entity \in Block
              /\ Goto(r, "write") \/ Goto(r, "truncate")
              /\ UNCHANGED <<fsVars, job, todo, handle, answer, existed, before, claims, fails>>
            BY <1>9, <2>3 DEF IInv, TypeOK, ClearBlock, Responds, fsVars
        <3>4. TypeOK'
            BY <3>2, <3>3 DEF IInv, TypeOK, PC, Goto, fsVars
        <3>5. PlaceInv'
            BY <3>3, Names DEF IInv, TypeOK, PlaceInv, Own, Goto, fsVars
        <3> QED
            BY <3>4, <3>5 DEF IInv
    <2> QED
        BY <2>2, <2>3
<1>10. CASE WriteFiles(r)
    BY <1>10, Names, Jobs DEF IInv, TypeOK, PlaceInv, Own, PC, Goto, WriteFiles, histVars
<1>11. ASSUME NEW p \in Path, Open(r, p) PROVE IInv'
    <2>1. disk' \in [Path -> Content]
        BY <1>11, Names, Contents DEF IInv, TypeOK, PlaceInv, Goto, Open, histVars
    <2>2. TypeOK'
        BY <1>11, <2>1, Names DEF IInv, TypeOK, PC, Goto, Open, histVars
    <2>3. PlaceInv'
        BY <1>11, <2>1, Names DEF IInv, TypeOK, PlaceInv, Own, PC, Goto, Open, histVars
    <2> QED
        BY <2>2, <2>3 DEF IInv
<1>12. CASE Body(r)
    BY <1>12, Names, Contents DEF IInv, TypeOK, PlaceInv, Own, PC, Goto, Body, histVars
<1>13. CASE LoadSettings(r)
    <2>1. CASE Responds(r)
        BY <2>1, RespondInv
    <2>2. CASE ~Responds(r)
        <3>1. loaded' \in [Request -> Keys]
            BY <1>13, <2>2, Blocks DEF IInv, TypeOK, PlaceInv, Goto, LoadSettings, Spliced,
               Responds, fsVars
        <3>2. TypeOK'
            BY <1>13, <2>2, <3>1, Names DEF IInv, TypeOK, PC, Goto, LoadSettings, Spliced,
               Responds, fsVars
        <3>3. PlaceInv'
            BY <1>13, <2>2, <3>1, Names DEF IInv, TypeOK, PlaceInv, Own, PC, Goto, LoadSettings,
               Spliced, Responds, fsVars
        <3> QED
            BY <3>2, <3>3 DEF IInv
    <2> QED
        BY <2>1, <2>2
<1>14. CASE TruncateSettings(r)
    <2>1. settings' \in Settings /\ settings'.at = NoKeys
        BY <1>14, Blocks DEF IInv, TypeOK, PlaceInv, Goto, TruncateSettings, histVars
    <2>2. TypeOK'
        BY <1>14, <2>1, Names DEF IInv, TypeOK, PC, Goto, TruncateSettings, histVars
    <2>3. PlaceInv'
        BY <1>14, <2>1, Names DEF IInv, TypeOK, PlaceInv, Own, PC, Goto, TruncateSettings, histVars
    <2> QED
        BY <2>2, <2>3 DEF IInv
<1>15. CASE PutSettings(r)
    <2>1. settings' \in Settings /\ (settings'.state # "valid" => settings'.at = NoKeys)
        <3>1. loaded[r] \in Keys
            BY DEF IInv, TypeOK
        <3>2. CASE settings' = [state |-> "valid", at |-> loaded[r]]
            BY <3>1, <3>2, Blocks
        <3>3. CASE settings' = [state |-> "torn", at |-> NoKeys]
            BY <3>3, Blocks
        <3> QED
            BY <1>15, <3>2, <3>3 DEF PutSettings
    <2>2. loaded' \in [Request -> Keys]
        BY <1>15, Blocks DEF IInv, TypeOK, PlaceInv, Goto, PutSettings, histVars
    <2>3. TypeOK'
        BY <1>15, <2>1, <2>2, Names DEF IInv, TypeOK, PC, Goto, PutSettings, histVars
    <2>4. PlaceInv'
        BY <1>15, <2>1, <2>2, Names DEF IInv, TypeOK, PlaceInv, Own, PC, Goto, PutSettings,
           histVars
    <2> QED
        BY <2>3, <2>4 DEF IInv
<1>16. CASE Succeed(r)
    BY <1>16, RespondInv DEF Succeed, Responds, fsVars, IInv, TypeOK
<1>17. CASE ReadFails(r)
    <2>1. loaded' \in [Request -> Keys]
        BY <1>17, Blocks DEF IInv, TypeOK, PlaceInv, Goto, ReadFails, SplicedAlone, Stage, fsVars
    <2>2. fails' \in 0..MaxFails
        BY <1>17, BoundAssumption DEF IInv, TypeOK, PlaceInv, Goto, ReadFails, SplicedAlone,
           Stage, fsVars
    <2>3. TypeOK'
        BY <1>17, <2>1, <2>2, Names DEF IInv, TypeOK, PC, Goto, ReadFails, SplicedAlone, Stage,
           fsVars
    <2>4. PlaceInv'
        BY <1>17, <2>1, <2>2, Names DEF IInv, TypeOK, PlaceInv, Own, PC, Goto, ReadFails,
           SplicedAlone, Stage, fsVars
    <2> QED
        BY <2>3, <2>4 DEF IInv
<1>18. CASE Fail(r)
    BY <1>18, RespondInv, BoundAssumption DEF Fail, Responds, IInv, TypeOK
<1> QED
    BY <1>1, <1>2, <1>3, <1>4, <1>5, <1>6, <1>7, <1>8, <1>9, <1>10, <1>11, <1>12, <1>13, <1>14,
       <1>15, <1>16, <1>17, <1>18 DEF Step

LEMMA INext == IInv /\ [Next]_vars => IInv'
<1> SUFFICES ASSUME IInv, [Next]_vars PROVE IInv'
    OBVIOUS
<1>1. ASSUME NEW r \in Request, NEW e \in Entity, NEW overwrite \in BOOLEAN, NEW mirror \in BOOLEAN,
             NEW extra \in SUBSET Extra, HandlePromote(r, e, overwrite, mirror, {SkillMD} \union extra)
      PROVE  IInv'
    BY <1>1, StartInv
<1>2. ASSUME NEW r \in Request, NEW e \in Entity, HandleEntityWrite(r, e) PROVE IInv'
    BY <1>2, StartInv
<1>3. CASE UNCHANGED vars
    BY <1>3 DEF vars, fsVars, reqVars, histVars, IInv, TypeOK, PlaceInv, Own
<1> QED
    BY <1>1, <1>2, <1>3, StepInv DEF Next

(* No request is at a step the handlers do not have, no file lies outside  *)
(* its directory and no block in a settings.json that cannot be parsed.    *)
THEOREM TypeCorrect == Spec => []TypeOK
<1>1. IInv => TypeOK
    BY DEF IInv
<1> QED
    BY <1>1, IInit, INext, PTL DEF Spec

(* A request holds a file of its entity. *)
LEMMA Handles ==
    ASSUME IInv, NEW r \in Request
    PROVE  /\ job[r].parts \subseteq File
           /\ job[r].entity = "skill" => handle[r] # Note
           /\ job[r].entity = "plain" => handle[r] \notin File
<1>1. job[r].parts \subseteq File
    BY Jobs DEF IInv, TypeOK
<1>2. handle[r] \in Own(r) \union {"none", "gone"}
    BY DEF IInv, PlaceInv
<1> QED
    BY <1>1, <1>2, Names DEF Own

-----------------------------------------------------------------------------
(* One winner *)

LEMMA FileStep ==
    ASSUME IInv, IInv', FileClaimed, NEW r \in Request, Step(r)
    PROVE  FileClaimed'
<1>1. CASE Check(r)
    BY <1>1, Names, Contents DEF IInv, TypeOK, PlaceInv, Own, Goto, fsVars, histVars, Exclusive,
       Asked, Past, CreateOnly, FileClaimed, FileHolders, Check, Stage, Respond
<1>2. CASE ClaimSkill(r)
    BY <1>2, Names, Contents DEF IInv, TypeOK, PlaceInv, Own, Goto, fsVars, histVars, Exclusive,
       Asked, Past, CreateOnly, FileClaimed, FileHolders, ClaimSkill, Respond
<1>3. CASE ClaimFile(r)
    BY <1>3, Names, Contents DEF IInv, TypeOK, PlaceInv, Own, Goto, fsVars, histVars, Exclusive,
       Asked, Past, CreateOnly, FileClaimed, FileHolders, ClaimFile, Respond
<1>4. CASE ClaimBlock(r)
    BY <1>4, Names, Contents DEF IInv, TypeOK, PlaceInv, Own, Goto, fsVars, histVars, Exclusive,
       Asked, Past, CreateOnly, FileClaimed, FileHolders, ClaimBlock, Respond
<1>5. CASE ClearSkill(r)
    BY <1>5, Names, Contents DEF IInv, TypeOK, PlaceInv, Own, Goto, fsVars, histVars, Exclusive,
       Asked, Past, CreateOnly, FileClaimed, FileHolders, ClearSkill, Respond
<1>6. ASSUME NEW f \in File, Wipe(r, f) PROVE FileClaimed'
    BY <1>6, Names, Contents DEF IInv, TypeOK, PlaceInv, Own, Goto, fsVars, histVars, Exclusive,
       Asked, Past, CreateOnly, FileClaimed, FileHolders, Wipe, Unlink, Respond
<1>7. CASE RemoveDir(r)
    BY <1>7, Names, Contents DEF IInv, TypeOK, PlaceInv, Own, Goto, fsVars, histVars, Exclusive,
       Asked, Past, CreateOnly, FileClaimed, FileHolders, RemoveDir, Respond
<1>8. CASE ClearFile(r)
    BY <1>8, Names, Contents DEF IInv, TypeOK, PlaceInv, Own, Goto, fsVars, histVars, Exclusive,
       Asked, Past, CreateOnly, FileClaimed, FileHolders, ClearFile, Unlink, Respond
<1>9. CASE ClearBlock(r)
    BY <1>9, Names, Contents DEF IInv, TypeOK, PlaceInv, Own, Goto, fsVars, histVars, Exclusive,
       Asked, Past, CreateOnly, FileClaimed, FileHolders, ClearBlock, Respond
<1>10. CASE WriteFiles(r)
    BY <1>10, Names, Contents DEF IInv, TypeOK, PlaceInv, Own, Goto, fsVars, histVars, Exclusive,
       Asked, Past, CreateOnly, FileClaimed, FileHolders, WriteFiles, Respond
<1>11. ASSUME NEW p \in Path, Open(r, p) PROVE FileClaimed'
    <2>1. CASE job[r].entity = "skill"
        <3>1. p \in File /\ disk'[Note] = disk[Note]
            BY <1>11, <2>1, Names, Jobs DEF IInv, TypeOK, PlaceInv, Own, Open
        <3> QED
            BY <1>11, <2>1, <3>1 DEF IInv, TypeOK, Goto, histVars, Exclusive, Asked, Past,
               CreateOnly, FileClaimed, FileHolders, Open
    <2>2. CASE job[r].entity = "plain"
        <3>1. ~Exclusive("plain")
            BY <1>11, <2>2 DEF IInv, TypeOK, Open, Asked, Past, FileHolders, FileClaimed
        <3>2. Asked("plain")' = Asked("plain")
            BY <1>11 DEF IInv, TypeOK, Goto, Open, Asked
        <3> QED
            BY <1>11, <3>1, <3>2 DEF Open, FileClaimed, Exclusive, CreateOnly
    <2> QED
        BY <1>11, <2>1, <2>2, Names DEF IInv, TypeOK, PlaceInv, Job, Open
<1>12. CASE Body(r)
    <2>1. CASE job[r].entity = "skill"
        <3>1. disk'[Note] = disk[Note]
            BY <1>12, <2>1, Names, Jobs DEF IInv, TypeOK, PlaceInv, Own, Body
        <3> QED
            BY <1>12, <2>1, <3>1 DEF IInv, TypeOK, Goto, histVars, Exclusive, Asked, Past,
               CreateOnly, FileClaimed, FileHolders, Body
    <2>2. CASE job[r].entity = "plain"
        <3>1. handle[r] \in {Note, "gone"} /\ r \in FileHolders
            BY <1>12, <2>2, Names DEF IInv, TypeOK, PlaceInv, Own, Body, Asked, Past, FileHolders
        <3>2. Exclusive("plain") => disk'[Note] = r /\ pc'[r] = "respond" /\ handle'[r] = "none"
            BY <1>12, <3>1, Names, Contents DEF IInv, TypeOK, Goto, Body, FileClaimed
        <3> QED
            BY <1>12, <2>2, <3>1, <3>2, Names DEF IInv, TypeOK, Goto, histVars, Exclusive, Asked,
               Past, CreateOnly, FileClaimed, FileHolders, Body
    <2> QED
        BY <1>12, <2>1, <2>2, Names DEF IInv, TypeOK, PlaceInv, Job, Body
<1>13. CASE LoadSettings(r)
    BY <1>13, Names, Contents DEF IInv, TypeOK, PlaceInv, Own, Goto, fsVars, histVars, Exclusive,
       Asked, Past, CreateOnly, FileClaimed, FileHolders, LoadSettings, Respond
<1>14. CASE TruncateSettings(r)
    BY <1>14, Names, Contents DEF IInv, TypeOK, PlaceInv, Own, Goto, fsVars, histVars, Exclusive,
       Asked, Past, CreateOnly, FileClaimed, FileHolders, TruncateSettings, Respond
<1>15. CASE PutSettings(r)
    BY <1>15, Names, Contents DEF IInv, TypeOK, PlaceInv, Own, Goto, fsVars, histVars, Exclusive,
       Asked, Past, CreateOnly, FileClaimed, FileHolders, PutSettings, Respond
<1>16. CASE Succeed(r)
    BY <1>16, Names, Contents DEF IInv, TypeOK, PlaceInv, Own, Goto, fsVars, histVars, Exclusive,
       Asked, Past, CreateOnly, FileClaimed, FileHolders, Succeed, Respond
<1>17. CASE ReadFails(r)
    BY <1>17, Names, Contents DEF IInv, TypeOK, PlaceInv, Own, Goto, fsVars, histVars, Exclusive,
       Asked, Past, CreateOnly, FileClaimed, FileHolders, ReadFails, Stage, Respond
<1>18. CASE Fail(r)
    BY <1>18, Names, Contents DEF IInv, TypeOK, PlaceInv, Own, Goto, fsVars, histVars, Exclusive,
       Asked, Past, CreateOnly, FileClaimed, FileHolders, Fail, Respond
<1> QED
    BY <1>1, <1>2, <1>3, <1>4, <1>5, <1>6, <1>7, <1>8, <1>9, <1>10, <1>11, <1>12, <1>13, <1>14,
       <1>15, <1>16, <1>17, <1>18 DEF Step

LEMMA SkillStep ==
    ASSUME IInv, IInv', SkillClaimed, NEW r \in Request, Step(r)
    PROVE  SkillClaimed'
<1>1. CASE Check(r)
    BY <1>1, Names, Contents DEF IInv, TypeOK, PlaceInv, Own, Goto, fsVars, histVars, Exclusive,
       Asked, Past, CreateOnly, SkillClaimed, SkillHolders, Written, Check, Stage, Respond
<1>2. CASE ClaimSkill(r)
    BY <1>2, Names, Contents DEF IInv, TypeOK, PlaceInv, Own, Goto, fsVars, histVars, Exclusive,
       Asked, Past, CreateOnly, SkillClaimed, SkillHolders, Written, ClaimSkill, Respond
<1>3. CASE ClaimFile(r)
    BY <1>3, Names, Contents DEF IInv, TypeOK, PlaceInv, Own, Goto, fsVars, histVars, Exclusive,
       Asked, Past, CreateOnly, SkillClaimed, SkillHolders, Written, ClaimFile, Respond
<1>4. CASE ClaimBlock(r)
    BY <1>4, Names, Contents DEF IInv, TypeOK, PlaceInv, Own, Goto, fsVars, histVars, Exclusive,
       Asked, Past, CreateOnly, SkillClaimed, SkillHolders, Written, ClaimBlock, Respond
<1>5. CASE ClearSkill(r)
    BY <1>5, Names, Contents DEF IInv, TypeOK, PlaceInv, Own, Goto, fsVars, histVars, Exclusive,
       Asked, Past, CreateOnly, SkillClaimed, SkillHolders, Written, ClearSkill, Respond
<1>6. ASSUME NEW f \in File, Wipe(r, f) PROVE SkillClaimed'
    BY <1>6, Names, Contents DEF IInv, TypeOK, PlaceInv, Own, Goto, fsVars, histVars, Exclusive,
       Asked, Past, CreateOnly, SkillClaimed, SkillHolders, Written, Wipe, Unlink, Respond
<1>7. CASE RemoveDir(r)
    BY <1>7, Names, Contents DEF IInv, TypeOK, PlaceInv, Own, Goto, fsVars, histVars, Exclusive,
       Asked, Past, CreateOnly, SkillClaimed, SkillHolders, Written, RemoveDir, Respond
<1>8. CASE ClearFile(r)
    <2>1. \A q \in Request : job[q].entity = "skill" => handle'[q] = handle[q]
        BY <1>8, Handles DEF IInv, TypeOK, ClearFile, Unlink
    <2>2. /\ UNCHANGED <<dir, job, todo, answer>> /\ Goto(r, "write") /\ job[r].entity = "plain"
          /\ \A f \in File : disk'[f] = disk[f]
        BY <1>8, Names DEF IInv, TypeOK, ClearFile, Unlink
    <2>3. Asked("skill")' = Asked("skill") /\ SkillHolders' = SkillHolders
        BY <1>8, <2>2 DEF IInv, TypeOK, PlaceInv, Goto, Asked, Past, SkillHolders, ClearFile
    <2>4. \A q \in SkillHolders : pc'[q] = pc[q] /\ job[q].entity = "skill" /\ q \in Request
        BY <2>2 DEF IInv, TypeOK, Goto, Asked, Past, SkillHolders
    <2> QED
        BY <2>1, <2>2, <2>3, <2>4 DEF SkillClaimed, Exclusive, CreateOnly, Written
<1>9. CASE ClearBlock(r)
    BY <1>9, Names, Contents DEF IInv, TypeOK, PlaceInv, Own, Goto, fsVars, histVars, Exclusive,
       Asked, Past, CreateOnly, SkillClaimed, SkillHolders, Written, ClearBlock, Respond
<1>10. CASE WriteFiles(r)
    BY <1>10, Names, Contents DEF IInv, TypeOK, PlaceInv, Own, Goto, fsVars, histVars, Exclusive,
       Asked, Past, CreateOnly, SkillClaimed, SkillHolders, Written, WriteFiles, Respond
<1>11. ASSUME NEW p \in Path, Open(r, p) PROVE SkillClaimed'
    BY <1>11, Names, Contents DEF IInv, TypeOK, PlaceInv, Own, Goto, fsVars, histVars, Exclusive,
       Asked, Past, CreateOnly, SkillClaimed, SkillHolders, Written, Open, Respond
<1>12. CASE Body(r)
    BY <1>12, Names, Contents DEF IInv, TypeOK, PlaceInv, Own, Goto, fsVars, histVars, Exclusive,
       Asked, Past, CreateOnly, SkillClaimed, SkillHolders, Written, Body, Respond
<1>13. CASE LoadSettings(r)
    BY <1>13, Names, Contents DEF IInv, TypeOK, PlaceInv, Own, Goto, fsVars, histVars, Exclusive,
       Asked, Past, CreateOnly, SkillClaimed, SkillHolders, Written, LoadSettings, Respond
<1>14. CASE TruncateSettings(r)
    BY <1>14, Names, Contents DEF IInv, TypeOK, PlaceInv, Own, Goto, fsVars, histVars, Exclusive,
       Asked, Past, CreateOnly, SkillClaimed, SkillHolders, Written, TruncateSettings, Respond
<1>15. CASE PutSettings(r)
    BY <1>15, Names, Contents DEF IInv, TypeOK, PlaceInv, Own, Goto, fsVars, histVars, Exclusive,
       Asked, Past, CreateOnly, SkillClaimed, SkillHolders, Written, PutSettings, Respond
<1>16. CASE Succeed(r)
    BY <1>16, Names, Contents DEF IInv, TypeOK, PlaceInv, Own, Goto, fsVars, histVars, Exclusive,
       Asked, Past, CreateOnly, SkillClaimed, SkillHolders, Written, Succeed, Respond
<1>17. CASE ReadFails(r)
    BY <1>17, Names, Contents DEF IInv, TypeOK, PlaceInv, Own, Goto, fsVars, histVars, Exclusive,
       Asked, Past, CreateOnly, SkillClaimed, SkillHolders, Written, ReadFails, Stage, Respond
<1>18. CASE Fail(r)
    BY <1>18, Names, Contents DEF IInv, TypeOK, PlaceInv, Own, Goto, fsVars, histVars, Exclusive,
       Asked, Past, CreateOnly, SkillClaimed, SkillHolders, Written, Fail, Respond
<1> QED
    BY <1>1, <1>2, <1>3, <1>4, <1>5, <1>6, <1>7, <1>8, <1>9, <1>10, <1>11, <1>12, <1>13, <1>14,
       <1>15, <1>16, <1>17, <1>18 DEF Step

LEMMA BeginWinner ==
    ASSUME IInv, WinnerInv, NEW r \in Request, NEW j \in Job, Begin(r, j),
           Goto(r, "check") \/ j.overwrite \/ j.mirror,
           Goto(r, "check") \/ Goto(r, "write") \/ Goto(r, "clear")
    PROVE  WinnerInv'
<1>1. /\ job' = [job EXCEPT ![r] = j] /\ job'[r] = j
      /\ pc[r] = "new" /\ pc'[r] \in {"check", "write", "clear"} /\ answer[r] = "none"
      /\ \A q \in Request \ {r} : pc'[q] = pc[q] /\ job'[q] = job[q]
      /\ UNCHANGED <<fsVars, todo, handle, answer>>
    BY DEF IInv, TypeOK, PlaceInv, Begin, Goto
<1>2. ASSUME NEW e \in Entity, Exclusive(e)'
      PROVE  /\ Exclusive(e)
             /\ \A labels \in {{"write", "open", "body", "respond"}} :
                    Past(e, labels)' = Past(e, labels)
             /\ r \notin Past(e, {"write", "open", "body", "respond"})
    <2>1. Asked(e) \subseteq Asked(e)' /\ r \notin Asked(e)
        BY <1>1 DEF Asked
    <2>2. \A q \in Asked(e) : q # r /\ q \in Request
        BY <2>1 DEF Asked
    <2>3. Exclusive(e)
        BY <1>1, <1>2, <2>1, <2>2 DEF Exclusive, CreateOnly
    <2>4. r \in Asked(e)' => pc'[r] = "check"
        BY <1>1, <1>2 DEF Exclusive, CreateOnly, Asked, Goto, IInv, TypeOK
    <2>5. Past(e, {"write", "open", "body", "respond"})' = Past(e, {"write", "open", "body", "respond"})
        BY <1>1, <2>1, <2>4 DEF Past, Asked
    <2> QED
        BY <2>1, <2>3, <2>5 DEF Past
<1>3. FileClaimed'
    <2> SUFFICES ASSUME Exclusive("plain")' PROVE FileClaimed'
        BY DEF FileClaimed
    <2>1. Exclusive("plain") /\ FileHolders' = FileHolders /\ r \notin FileHolders
        BY <1>2, Names DEF FileHolders
    <2>2. \A q \in FileHolders : q \in Request \ {r}
        BY <2>1 DEF FileHolders, Past, Asked
    <2> QED
        BY <1>1, <2>1, <2>2 DEF WinnerInv, FileClaimed, fsVars
<1>4. SkillClaimed'
    <2> SUFFICES ASSUME Exclusive("skill")' PROVE SkillClaimed'
        BY DEF SkillClaimed
    <2>1. Exclusive("skill") /\ SkillHolders' = SkillHolders /\ r \notin SkillHolders
        BY <1>2, Names DEF SkillHolders
    <2>2. \A q \in SkillHolders : q \in Request \ {r}
        BY <2>1 DEF SkillHolders, Past, Asked
    <2> QED
        BY <1>1, <2>1, <2>2 DEF WinnerInv, SkillClaimed, Written, fsVars
<1> QED
    BY <1>3, <1>4 DEF WinnerInv

LEMMA WinnerNext == IInv /\ IInv' /\ WinnerInv /\ [Next]_vars => WinnerInv'
<1> SUFFICES ASSUME IInv, IInv', WinnerInv, [Next]_vars PROVE WinnerInv'
    OBVIOUS
<1>1. ASSUME NEW r \in Request, NEW e \in Entity, NEW overwrite \in BOOLEAN, NEW mirror \in BOOLEAN,
             NEW extra \in SUBSET Extra, HandlePromote(r, e, overwrite, mirror, {SkillMD} \union extra)
      PROVE  WinnerInv'
    <2>1. {SkillMD} \union extra \in SUBSET File
        BY DEF File
    <2> PICK j \in Job : j = [entity |-> e, overwrite |-> overwrite, mirror |-> mirror,
                              parts |-> {SkillMD} \union extra]
        BY <2>1, Jobs
    <2>2. Begin(r, j) /\ Goto(r, IF overwrite THEN Stage(j) ELSE "check") /\ j.overwrite = overwrite
        BY <1>1 DEF HandlePromote
    <2> QED
        BY <2>2, BeginWinner DEF Stage
<1>2. ASSUME NEW r \in Request, NEW e \in Entity, HandleEntityWrite(r, e) PROVE WinnerInv'
    <2> PICK j \in Job : j = WriteJob(e)
        BY WriteJobs
    <2>1. Begin(r, j) /\ Goto(r, "write") /\ j.overwrite
        BY <1>2, WriteJobs DEF HandleEntityWrite, WriteJob
    <2> QED
        BY <2>1, BeginWinner
<1>3. CASE UNCHANGED vars
    BY <1>3 DEF vars, fsVars, reqVars, histVars, WinnerInv, FileClaimed, SkillClaimed, FileHolders,
                SkillHolders, Past, Asked, Exclusive, CreateOnly, Written
<1>4. ASSUME NEW r \in Request, Step(r) PROVE WinnerInv'
    BY <1>4, FileStep, SkillStep DEF WinnerInv
<1> QED
    BY <1>1, <1>2, <1>3, <1>4 DEF Next

LEMMA AtMostOne ==
    ASSUME NEW S, \A x, y \in S : x = y
    PROVE  Cardinality(S) <= 1
<1>1. CASE S = {}
    BY <1>1, FS_EmptySet
<1>2. ASSUME NEW x \in S PROVE Cardinality(S) <= 1
    <2>1. S = {x}
        OBVIOUS
    <2> QED
        BY <2>1, FS_Singleton
<1> QED
    BY <1>1, <1>2

(* "A double-submit or concurrent promote can't silently clobber": of the  *)
(* create-only requests for a skill or a file one at most is let past the  *)
(* claim, and the entity is made of its files alone.                       *)
THEOREM CreateOnlyWinner == Spec => []OneWinner
<1>1. Init => WinnerInv
    BY DEF Init, WinnerInv, FileClaimed, SkillClaimed, FileHolders, SkillHolders, Past, Asked
<1>2. IInv /\ WinnerInv => OneWinner
    <2> SUFFICES ASSUME IInv, WinnerInv PROVE OneWinner
        OBVIOUS
    <2>1. Winners("skill") \subseteq SkillHolders /\ Winners("plain") \subseteq FileHolders
        BY DEF Winners, SkillHolders, FileHolders, Past
    <2>2. \A e \in {"skill", "plain"} : \A r \in Winners(e) :
            r \in Request /\ pc[r] \in {"respond", "done"} /\ handle[r] = "none"
        BY DEF Winners, Asked, IInv, PlaceInv
    <2>3. ASSUME Exclusive("plain")
          PROVE  Cardinality(Winners("plain")) <= 1 /\ \A r \in Winners("plain") : disk[Note] = r
        <3>1. \A x, y \in Winners("plain") : x = y
            BY <2>1, <2>3 DEF WinnerInv, FileClaimed
        <3> QED
            BY <3>1, <2>1, <2>2, <2>3, AtMostOne DEF WinnerInv, FileClaimed
    <2>4. ASSUME Exclusive("skill")
          PROVE  /\ Cardinality(Winners("skill")) <= 1
                 /\ \A r \in Winners("skill"), f \in File :
                        disk[f] = IF f \in job[r].parts THEN r ELSE "none"
        <3>1. \A x, y \in Winners("skill") : x = y
            BY <2>1, <2>4 DEF WinnerInv, SkillClaimed
        <3>2. ASSUME NEW r \in Winners("skill"), NEW f \in File
              PROVE  disk[f] = IF f \in job[r].parts THEN r ELSE "none"
            BY <2>1, <2>2, <2>4 DEF WinnerInv, SkillClaimed, Written
        <3> QED
            BY <3>1, <3>2, AtMostOne
    <2> QED
        BY <2>3, <2>4 DEF OneWinner, Exclusive
<1> QED
    BY <1>1, <1>2, IInit, INext, WinnerNext, PTL DEF Spec

-----------------------------------------------------------------------------
(* Undisturbed requests *)

(* What a step elsewhere leaves alone. *)
LEMMA SkillFrame ==
    ASSUME SkillInv, claims' \subseteq claims, job' = job,
           \A q \in claims' : job[q].entity = "skill" =>
                pc'[q] = pc[q] /\ handle'[q] = handle[q] /\ todo'[q] = todo[q],
           \A f \in File : disk'[f] = disk[f], \A q \in claims : job[q].parts \subseteq File
    PROVE  SkillInv'
BY DEF SkillInv

LEMMA BlockFrame ==
    ASSUME BlockInv, NEW r, claims' \subseteq claims, job' = job, settings' = settings,
           \A q \in claims \ {r} : pc'[q] = pc[q] /\ loaded'[q] = loaded[q] /\ before'[q] = before[q],
           r \in claims' /\ job[r].entity \in Block => BlockSound(r)'
    PROVE  BlockInv'
BY DEF BlockInv, BlockSound, Others

LEMMA AloneStep ==
    ASSUME IInv, IInv', AloneInv, NEW r \in Request, Step(r)
    PROVE  AloneInv'
<1>1. CASE Check(r)
    BY <1>1, Names DEF IInv, TypeOK, PlaceInv, Own, Goto, fsVars, histVars, AloneInv, Busy, Meet,
       Check, Stage, Respond
<1>2. CASE ClaimSkill(r)
    BY <1>2, Names DEF IInv, TypeOK, PlaceInv, Own, Goto, fsVars, histVars, AloneInv, Busy, Meet,
       ClaimSkill, Respond
<1>3. CASE ClaimFile(r)
    BY <1>3, Names DEF IInv, TypeOK, PlaceInv, Own, Goto, fsVars, histVars, AloneInv, Busy, Meet,
       ClaimFile, Respond
<1>4. CASE ClaimBlock(r)
    BY <1>4, Names DEF IInv, TypeOK, PlaceInv, Own, Goto, fsVars, histVars, AloneInv, Busy, Meet,
       ClaimBlock, Respond
<1>5. CASE ClearSkill(r)
    BY <1>5, Names DEF IInv, TypeOK, PlaceInv, Own, Goto, fsVars, histVars, AloneInv, Busy, Meet,
       ClearSkill, Respond
<1>6. ASSUME NEW f \in File, Wipe(r, f) PROVE AloneInv'
    BY <1>6, Names DEF IInv, TypeOK, PlaceInv, Own, Goto, fsVars, histVars, AloneInv, Busy, Meet,
       Wipe, Unlink, Respond
<1>7. CASE RemoveDir(r)
    BY <1>7, Names DEF IInv, TypeOK, PlaceInv, Own, Goto, fsVars, histVars, AloneInv, Busy, Meet,
       RemoveDir, Respond
<1>8. CASE ClearFile(r)
    BY <1>8, Names DEF IInv, TypeOK, PlaceInv, Own, Goto, fsVars, histVars, AloneInv, Busy, Meet,
       ClearFile, Unlink, Respond
<1>9. CASE ClearBlock(r)
    BY <1>9, Names DEF IInv, TypeOK, PlaceInv, Own, Goto, fsVars, histVars, AloneInv, Busy, Meet,
       ClearBlock, Respond
<1>10. CASE WriteFiles(r)
    BY <1>10, Names DEF IInv, TypeOK, PlaceInv, Own, Goto, fsVars, histVars, AloneInv, Busy, Meet,
       WriteFiles, Respond
<1>11. ASSUME NEW p \in Path, Open(r, p) PROVE AloneInv'
    BY <1>11, Names DEF IInv, TypeOK, PlaceInv, Own, Goto, fsVars, histVars, AloneInv, Busy, Meet,
       Open, Respond
<1>12. CASE Body(r)
    BY <1>12, Names DEF IInv, TypeOK, PlaceInv, Own, Goto, fsVars, histVars, AloneInv, Busy, Meet,
       Body, Respond
<1>13. CASE LoadSettings(r)
    BY <1>13, Names DEF IInv, TypeOK, PlaceInv, Own, Goto, fsVars, histVars, AloneInv, Busy, Meet,
       LoadSettings, Respond
<1>14. CASE TruncateSettings(r)
    BY <1>14, Names DEF IInv, TypeOK, PlaceInv, Own, Goto, fsVars, histVars, AloneInv, Busy, Meet,
       TruncateSettings, Respond
<1>15. CASE PutSettings(r)
    BY <1>15, Names DEF IInv, TypeOK, PlaceInv, Own, Goto, fsVars, histVars, AloneInv, Busy, Meet,
       PutSettings, Respond
<1>16. CASE Succeed(r)
    BY <1>16, Names DEF IInv, TypeOK, PlaceInv, Own, Goto, fsVars, histVars, AloneInv, Busy, Meet,
       Succeed, Respond
<1>17. CASE ReadFails(r)
    BY <1>17, Names DEF IInv, TypeOK, PlaceInv, Own, Goto, fsVars, histVars, AloneInv, Busy, Meet,
       ReadFails, Stage, Respond
<1>18. CASE Fail(r)
    BY <1>18, Names DEF IInv, TypeOK, PlaceInv, Own, Goto, fsVars, histVars, AloneInv, Busy, Meet,
       Fail, Respond
<1> QED
    BY <1>1, <1>2, <1>3, <1>4, <1>5, <1>6, <1>7, <1>8, <1>9, <1>10, <1>11, <1>12, <1>13, <1>14,
       <1>15, <1>16, <1>17, <1>18 DEF Step

LEMMA FileKept ==
    ASSUME IInv, IInv', AloneInv, FileInv, NEW r \in Request, Step(r)
    PROVE  FileInv'
<1>1. CASE Check(r)
    BY <1>1, Names, Contents DEF IInv, TypeOK, PlaceInv, Own, Goto, fsVars, histVars, AloneInv,
       Busy, Meet, FileInv, Check, Stage, Respond
<1>2. CASE ClaimSkill(r)
    BY <1>2, Names, Contents DEF IInv, TypeOK, PlaceInv, Own, Goto, fsVars, histVars, AloneInv,
       Busy, Meet, FileInv, ClaimSkill, Respond
<1>3. CASE ClaimFile(r)
    BY <1>3, Names, Contents DEF IInv, TypeOK, PlaceInv, Own, Goto, fsVars, histVars, AloneInv,
       Busy, Meet, FileInv, ClaimFile, Respond
<1>4. CASE ClaimBlock(r)
    BY <1>4, Names, Contents DEF IInv, TypeOK, PlaceInv, Own, Goto, fsVars, histVars, AloneInv,
       Busy, Meet, FileInv, ClaimBlock, Respond
<1>5. CASE ClearSkill(r)
    BY <1>5, Names, Contents DEF IInv, TypeOK, PlaceInv, Own, Goto, fsVars, histVars, AloneInv,
       Busy, Meet, FileInv, ClearSkill, Respond
<1>6. ASSUME NEW f \in File, Wipe(r, f) PROVE FileInv'
    BY <1>6, Names, Contents DEF IInv, TypeOK, PlaceInv, Own, Goto, fsVars, histVars, AloneInv,
       Busy, Meet, FileInv, Wipe, Unlink, Respond
<1>7. CASE RemoveDir(r)
    BY <1>7, Names, Contents DEF IInv, TypeOK, PlaceInv, Own, Goto, fsVars, histVars, AloneInv,
       Busy, Meet, FileInv, RemoveDir, Respond
<1>8. CASE ClearFile(r)
    BY <1>8, Names, Contents DEF IInv, TypeOK, PlaceInv, Own, Goto, fsVars, histVars, AloneInv,
       Busy, Meet, FileInv, ClearFile, Unlink, Respond
<1>9. CASE ClearBlock(r)
    BY <1>9, Names, Contents DEF IInv, TypeOK, PlaceInv, Own, Goto, fsVars, histVars, AloneInv,
       Busy, Meet, FileInv, ClearBlock, Respond
<1>10. CASE WriteFiles(r)
    BY <1>10, Names, Contents DEF IInv, TypeOK, PlaceInv, Own, Goto, fsVars, histVars, AloneInv,
       Busy, Meet, FileInv, WriteFiles, Respond
<1>11. ASSUME NEW p \in Path, Open(r, p) PROVE FileInv'
    <2>1. CASE job[r].entity = "skill"
        <3>1. p \in File /\ disk'[Note] = disk[Note]
            BY <1>11, <2>1, Names, Jobs DEF IInv, TypeOK, PlaceInv, Own, Open
        <3> QED
            BY <1>11, <2>1, <3>1 DEF IInv, TypeOK, Goto, histVars, FileInv, Open
    <2>2. CASE job[r].entity = "plain"
        <3>1. \A q \in claims : job[q].entity = "plain" => q = r
            BY <1>11, <2>2 DEF IInv, TypeOK, AloneInv, Busy, Meet, Open
        <3>2. p = Note
            BY <1>11, <2>2, Names DEF IInv, PlaceInv, Own, Open
        <3> QED
            BY <1>11, <2>2, <3>1, <3>2, Names DEF IInv, TypeOK, Goto, histVars, FileInv, Open
    <2> QED
        BY <1>11, <2>1, <2>2, Names DEF IInv, TypeOK, PlaceInv, Job, Open
<1>12. CASE Body(r)
    <2>1. CASE job[r].entity = "skill"
        <3>1. disk'[Note] = disk[Note]
            <4>1. handle[r] # Note /\ disk \in [Path -> Content]
                BY <2>1, Handles DEF IInv, TypeOK
            <4> QED
                BY <1>12, <4>1, Names DEF Body
        <3> QED
            BY <1>12, <2>1, <3>1 DEF IInv, TypeOK, Goto, histVars, FileInv, Body
    <2>2. CASE job[r].entity = "plain"
        <3>1. \A q \in claims : job[q].entity = "plain" => q = r
            BY <1>12, <2>2 DEF IInv, TypeOK, AloneInv, Busy, Meet, Body
        <3>2. handle[r] \in {Note, "gone"}
            BY <1>12, <2>2 DEF IInv, PlaceInv, Own, Body
        <3> QED
            BY <1>12, <2>2, <3>1, <3>2, Names DEF IInv, TypeOK, Goto, histVars, FileInv, Body
    <2> QED
        BY <1>12, <2>1, <2>2, Names DEF IInv, TypeOK, PlaceInv, Job, Body
<1>13. CASE LoadSettings(r)
    BY <1>13, Names, Contents DEF IInv, TypeOK, PlaceInv, Own, Goto, fsVars, histVars, AloneInv,
       Busy, Meet, FileInv, LoadSettings, Respond
<1>14. CASE TruncateSettings(r)
    BY <1>14, Names, Contents DEF IInv, TypeOK, PlaceInv, Own, Goto, fsVars, histVars, AloneInv,
       Busy, Meet, FileInv, TruncateSettings, Respond
<1>15. CASE PutSettings(r)
    BY <1>15, Names, Contents DEF IInv, TypeOK, PlaceInv, Own, Goto, fsVars, histVars, AloneInv,
       Busy, Meet, FileInv, PutSettings, Respond
<1>16. CASE Succeed(r)
    BY <1>16, Names, Contents DEF IInv, TypeOK, PlaceInv, Own, Goto, fsVars, histVars, AloneInv,
       Busy, Meet, FileInv, Succeed, Respond
<1>17. CASE ReadFails(r)
    BY <1>17, Names, Contents DEF IInv, TypeOK, PlaceInv, Own, Goto, fsVars, histVars, AloneInv,
       Busy, Meet, FileInv, ReadFails, Stage, Respond
<1>18. CASE Fail(r)
    BY <1>18, Names, Contents DEF IInv, TypeOK, PlaceInv, Own, Goto, fsVars, histVars, AloneInv,
       Busy, Meet, FileInv, Fail, Respond
<1> QED
    BY <1>1, <1>2, <1>3, <1>4, <1>5, <1>6, <1>7, <1>8, <1>9, <1>10, <1>11, <1>12, <1>13, <1>14,
       <1>15, <1>16, <1>17, <1>18 DEF Step

LEMMA SkillKept ==
    ASSUME IInv, IInv', AloneInv, SkillInv, NEW r \in Request, Step(r)
    PROVE  SkillInv'
<1>1. CASE Check(r)
    BY <1>1, Names, Contents DEF IInv, TypeOK, PlaceInv, Own, Goto, fsVars, histVars, AloneInv,
       Busy, Meet, SkillInv, Check, Stage, Respond
<1>2. CASE ClaimSkill(r)
    BY <1>2, Names, Contents DEF IInv, TypeOK, PlaceInv, Own, Goto, fsVars, histVars, AloneInv,
       Busy, Meet, SkillInv, ClaimSkill, Respond
<1>3. CASE ClaimFile(r)
    <2>1. /\ \A f \in File : disk'[f] = disk[f]
          /\ \A q \in Request \ {r} : pc'[q] = pc[q] /\ handle'[q] = handle[q] /\ todo'[q] = todo[q]
          /\ claims' \subseteq claims /\ job' = job /\ job[r].entity = "plain"
        BY <1>3, Names DEF IInv, TypeOK, ClaimFile, Respond, Goto
    <2> QED
        BY <2>1, SkillFrame, Handles DEF IInv, TypeOK
<1>4. CASE ClaimBlock(r)
    BY <1>4, Names, Contents DEF IInv, TypeOK, PlaceInv, Own, Goto, fsVars, histVars, AloneInv,
       Busy, Meet, SkillInv, ClaimBlock, Respond
<1>5. CASE ClearSkill(r)
    BY <1>5, Names, Contents DEF IInv, TypeOK, PlaceInv, Own, Goto, fsVars, histVars, AloneInv,
       Busy, Meet, SkillInv, ClearSkill, Respond
<1>6. ASSUME NEW f \in File, Wipe(r, f) PROVE SkillInv'
    BY <1>6, Names, Contents DEF IInv, TypeOK, PlaceInv, Own, Goto, fsVars, histVars, AloneInv,
       Busy, Meet, SkillInv, Wipe, Unlink, Respond
<1>7. CASE RemoveDir(r)
    BY <1>7, Names, Contents DEF IInv, TypeOK, PlaceInv, Own, Goto, fsVars, histVars, AloneInv,
       Busy, Meet, SkillInv, RemoveDir, Respond
<1>8. CASE ClearFile(r)
    <2>1. /\ \A f \in File : disk'[f] = disk[f]
          /\ \A q \in Request \ {r} : pc'[q] = pc[q] /\ todo'[q] = todo[q]
          /\ claims' \subseteq claims /\ job' = job /\ job[r].entity = "plain"
        BY <1>8, Names DEF IInv, TypeOK, ClearFile, Unlink, Goto, histVars
    <2>2. \A q \in Request : job[q].entity = "skill" => handle'[q] = handle[q]
        BY <1>8, Handles DEF IInv, TypeOK, ClearFile, Unlink
    <2> QED
        BY <2>1, <2>2, SkillFrame, Handles DEF IInv, TypeOK
<1>9. CASE ClearBlock(r)
    BY <1>9, Names, Contents DEF IInv, TypeOK, PlaceInv, Own, Goto, fsVars, histVars, AloneInv,
       Busy, Meet, SkillInv, ClearBlock, Respond
<1>10. CASE WriteFiles(r)
    BY <1>10, Names, Contents DEF IInv, TypeOK, PlaceInv, Own, Goto, fsVars, histVars, AloneInv,
       Busy, Meet, SkillInv, WriteFiles, Respond
<1>11. ASSUME NEW p \in Path, Open(r, p) PROVE SkillInv'
    <2>1. CASE job[r].entity = "plain"
        <3>1. p = Note
            BY <1>11, <2>1, Names DEF IInv, PlaceInv, Own, Open
        <3>2. /\ \A f \in File : disk'[f] = disk[f]
              /\ \A q \in Request \ {r} : pc'[q] = pc[q] /\ handle'[q] = handle[q] /\ todo'[q] = todo[q]
              /\ claims' \subseteq claims /\ job' = job
            BY <1>11, <3>1, Names DEF IInv, TypeOK, Open, Goto, histVars
        <3> QED
            BY <2>1, <3>2, SkillFrame, Handles DEF IInv, TypeOK
    <2>2. CASE job[r].entity = "skill"
        <3>1. \A q \in claims : job[q].entity = "skill" => q = r
            BY <1>11, <2>2 DEF IInv, TypeOK, AloneInv, Busy, Meet, Open
        <3>2. p \in job[r].parts /\ job[r].parts \subseteq File
            BY <1>11, <2>2, Handles DEF IInv, PlaceInv, Own, Open
        <3>3. handle[r] = "none"
            BY <1>11 DEF IInv, PlaceInv, Open
        <3> QED
            BY <1>11, <2>2, <3>1, <3>2, <3>3, Names DEF IInv, TypeOK, Goto, histVars, SkillInv,
               Open
    <2> QED
        BY <1>11, <2>1, <2>2, Names DEF IInv, TypeOK, PlaceInv, Job, Open
<1>12. CASE Body(r)
    <2>1. CASE job[r].entity = "plain"
        <3>1. /\ \A f \in File : disk'[f] = disk[f]
              /\ \A q \in Request \ {r} : pc'[q] = pc[q] /\ handle'[q] = handle[q] /\ todo'[q] = todo[q]
              /\ claims' \subseteq claims /\ job' = job
            BY <1>12, <2>1, Names, Handles DEF IInv, TypeOK, Body, Goto, histVars
        <3> QED
            BY <2>1, <3>1, SkillFrame, Handles DEF IInv, TypeOK
    <2>2. CASE job[r].entity = "skill"
        <3>1. \A q \in claims : job[q].entity = "skill" => q = r
            BY <1>12, <2>2 DEF IInv, TypeOK, AloneInv, Busy, Meet, Body
        <3>2. /\ job[r].parts \subseteq File /\ todo[r] \subseteq job[r].parts
              /\ handle[r] \in (job[r].parts \union {"gone"}) \ todo[r]
            BY <1>12, <2>2, Handles DEF IInv, PlaceInv, Own, Body
        <3>3. ASSUME r \in claims
              PROVE  /\ handle[r] \in job[r].parts
                     /\ disk' = [disk EXCEPT ![handle[r]] = r]
                     /\ handle'[r] = "none" /\ todo' = todo
                     /\ pc'[r] = IF todo[r] = {} THEN "respond" ELSE "open"
            BY <1>12, <2>2, <3>2, <3>3, Names DEF IInv, TypeOK, Goto, SkillInv, Body
        <3>4. claims' = claims /\ job' = job
            BY <1>12 DEF Body, histVars
        <3> QED
            BY <1>12, <2>2, <3>1, <3>2, <3>3, <3>4, Names, Contents DEF IInv, TypeOK, SkillInv,
               Body
    <2> QED
        BY <1>12, <2>1, <2>2, Names DEF IInv, TypeOK, PlaceInv, Job, Body
<1>13. CASE LoadSettings(r)
    BY <1>13, Names, Contents DEF IInv, TypeOK, PlaceInv, Own, Goto, fsVars, histVars, AloneInv,
       Busy, Meet, SkillInv, LoadSettings, Respond
<1>14. CASE TruncateSettings(r)
    BY <1>14, Names, Contents DEF IInv, TypeOK, PlaceInv, Own, Goto, fsVars, histVars, AloneInv,
       Busy, Meet, SkillInv, TruncateSettings, Respond
<1>15. CASE PutSettings(r)
    BY <1>15, Names, Contents DEF IInv, TypeOK, PlaceInv, Own, Goto, fsVars, histVars, AloneInv,
       Busy, Meet, SkillInv, PutSettings, Respond
<1>16. CASE Succeed(r)
    BY <1>16, Names, Contents DEF IInv, TypeOK, PlaceInv, Own, Goto, fsVars, histVars, AloneInv,
       Busy, Meet, SkillInv, Succeed, Respond
<1>17. CASE ReadFails(r)
    BY <1>17, Names, Contents DEF IInv, TypeOK, PlaceInv, Own, Goto, fsVars, histVars, AloneInv,
       Busy, Meet, SkillInv, ReadFails, Stage, Respond
<1>18. CASE Fail(r)
    BY <1>18, Names, Contents DEF IInv, TypeOK, PlaceInv, Own, Goto, fsVars, histVars, AloneInv,
       Busy, Meet, SkillInv, Fail, Respond
<1> QED
    BY <1>1, <1>2, <1>3, <1>4, <1>5, <1>6, <1>7, <1>8, <1>9, <1>10, <1>11, <1>12, <1>13, <1>14,
       <1>15, <1>16, <1>17, <1>18 DEF Step

LEMMA BlockKept ==
    ASSUME IInv, IInv', AloneInv, BlockInv, NEW r \in Request, Step(r)
    PROVE  BlockInv'
<1>1. CASE Check(r)
    BY <1>1, Names, Contents DEF IInv, TypeOK, PlaceInv, Own, Goto, fsVars, histVars, AloneInv,
       Busy, Meet, BlockInv, BlockSound, Others, Check, Stage, Respond
<1>2. CASE ClaimSkill(r)
    BY <1>2, Names, Contents DEF IInv, TypeOK, PlaceInv, Own, Goto, fsVars, histVars, AloneInv,
       Busy, Meet, BlockInv, BlockSound, Others, ClaimSkill, Respond
<1>3. CASE ClaimFile(r)
    BY <1>3, Names, Contents DEF IInv, TypeOK, PlaceInv, Own, Goto, fsVars, histVars, AloneInv,
       Busy, Meet, BlockInv, BlockSound, Others, ClaimFile, Respond
<1>4. CASE ClaimBlock(r)
    BY <1>4, Names, Contents DEF IInv, TypeOK, PlaceInv, Own, Goto, fsVars, histVars, AloneInv,
       Busy, Meet, BlockInv, BlockSound, Others, ClaimBlock, Respond
<1>5. CASE ClearSkill(r)
    BY <1>5, Names, Contents DEF IInv, TypeOK, PlaceInv, Own, Goto, fsVars, histVars, AloneInv,
       Busy, Meet, BlockInv, BlockSound, Others, ClearSkill, Respond
<1>6. ASSUME NEW f \in File, Wipe(r, f) PROVE BlockInv'
    BY <1>6, Names, Contents DEF IInv, TypeOK, PlaceInv, Own, Goto, fsVars, histVars, AloneInv,
       Busy, Meet, BlockInv, BlockSound, Others, Wipe, Unlink, Respond
<1>7. CASE RemoveDir(r)
    BY <1>7, Names, Contents DEF IInv, TypeOK, PlaceInv, Own, Goto, fsVars, histVars, AloneInv,
       Busy, Meet, BlockInv, BlockSound, Others, RemoveDir, Respond
<1>8. CASE ClearFile(r)
    BY <1>8, Names, Contents DEF IInv, TypeOK, PlaceInv, Own, Goto, fsVars, histVars, AloneInv,
       Busy, Meet, BlockInv, BlockSound, Others, ClearFile, Unlink, Respond
<1>9. CASE ClearBlock(r)
    <2>1. CASE Responds(r)
        <3>1. /\ claims' = claims \ {r} /\ job' = job /\ settings' = settings
              /\ \A q \in claims \ {r} : pc'[q] = pc[q] /\ loaded'[q] = loaded[q] /\ before'[q] = before[q]
            BY <2>1 DEF Responds, Respond, Goto, fsVars, IInv, TypeOK
        <3> QED
            BY <3>1, BlockFrame
    <2>2. CASE ~Responds(r)
        <3>1. /\ UNCHANGED <<fsVars, job, before, claims>> /\ pc[r] = "clear" /\ job[r].entity \in Block
              /\ \A q \in Request \ {r} : pc'[q] = pc[q] /\ loaded'[q] = loaded[q]
            BY <1>9, <2>2 DEF IInv, TypeOK, Goto, ClearBlock, Responds, fsVars
        <3>5. r \in claims => Others(r, settings.at)
            BY <3>1 DEF BlockInv, BlockSound
        <3>6. \A q \in claims \ {r} : q \in Request \ {r}
            BY DEF IInv, TypeOK
        <3>2. CASE pc'[r] = "write"
            <4>1. r \in claims => BlockSound(r)'
                BY <3>5, <3>1, <3>2 DEF BlockSound, Others, fsVars
            <4> QED
                BY <3>1, <3>6, <4>1, BlockFrame DEF fsVars
        <3>3. CASE pc'[r] = "truncate" /\ loaded'[r] = [settings.at EXCEPT ![job[r].entity] = "none"]
            <4>1. loaded'[r][job[r].entity] = "none"
                BY <3>1, <3>3 DEF IInv, TypeOK, Settings, Keys
            <4>2. \A b \in Block \ {job[r].entity} : loaded'[r][b] = settings.at[b]
                BY <3>1, <3>3 DEF IInv, TypeOK, Settings, Keys
            <4>3. r \in claims => BlockSound(r)'
                BY <3>5, <3>1, <3>3, <4>1, <4>2 DEF BlockSound, Others, fsVars
            <4> QED
                BY <3>1, <3>6, <4>3, BlockFrame DEF fsVars
        <3>4. (pc'[r] = "write") \/ (pc'[r] = "truncate" /\ loaded'[r] = [settings.at EXCEPT ![job[r].entity] = "none"])
            BY <1>9, <2>2 DEF IInv, TypeOK, Goto, ClearBlock, Responds, fsVars
        <3> QED
            BY <3>2, <3>3, <3>4
    <2> QED
        BY <2>1, <2>2
<1>10. CASE WriteFiles(r)
    BY <1>10, Names, Contents DEF IInv, TypeOK, PlaceInv, Own, Goto, fsVars, histVars, AloneInv,
       Busy, Meet, BlockInv, BlockSound, Others, WriteFiles, Respond
<1>11. ASSUME NEW p \in Path, Open(r, p) PROVE BlockInv'
    BY <1>11, Names, Contents DEF IInv, TypeOK, PlaceInv, Own, Goto, fsVars, histVars, AloneInv,
       Busy, Meet, BlockInv, BlockSound, Others, Open, Respond
<1>12. CASE Body(r)
    BY <1>12, Names, Contents DEF IInv, TypeOK, PlaceInv, Own, Goto, fsVars, histVars, AloneInv,
       Busy, Meet, BlockInv, BlockSound, Others, Body, Respond
<1>13. CASE LoadSettings(r)
    <2>1. CASE Responds(r)
        <3>1. /\ claims' = claims \ {r} /\ job' = job /\ settings' = settings
              /\ \A q \in claims \ {r} : pc'[q] = pc[q] /\ loaded'[q] = loaded[q] /\ before'[q] = before[q]
            BY <2>1 DEF Responds, Respond, Goto, fsVars, IInv, TypeOK
        <3> QED
            BY <3>1, BlockFrame
    <2>2. CASE ~Responds(r)
        <3>1. /\ UNCHANGED <<fsVars, job, before, claims>> /\ pc[r] = "load" /\ job[r].entity \in Block
              /\ \A q \in Request \ {r} : pc'[q] = pc[q] /\ loaded'[q] = loaded[q]
              /\ pc'[r] = "truncate" /\ loaded'[r] = [settings.at EXCEPT ![job[r].entity] = r]
            BY <1>13, <2>2 DEF IInv, TypeOK, PlaceInv, Goto, LoadSettings, Spliced, Responds,
               fsVars
        <3>2. loaded'[r][job[r].entity] = r
            BY <3>1 DEF IInv, TypeOK, Settings, Keys
        <3>3. \A b \in Block \ {job[r].entity} : loaded'[r][b] = settings.at[b]
            BY <3>1 DEF IInv, TypeOK, Settings, Keys
        <3>4. r \in claims => BlockSound(r)'
            BY <3>1, <3>2, <3>3 DEF BlockInv, BlockSound, Others, fsVars
        <3>5. \A q \in claims \ {r} : q \in Request \ {r}
            BY DEF IInv, TypeOK
        <3> QED
            BY <3>1, <3>4, <3>5, BlockFrame DEF fsVars
    <2> QED
        BY <2>1, <2>2
<1>14. CASE TruncateSettings(r)
    BY <1>14, Names, Contents DEF IInv, TypeOK, PlaceInv, Own, Goto, fsVars, histVars, AloneInv,
       Busy, Meet, BlockInv, BlockSound, Others, TruncateSettings, Respond
<1>15. CASE PutSettings(r)
    BY <1>15, Names, Contents DEF IInv, TypeOK, PlaceInv, Own, Goto, fsVars, histVars, AloneInv,
       Busy, Meet, BlockInv, BlockSound, Others, PutSettings, Respond
<1>16. CASE Succeed(r)
    BY <1>16, Names, Contents DEF IInv, TypeOK, PlaceInv, Own, Goto, fsVars, histVars, AloneInv,
       Busy, Meet, BlockInv, BlockSound, Others, Succeed, Respond
<1>17. CASE ReadFails(r)
    BY <1>17, Names, Contents DEF IInv, TypeOK, PlaceInv, Own, Goto, fsVars, histVars, AloneInv,
       Busy, Meet, BlockInv, BlockSound, Others, ReadFails, SplicedAlone, Stage, Respond
<1>18. CASE Fail(r)
    BY <1>18, Names, Contents DEF IInv, TypeOK, PlaceInv, Own, Goto, fsVars, histVars, AloneInv,
       Busy, Meet, BlockInv, BlockSound, Others, Fail, Respond
<1> QED
    BY <1>1, <1>2, <1>3, <1>4, <1>5, <1>6, <1>7, <1>8, <1>9, <1>10, <1>11, <1>12, <1>13, <1>14,
       <1>15, <1>16, <1>17, <1>18 DEF Step

LEMMA ConflictStep ==
    ASSUME IInv, IInv', AloneInv, ConflictInv, Scalars = FALSE, NEW r \in Request, Step(r)
    PROVE  ConflictInv'
<1>1. CASE Check(r)
    BY <1>1, Names, Contents, Handles DEF IInv, TypeOK, PlaceInv, Own, Goto, fsVars, histVars,
       AloneInv, Busy, Meet, ConflictInv, Exists, Check, Has, Stage, Respond
<1>2. CASE ClaimSkill(r)
    BY <1>2, Names, Contents, Handles DEF IInv, TypeOK, PlaceInv, Own, Goto, fsVars, histVars,
       AloneInv, Busy, Meet, ConflictInv, Exists, ClaimSkill, Respond
<1>3. CASE ClaimFile(r)
    BY <1>3, Names, Contents, Handles DEF IInv, TypeOK, PlaceInv, Own, Goto, fsVars, histVars,
       AloneInv, Busy, Meet, ConflictInv, Exists, ClaimFile, Respond
<1>4. CASE ClaimBlock(r)
    BY <1>4, Names, Contents, Handles DEF IInv, TypeOK, PlaceInv, Own, Goto, fsVars, histVars,
       AloneInv, Busy, Meet, ConflictInv, Exists, ClaimBlock, Has, Respond
<1>5. CASE ClearSkill(r)
    BY <1>5, Names, Contents, Handles DEF IInv, TypeOK, PlaceInv, Own, Goto, fsVars, histVars,
       AloneInv, Busy, Meet, ConflictInv, Exists, ClearSkill, Respond
<1>6. ASSUME NEW f \in File, Wipe(r, f) PROVE ConflictInv'
    BY <1>6, Names, Contents, Handles DEF IInv, TypeOK, PlaceInv, Own, Goto, fsVars, histVars,
       AloneInv, Busy, Meet, ConflictInv, Exists, Wipe, Unlink, Respond
<1>7. CASE RemoveDir(r)
    BY <1>7, Names, Contents, Handles DEF IInv, TypeOK, PlaceInv, Own, Goto, fsVars, histVars,
       AloneInv, Busy, Meet, ConflictInv, Exists, RemoveDir, Respond
<1>8. CASE ClearFile(r)
    BY <1>8, Names, Contents, Handles DEF IInv, TypeOK, PlaceInv, Own, Goto, fsVars, histVars,
       AloneInv, Busy, Meet, ConflictInv, Exists, ClearFile, Unlink, Respond
<1>9. CASE ClearBlock(r)
    BY <1>9, Names, Contents, Handles DEF IInv, TypeOK, PlaceInv, Own, Goto, fsVars, histVars,
       AloneInv, Busy, Meet, ConflictInv, Exists, ClearBlock, Respond
<1>10. CASE WriteFiles(r)
    BY <1>10, Names, Contents, Handles DEF IInv, TypeOK, PlaceInv, Own, Goto, fsVars, histVars,
       AloneInv, Busy, Meet, ConflictInv, Exists, WriteFiles, Respond
<1>11. ASSUME NEW p \in Path, Open(r, p) PROVE ConflictInv'
    <2>1. job[r].entity \in {"skill", "plain"} /\ disk' = [disk EXCEPT ![p] = "empty"] /\ p \in Own(r)
        BY <1>11, Names, Jobs DEF IInv, TypeOK, PlaceInv, Open
    <2>2. ASSUME NEW q \in claims \ {r} PROVE Exists(job[q].entity)' = Exists(job[q].entity)
        <3>1. q \in Request /\ job[q].entity # job[r].entity /\ job'[q] = job[q]
            BY <1>11 DEF IInv, TypeOK, AloneInv, Busy, Meet, Open, histVars
        <3>2. CASE job[r].entity = "skill"
            <4>1. disk'[Note] = disk[Note] /\ settings' = settings
                BY <1>11, <2>1, <3>2, Names, Handles DEF IInv, TypeOK, PlaceInv, Own, Open
            <4> QED
                BY <3>1, <3>2, <4>1 DEF Exists
        <3>3. CASE job[r].entity = "plain"
            <4>1. disk'[SkillMD] = disk[SkillMD] /\ settings' = settings
                BY <1>11, <2>1, <3>3, Names, Handles DEF IInv, TypeOK, PlaceInv, Own, Open
            <4> QED
                BY <3>1, <3>3, <4>1 DEF Exists
        <3> QED
            BY <2>1, <3>2, <3>3
    <2>3. /\ pc[r] # "check" /\ pc'[r] # "check" /\ UNCHANGED <<job, existed, claims>>
          /\ \A q \in claims \ {r} : pc'[q] = pc[q]
        BY <1>11, <2>1 DEF IInv, TypeOK, Goto, Open, histVars
    <2> QED
        BY <2>2, <2>3 DEF ConflictInv
<1>12. CASE Body(r)
    BY <1>12, Names, Contents, Handles DEF IInv, TypeOK, PlaceInv, Own, Goto, fsVars, histVars,
       AloneInv, Busy, Meet, ConflictInv, Exists, Body, Respond
<1>13. CASE LoadSettings(r)
    BY <1>13, Names, Contents, Handles DEF IInv, TypeOK, PlaceInv, Own, Goto, fsVars, histVars,
       AloneInv, Busy, Meet, ConflictInv, Exists, LoadSettings, Respond
<1>14. CASE TruncateSettings(r)
    <2>1. job[r].entity \in Block /\ UNCHANGED <<disk, job, existed, claims>>
        BY <1>14 DEF IInv, PlaceInv, TruncateSettings, histVars
    <2>2. ASSUME NEW q \in claims \ {r} PROVE Exists(job[q].entity)' = Exists(job[q].entity)
        <3>1. q \in Request /\ job[q].entity \notin Block /\ job[q].entity \in Entity
            <4>1. q \in Request /\ job[q].entity \in Entity
                BY Jobs DEF IInv, TypeOK
            <4>2. q # r /\ ~Meet(job[r].entity, job[q].entity)
                BY <1>14 DEF AloneInv, Busy, TruncateSettings
            <4> QED
                BY <2>1, <4>1, <4>2 DEF Meet
        <3> QED
            BY <2>1, <3>1, Names DEF Exists
    <2>3. /\ pc[r] # "check" /\ pc'[r] # "check"
          /\ \A q \in claims \ {r} : pc'[q] = pc[q]
        BY <1>14 DEF IInv, TypeOK, Goto, TruncateSettings
    <2> QED
        BY <2>1, <2>2, <2>3 DEF ConflictInv
<1>15. CASE PutSettings(r)
    <2>1. job[r].entity \in Block /\ UNCHANGED <<disk, job, existed, claims>>
        BY <1>15 DEF IInv, PlaceInv, PutSettings, histVars
    <2>2. ASSUME NEW q \in claims \ {r} PROVE Exists(job[q].entity)' = Exists(job[q].entity)
        <3>1. q \in Request /\ job[q].entity \notin Block /\ job[q].entity \in Entity
            <4>1. q \in Request /\ job[q].entity \in Entity
                BY Jobs DEF IInv, TypeOK
            <4>2. q # r /\ ~Meet(job[r].entity, job[q].entity)
                BY <1>15 DEF AloneInv, Busy, PutSettings
            <4> QED
                BY <2>1, <4>1, <4>2 DEF Meet
        <3> QED
            BY <2>1, <3>1, Names DEF Exists
    <2>3. /\ pc[r] # "check" /\ pc'[r] # "check"
          /\ \A q \in claims \ {r} : pc'[q] = pc[q]
        BY <1>15 DEF IInv, TypeOK, Goto, PutSettings
    <2> QED
        BY <2>1, <2>2, <2>3 DEF ConflictInv
<1>16. CASE Succeed(r)
    BY <1>16, Names, Contents, Handles DEF IInv, TypeOK, PlaceInv, Own, Goto, fsVars, histVars,
       AloneInv, Busy, Meet, ConflictInv, Exists, Succeed, Respond
<1>17. CASE ReadFails(r)
    BY <1>17, Names, Contents, Handles DEF IInv, TypeOK, PlaceInv, Own, Goto, fsVars, histVars,
       AloneInv, Busy, Meet, ConflictInv, Exists, ReadFails, Stage, Respond
<1>18. CASE Fail(r)
    BY <1>18, Names, Contents, Handles DEF IInv, TypeOK, PlaceInv, Own, Goto, fsVars, histVars,
       AloneInv, Busy, Meet, ConflictInv, Exists, Fail, Respond
<1> QED
    BY <1>1, <1>2, <1>3, <1>4, <1>5, <1>6, <1>7, <1>8, <1>9, <1>10, <1>11, <1>12, <1>13, <1>14,
       <1>15, <1>16, <1>17, <1>18 DEF Step

LEMMA BeginAlone ==
    ASSUME IInv, AloneParts, NEW r \in Request, NEW j \in Job, Begin(r, j),
           \/ Goto(r, "check") /\ ~j.overwrite
           \/ Goto(r, "write") /\ j.overwrite /\ ~j.mirror
           \/ Goto(r, "clear") /\ j.overwrite /\ j.mirror
    PROVE  AloneParts' /\ (ConflictInv => ConflictInv')
<1>1. /\ job' = [job EXCEPT ![r] = j] /\ job'[r] = j /\ j.entity \in Entity
      /\ pc[r] = "new" /\ pc'[r] \in {"check", "write", "clear"}
      /\ \A q \in Request \ {r} : /\ pc'[q] = pc[q] /\ job'[q] = job[q]
                                  /\ existed'[q] = existed[q] /\ before'[q] = before[q]
      /\ existed'[r] = Exists(j.entity)
      /\ j.entity \in Block => before'[r] = settings.at
      /\ UNCHANGED <<fsVars, todo, handle, loaded, answer>>
    BY Jobs DEF IInv, TypeOK, Begin, Goto
<1>2. /\ r \notin claims /\ claims \subseteq Request /\ claims' \subseteq claims \union {r}
      /\ \A q \in claims' \ {r} : q \in claims /\ q \in Request /\ ~Meet(job[q].entity, j.entity)
      /\ r \in claims' => \A q \in Request \ {r} : Busy(q) => ~Meet(job[q].entity, j.entity)
    BY <1>1 DEF IInv, TypeOK, AloneParts, AloneInv, Busy, Begin, Rivals
<1>3. AloneInv'
    BY <1>1, <1>2 DEF AloneParts, AloneInv, Busy, Meet
<1>4. SkillInv'
    BY <1>1, <1>2 DEF AloneParts, SkillInv, Goto, fsVars, IInv, TypeOK
<1>5. FileInv'
    BY <1>1, <1>2 DEF AloneParts, FileInv, fsVars
<1>6. BlockInv'
    BY <1>1, <1>2 DEF AloneParts, BlockInv, BlockSound, Others, fsVars
<1>7. ConflictInv => ConflictInv'
    BY <1>1, <1>2 DEF ConflictInv, Goto, fsVars, IInv, TypeOK, Exists
<1> QED
    BY <1>3, <1>4, <1>5, <1>6, <1>7 DEF AloneParts

LEMMA AloneNext ==
    IInv /\ IInv' /\ AloneParts /\ [Next]_vars =>
        AloneParts' /\ (~Scalars /\ ConflictInv => ConflictInv')
<1> SUFFICES ASSUME IInv, IInv', AloneParts, [Next]_vars
             PROVE  AloneParts' /\ (~Scalars /\ ConflictInv => ConflictInv')
    OBVIOUS
<1>1. ASSUME NEW r \in Request, NEW e \in Entity, NEW overwrite \in BOOLEAN, NEW mirror \in BOOLEAN,
             NEW extra \in SUBSET Extra, HandlePromote(r, e, overwrite, mirror, {SkillMD} \union extra)
      PROVE  AloneParts' /\ (ConflictInv => ConflictInv')
    <2>1. {SkillMD} \union extra \in SUBSET File
        BY DEF File
    <2> PICK j \in Job : j = [entity |-> e, overwrite |-> overwrite, mirror |-> mirror,
                              parts |-> {SkillMD} \union extra]
        BY <2>1, Jobs
    <2>2. /\ Begin(r, j) /\ Goto(r, IF overwrite THEN Stage(j) ELSE "check")
          /\ j.overwrite = overwrite /\ j.mirror = mirror
        BY <1>1 DEF HandlePromote
    <2> QED
        BY <2>2, BeginAlone DEF Stage
<1>2. ASSUME NEW r \in Request, NEW e \in Entity, HandleEntityWrite(r, e)
      PROVE  AloneParts' /\ (ConflictInv => ConflictInv')
    <2> PICK j \in Job : j = WriteJob(e)
        BY WriteJobs
    <2>1. Begin(r, j) /\ Goto(r, "write") /\ j.overwrite /\ ~j.mirror
        BY <1>2, WriteJobs DEF HandleEntityWrite, WriteJob
    <2> QED
        BY <2>1, BeginAlone
<1>3. CASE UNCHANGED vars
    BY <1>3 DEF vars, fsVars, reqVars, histVars, AloneParts, AloneInv, Busy, SkillInv, FileInv,
       BlockInv,
                BlockSound, Others, ConflictInv, Exists
<1>4. ASSUME NEW r \in Request, Step(r)
      PROVE  AloneParts' /\ (~Scalars /\ ConflictInv => ConflictInv')
    <2>1. AloneParts'
        BY <1>4, AloneStep, SkillKept, FileKept, BlockKept DEF AloneParts
    <2>2. ASSUME ~Scalars, ConflictInv PROVE ConflictInv'
        <3>1. Scalars = FALSE
            BY <2>2, ScalarsAssumption
        <3> QED
            BY <1>4, <2>2, <3>1, ConflictStep DEF AloneParts
    <2> QED
        BY <2>1, <2>2
<1> QED
    BY <1>1, <1>2, <1>3, <1>4 DEF Next

LEMMA AloneInit == Init => AloneParts /\ ConflictInv
BY DEF Init, AloneParts, AloneInv, SkillInv, FileInv, BlockInv, ConflictInv

(* A promote or an edit that met no other request in its files and reports *)
(* success has written every file of its entity, or its block, and a       *)
(* mirror copy has left nothing else in the skill.                         *)
THEOREM SuccessDelivers == Spec => []Delivered
<1>1. IInv /\ AloneParts => Delivered
    <2> SUFFICES ASSUME IInv, AloneParts, NEW r \in Request, Completed(r)
                 PROVE  CASE job[r].entity = "skill" ->
                                /\ \A f \in job[r].parts : disk[f] = r
                                /\ job[r].mirror => \A f \in File \ job[r].parts : disk[f] = "none"
                          [] job[r].entity = "plain" -> disk[Note] = r
                          [] OTHER -> settings.state = "valid" /\ settings.at[job[r].entity] = r
        BY DEF Delivered
    <2>1. r \in claims /\ pc[r] = "respond" /\ handle[r] = "none" /\ job[r].entity \in Entity
        BY Jobs DEF Completed, IInv, TypeOK, PlaceInv
    <2>2. CASE job[r].entity = "skill"
        <3>1. /\ todo[r] = {}
              /\ \A f \in job[r].parts \ todo[r] : disk[f] = IF f = handle[r] THEN "empty" ELSE r
              /\ job[r].mirror => \A f \in File \ job[r].parts : disk[f] = "none"
            BY <2>1, <2>2 DEF AloneParts, SkillInv
        <3>2. \A f \in job[r].parts : f # handle[r]
            BY <2>1, Names, Handles
        <3> QED
            BY <2>2, <3>1, <3>2
    <2>3. CASE job[r].entity = "plain"
        BY <2>1, <2>3 DEF AloneParts, FileInv
    <2>4. CASE job[r].entity \in Block
        BY <2>1, <2>4, Names DEF AloneParts, BlockInv, BlockSound
    <2> QED
        BY <2>1, <2>2, <2>3, <2>4, Names
<1> QED
    BY <1>1, IInit, INext, AloneInit, AloneNext, PTL DEF Spec

(* "Siblings preserved": such a success on a block of settings.json has    *)
(* left every other block as it found it.                                  *)
THEOREM SiblingsPreserved == Spec => []SettingsKept
<1>1. AloneParts => SettingsKept
    BY DEF AloneParts, SettingsKept, Completed, BlockInv, BlockSound, Others
<1> QED
    BY <1>1, IInit, INext, AloneInit, AloneNext, PTL DEF Spec

(* Where settings.json holds sections of blocks and nothing else, such a   *)
(* success without overwrite was on an entity that did not exist.          *)
THEOREM NoSilentOverwrite ==
    ASSUME Scalars = FALSE
    PROVE  Spec => []ConflictHonoured
<1>1. ConflictInv => ConflictHonoured
    BY DEF ConflictInv, ConflictHonoured, Completed
<1>2. IInv /\ IInv' /\ AloneParts /\ ConflictInv /\ [Next]_vars => ConflictInv'
    BY AloneNext
<1> QED
    BY <1>1, <1>2, IInit, INext, AloneInit, AloneNext, PTL DEF Spec

=============================================================================
