------------------------------- MODULE Panels -------------------------------
(***************************************************************************)
(* The panels of the dashboard and what they stand on: the entity list,    *)
(* declared containers, llama servers, vaults, process-compose instances,  *)
(* the disk of an engine, the dependency graph, the path index of a source *)
(* and the discovery of sources.  Each has state and requests of its own,  *)
(* no two share any, so a behaviour of this module is one of `panel`, and  *)
(* the others do not start.  A variable of a name that several use is each *)
(* panel's in turn.                                                        *)
(***************************************************************************)
CONSTANTS
    Request, MaxEvents,
    Stored, Kind, NoKind,                                      \* listing
    Container, Files, NoEntry, MaxLoads,                       \* containers
    Model, Slot, NoModel, MaxIterations,                       \* llama
    Dirs, Accepted, InitAllowed,                               \* vault
    Proc, Token, NoToken,                                      \* supervisor
    Image, EngineContainer, Volume, Record, Layers, NoImage,   \* system
    Tier, Process, BridgeName, Declared, Entity, Rules, Alike, \* graph
    Key, File, KeyOf, Conventional,                            \* index
    Home, Cwd, ExtraPaths, HostDirs, ConfigDirNames, Shapes,   \* discovery
    MaxContainers, MaxChanges

VARIABLES
    panel,
    pc, op, calm, events, todo, status, fresh, answer,
    array, kind, next, kept, hand,
    arrays, list, state, ours, want, walk, found, done, page,
    router, busy, model, iter, cap, hit, quiet, card,
    allowed, path, got, view,
    exe, file, fragment, clientTok, server, spawned, tok, extras,
    engine, images, dangling, ctr, volumes, records, modal, calls, broken, deleted, freed,
    css, bridge, held, docker, probe, up, listed, seen,
    volume, disk, index, behind, key, at, crashed, listing, settled, clean,
    dirs, ctrs, client, sources

(* What each panel has to itself. *)
listingOwn == <<array, kind, next, kept, hand>>
containersOwn == <<arrays, list, state, ours, want, walk, found, done, page>>
llamaOwn == <<router, busy, model, iter, cap, hit, quiet, card>>
vaultOwn == <<allowed, path, got, view>>
supervisorOwn == <<exe, file, fragment, clientTok, server, spawned, tok, extras>>
systemOwn == <<engine, images, dangling, ctr, volumes, records, modal, calls, broken, deleted, freed>>
graphOwn == <<css, bridge, held, docker, probe, up, listed, seen>>
indexOwn == <<volume, disk, index, behind, key, at, crashed, listing, settled, clean>>
discoveryOwn == <<dirs, ctrs, client, sources>>

vars == <<panel, pc, op, calm, events, todo, status, fresh, answer, listingOwn, containersOwn,
          llamaOwn, vaultOwn, supervisorOwn, systemOwn, graphOwn, indexOwn, discoveryOwn>>

E == INSTANCE EntityListing
C == INSTANCE Workloads
L == INSTANCE Llama
V == INSTANCE Vault
P == INSTANCE Supervisor
S == INSTANCE SystemPanel WITH Container <- EngineContainer
G == INSTANCE DepGraph
I == INSTANCE PathIndex
D == INSTANCE Discovery WITH MaxEvents <- MaxChanges

ASSUME ConstantsAssumption ==
    /\ E!Assumptions /\ C!Assumptions /\ L!Assumptions /\ V!Assumptions /\ P!Assumptions
    /\ S!Assumptions /\ G!Assumptions /\ I!Assumptions /\ D!Assumptions

-----------------------------------------------------------------------------
(* A panel that is not looked at has not started. *)
Off == "off"
ListingOff == array = Off /\ kind = Off /\ next = Off /\ kept = Off /\ hand = Off
ContainersOff == arrays = Off /\ list = Off /\ state = Off /\ ours = Off /\ want = Off
                 /\ walk = Off /\ found = Off /\ done = Off /\ page = Off
LlamaOff == router = Off /\ busy = Off /\ model = Off /\ iter = Off /\ cap = Off /\ hit = Off
            /\ quiet = Off /\ card = Off
VaultOff == allowed = Off /\ path = Off /\ got = Off /\ view = Off
SupervisorOff == exe = Off /\ file = Off /\ fragment = Off /\ clientTok = Off /\ server = Off
                 /\ spawned = Off /\ tok = Off /\ extras = Off
SystemOff == engine = Off /\ images = Off /\ dangling = Off /\ ctr = Off /\ volumes = Off
             /\ records = Off /\ modal = Off /\ calls = Off /\ broken = Off /\ deleted = Off
             /\ freed = Off
GraphOff == css = Off /\ bridge = Off /\ held = Off /\ docker = Off /\ probe = Off /\ up = Off
            /\ listed = Off /\ seen = Off
IndexOff == volume = Off /\ disk = Off /\ index = Off /\ behind = Off /\ key = Off /\ at = Off
            /\ crashed = Off /\ listing = Off /\ settled = Off /\ clean = Off
DiscoveryOff == dirs = Off /\ ctrs = Off /\ client = Off /\ sources = Off

OthersOff ==
    /\ IF panel = "listing" THEN TRUE ELSE ListingOff
    /\ IF panel = "containers" THEN TRUE ELSE ContainersOff
    /\ IF panel = "llama" THEN TRUE ELSE LlamaOff
    /\ IF panel = "vault" THEN TRUE ELSE VaultOff
    /\ IF panel = "supervisor" THEN TRUE ELSE SupervisorOff
    /\ IF panel = "system" THEN TRUE ELSE SystemOff
    /\ IF panel = "graph" THEN TRUE ELSE GraphOff
    /\ IF panel = "index" THEN TRUE ELSE IndexOff
    /\ IF panel = "discovery" THEN TRUE ELSE DiscoveryOff

Init ==
    \/ /\ panel = "listing" /\ E!Init /\ OthersOff
       /\ op = Off /\ calm = Off /\ events = Off /\ todo = Off /\ status = Off /\ fresh = Off
    \/ /\ panel = "containers" /\ C!Init /\ OthersOff
       /\ op = Off /\ todo = Off /\ status = Off /\ fresh = Off /\ answer = Off
    \/ /\ panel = "llama" /\ L!Init /\ OthersOff
       /\ calm = Off /\ events = Off /\ fresh = Off /\ answer = Off
    \/ /\ panel = "vault" /\ V!Init /\ OthersOff
       /\ events = Off /\ todo = Off /\ status = Off /\ fresh = Off /\ answer = Off
    \/ /\ panel = "supervisor" /\ P!Init /\ OthersOff
       /\ todo = Off /\ fresh = Off /\ answer = Off
    \/ /\ panel = "system" /\ S!Init /\ OthersOff
       /\ todo = Off /\ status = Off /\ fresh = Off /\ answer = Off
    \/ /\ panel = "graph" /\ G!Init /\ OthersOff
       /\ pc = Off /\ op = Off /\ calm = Off /\ todo = Off /\ status = Off /\ fresh = Off
    \/ /\ panel = "index" /\ I!Init /\ OthersOff
       /\ op = Off /\ calm = Off /\ status = Off /\ answer = Off
    \/ /\ panel = "discovery" /\ D!Init /\ OthersOff
       /\ pc = Off /\ op = Off /\ calm = Off /\ todo = Off /\ status = Off /\ answer = Off

Next ==
    /\ UNCHANGED panel
    /\ \/ /\ panel = "listing" /\ E!Next
          /\ UNCHANGED <<containersOwn, llamaOwn, vaultOwn, supervisorOwn, systemOwn,
                         graphOwn, indexOwn, discoveryOwn, op, calm, events, todo, status,
                         fresh>>
       \/ /\ panel = "containers" /\ C!Next
          /\ UNCHANGED <<listingOwn, llamaOwn, vaultOwn, supervisorOwn, systemOwn, graphOwn,
                         indexOwn, discoveryOwn, op, todo, status, fresh, answer>>
       \/ /\ panel = "llama" /\ L!Next
          /\ UNCHANGED <<listingOwn, containersOwn, vaultOwn, supervisorOwn, systemOwn,
                         graphOwn, indexOwn, discoveryOwn, calm, events, fresh, answer>>
       \/ /\ panel = "vault" /\ V!Next
          /\ UNCHANGED <<listingOwn, containersOwn, llamaOwn, supervisorOwn, systemOwn,
                         graphOwn, indexOwn, discoveryOwn, events, todo, status, fresh,
                         answer>>
       \/ /\ panel = "supervisor" /\ P!Next
          /\ UNCHANGED <<listingOwn, containersOwn, llamaOwn, vaultOwn, systemOwn, graphOwn,
                         indexOwn, discoveryOwn, todo, fresh, answer>>
       \/ /\ panel = "system" /\ S!Next
          /\ UNCHANGED <<listingOwn, containersOwn, llamaOwn, vaultOwn, supervisorOwn,
                         graphOwn, indexOwn, discoveryOwn, todo, status, fresh, answer>>
       \/ /\ panel = "graph" /\ G!Next
          /\ UNCHANGED <<listingOwn, containersOwn, llamaOwn, vaultOwn, supervisorOwn,
                         systemOwn, indexOwn, discoveryOwn, pc, op, calm, todo, status,
                         fresh>>
       \/ /\ panel = "index" /\ I!Next
          /\ UNCHANGED <<listingOwn, containersOwn, llamaOwn, vaultOwn, supervisorOwn,
                         systemOwn, graphOwn, discoveryOwn, op, calm, status, answer>>
       \/ /\ panel = "discovery" /\ D!Next
          /\ UNCHANGED <<listingOwn, containersOwn, llamaOwn, vaultOwn, supervisorOwn,
                         systemOwn, graphOwn, indexOwn, pc, op, calm, todo, status, answer>>

Spec == Init /\ [][Next]_vars

-----------------------------------------------------------------------------
(* The types, and the properties of each panel as its module states them.  *)

TypeOK ==
    /\ panel = "listing" => E!TypeOK
    /\ panel = "containers" => C!TypeOK
    /\ panel = "llama" => L!TypeOK
    /\ panel = "vault" => V!TypeOK
    /\ panel = "supervisor" => P!TypeOK
    /\ panel = "system" => S!TypeOK
    /\ panel = "graph" => G!TypeOK
    /\ panel = "index" => I!TypeOK
    /\ panel = "discovery" => D!TypeOK

(* A request is answered with the list it asked for while no other one     *)
(* filters the same array.                                                 *)
UnfilteredAnswers == panel = "listing" => E!UnfilteredAnswers

(* A request on a declared container acts on an entry of the name it was   *)
(* given, unless a refresh replaced the list just as it was found.         *)
ActsOnNamed == panel = "containers" => C!ActsOnNamed

(* What the services panel shows after an action is what was asked for.    *)
AnswerShown == panel = "containers" => C!AnswerShown

(* A drain says it is done only after it saw the server at rest, and       *)
(* touches the model it set out to drain.                                  *)
DrainHonest == panel = "llama" => L!DrainHonest

(* An allow or disallow has the effect its answer shows, and no other.     *)
MutationHolds == panel = "vault" => V!MutationHolds

(* The marks of the tree are what the vault would answer.                  *)
MarksMirror == panel = "vault" => V!MarksMirror

(* A start, stop or restart that is reported done is done.                 *)
ActionsHold == panel = "supervisor" => P!ActionsHold

(* A prune deletes nothing that its confirm modal did not cover.           *)
ConfirmCovers == panel = "system" => S!ConfirmCovers

(* The safe prune frees at least what was estimated.                       *)
EstimateHonest == panel = "system" => S!EstimateHonest

(* A diagnosis ends at a cause, and the blast radius of a cause holds what *)
(* it was found from.                                                      *)
CauseFound == panel = "graph" => G!CauseFound

(* The badge of an entity and its node in the graph agree.                 *)
BadgeAgrees == panel = "graph" => G!BadgeAgrees

(* What a scan lists can be read.                                          *)
IndexSound == panel = "index" => I!IndexSound

(* A source is listed once, and none is left out.                          *)
SourcesUnique == panel = "discovery" => D!SourcesUnique
=============================================================================
