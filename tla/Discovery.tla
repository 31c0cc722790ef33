----------------------------- MODULE Discovery -----------------------------
(***************************************************************************)
(* The discovery of sources (cmd/infra-mngmt/main.go and the containers    *)
(* internal/docker/client.go reads configuration from): the configuration  *)
(* directories of the home directory, the working directory and the extra  *)
(* paths, the volumes and bind mounts of devcontainers, and the            *)
(* directories of their projects and of those projects' neighbours.  It is *)
(* done at startup and again on POST /api/sources/rescan.                  *)
(*                                                                         *)
(* A host directory is the sequence of its components; a source's ID is    *)
(* <<"host", directory>> or <<"vol", volume>>.                             *)
(***************************************************************************)
EXTENDS Naturals, FiniteSets, Sequences, SequencesExt, Sieve

CONSTANTS
    Home, Cwd,       \* host directories
    ExtraPaths,      \* config.ExtraPaths: a sequence of them
    HostDirs,        \* the host directories that exist
    ConfigDirNames,  \* configDirNames
    Shapes,          \* what containers may look like: [labels, root, folder, mount, vol]
    MaxContainers,   \* bound: containers of the Docker host
    MaxEvents        \* bound: changes of containers and directories

Labels == <<"devcontainer.local_folder", "devcontaine.local_folder", "claude.managed">>

(* What the constants are assumed to be: labels that discovery does not    *)
(* ask for are left out, and no project is the root directory.             *)
Assumptions ==
    /\ ExtraPaths \in Seq(HostDirs) /\ {Home, Cwd} \subseteq HostDirs
    /\ IsFiniteSet(HostDirs)
    /\ \A c \in Shapes :
        /\ c.labels \subseteq ToSet(Labels)
        /\ c.mount.type = "bind" => Front(c.mount.at) # <<>>
    /\ MaxContainers \in Nat /\ MaxEvents \in Nat

VARIABLES
    dirs,      \* the configuration directories that exist
    ctrs,      \* the containers, in the order Docker lists them
    client,    \* the Docker client: "none" before the first discovery
    sources,   \* s.sources: [id, scope, by] records
    fresh,     \* history: nothing changed since they were discovered, and all was read
    events     \* bound: changes

vars == <<dirs, ctrs, client, sources, fresh, events>>

None == <<>>
Global == [global |-> TRUE, project |-> None]
ProjectScope(root) == [global |-> FALSE, project |-> root]
Parent(d) == Front(d)
ConfigDirs(root) == {Append(root, n) : n \in ConfigDirNames}

Init ==
    /\ dirs \in SUBSET UNION {ConfigDirs(d) : d \in HostDirs}
    /\ ctrs = <<>>
    /\ client = "none"
    /\ sources = {}
    /\ fresh = FALSE
    /\ events = 0

-----------------------------------------------------------------------------
(* ListManaged: the containers of each label in turn, each container once. *)
(* A listing that fails, of those in `lost`, is passed over.               *)
Listed(i, lost) ==
    {c \in Shapes : Labels[i] \in c.labels \ lost /\ \A j \in 1 .. i - 1 : Labels[j] \notin c.labels \ lost}

ListManaged(lost) ==
    Sieved(ctrs, Listed(1, lost)) \o Sieved(ctrs, Listed(2, lost)) \o Sieved(ctrs, Listed(3, lost))

(* normalizeDevcontainerPath: a UNC path into WSL becomes the path there,  *)
(* a Windows path stays one, under which Linux finds nothing.              *)
normalizeDevcontainerPath(folder) == IF folder.form = "windows" THEN <<"C:">> ELSE folder.path

(* toManaged and ListManaged: the mount configuration is read from, and    *)
(* the project root: of the explicit label, of the bind mount, of the      *)
(* devcontainer's label, in this order.                                    *)
ConfigMount(c) ==
    IF c.mount.type \in {"volume", "bind"} THEN c.mount
    ELSE [type |-> IF c.vol = None THEN "none" ELSE "volume", at |-> c.vol]

ProjectRoot(c, lost) ==
    IF c.root # None THEN c.root
    ELSE IF c.mount.type = "bind" THEN Parent(c.mount.at)
    ELSE IF {Labels[1], Labels[2]} \cap (c.labels \ lost) # {} /\ c.folder.path # None
         THEN normalizeDevcontainerPath(c.folder)
    ELSE None

(* discoverDockerSources: the roots and the sources of those that have one. *)
projectRoots(lost) ==
    LET rooted == Sieved(ListManaged(lost), {c \in Shapes : ProjectRoot(c, lost) # None})
    IN [i \in DOMAIN rooted |-> ProjectRoot(rooted[i], lost)]

dockerSource(c, lost) ==
    [id |-> <<IF ConfigMount(c).type = "volume" THEN "vol" ELSE "host", ConfigMount(c).at>>,
     scope |-> IF ProjectRoot(c, lost) = None THEN Global ELSE ProjectScope(ProjectRoot(c, lost)),
     by |-> "docker"]
dockerSources(lost) ==
    LET mounted == Sieved(ListManaged(lost), {c \in Shapes : ConfigMount(c).type # "none"})
    IN [i \in DOMAIN mounted |-> dockerSource(mounted[i], lost)]

(* workspaceDirs and the projects in them. *)
siblings(lost) ==
    LET parents == {Parent(r) : r \in ToSet(projectRoots(lost))} \ {None}
    IN SetToSeq({d \in HostDirs : Parent(d) \in parents})

-----------------------------------------------------------------------------
(* The sources found first under each of their IDs. *)
Firsts(list) == {list[i] : i \in {j \in DOMAIN list : \A k \in 1 .. j - 1 : list[k].id # list[j].id}}

(* addHostFS for every configuration directory of the roots that exists;   *)
(* only the first root, the home directory, is not a project's.            *)
Under(roots) == {p \in (DOMAIN roots) \X dirs : p[2] \in ConfigDirs(roots[p[1]])}
hostSource(roots, p) ==
    [id |-> <<"host", p[2]>>, by |-> "host",
     scope |-> IF p[1] = 1 THEN Global ELSE ProjectScope(roots[p[1]])]

(* Mutant of hostSources: what one root led to is added again for another. *)
hostSourcesUnseen(roots) == {hostSource(roots, p) : p \in Under(roots)}

hostSources(roots) ==
    {hostSource(roots, p) : p \in {q \in Under(roots) : \A o \in Under(roots) : o[2] = q[2] => q[1] <= o[1]}}

Roots(lost) == <<Home, Cwd>> \o ExtraPaths \o projectRoots(lost) \o siblings(lost)

(* `seen` knows host directories by their path and the sources of Docker   *)
(* by their ID: the two never meet.                                        *)
discovered(lost) == hostSources(Roots(lost)) \cup Firsts(dockerSources(lost))

(* discoverSources.  Without a client, and none to be made, Docker is left *)
(* out; a client is kept and used again.                                   *)
Discover ==
    /\ \/ /\ client = "none"
          /\ sources' = hostSources(<<Home, Cwd>> \o ExtraPaths)
          /\ fresh' = FALSE
          /\ UNCHANGED client
       \/ \E lost \in SUBSET ToSet(Labels) :
            /\ sources' = discovered(lost)
            /\ fresh' = (lost = {})
            /\ client' = "open"
    /\ UNCHANGED <<dirs, ctrs, events>>

(* Containers and configuration directories come and go. *)
Change ==
    /\ events < MaxEvents
    /\ events' = events + 1
    /\ fresh' = FALSE
    /\ \/ /\ Len(ctrs) < MaxContainers
          /\ \E c \in Shapes : ctrs' = Append(ctrs, c)
          /\ UNCHANGED dirs
       \/ /\ ctrs # <<>> /\ ctrs' = Tail(ctrs)
          /\ UNCHANGED dirs
       \/ /\ \E d \in UNION {ConfigDirs(h) : h \in HostDirs} :
                dirs' = IF d \in dirs THEN dirs \ {d} ELSE dirs \cup {d}
          /\ UNCHANGED ctrs
    /\ UNCHANGED <<client, sources>>

Next == Discover \/ Change

Spec == Init /\ [][Next]_vars

-----------------------------------------------------------------------------
TypeOK ==
    /\ dirs \subseteq UNION {ConfigDirs(d) : d \in HostDirs}
    /\ ToSet(ctrs) \subseteq Shapes
    /\ \A s \in sources : s.by \in {"host", "docker"} /\ s.id[1] \in {"host", "vol"}

(* However the roots overlap, a source is listed once; the one exception   *)
(* is a bind mount of a directory that discovery also found by itself,     *)
(* which its project root makes it look for.  And after a discovery that   *)
(* read everything nothing is left out: of a project whose configuration   *)
(* is bound into a container, unless a label names another root, and of    *)
(* its neighbours, unless that is the whole machine, each configuration    *)
(* directory is a source, as are those of the home directory, whose scope  *)
(* is the global one.                                                      *)
Bound(c) == c.labels # {} /\ c.mount.type = "bind" /\ c.root = None
Around(project) ==
    {project} \cup {d \in HostDirs : Parent(d) = Parent(project) /\ Parent(d) # None}

SourcesUnique ==
    /\ \A s, t \in sources : (s.id = t.id /\ s # t) => s.by # t.by /\ s.id[1] = "host"
    /\ fresh =>
        /\ \A d \in ConfigDirs(Home) \cap dirs :
            \E s \in sources : s = [id |-> <<"host", d>>, by |-> "host", scope |-> Global]
        /\ \A i \in DOMAIN ctrs : Bound(ctrs[i]) =>
            \A root \in Around(Parent(ctrs[i].mount.at)) :
                \A d \in ConfigDirs(root) \cap dirs : \E s \in sources : s.id = <<"host", d>>
=============================================================================
