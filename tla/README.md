# TLA+ models of infra-mngmt

infra-mngmt is a small Go server (`cmd/infra-mngmt`, `internal/`) with a web
UI.  It shows and edits the configuration entities of coding agents (skills,
memories, hooks, settings) found in host directories and in Docker volumes, and
it controls what such a machine runs: process-compose instances, network
bridges between Windows and WSL, containers, llama.cpp servers, vaults.

The server has no database.  Its state is what it caches of the world, a few
locked lists, and files and external tools it changes step by step.  Nearly all
of its hard behaviour comes from that: handlers interleave between a look at
the world and a change of it, scans outlive invalidations, scripts stop half
way, and the command line does the same work without sharing any lock.

This directory holds the models, the TLC configurations that check them, and
the TLAPS proofs.  `PROJECT.json` lists the runs, the mutants (for every checked
property, a plausible bug of the code that breaks it), the source lines behind
each definition, the hazards and the findings.

    tlc -config MCBridges.cfg MCBridges        # one run
    tlapm BridgesProofs.tla                    # one proof module

## Inventory

State, operations and interactions of each part; *hard* is what a test hardly
reaches, *correct* what should hold.

| Part | State | Operations | Hard | Correct |
|---|---|---|---|---|
| **Entity cache** `web/handlers.go:1455-1546` | `entityCache` {entries, fetchAt, singleflight}, `s.sources` | list, read, write, promote, refresh, rescan, warm-up | a scan overtaken by an invalidation; leader and waiters; concurrent rescans | bounded scans; a list as new as the last barrier; sources only grow; every waiter released |
| **Entity list responses** `web/handlers.go:84-101` | the array shared with the cache | filter by kind, encode | in-place filter beside other readers | each answer is what was asked for; the cache is not written |
| **Bridges** `web/bridges.go`, `main.go:108-535`, `bridge/` | `s.bridges` under `bridgesMu`, bridges.yaml, the fragment file, netsh rules, process-compose's definitions and processes | apply, pause, reset, refresh, list; the same from the command line | probe, script, write, reload and start are separate; partial scripts; process-compose down or old | each verb delivers when no rival disturbs it; the fragment is what process-compose knows |
| **Portproxy rules** `bridge/apply.go`, `state.go` | the netsh table, the adapter's address | two scripts, a parser, a comparison | families, sentinels, shared endpoints | parsing inverts printing; scripts and comparison agree |
| **Host directories** `source/hostfs.go` | files, `pathIndex`, settings.json | list, read, write, clear, write many | index rebuilt during reads; read-modify-write of one file; several files per key | what is read is what is written; no lost setting |
| **Docker volumes** `source/dockervol.go`, `docker/client.go` | volume content cache, sidecar containers | list, read, invalidate | a second cache with singleflight fills | as the entity cache |
| **Promotion** `web/promote.go` | the files of the target | check, claim, clear, write | check-then-act; rivals at every system call; failure between clear and write | create-only has one winner; a success is whole; other settings stay |
| **Sessions** `web/server.go:371-560` | sessions map, token, trusted networks | login, check, expire, logout | nothing: each operation is one map call | no access without a live credential |
| **Vaults** `web/vault.go`, `vault/client.go` | an allow list behind HTTP | allow, disallow, panel, tree | get, change, put without a lock; a put whose answer is lost | an answer is the effect; the marks are what the vault would answer |
| **process-compose** `compose/` | instances, tokens, spawned children | probe, start, stop, restart, reload | two starts of one instance; a token that changes | what an answer says of an instance is so |
| **Discovery** `main.go:856-1001`, `docker/client.go` | set of sources | scan homes, projects, containers | one directory seen by several ways | listed once, none left out |
| **Dependency graph** `graph/`, `deps/`, `web/status.go` | the probes of one status cycle | gather, resolve, graph, diagnose, blast radius | badge and graph worked out apart; offline and missing together | they agree; a diagnosis ends at a cause |
| **Declared containers** `web/containers.go`, `containers/`, `docker/compose.go` | declarations, runtime state | start, stop, refresh, panel | declarations replaced without the lock during a walk | the named container is acted on and shown as it is |
| **llama.cpp** `web/llama.go`, `llama/` | the server's models and slots | drain, load, unload, card | drain against new tasks and another model; its cap | drained, or told why not |
| **System disk panel** `web/system.go`, `system/`, `docker/df.go`, `podman/` | one reading of an engine | confirm modal, prune, remove | the reading is stale; partial failures | nothing deleted that the modal did not cover |
| **Wake proxy, browser** `cmd/wake-proxy`, `static/js`, `static/sw.js` | the wake island of a tab, worker caches | ping, wake, reload, install, activate | overlapping async calls, timeouts, a machine that stops any time | the tab comes back; a hidden one is silent; the offline page stays |

The parts meet in few places.  Every page is built from the entity list, so
all handlers go through the cache; promotion and entity writes invalidate it;
rescan runs discovery and extends the source list the scan reads.  The graph
reads the bridges and the containers.  Bridges drive process-compose through its
REST client, and Windows through PowerShell; the command line shares with
the server only the files and those tools.

## Modules

| Module | Models | Checked by |
|---|---|---|
| `EntityCache` | the cache, its scan, and every request that touches it | `EntityCache` |
| `EntityCacheRefresh` | the same with the promise of an invalidation as history | `EntityCacheRefresh` (violation) |
| `EntityCacheProofs` | inductive invariant and theorems | tlapm |
| `Bridges` | requests, the loaded list, both tiers, process-compose | `Bridges`, `BridgesWeb` |
| `BridgesProofs` | types, the fragment, and what apply, pause and reset deliver | tlapm |
| `Portproxy` | the rule table, scripts, parser, comparison | `Portproxy` |
| `PortproxyProofs` | types, the parser, and what scripts and comparison make of any table | tlapm |
| `Promote` | promotes and entity writes into one directory, call by call | `Promote`, `PromoteScalars` (violation) |
| `PromoteProofs` | types, winners, deliveries and settings | tlapm |
| `VolumeMemo` | abstract: what the Docker client promises of a volume's contents | refined by `VolumeCache` |
| `VolumeCache` | the client's caches, singleflight, exec and sidecar | `VolumeCache` |
| `VolumeCacheProofs` | types, one fetch per key, and that it implements the memo | tlapm |
| `Wake` | a tab, its service worker, the proxy and the machine | `Wake`, `WakeSilence` (violation) |
| `WakeProofs` | types and the offline page | tlapm |
| `Panels` | the sum of the nine modules below | `Panels` |
| `PanelsProofs` | recursion on the naturals, filters of sequences, and an inductive invariant for each panel of requests | tlapm |
| `InfrastructureProofs` | the same for the graph, the estimate of a prune and discovery; the types of all panels | tlapm |
| `Sieve` | a helper of `EntityListing` and `Discovery`: the filtering of a sequence, step by step | with them |
| `EntityListing` | one cached list, element by element | `Panels`, `EntityListingContract` (violation) |
| `Workloads` | declared containers | `Panels` |
| `Llama` | a llama-server and its drain | `Panels` |
| `Vault` | an allow list and its tree | `Panels` |
| `Supervisor` | a process-compose instance and its two clients | `Panels` |
| `SystemPanel` | an engine's disk, its modals and prunes | `Panels` |
| `DepGraph` | a status cycle, the resolver and the graph | `Panels` |
| `PathIndex` | the index of a source, scans and reads | `Panels` |
| `Discovery` | the discovery of sources | `Panels` |
| `MC...` | instances for TLC | |

### EntityCache

A *list* is abstracted to what freshness depends on: the sources its scan
visited, those that failed, and the version of each directory that was read.
`cached` and `fresh` are `entries` and "younger than the TTL"; `flight`, `result`
are the singleflight call, with its key `"all"`; `scan` is `scanAllSources`
between its snapshot of the sources and the last source's answer.  A request
moves through `pc`: `lookup` (first `cachedEntities`), `join` (`group.Do`), `wait`,
or, as leader, `recheck`, `snapshot`, `scan`, `leave`; then `have`, where a reader
responds and a writer (`PUT /api/entity`, promote) changes a source and invalidates,
or fails half way and does not.  A rescan is `Discover` (outside any lock), `Merge`
(under `sourcesMu`) and, if something was added, `Invalidate`.  Time is one
action, `Expire`.  `Edit` is anybody else who edits a source's directory.

* `ScanBudget`: at most one scan per lapse of the cache plus the first.  This is what
  the singleflight and the second look at the cache inside it are for.
* `BarrierVisible`: an invalidation, or an expiry, that finds no scan in
  flight is a barrier; a request that begins later holds a list that reflects
  every source known then, as it was then or later, unless its read failed.
* `SourcesKept`: no step drops a source, although discovery runs unlocked.
* `Answered`: every request ends (weak fairness of each request's steps: goroutines
  are scheduled, and every source call returns or times out).
* `RefreshVisible` is what the tests expect of an invalidation: the next request
  sees the sources as they are now.  It fails when a scan is in flight.

Bounds: two requests, each reused; two sources, of which one is known at startup and
the other is empty; two scans after which no request begins; one lapse; one change per
source; at most one failing read.  A stale list needs one scan, one lapse and one
change; an excess scan needs a second request behind the leader; a lost source
needs two rescans.  The theorems below hold for any number of each.

### Bridges

Requests are web handlers or commands (`Cli`).  Both take the steps of `applyBridges`,
`pauseBridges`, `resetBridges`: probe the rules, one elevated script, snapshot of
the list, write of the fragment, reload, and one start or stop per relay.  A command
reads bridges.yaml when it starts and holds no lock; a handler reads `loaded` under
`bridgesMu`, and ends by rendering the views under its write lock.
A rule is `absent`, `drifted` or `installed` (what `Portproxy` refines).
`Reconciles` is whether this version of process-compose drops definitions on a reload:
the comment of `Client.Reload` says it varies, so both are checked.

The user may decline the prompt, which ends the request (`Decline`). A script that was
elevated and then stops inside, or a netsh call of it that fails, does not: its error stays in
the elevated session (`runner.go:131-134`), so the request goes on to the fragment and answers
as if every rule was done (`ScriptStops`; of the rules it did not come to some may be deleted
and not yet added again, `need` keeps which). A call to
process-compose may fail although it is up, and fails while it is down;
`Crash` and `Boot` restart it from the file; `Tamper` and `EditFile` change the
world.  The failures are bounded by `MaxFails`, the events by `MaxEvents` (`Boot` is
not counted: one follows each `Crash`), requests by `MaxRequests`.

"A request delivers" is stated for requests in `claims`: those beside which, from
beginning to end, only requests ran that do not work against them (applies from the
same list beside an apply, pauses beside a pause, polls) and nothing outside
happened. *The same list* (`SameList`) is more than that bridges.yaml and the loaded list are
as they were: a rival apply that has rendered its fragment from an older list, and is about to
write it, will drop what this one declares.  Without that no request could promise anything: nothing keeps
a reset from overtaking an apply.  `ApplyDelivers` and `RemovalDelivers` (pause
and reset) say that what the verb stands for has been done by the
time of the response, whatever the stale probe let it skip and in whatever order
two fragments were written and reloaded - but for rules that the request's own script stopped
before, of which it does not know; the relays are as asked for even then.  `FragmentIsRead` has no such
condition: when no reload is pending and none was lost since the last that worked,
process-compose knows every relay of the fragment.

`Handled` needs strong fairness of each request's steps: Go's RWMutex hands itself to
every waiter eventually, though others may come and go; scripts end when the user
answers the prompt (there is no timeout), HTTP calls time out.

Bounds: one Windows bridge and two relays, of which one is not yet declared at startup; targets
a single relay, a composite with a member in each tier, and all; three requests over two web
handlers (which are symmetric) and a command, one outside event and one failure. `BridgesWeb`,
which is about liveness, has the web handlers only and no event. Three requests are what a
disturbance of two concurrent ones takes after a first one has set things up; an older list in
the hands of a rival takes two handlers and an edit besides. With one Windows bridge a script
does all, nothing, or the deletion of its rule; that several rules may be done in part is
covered by the proof.

Assumed: `bridges_compose_file` is set, and an instance is colocated (otherwise
all calls fail, which is included).  Not modelled: a relay's own exits and
restarts, `/process/start` and `/stop` of a relay by its name, and the states a view
shows.

### Portproxy

The table is a set of rules [type, listen, connect]; a script deletes both IPv4
types at the bridge's endpoint and, to apply, adds one.  `Show` prints a section per
type, and `ParsePortproxyShow` gives each row the type of the section it is in: its
result keeps the numbers of the lines, since only the order of the entries matters.
`Compare` and `Status` are `ComparePortproxy` and `Status`, with whether
the listener answers a connect as an input.  The adapter's address (`hostIP`),
which `${wsl-host-ip}` stands for, may change or be missing.

`OperationsConverge`: after an apply every bridge that is alone on its endpoint is active,
whatever the probe skipped, so that a second apply asks for no elevation; after a pause
or a reset none of its bridges has a rule.
`BystandersKept`: no operation changes the status of a bridge it does not name.
`ParseRoundTrip`: the parser inverts the printer.

Bounds: two bridges, three declarations of both that differ in family, target and
listener and that collide or not as the adapter's address has it; one port, two
targets, two IPv4 addresses and a foreign IPv6 rule; two outside events.  The
operators look at endpoints and types only for equality, so two of each suffice.

### Promote

One target directory with a skill (`dir` and the files in `disk`), a single-file entity
(`disk[Note]`: command, agent, memory or CLAUDE.md) and `settings`, the one settings.json
whose keys are the blocks (MCP servers, hooks). A content is the request that wrote it, or
`prior`; `empty` is a file created or truncated and not yet written, `torn` a mixture of two
writers. Each `Request` serves one `HandlePromote` (entity, overwrite, mirror, files) or
`HandleEntityWrite`, and moves through `pc` one system call at a time: `check` is `Has`;
`claim` is `WriteFilesExcl`, with mkdir, O_EXCL or a second `Has`; `clear`, `wipe` are `Clear`
with `os.RemoveAll`; `write`, `open`, `body` are `WriteFiles`, in which `os.WriteFile` opens
(truncates) and then writes through its handle, which a removal by a rival turns into a handle
on nothing; `load`, `truncate`, `put` are the read-modify-write of settings.json by
`spliceSettings` and `clearSettingsKey`.

`OneWinner` has no proviso but that all requests for the entity are create-only: then
at most one succeeds, whatever interleaves or fails, and the entity is exactly its.
`ConflictHonoured`, `Delivered` and `SettingsKept` are about the requests in `claims`: no
other request was under way on the same file, and no read of settings.json failed
(`Has` takes such a failure for absence and `spliceSettings` for an empty document).
Nothing more could be promised for settings.json: no lock and no rename protects it.
`Scalars` says whether it has a top-level setting that is not an object, as most have.

Bounds: two requests, of any kind, on any of four entities, from every state of the target;
two blocks, for one to be the other's sibling; SKILL.md and one file more, for a skill to
be written and removed in part; one failure.  Not modelled: the files at the source
(another request's content is a content), CLAUDE.md and memories listed from other places than
the one a write goes to (`filePath`), blocks found in
settings.local.json, .claude.json or .mcp.json, edits by other programs.

### VolumeCache and VolumeMemo

`VolumeMemo` is the promise with no cache in sight: a caller asks for a key (the listing or
one file of a volume) and is answered with an error or a version of it, never older than what
any earlier call was answered with when it asked, nor than the last *barrier*. `VolumeCache`
is the client: `get` (`volumeCacheGet`), `do` and `wait` (singleflight), `recheck`, then
`find` and `inspect` (the cached container, or one that is running now), `exec` or the
throwaway `sidecar`, `put`, `leave`. Entries expire, containers start, stop and vanish under
an exec (which evicts the cached container and tries a sidecar), every call may fail.

* `KeepsPromise` is `VolumeMemo!Spec` under the mapping of `key` to what is asked for and of
  `held`, once a caller is idle, to its answer: safety and liveness of the abstract
  specification. An invalidation is a barrier only for the keys not in flight, since a fetch
  under way is stored after it; hence the *set* in `VolumeMemo!Barrier`.
* `FetchOnMiss`: one fetch per key at a time, and none while the cache has an answer, whose
  proof lies in the second look of the leader and in who may put.

Bounds: two callers (a leader and one more, each reused), one volume with a listing and a
file, whose invalidation covers both, and one change of each. Fairness: each caller's steps,
as for the entity cache; execs and sidecars run under a context with a timeout.

### Panels

The panels share no state and no requests, and only invariants are checked of them, so
`Panels` is their sum: `panel` says which one a behaviour is of, and the others' variables are
`"off"`. A variable that several modules name (`pc`, `op`, `calm`) belongs to each in turn.
The sum reaches exactly the states of the nine modules by themselves, and the symmetry over
`Request` is sound for each. In all of them `calm` (or `clean`, `fresh`) is history: nothing
outside disturbed this request, without which it could promise nothing.

**Listing** (`EntityListing`).  The array of the entity cache is written and read one element at
a time, an element in two steps (`CopyId`, `CopyKind`), as a Go struct is.
`UnfilteredAnswers` is what does hold: requests that do not share the list with a
filtering one get what they asked for, and a filter alone compacts in place without
overtaking its own loop.  `ReadOnlyContract` is the comment of `cachedEntities`, which the
filter breaks.  Four entities of two kinds, alternating, so that a filter moves some.

**Containers** (`Workloads`). `arrays` are the lists loaded so far and `list` the current one.
A request walks them as `findContainerDecl` does: the length is read once, the element through
the field at every step, so a refresh in between may show it another list (or none: an index
beyond a shorter list ends in `panicked`). The element whose name was equal is read once more to
be returned (`Take`), by then perhaps of another list, which is `astray` (history). Then `branch`
on the mode, `compose` or `direct` Docker calls, `verify`, `render`. `ActsOnNamed`: whatever
refreshes run, the entry acted on was declared and has the name asked for, unless one of them
came just between these two reads. `AnswerShown`: an undisturbed request is answered
with a panel that shows its effect. Three versions of the file, which reorder the entries,
change a mode, drop an entry, and make one a project.

**Llama** (`Llama`). The drain identifies a model, polls slots, erases the busy ones, pauses
and polls again up to its cap; clients start tasks, load and unload between any two calls.
`DrainHonest`: it keeps to its bound, says *done* only after a poll that found nothing busy,
and cancels tasks of no other model. Two models, two slots, a cap of two.

**Vault** (`Vault`). Allow and disallow are get, change, put; a put may be carried out and its
answer lost. `MutationHolds`: the answer is the effect unless another list was put meanwhile,
and no interleaving allows a path nobody asked for. `MarksMirror`: the tree marks a directory
exactly as the vault's prefix check would. A chain of three directories and one the vault
refuses.

**Supervisor** (`Supervisor`). A start reads the token, assembles the extra files, spawns, and
pings with that token until the port answers; `spawned` children race for the port. The other
client keeps the token of the dashboard's start. `ActionsHold`: what an answer says of the
instance is so. Two tokens, so that the file may change under a start.

**Disk** (`SystemPanel`). A confirm modal is a reading of the engine, in which listings may be
lost; the prune is a later request of one or several calls. `ConfirmCovers`: nothing is
deleted that the modal did not count, apart from what the stopped containers of a prune of
everything held; `EstimateHonest`: the safe prune frees at least its estimate. One request
from each state of two images that share a layer, a container, a volume and a build record,
for Docker and podman.

**Graph** (`DepGraph`). The probes of the instances and of Docker run side by side, each with
a ping and a listing that may fail; when all are done, `Resolve` rates badges and
`BuildGraph`, apart from it, health. `BuildGraph` takes no lock and reads the state of a bridge
for its node and again for each need of it, while a request for the services panel may write the
states in place (`Rebuild`): `held` is what each bridge was since the build began, and `Answer`
takes any of it for each read (`drawn`, `reads`). An entity has *moved* if it was read another
state than its bridge's node. `CauseFound`: a diagnosis ends at a node that no
supplier's fault explains, and what it started from is in the blast radius of each step; an
entity in trouble that has not moved has a cause; one
unreachable tier is found as the cause. `BadgeAgrees`: the badge of an entity and its node say
the same, but for the node of one that moved, which may be in trouble alone. Every state of
three processes on two tiers, a bridge and a container; rules that overlap, and MCP servers
matched by name only; one bridge written anew while a graph is built, which is enough for two
reads to differ.

**Index** (`PathIndex`). A scan empties the index and fills it file by file, an assignment
taking two steps when the map may have been replaced; reads look in it with no lock. The
runtime ends the process when it sees two uses at once, which is `crashed`. `IndexSound`:
between scans each entry is a listed file under its own key, and an undisturbed read of a
listed entity finds a file of that name. Three files, two of which share a key; host directory
and volume.

**Discovery** (`Discovery`). A pure algorithm over a changing world: roots, containers with
labels, project roots, binds and volumes, deduplicated by ID in the order of the code.
`SourcesUnique`: each source is listed once (but for one exception, below) and, if all was
read, none is left out. Six shapes of container, two of them at a time, in any order, and up
to three changes.

Bounds: two concurrent requests of any kind and one outside event where requests are
concurrent, which is what each disturbance takes (a second request, or one change, between two
steps of the first).

### Wake

The tab's script (`wake.js`) has no lock: `pollOnce` and `runWake` are asynchronous, and
`wakeInProgress` is read before a ping and set after it. Each call under way is a `task`
(`ping`; `post`, `loop`, `wakePing`), so that a poll by the timer, one by `visibilitychange`
and a click may overlap, and they do. `page` is live, the shell from the service worker's
cache, or inert (no script); a `Load` is network first, and drops every task, as a page load
does. `Install` and `Activate` are the worker's, an install caching only what it can get, an
activation copying what the new cache misses before it deletes the old ones, or ended by the
browser in the middle. `Forwarded` is a wake that the proxy and process-compose pass on to
start the machine; `NotForwarded` one of their refusals.

* `Recovers`: a tab that stays visible and has its script brings the machine back, and clears
  its pill without a click, whatever timed out or overlapped.
* `PollsEnd`: in a tab that stays hidden wake.js falls silent, also when it was reloaded there
  and its timer runs; a wake under way goes on pinging to its end.
* `ShellKept`: no update of the worker loses what the tab could be served offline.
* `TypeOK` has, beside the types, that `wakeInProgress` and an active pill imply a wake under
  way.
* `GoesSilent`, the comment of wake.js about the whole page, fails (`WakeSilence`).

Fairness: timers fire, fetches end (4 s timeouts; the POST by the proxy's), loads end, a
machine that boots comes up: weak. That the proxy forwards a wake sooner or later, if asked
again and again, is the one strong assumption; without it nobody starts the machine. A tick
waits for pings to end because they last 4 s and the timer 30 s. Bounds: two tasks, two rounds
of a wake, two worker versions (one update), two faults (stops and slow pings), three gestures
(hide, show, reload, click). Gestures and faults must be finite for the tab to come to rest;
tasks could be three only with more gestures within one ping.

## Proofs

All theorems hold for every value of the constants that satisfies the named `ASSUME`s
(sets are disjoint where needed, bounds are naturals, `"shell"` is no request of
process-compose, `NoEntry` no entry, the tiers are `windows` and `wsl`, entities have IDs of
their own; `Order` lists every bridge, a source has some key, `NoImage` is no image, labels
discovery does not ask for are left out). Finiteness is assumed where sizes or rounds are
counted, of what a few files, processes, images or directories are: the graph, the disk and
the host directories of discovery. Each follows from an inductive invariant, along the usual
three facts: it holds initially, each action preserves it, and it implies the property.

`EntityCacheProofs`

* `TypeCorrect`: `Spec => []TypeOK`, which has, beside the types, that a request is in the
  leading steps just when the flight is its own, and that who waits has a flight to wait for.
* `ScansArePaidFor`: `Spec => []ScanBudget`.  The budget is not inductive: between the
  leader's second look and its snapshot, the scan it is about to count must already be
  paid for.  The invariant has the leader unique, the cache cold while it leads a scan, and
  the budget one lower at those steps.
* `BarriersAreVisible`: `Spec => []BarrierVisible`.  Each place a list lives in (the cache
  while fresh, the scan, the result of the flight, a request) reflects the last
  barrier, since a barrier is only recorded when there is neither scan nor result.
* `SourcesGrow`: `Spec => SourcesKept`.

`BridgesProofs`

* `TypeCorrect`: `Spec => []TypeOK`, with `running` a subset of the definitions.
* `FragmentIsAuthoritative`: `Spec => []FragmentIsRead`.  With the types it is
  inductive: every writer of the fragment is at `reload` afterwards, and every step
  that changes the definitions reads the fragment of that moment.
* `ApplyKeepsItsWord`, `RemovalKeepsItsWord`: `Spec => []ApplyDelivers` and
  `Spec => []RemovalDelivers`. `Shaped` says what a request at each step has in its hands;
  `Peaceful`, of any two requests of which one claims, that the other does nothing against it,
  whatever it has rendered and not yet written; `Undisturbed`, step by step, what a claiming
  request has achieved so far. Most of the proof is that the step of a peaceful rival harms
  none of it. It was this proof that showed the condition on older lists to be missing from
  the claims of an earlier form of the module. What a script has done in part is in it as
  `need`: of the selected rules, all but those are as the verb wants them.

`PromoteProofs`

* `TypeCorrect`: `Spec => []TypeOK`.
* `CreateOnlyWinner`: `Spec => []OneWinner`. The invariant says who has passed the exclusive
  call on a target, that nobody else is past it, and what it has written of it so far.
* `SuccessDelivers`, `SiblingsPreserved`: `Spec => []Delivered` and `Spec => []SettingsKept`,
  from what a request in `claims` finds in its target at each of its system calls (`SkillInv`,
  `FileInv`, `BlockInv`), while no other request is under way there (`AloneInv`).
* `NoSilentOverwrite`: `Scalars = FALSE` implies `Spec => []ConflictHonoured`. The hypothesis
  is what separates the code's promise from the third finding below, which refutes the
  property for `Scalars = TRUE`.

`VolumeCacheProofs`

* `TypeCorrect`, `OneFetch`: `Spec => []TypeOK` and `Spec => []FetchOnMiss`.
* `ImplementsMemo`: `Spec => Memo!Promise`, the abstract specification without its liveness
  (`VolumeMemo!Promise` is its `Init` and its steps), every step of the client being a step of
  the memo or a stutter. What a caller is given is new enough, because the cache, the flight
  and each fetch hold nothing older than the floor of those who may be given it, and nothing
  newer than the disk.

`WakeProofs`

* `TypeCorrect`: `Spec => []TypeOK`, with `wakeInProgress` and an active pill implying a wake
  under way, however ticks, clicks and reloads overlap.
* `ShellSurvives`: `Spec => []ShellKept`. A version that is neither active nor waiting has
  cached nothing yet, so an install overwrites nothing.

`PanelsProofs`, one section per panel. `Spec` of `Panels` never changes `panel`, so an
invariant of one panel is an invariant of the sum.

* `VaultMutations` (`MutationHolds`), `DrainsAreHonest` (`DrainHonest`), `ListedIsReadable`
  (`IndexSound`), `AnswersHold` (`ActionsHold`), `NamedEntryOnly` (`ActsOnNamed`),
  `ShownAsAsked` (`AnswerShown`), `ModalIsKept` (`ConfirmCovers`): the invariants say of each
  step of a request what it knows by then, and that of the world only while nothing disturbed
  it. `ModalIsKept` also needs which calls of the prune are still to come, and that what they
  may take is among what the modal spoke of, or was released by what they took before.
* `AnsweredAsAsked` (`UnfilteredAnswers`): while nobody else filters, the array of a request
  that does is in two parts (`Compacted`): up to what it has kept, the elements of its kind
  among those its loop has seen, and from where the loop is, the stored list. That `kept`
  stays below `next` is what keeps the write behind the read.
* `MarksAreTheVaults` (`MarksMirror`): by induction on the components of a path the climb of
  `closestAllowedAncestor` ends at the longest allowed prefix, or at none (`Climbs`).
* What a recursion defines is proved once: from the least element of a set of naturals follow
  induction in the form of sets (`SetInduction`) and that there is a function for every
  recursion on the naturals (`RecursionExists`, `StepsExist`). From it, what a filter keeps
  (`SieveHas`); `Sieve` is written as a function for that reason, since the provers know
  nothing of `SelectSeq`.
* The types of the single panels (`LlamaInv`, `SupervisorInv`, `KeyInv`, `WalkInv`) are the
  part of `PanelsType`, below, that is about requests.

`InfrastructureProofs`

* `BadgesAgree` (`BadgeAgrees`): the badge comes from the worst of an entity's refs and its
  node from the worst of its suppliers. `RefsRated`: a ref rated OK points at a node that was
  observed and is sound, one rated Offline says that no tier answered; then `Worst` compares
  the two maxima, and `EntityHealth` finds the entity's node in the graph. All of it is about
  any two readings of the bridges (`drawn`, `reads`), which agree for what has not moved.
* `CauseIsFound` (`CauseFound`): the inductive invariant is `Shape`, which says what the graph
  of an answer looks like: finite, edges only from entities to suppliers and from services to
  their instances, the instance of an unreachable tier bad, and below every entity in trouble
  that has not moved a supplier in trouble (`RefsBlamed`, `WorstIsBad`). In a graph of that shape a diagnosis has
  at most three nodes (`Diagnoses`), and the search of a blast radius has found an entity
  after two rounds (`Blasts`); both take as many rounds as there are nodes, which is enough
  (`Room`). That the constants are finite is assumed (`Assumptions`): they are what a few
  files and processes declare. The shape is also what the argument is limited to: the code
  would cope with deeper graphs, but builds none.
* `SafeEstimate` (`EstimateHonest`): the sum of the sizes of sets that have nothing in common
  is the size of their union (`SumIsSize`, by induction on the sum's definition), so the
  unique layers of the dangling images are layers that the footprint loses with them
  (`UniqueIsFreed`). The invariant (`Due`) says before each call of a safe prune that what the
  modal promised is covered by what was freed so far and what the calls to come will find.
* `SourcesFound` (`SourcesUnique`): each root finds a directory for the first time or finds it
  listed, which makes host directories unique (`HostsOnce`) and complete (`RootsFound`,
  `AllFound`). The proof found a case TLC's small worlds lack: a project whose parent is the
  root directory gets no neighbours (`main.go:994`), and the property now says so.
* `PanelsType` (`TypeOK` of `Panels`): needs of the disk that no call deletes an image that a
  container holds (`HoldInv`), and of the other panels their invariants.

`PortproxyProofs`

* `TypeCorrect`, `RoundTrip`, `Converge`, `OthersKept`: `Spec => []TypeOK`,
  `[]ParseRoundTrip`, `[]OperationsConverge` and `BystandersKept`. First, what the parser
  reads of a printed table is the table (`TableRead`: the last header above a row is that of
  its section), with the rules of type v4tov4 before the others of an endpoint, so that
  `Status` is a function of the rules at the endpoint (`Verdict`, `StatusIs`). Then, what a
  script makes of the table (`ApplyIs`, `RemoveIs`, by induction on the order of the bridges):
  what none of its bridges deletes, and the rules that no later one deletes again. Hence
  `ApplyEffect` and `RemoveEffect`: one rule at the endpoint of a bridge that is alone, none
  at that of a removed one, and other endpoints as they were. The invariant has, beside the
  types, that the table is a finite function of type and endpoint, and that the bridges of
  the last operation have the verdict it promises.

Left to TLC for good is liveness: `Answered`, `Handled`, `Recovers`, `PollsEnd`, and the
fairness part of `KeepsPromise`. Every safety invariant that the passing runs check, and both
safety properties of steps, are theorems.

## Findings

Each has a run that shows it:

1. A filtered listing rewrites the cached list (`EntityListingContract`).
2. A scan in flight survives an invalidation: its list is served as fresh for 30 s
   (`EntityCacheRefresh`).
3. With a top-level scalar in settings.json a listed block is not found, and is overwritten by
   a promote without overwrite (`PromoteScalars`).
4. A hidden tab asks for `/api/version` every 30 s (`app.js:709`), although wake.js:14-15
   promises silence (`WakeSilence`). The services partials poll every 8 s besides
   (`services.html.tmpl:40`).

Met while modelling, in the actions as the code has them, with no run of their own:

* A pause removes netsh rules and asks for elevation (`bridges.go:405`; the comment at 361-362
  and `main.go:53` say otherwise). A reset of one relay renders every other loaded bridge, and
  starts those (`bridges.go:624`; 389-390 says it only removes). Family auto does not match a
  v4tov6 rule (`state.go:177`; 158-159 says either).
* Two refreshes of bridges.yaml may install the older read.
* `findContainerDecl` walks off the end when a refresh shortens the list, and may return
  another declaration than the one whose name it compared, although 459-461 says it "returns the
  matching declaration".
* An apply, pause or reset whose elevated script fails inside answers as if it had worked.
* A write goes by kind and name to the conventional path (`hostfs.go:488-520`), whichever file
  was listed and read: a PUT of a listed auto-memory makes a second file in `memory/`, one of a
  CLAUDE.md listed from elsewhere another CLAUDE.md.
* A bridge state is read twice, unlocked, while a graph is built: an entity may be in trouble
  with no cause in the graph.
* A request cancelled while it leads a scan leaves the waiters, and the cache for 30 s, a list
  without the sources that gave up on it.
* A drain on a single-model llama-server, which lists models without a status, panics.
* Two starts of one instance may spawn two supervisors; the dashboard's own client keeps the
  token of its start; a Windows instance whose paths are converted is started without the
  fragment.
* Docker: layers that an active image shares are counted as reclaimable of all unused images;
  paused containers are counted as stopped and not pruned. podman: volumes have size 0, so
  that their prune always has nothing to do; if its `ps` fails, every volume looks unused and
  the modal for everything omits the stopped containers. The modal of a prune of everything
  does not count what only the removed containers held.
* Graph: a service that one tier offers while it is offline and another is online is rated
  missing; a failed process list after a good ping makes its services look missing.
* Discovery lists a bind-mounted directory that exists on the host twice, with one ID; a
  failed listing of one label loses its sources.
* Two memories of one name in two projects share a key of the index (`hostfs.go:35-37` says it
  is unique); concurrent uses of its map can end the process.
* Wakes overlap; a wake under way pings from a hidden tab for up to 90 s; a page loaded in the
  background runs its timer and polls only at its next tick when shown; a shell page whose
  first ping is answered stays displayed.

## Not modelled

* *Sessions*: a login adds, a logout or a late check deletes an entry of a sync.Map, in one
  call each, and nothing uses an entry after it was looked up: no order of steps matters.
* *Container controls of a project* (`handlers.go:835-1442`): one Docker call and an answer,
  or a program that is launched and forgotten; the event stream forwards. *Open Design
  statistics*: read and rendered.
* *Templates, icons, formatting*: no state.
* Of modelled components: contents of entities, wording of errors and logs, HTTP status codes;
  the firewall half of the netsh scripts, IPv6 listeners, netsh in another language than
  English (whose headers the parser would not recognise); the listing of MCP servers and hooks
  out of settings.json; the states a bridge view shows, a relay started or stopped by its
  name, a relay's own exits; llama metrics; drives and distros beside an engine's disk; the
  proxy's lists of hosts, origins and routes, whose checks refuse a request (`NotForwarded`)
  and change nothing; redeployments of the dashboard, so that the `stale` flag of
  `checkVersion` never ends its interval.

## Limits

The model is as wide as the code is worth, and its safety is proved. What remains checked only
on small instances is liveness, which is out of the reach of the provers, and the four runs
that show the code to differ from its comments, of which a counterexample says all. Beyond the
proofs lies what the modules abstract from, listed above, and the bounds that the constants
keep also in the theorems: two tiers of process-compose, and the three labels of containers
that discovery asks for. `s.containerDecls` and `s.bridges` are each read as one value: a slice
header that another goroutine has half written, which the Go memory model would allow, is left
out. The bridges' names do not change while a graph is built (the new list of a refresh does not
reach the slice that `BuildGraph` was given), and the badges are made of the same gathering as
the graph, where the code has one for each.
