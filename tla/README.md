# A TLA+ verification of csi-hostpath

csi-hostpath is a Kubernetes CSI driver whose volumes and snapshots are
directories of a node. This directory holds TLA+ models of its state changing
code, TLC configurations that check them on small instances, and TLAPS proofs of
the main invariants for every instance. `PROJECT.json` maps each definition to the
lines it models and lists runs, mutants, findings, hazards and theorems. Line
numbers below are those of the modelled commit.

## 1. Inventory

### The parts

| Part | Code | State | Operations |
|---|---|---|---|
| Volume server | `pkg/server` | the directories of one volume group under `/opt/csi-hostpath`; no memory | `ListVol`, `CreateVol`, `CloneVol`, `CreateSnapshot`, `ExpandVol`, `RemoveVol`, `RemoveSnapshot` |
| Agent client | `pkg/client/grpc.go`, stubs in `pkg/lib/vol_grpc.pb.go` | a connection for each CSI call | `NewLvmClient` and `connect`, `GetVolume` (a `ListVol` and a search), one changing call, `Close` |
| Controller | `pkg/driver/controller.go` | listers' caches (nodes, PVCs, PVs), a clientset in a package variable | `CreateVolume`, `DeleteVolume`, `ControllerExpandVolume`, `CreateSnapshot`, `DeleteSnapshot`, `ListVolumes`, `ListSnapshots`, `ControllerGetVolume` |
| Group controller | `pkg/driver/group_controller.go` | the same caches | `CreateVolumeGroupSnapshot`, `DeleteVolumeGroupSnapshot` |
| Node agent | `pkg/driver/agent.go` | the node's mount table and the target directories | `NodePublishVolume`, `NodeUnpublishVolume`, `NodeExpandVolume`, `NodeGetVolumeStats` |
| Start and stop | `cmd/csi-plugin`, `pkg/driver/driver.go`, `pkg/driver/grpc.go`, `pkg/server/server.go`, `pkg/signals` | goroutines, stop channel, socket file, TCP ports | `run`, `New`, `Run`, `serve`, `Start`, `exposeMetrics`, `SetupSignalHandler` |
| Conversions | `pkg/lib/parser.go`, `pkg/driver/params.go`, `pkg/utils`, `pkg/response` | none | JSON and protobuf forms, parameters, response builders |
| Identity, configuration, metrics, version, charts | `pkg/driver/identity.go`, `pkg/config`, `pkg/version`, `deploy` | none | fixed answers |

### How they interact

A CSI sidecar (provisioner, resizer, snapshotter, health monitor) calls the
controller over a local socket. A handler looks the claim or the PV up in an
informer's cache to learn the node, looks that node's address up in another, dials
the agent there, asks it with `GetVolume` whether the name exists, and if it must
asks it to make or remove the name. The agent's volume server runs in the agent's
process; each gRPC call is a goroutine. The kubelet calls the same agent to
bind-mount `<vg>/<name>/mountpoint` onto a pod's target path. Sidecars and kubelet
repeat a call that failed or whose deadline passed. No process shares memory with
another; everything meets in the file system of the node and in the API server,
and in the socket file that `deploy/` gives the controller and the agent of a node.

### What is hard

* *No locks.* Two handlers of the volume server interleave system call by system
  call. `meta.json` is opened without `O_TRUNC` (`hostpath_commands.go:117,199,226`),
  so a writer can write into a file another has made. `ExpandVol` unlinks the
  metadata and then writes it anew (`:225`).
* *Nothing is undone.* A handler that fails or dies half-way leaves a directory
  whose metadata cannot be read, and `ListVol` fails for the whole group as long
  as one such directory exists (`:84`).
* *Dropped errors.* `filepath.Walk` and `CopyFile` (`:174`, `:185`, `:273`, `:284`),
  `os.Remove` (`:225`), `os.RemoveAll` (`:140`, `:324`), the API server's in
  `getAllSnapshotContentOfLocalCSI` (`controller.go:822`).
* *Calls that go on.* The agent does not look at its context: a call whose deadline
  passed works on while the sidecar's next one runs.
* *Caches.* Claims, PVs and nodes are read from caches behind the API server, by a
  name or an address that may have passed to another.
* *Partial success.* A group snapshot and a listing are loops over members of which
  any may fail.
* *Nil.* `GetVolume` answers nil and no error for a volume that is not there; some
  callers look for that and some do not.
* *Restarts and overlaps.* Processes forget their calls; mounts, directories and
  socket files stay. An old and a new pod run at once.

### What makes each part correct

* Volume server: a name's metadata is that name's; readable metadata means that
  the mountpoint is there; an answered copy is complete; a listing omits no volume;
  with callers that do not race on a name it is a register of volumes.
* Agent client: a call is begun at most once, says done when it is done, and calls
  the agent unavailable only when it was.
* Controller: a bound claim has its volume, on the node its PV names and of the size
  it says; a ready snapshot has its directory; what is gone left nothing; claims,
  deletions, expansions and snapshots are eventually served; a listing is whole or
  an error and gives back its connections.
* Group controller: *ready* means that every member is snapshotted and named; a
  deletion that succeeds removed all it was given.
* Node agent: a running pod's volume is mounted with its options; an unpublished
  target is clean; unpublishing ends.
* Start and stop: who serves has filled caches, is reached until it is replaced, and
  a container that is wanted comes to serve.

## 2. Modules

| Module | Role |
|---|---|
| `VolumeServer` | the volume server, one action for each system call of a handler |
| `VolumeServerInvariant` | its inductive invariants: `IInv` for any callers, `Serial` for callers that do not race |
| `VolumeServerHistory` | the same with a history variable, for what answers promise, and the refinement mapping |
| `VolumeRegistry` | the abstract specification of the volume server: a register of volumes |
| `AgentRpc` | a CSI call's two calls to an agent over a gRPC channel |
| `CallOnce` | the abstract specification of it: changes begun at most once, and what callers may be told |
| `CSIController` | controller, sidecars, PV cache and agents: the calls that change volumes and snapshots |
| `CSIControllerInvariant` | its inductive invariant |
| `Placement` | which node, which agent and which group `CreateVolume` and `DeleteVolume` use |
| `Capacity` | sizes: rounding, metadata, PV, expansion, snapshot and restore |
| `Listings` | `ListVolumes`, `ListSnapshots`, `ControllerGetVolume`, their connections, the clientset, and the process their panics end |
| `GroupSnapshot` | the two group handlers with the sidecar that repeats them |
| `NodeMount` | publish and unpublish of target paths with the kubelet |
| `PluginProcess` | the processes of the plugin on a node: start, serve, signals, restarts |
| `*Proofs` | the proofs, one module for each of `VolumeServer`, `AgentRpc`, `CSIController`, `Capacity`, `GroupSnapshot`, `Listings`, `NodeMount`, `Placement`; `CSIControllerProofs` also holds those about `PluginProcess`, the controller's process |
| `MC*` | instances for TLC: model values, functions on them, symmetry |

The controller is one program seen in four modules, each with the state its question
needs: `CSIController` abstracts where a volume is and how large it is, `Placement`
and `Capacity` abstract what a half-made directory is, `Listings` what changes a
volume. `CSIController` and `GroupSnapshot` compose the controller with
agents at a coarser grain than `VolumeServer`: a handler reads, begins, works and ends,
and a name is absent, partial (a directory without metadata), torn (metadata that two
handlers wrote and nobody can read) or whole. What they assume of an agent is what
`VolumeServer` shows: a name without readable metadata makes `ListVol` fail, and only its
own handlers, or their death, leave one (`DebrisIsBlamed`); metadata is torn only by a
writer of a file that another handler made (`TornByAnother`); otherwise the server is a
register (`ImplementsRegistry`). That a
call is an answered, failed or given-up one, with a handler that may go on, is what
`AgentRpc` implements (`ImplementsCallOnce`). That a controller may end at any time
and another start is from `PluginProcess`.

### Correspondence with the code

*VolumeServer.* `dir`, `mp`, `data` and `meta` are the tree of the group: which
names have a directory, which of those a `mountpoint`, the files in it, and the
inode linked as `meta.json`. `text` is what an inode holds: a length and the JSON
object it parses to, if it does. `pc[r]`, `arg[r]`, `got[r]`, `fd[r]`, `todo[r]`
are a handler's program point and locals. Each label stands for one system call,
in the code's order:

* `CreateVol`: `mkdir`, `mkmp`, `open`, `write`.
* `CloneVol`, `CreateSnapshot`: `load` (metadata of the source), `mkdir`, `mkmp`,
  `walk` (read the directory), `copy` (each file), `open`, `write`. The copy keeps
  the source's metadata but for the name (`:154`).
* `ExpandVol`: `load`, `unlink`, `open`, `write`.
* `RemoveVol`, `RemoveSnapshot`: `os.RemoveAll` as `scan` (read the entries once),
  `rm` (each entry), `rmmp`, and the directory's own `rmdir`, which fails if
  something was put there since; the error is dropped.
* `ListVol`: `readdir`, then `getmeta` for each entry.

`IOErrorReported` and `IOErrorDropped` are a failing system call where the code
returns the error and where it ignores it. `Crash` ends every handler and leaves
the tree: `server.Start` repairs nothing. `Racing` says which callers there are.
With `FALSE` two calls that change one name do not overlap, nor do the making or
removal of a volume and its copying: the sidecars see to that as long as no call
outlives its deadline. With `TRUE` any call may start at any time.

*AgentRpc.* `at` is the controller's handler: `connect`, the list, the change. `chan`
is its connection, which `connect` returns ready or not (`client/grpc.go:97-118`,
its timeout is 0); `stream` the stub's call. A stub waits for a connection that is
being made and fails at once over one that could not be, as grpc-go does without
`WaitForReady`. `work` is what the agent's handlers have begun and done; a deadline
resets the stream and stops no handler. The call shown is one to make a volume; the
others have the same shape.

*CSIController.* `rpc[x]` is the provisioner's or snapshotter's call for an object
and `resize[v]` the resizer's. `Lookup` stands for the handler up to `getNodeConn`,
`GetVolume` for the question and the decision on its answer. `jobs` holds the agents'
handlers; a late one has nobody waiting for it. `AgentReads` is the reading of the
metadata that a copy or an expansion starts from (`:149`, `:217`, `:248`), `AgentBegins`
the first change, `MakingEnds` and `RemovalEnds` the last with the answer. Between the
reading and the write the source may be expanded: its text is then longer, and a shorter
one written over it without `O_TRUNC` leaves it torn (`Writes`; `grown` is which volumes an
expansion was begun for, `Kin` whose sizes a copy can have). What a removal leaves behind
when it meets another handler of the same name (`Left`), and the directory that a maker
makes again (`MakesAgain`), are what the interleavings of `VolumeServer` produce.
`RemovalFails` is a `RemoveAll` that fails and is answered as done (`:140`, `:324`),
`GetVolumeUnlisted` an agent that cannot be asked, or that cannot open its group and
answers the empty list (`:68-71`); `spoilt` remembers what was so left.
`ControllerRestarts` ends the process and starts another.

*Placement.* `claim` and `selected` are what the API server has, `shown` and `known`
what `pvcLister` and `nodeLister` show, `call` the handler between its lookups.
`LookupClaim` to `CreateVolume` are the handler's steps; the answer's topology becomes
the affinity of the PV. A volume is named after its claim's uid and looked up by the
claim's name (`controller.go:213`), so a claim of the same name may lend its node. `class`
is what each claim is like. A class without a group has its volumes made in the directory
of the groups, which cannot be listed once there is a group in it (`Listable`).
`DeleteVolume` has the four ways of the code: no group, so nothing is removed
(`controller.go:360`); a listing that fails; a removal; and a listing that is empty or a
`RemoveAll` that fails, which are answered as done.

*Capacity.* `UpTo` is Go's arithmetic on an `int64` that wraps; `getRoundedCapacity`
the two units. `pv` is what the controller answered and the PV records, `meta` what the
agent wrote, `late` the sizes of expansions whose call timed out.

*Listings.* `call[k]` is the call of each kind with the loop's locals: what it
listed, what is left, the item in hand and the entries so far. `Panic` is a nil
dereference: the process goes, with the connections and calls it had. `trouble` is what
is wrong with each node: its agent is down, the node or its address is not in the lister,
another agent is at its address, its group cannot be opened, debris lies in its group.
`NextVolume` and `NextSnapshot` have every `continue` and `return` of the loops
(`controller.go:660-683`, `:768-783`); `Nil` is when `GetVolume` finds no volume of the
name among those the agent lists (`client/grpc.go:170-177`), `Failing` when it answers an
error.
`CheckClient` to `ReturnClient` are `GetClientFromCacheOrCreate` (`controller.go:865-890`),
whose three reads and writes of a package variable interleave.

*GroupSnapshot.* `call` holds the loop's locals: members to do, the one in hand,
`volGroupSnapReady` and `snapshots`. `content` is what answers have told the sidecar,
which is what it asks to delete. What an agent does for a call that is waited for is one
step; what it does for a call that was lost (`late`) is two, from the directory to the
metadata, and later calls run between them: their listings fail over the directory
without metadata. `Unlisted` is the empty listing of a group that cannot be opened,
`RemovalFails` a `RemoveAll` whose error is dropped; `skipped` remembers the members that
a call went past without knowing what is there.

*NodeMount.* `exists` and `mnt` are the target directories and the stack of mounts
on each. `Bind` and `Remount` are the two commands `mount(8)` runs for a bind mount
with options; `StatTarget` to `RemoveTarget` are `CleanupMountPoint` of
`k8s.io/mount-utils`. `fs` says whether `IsLikelyNotMountPoint`, which compares
devices, can see a bind mount.

*PluginProcess.* `at` is how far main has come, `csi` the goroutine `serve` (remove
the socket file, listen, serve), `opening` the ports its other goroutines have still
to open, `informers` what the listers show. `file` is which process's listener a
socket file leads to. `Signal` is `SetupSignalHandler`: an agent ends at `SIGTERM`,
a controller's stop channel is closed, which stops its informers and nothing else.
Its specification is `ProcessSpec`, and its other definitions are named so that a module can
extend it together with `CSIController`, the program these processes run.

## 3. Runs

Passing:

| Run | Instance | Shows | Distinct states |
|---|---|---|---|
| `VolumeServerSerial` | 3 calls, 2 names, 2 sizes, 1 file that pods write and delete, 1 crash, callers that do not race | debris is blamed, listings omit nothing, copies are complete, `VolumeServerHistory` implements `VolumeRegistry` | 886,002 |
| `VolumeServerRacing` | 2 calls that race, 2 names, 2 sizes, 1 file, 2 crashes or I/O errors | the inductive invariant; torn metadata has a foreign writer | 183,345 |
| `AgentRpcRetries` | 3 calls for one volume, 2 ends of the agent, 2 deadlines, 1 empty listing over it | unavailability is blamed, calls end, a volume is made once, `AgentRpc` implements `CallOnce` | 216,039 |
| `ControllerFaults` | 2 claims, the second restored from a snapshot of the first, which grows; 2 agent faults, or 1 call given up or controller restart | the inductive invariant; what bound, ready and gone promise; missing and torn metadata is blamed | 705,176 |
| `ControllerServes` | a claim, its expansion and its snapshot, 1 call given up or controller restart | claims, deletions, expansions and snapshots are served | 23,211 |
| `PlacementMoves` | 2 claims of one name (both with a group, or one without, or one with an access mode that is refused), 2 nodes, 1 exchange of addresses, 1 loss | PVs lead to their volumes, gone ones leave nothing, claims are provisioned | 400,253 |
| `CapacityFlows` | 2 claims, 3 sizes in units of 2 and 8, 1 loss | metadata and PV agree, answers are enough, restored volumes fit, expansions end | 73,656 |
| `ListingsRace` | 2 volumes, one of them without a group, 2 contents and 1 made by hand on 2 nodes, the monitor and 1 other call, 1 fault of 8 kinds, 1 failed call to each agent | listings are whole or errors, connections are accounted for, panics are named, the monitor gets its answer | 835,631 |
| `GroupSnapshot` | 3 members on 2 nodes, 2 deletable sources, one that grows, 1 lost call, 2 failures | what ready, listed and deleted mean, and liveness | 398,572 |
| `NodeMount` | 2 targets (one block, one read-only), 2 late calls, 2 faults | mounts of running pods, clean targets, teardown ends | 109,311 |
| `ProcessRestarts` | 2 agents and a controller on one socket file, 2 ports, 1 crash | who serves is synced, reachable until replaced, and comes to serve | 41,998 |

`VolumeServerSerial` also passes with `HInv`, the invariant of the proofs about the history
variable, added to its `INVARIANTS`.

One run finds a disagreement of the code with its comments:

| Run | Property | What happens |
|---|---|---|
| `VolumeServerCopyIOError` | `CopyIsComplete` | a failing system call in the walk (`hostpath_commands.go:174`) ends the copy early, and the snapshot is answered as made |

### Bounds, and why they are enough

* *Two names* suffice for a source and its copy, and for a name and its node mate;
  *three calls* for two that collide and a listing or a third that meets what they
  left. Requests are used once, so each instance is a window of three calls on any
  state the tree can start in (`Init` allows every set of volumes). The racing run has
  two calls, and the proofs cover any number.
* *Two sizes with texts of different lengths* tell a rewritten metadata file from
  a torn one. One file is enough to make a removal's `rmdir` fail and a copy stop.
* *Agent calls*: three make a call that finds what the one before it did, after one
  whose deadline passed.
* *Faults, losses, timeouts* are 1 or 2 in each run: the second meets what the
  first left. `ControllerFaults` takes agent faults or given-up calls in one
  behaviour and not both (`Together`) and lets one of its two claims grow, which keeps
  it within minutes; with both growing it passes too (5.6 million states). The proofs
  make neither restriction.
* *Capacity*: the units are 2 and 8 and the word 64, so that sizes below a unit,
  between the units and above both occur; `RoundedCapacity` and `RoundingOverflows` are
  proved for any.
* *Group*: two members on one node and one on another is the least in which a
  half-made snapshot blocks a sibling and not the rest. The call that is lost leaves a
  handler at work beside two later calls and more; a second lost call adds a second late
  handler, which the proofs cover.
* *Listings*: the two kinds of content and two nodes let a listing go on past a node
  that does not answer; one fault at a time, of the eight kinds, tells the causes of a
  panic and of an omission apart. The instance has no PV without a node and no agent at
  another's address: to the handlers the first is the missing node (both take the same
  branch), the second the group that cannot be opened (both answer nil). The proofs cover
  both and any number of faults at once.
* *Placement*: the three choices of `MCClasses` are two claims that share a group, one
  beside a claim without a group, whose listings fail once the group is made, and one
  beside a claim that is refused.
* *Processes*: two agents, for an old pod and its successor, and a controller; they
  share a socket file as in `deploy/all-in-one.yaml` and two ports.

Every run explores its instance completely; no state constraints are used. The bound of
a counter is in the guard of the action that counts. `CHECK_DEADLOCK FALSE` is set
because requests, claims and pods are finite in number: the system then rests.

### Fairness

Safety is checked without any. The liveness properties (`Served`, `ClaimsProvisioned`,
`ExpansionEnds`, `VolumesListed`, `GroupServed`, `TeardownEnds`, `CallsEnd`,
`WantedServes`) assume weak fairness of: the sidecars and the kubelet repeating a call that did
not succeed (their work queues re-add with back-off); informers delivering the API
server's state (`controller.go:146-166`, watches with a 30 second resync); handlers
taking their next step (a goroutine that waits only for system calls, commands and
answers; one that was given up goes on too); a connection attempt coming to an end
(`AgentRpc`); the kubelet starting a container that exited and killing one whose grace
is over (`PluginProcess`); an agent that ended being started (`Listings`, and nothing else
there is mended by fairness: not debris, a group, an address or a PV). Faults, timeouts, deadlines and
users are never fair; the faults are bounded, so "eventually" means once they stop.

## 4. Proofs

TLAPS proves, for every value of the constants that meets the named assumption of the
module (distinctness of values, bounds that are natural numbers; TLC evaluates each in a
run):

| Module | Theorem | Statement |
|---|---|---|
| `VolumeServerProofs` | `Invariance`, `TypeCorrect` | `Spec => []IInv`, `[]TypeOK` |
| | `NamesAlwaysMatch`, `MountpointBeforeMeta` | `[]NamesMatch`, `[]MetaCommitsMountpoint` |
| | `TornOnlyByAnother` | `[]TornByAnother` |
| | `SerialInvariance`, `DebrisHasCulprit` | `Orderly`: `Spec => [](IInv /\ Serial)`, `[]DebrisIsBlamed` |
| | `HistoryInvariance`, `ListingsAreWhole`, `CopiesAreWhole` | `Orderly`: `HSpec => []HInv`, `[]ListNeverOmits`, `CopyIsComplete` |
| | `ServerIsRegister` | `Orderly`: `HSpec => ImplementsRegistry` |
| | `OnlyRemovalsTake` | `Orderly`: what step makes a volume cease to be one |
| `AgentRpcProofs` | `OnlyTheLostFail`, `MadeAtMostOnce` | `[]UnavailableBlamed`, `[]MadeOnce` |
| | `Implements` | `Spec => ImplementsCallOnce` |
| `CapacityProofs` | `RoundedCapacity`, `RoundingOverflows` | what rounding answers, with and without room |
| | `MetadataFollows`, `RestoresFit`, `AnswersEnough` | `[]MetaIsPV`, `[]RestoredFits`, `AtLeastAsked`, for sizes with room |
| `GroupSnapshotProofs` | `ReadyMeansAll`, `ListedStays`, `DeletedAll` | `[]ReadyIsAll`, `[]ListedExists`, `[]DeletedAllNamed` |
| `ListingsProofs` | `LeaksAreFailures`, `AnswersWhole`, `PanicsAreNamed` | `[]ConnectionsAccounted`, `[]ListingsWhole`, `PanicsNamed` |
| `NodeMountProofs` | `RunsOnVolume`, `MountedReadonly`, `LeavesClean` | `[]RunningHasVolume`, `[]ReadonlyHonoured`, `[]GoneIsClean` |
| `PlacementProofs` | `OnlyNamesakesMisplace`, `PVsLead`, `NothingStays` | `[]MisplacedByNamesake`, `[]PVLeadsToVolume`, `[]GoneLeavesNothing` |
| `CSIControllerProofs` | `ControllerInvariance`, `ControllerTypes` | `Spec => []IInv`, `[]TypeOK` |
| | `BoundVolumeStays`, `ReadySnapshotStays` | `[]BoundHasVolume`, `[]ReadyHasSnapshot` |
| | `GoneLeavesNothing`, `PartialNameHasJob` | `[]NothingLeft`, `[]PartialHasJob` |
| | `ProcessInvariance`, `ProcessTypes` | of `PluginProcess`: `ProcessSpec => []ProcessIInv`, `[]ProcessTypeOK` |
| | `OnlySyncedServe`, `StaysReachable` | of `PluginProcess`: `[]ServesSynced`, `ReachableUntilReplaced` |

Two hypotheses are more than such an assumption:

* `Orderly` is `Racing = FALSE` and no I/O errors, with any number of crashes, calls and pods
  that write. It is what the sidecars see to while no call outlives its deadline, and
  `VolumeServerSerial` is an instance of it. Racing calls tear metadata (`TornByAnother`), and an
  I/O error ends a copy short, leaves a directory half-made, ends an expansion without metadata
  or lists a group as empty: each breaks some of the four properties. `IInv` and its consequences
  need no such hypothesis.
* `Room` (`Capacity`): every size asked is a gibibyte below the largest integer.

Each module has an inductive invariant `IInv`, of which the type invariant is a part, a
lemma for each action or group of actions that says that it keeps `IInv`, and theorems
that follow. The type invariant of every module is proved, as a theorem of its own or as
part of `IInv`. What the invariants add:

*VolumeServer.* `NamesMatch` is not inductive: a step that writes metadata could write
into an inode linked under another name. `OneHome` rules this out: an inode has a home
name, that of the request that created it or of the volume it was found in, and is
linked, opened and written only under that name. It is why handlers that race on a name
can spoil only that name's metadata. `MountpointFirst` says that a handler past `mkmp`, or
one that has read its volume's metadata and is about to replace it, has a mountpoint under
its name or the removal of the name has begun; with it `MetaCommitsMountpoint` is
inductive. `ArgsOK` is what each program point says of the arguments. `TornByAnother`
needs an invariant of its own, `Writers`, for it speaks of linked inodes and a handler may
write to one that is no longer linked.

*VolumeServer, orderly callers.* None of `DebrisIsBlamed` and the properties of the history
says enough to survive a step. `Serial` adds what the discipline gives: one handler to a
name (`OnePerName`), texts that are whole or empty (`Whole`), nothing left under a directory
that is not there (`Tidy`), and for each program point what the handler has made of its
name so far (`Placed`: `Fresh`, `Making`, `Expanding`, `Removing`). The
last is what makes an inode that a handler writes its own, and a name it looks up the one
it left. The discipline itself is about calls when they start; that it lasts until they
end is `OnePerName`. `Remembered` then relates what the history has seen of a listing or a
copy to the locals it works from (`todo`, the names and files yet to be read): a
volume that was there all along is listed already or still to do.

*Refinement of `VolumeRegistry`.* A name's size in the register is the one its metadata says, or,
while `ExpandVol` is between unlinking and writing (`MidExpand`), the size it has read:
`SizeIs` says so without `CHOOSE`, for `OnePerName` makes the handler unique. The step that
takes effect is: of a creation, a copy or an expansion the write of the metadata
(`WriteMeta`), of a removal the unlinking of the metadata (`RemoveMeta`), and of a copy or an
expansion also the reading of what it starts from (`LoadMeta`, which maps to `Look`). `Start` maps to `Invoke`, `ListDone` to
`Listed`, `RemoveVolDir` to the answer of the removal, a failed `GetVolMeta` or `LoadMeta` to
`Refused`, `Crash` to `AgentDies` with the expansions it cuts short; every other step leaves
the register as it is. Each of these is a lemma, and `ServerIsRegister` puts them together.

*AgentRpc.* `Alone` says that one call at a time is between its connection and its end,
which is what the sidecar sees to; `Streams` what a stream under way says of its handler;
`Undisturbed` that while no deadline has passed what a call was told is still so;
`Blamed` that a connection that is not there has missed the agent. The refinement maps every step of the channel and of the list
to a stutter, `Handle` of a change to `Begin`, `Finish` to `End`, `AgentDown` to `Fall`, and
what ends a call to `Tell`; its proof is the step simulation `StepImplements` under `IInv`.

*Capacity.* Under `Room`, that every size asked is a gibibyte below the word,
`RoundsUp` bounds what rounding answers without overflow. `Following` relates metadata, PV
and the expansion under way, `Snapshots` what a snapshot recorded of its source.
`RoundingOverflows` is what happens without room: 0 or less.

*CSIController.* Its five invariants speak of what is on disk; what keeps them is who can be at
work. `CallsFit` and `JobFits` say for each call and each handler what it is for, what phase the
name must then be in, and who waits for it; `Alone` that of the handlers under one name
somebody waits for at most one of each sidecar. Late handlers are any number, so
`MadeStays` and `PartialMends` are stated over sets of handlers: what is being made is there
until its deletion is asked for, and a partial name has one at work that will repair or
remove it, not only removals that met another. `OneWriter` is why metadata is torn only
after a call was given up or a fault (`Torn`): until then a handler that will write
metadata finds none of another's. `NotYet` and `Gone` say the same of the time before a
claim is bound and after it is gone, while nothing was late.

*GroupSnapshot.* `Created` says of the loop's state what `ReadyIsAll` says of the end: each
member that is not to do any more and was not passed over has its snapshot. `Deleted` is
its counterpart over the attempts of a deletion. `Whole` says what can spoil a snapshot
and `Lates` what the handlers of lost calls can still do.

*Listings.* The invariant says of each call that what it has listed is to do, in hand, in
its entries, or left out for a reason that `Omitted` names, which no later step takes back
while the process lives (`Remembered`: that a node was missing is not forgotten); and that
a clientset that is about to be used is set or could not be made.

*NodeMount.* `Handled` says which pods handlers run for, `OneByOne` that a target has one
handler while no call was late, `Undisturbed` that while nothing failed either a pod that
starts has nothing mounted but before the remount.

*Placement.* `FromAnnotation`: a node a call or a PV has came from the annotation of some
claim of the name. `Addressed`: until addresses move the agent asked is that of the node
meant. `Directories`: where a volume's directory may be, at each stage of its claim, and
which removals were answered and not done.

*PluginProcess.* `Started`: a process serves only when main waits, a controller's main
waits only when its informers were filled, and only those of a pod that is being deleted
stop.

Under these hypotheses every invariant and every action property that a passing run checks is
proved, and so are both refinements. Model-checked only are the liveness properties (`Served`, `GroupServed`, `TeardownEnds`,
`WantedServes`, `ClaimsProvisioned`, `VolumesListed`, `ExpansionEnds`, `CallsEnd`): the prover
has no rule for `ENABLED` and fairness.

## 5. What the conditions in properties stand for

Several properties hold only up to a condition that names something the code does.
These are behaviours a maintainer should know of.

*Volume server and controller*

* `TornByAnother`: with racing calls a longer text survives behind a shorter one
  (`hostpath_commands.go:117,226`).
* `DebrisIsBlamed`, `PartialHasJob`: a crash half-way, or a `RemoveAll` that fails half-way
  and is answered as done (`:140`, `:324`), leaves a directory that fails every `ListVol` of
  the group until somebody removes it by hand (`:84`). So does, without any fault, a call
  that is given up: its handler and the next call's make one name, and where a copy is made
  or a volume was expanded meanwhile the shorter text is written over the longer.
* `CopyIsComplete`: a pod that deletes a file while it is copied can end the walk
  there, the remaining files uncopied and the copy answered as made (`:174`).
* `NothingLeft`: `ExpandVol` at work during `RemoveVol` can leave the directory (`:140`),
  and the removal is answered as done; so is one whose `RemoveAll` fails, and one for which
  the group could not be opened (`:68-71`): the PV or the content goes, the directory stays.
  A late handler can put back what a later call removed; a claim deleted after a fault cut
  `CreateVolume` short leaves what was made.
* `BoundHasVolume`: an expansion cut short leaves its volume without metadata; a second
  `CreateVolume`, late or called after an empty listing, writes its text over an expansion's
  longer one and leaves the metadata torn (`:117`, `:196`).
* `ReadyHasSnapshot`: a second `CreateSnapshot` that read its source's metadata before the
  source was expanded (`:248`) writes over the first one's longer text, and leaves a ready
  snapshot's metadata torn.
* `Served`: once debris begins nothing on the node is served. `DeleteSnapshot` needs the
  PV of its source (`controller.go:608`), and `DeleteVolume` does not look for snapshots
  (`:336`): if the PV goes first the snapshot can never be deleted. It is checked with
  one node: a claim cloned or restored from another node's source is never served, for
  `CloneVol` reads its source on its own node.

*Placement*

* `MisplacedByNamesake`: a claim cache that shows an earlier claim of the name puts the
  volume on the node selected for that one (`controller.go:213`). The property permits this
  and nothing else: a volume is on no node but its claim's own and those of claims of the
  name that have ended.
* `PVLeadsToVolume`, `GoneLeavesNothing` stop at nodes that exchange addresses: an agent
  answers for its own directories whatever node was meant (`:1043`).
* `GoneLeavesNothing` leaves out a volume whose group could not be opened, which is listed as
  empty (`hostpath_commands.go:70`), or whose `RemoveAll` failed (`:140`); and one made for a
  call whose answer was lost on a node that the next call, with a later claim in the cache,
  did not go to.
* `GoneLeavesNothing` is about classes that name their group: without the parameter
  `DeleteVolume` answers and removes nothing (`controller.go:360`), and the volume's
  directory lies among the groups.
* `ClaimsProvisioned`: a claim whose class names no group is never provisioned on a node that
  has a group: its `ListVol` lists the directory of the groups, finds no metadata in them and
  fails (`hostpath_commands.go:84`). Nor is anything in a group where a removal failed
  half-way.

*Sizes*

* `RoundingOverflows`: `getRoundedCapacity` adds before it divides (`controller.go:121-124`).
* `RestoredFits`: a copy keeps the size in its source's metadata while `CreateVolume` answers
  the size asked (`:273`), and a repeated `CreateSnapshot` answers size 0 (`:572`), so a
  smaller volume may be restored.
* `MetaIsPV`: an expansion that timed out writes its size after a later one was answered
  (`:494`). `ControllerGetVolume` and the listings answer the PV's or the metadata's size
  (`:185`, `:803`).

*Listings*

* `PanicsNamed`: a content without a status or without its readiness (`controller.go:661`),
  one made by hand (`:665`), a volume or snapshot that is not among those the agent lists,
  because it is gone or lost, its group cannot be opened, or another agent is at its node's
  address (`:694`, `:795`), and a clientset that a concurrent call failed to make (`:868`)
  end the process and every call in it. A volume that was lost is the case `ListVolumes` is
  asked for by the health monitor.
* `ConnectionsAccounted`: the connection of a call that failed is never closed (`:690`).
* `ListingsWhole`: `ListSnapshots` passes over a node that does not answer, is not in the
  lister or is not named by the PV, and answers the rest; `ListVolumes` answers an error, but
  passes over volumes without a group (`:771-774`). With the API server's error swallowed
  (`:822`) what it listed is nothing.
* `VolumesListed`: as long as debris lies in the group of one bound volume
  (`hostpath_commands.go:84`), or its node is missing from the PV or the lister
  (`controller.go:777-783`), `ListVolumes` answers an error for all of them.
* `ListSnapshots` does not read its request (`:657`), so that a pre-provisioned content
  becomes ready by another's entry, where the vendored `csi.pb.go:3499-3500` says that the
  identity "can be used to list only a specific snapshot". `Answer` in `Listings` has it; no
  property does, for the code promises nothing of that entry.

*Group, agent, processes*

* `ReadyIsAll`: a `GetVolume` error passes over a member and leaves the group ready
  (`group_controller.go:90`). It takes no failure: after a call that was given up, its
  handler has made a directory and not yet its metadata, and the repeated call's listing
  fails over it for that member and its node mates. A repeated call leaves members already
  made out of its answer (`:108`), so that the sidecar does not know them and a deletion
  leaves them.
* `ReadyIsAll`, `ListedExists`: a member that was expanded and is snapshotted twice can end
  with torn metadata.
* `DeletedAllNamed`: a deletion passes over a member whose group cannot be opened
  (`hostpath_commands.go:68-71`), and takes a `RemoveAll` that failed for one that did not
  (`:324`); a creation that outlived its call may put a member back.
* `GroupServed`: a group whose source PV is gone cannot be deleted (`:142-145`), nor one on a
  node with debris.
* `RunningHasVolume` leaves out block volumes, for which `NodePublishVolume` answers
  without mounting (`agent.go:192`).
* `ReadonlyHonoured`: an agent that restarts between bind and remount leaves a writable
  mount which the repeated call takes for done (`agent.go:230-236`).
* `GoneIsClean`: a publish that was given up can mount after the unpublish answered.
* `ReachableUntilReplaced`: `serve` removes the socket file of whoever serves there
  (`driver/grpc.go:164`); with one file for controller and agent, the one that started
  first is out of reach.
* `ServesSynced`: a controller that is being deleted goes on serving from listers that
  no longer follow the API server (`signals/signal.go:34`).

## 6. Abstractions

* A failing or interrupted `write` of the metadata writes nothing; the text of some
  hundred bytes is written by one call.
* Directories and links inside a volume, file contents, modes and owners are left out:
  a volume holds a set of files, and `CopyFile` copies one in a step.
* `CSIController` takes the claims and nodes in the caches to be in step, but for a claim
  that was deleted; `Placement` does not. `Placement` has no two handlers at one agent under
  one name, and of half-made directories only those a removal leaves; `CSIController` has both.
* `CSIController` does not count bytes: metadata that a copy or a creation writes over other
  metadata may end torn or whole once a volume among those it copies from was expanded, and
  ends whole before. Expansions of one claim all write the same size. A handler that writes
  a file which an expansion has removed leaves the expansion's outcome alone.
* `GroupSnapshot` takes what a handler does for a call that waits for it as one step: only a
  lost call's handler is met half-way by other calls. A member of `Growing` may have been
  expanded between any two reads of its metadata.
* `AgentRpc` does not follow what is in the group but the one volume: a failing listing is
  an error that may come at any time.
* `Listings` fills the entries of an answer from the item alone; what an entry says of a
  volume is left out.
* `GetVolumeSnapshotContent` maps a snapshot's name to its content object by replacing a
  prefix (`utils/common.go:94`); the models take the object as found.
* Sidecars, kubelet, API server, `mount(8)` and grpc-go are external: modelled from how the
  code uses them. One call in progress for an object and kind, repeated until it
  succeeds; finalizers protect a source while something is made from it.

## 7. Not modelled

* Identity service, capability calls, `NodeGetInfo`: constants.
* The collection of metrics: it reads volumes' sizes and publishes them; only its port
  is modelled.
* Parameter parsing, response builders, the parsers of `lvs` and `vgs` output in
  `pkg/lib/parser.go`, which the host path commands do not use; `pkg/utils/os_tool.go`
  and the block device helpers: pure functions or one-line wrappers.
* `pkg/lib/vol.pb.go`: generated message accessors. Of `vol_grpc.pb.go` the stubs and
  handlers of `ListVol` and `CreateVol` are modelled; the others repeat them.
* Configuration, version, charts.

## 8. Plan

Written, in this order: `VolumeServer` with its invariants and proofs; `VolumeRegistry` and
the refinement; `CSIController`; `GroupSnapshot`; `NodeMount`; `PluginProcess`; `Placement`;
`Listings`; `Capacity`; `AgentRpc` and `CallOnce`; the proofs about each of them; the
invariants for orderly callers and the step simulation to `VolumeRegistry`; the invariant of
`CSIController`.

Left, most useful first:

1. The safety half of the liveness properties: that a handler's remaining work shrinks at
   each of its steps, and that a state from which nothing goes on is one the properties
   except. With it only fairness stays with TLC.
2. A link from `VolumeServer` to the grain at which `CSIController` sees an agent (absent,
   partial, whole; begun, met, ended), as a refinement for one name.
3. A tree of directories and links in `VolumeServer`'s copies, against a reference
   definition of a copy.

New questions join the run of the instance they can share, so that the runs stay few and
each has an instance of its own.

## 9. Running

    tlc -config VolumeServerSerial.cfg MCVolumeServerHistory.tla
    tlapm VolumeServerProofs.tla

The module of each configuration is in `PROJECT.json`. The longest runs, `PlacementMoves`,
`ListingsRace` and `VolumeServerSerial`, take two to three minutes.
