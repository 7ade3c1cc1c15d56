-------------------------------- MODULE Listings --------------------------------
(***************************************************************************)
(* ListVolumes, ListSnapshots and ControllerGetVolume of the controller    *)
(* (src/pkg/driver/controller.go) over the client of the agents            *)
(* (src/pkg/client/grpc.go), the connections they leave open and the       *)
(* process they may end.  The health monitor lists volumes now and then;   *)
(* the snapshotter lists snapshots to learn of a pre-provisioned one.      *)
(***************************************************************************)
EXTENDS FiniteSets, FiniteSetsExt, Naturals

CONSTANTS
  Volume,         \* the PVs of the driver
  Content,        \* the VolumeSnapshotContents of the driver
  Preprovisioned, \* those made by hand, for a snapshot that is there
  Ungrouped,      \* the PVs whose class names no group
  Older,          \* the volumes and snapshots that are there when it starts
  Node,
  Home,           \* the node that the PV names, of each volume and content, or None
  None,
  MaxCalls,       \* bound on the calls at a time, beside the monitor's listing
  Faults,         \* the kinds of fault that happen, deletions among them
  MaxFaults,      \* bound on how many do
  MaxFailed       \* bound on the calls to an agent that fail, of one process

Item == Volume \cup Content

(* What can be wrong with a node: its agent does not answer; the node, or  *)
(* its address, is not in the lister; another agent is at its address; its *)
(* group cannot be opened; something in its group has no metadata.         *)
Trouble == {"agent", "node", "moved", "group", "debris"}

ASSUME ListingsAssumption ==
  /\ Preprovisioned \subseteq Content /\ Ungrouped \subseteq Volume
  /\ Older \subseteq Item \ Preprovisioned
  /\ Home \in [Item -> Node \cup {None}] /\ None \notin Item \cup Node
  /\ Faults \subseteq Trouble \cup {"api", "config", "deletion", "loss"}
  /\ MaxCalls \in Nat /\ MaxFaults \in Nat /\ MaxFailed \in Nat

VARIABLES
  running,  \* whether the controller's process is
  ClientSet,\* whether the package's clientset is set
  call,     \* the call of each kind
  open,     \* the connections to each node's agent that are open
  failed,   \* the calls to it that have failed
  bound,    \* the PVs that are Bound
  status,   \* of the contents: none is made, bare does not say if it is ready
  removed,  \* the volumes and snapshots that are no longer on disk
  orphans,  \* the contents whose source volume was deleted
  trouble,  \* of each node
  had, faults  \* of the faults there have been, those that are remembered

vars == <<running, ClientSet, call, open, failed, bound, status, removed, orphans, trouble, had, faults>>

Kind  == {"volumes", "get", "snapshots"}
Status == {"none", "bare", "unready", "ready"}
Idle  == [at |-> "idle", asked |-> None, listed |-> {}, todo |-> {}, item |-> None, entries |-> {},
          copy |-> [c \in Content |-> "none"]]
Call  == [at : {"idle", "client", "make", "return", "list", "next", "rpc", "answered", "error"},
          asked : Item \cup {None}, listed : SUBSET Item, todo : SUBSET Item,
          item : Item \cup {None}, entries : SUBSET Item, copy : [Content -> Status]]

TypeOK ==
  /\ running \in BOOLEAN /\ ClientSet \in BOOLEAN
  /\ call \in [Kind -> Call]
  /\ open \in [Node -> 0 .. MaxFailed + Cardinality(Kind)]
  /\ failed \in [Node -> 0 .. MaxFailed]
  /\ bound \subseteq Volume
  /\ status \in [Content -> Status]
  /\ removed \subseteq Item /\ orphans \subseteq Content
  /\ trouble \in [Node -> SUBSET Trouble]
  /\ had \subseteq {"node", "config"} \X (Node \cup {None}) /\ faults \in 0 .. MaxFaults

Init ==
  /\ running = TRUE /\ ClientSet = FALSE
  /\ call = [k \in Kind |-> Idle]
  /\ open = [n \in Node |-> 0] /\ failed = [n \in Node |-> 0]
  /\ bound = Older \cap Volume
  /\ status = [c \in Content |-> IF c \in Older THEN "ready" ELSE "none"]
  /\ removed = {} /\ orphans = {}
  /\ trouble = [n \in Node |-> {}]
  /\ had = {} /\ faults = 0

process == <<running, ClientSet, call, open, failed>>
objects == <<bound, status, removed, orphans>>
world   == <<objects, trouble, had, faults>>

-----------------------------------------------------------------------------
(* The cluster: PVs and contents come, agents fail and come back.          *)
Fault(f, n) ==
  /\ f \in Faults /\ faults < MaxFaults
  /\ faults' = faults + 1
  /\ had' = IF f \in {"node", "config"} THEN had \cup {<<f, n>>} ELSE had

PVBound(v) ==
  /\ v \notin bound \cup removed /\ bound' = bound \cup {v}
  /\ UNCHANGED <<process, status, removed, orphans, trouble, had, faults>>

ContentMade(c) ==
  /\ status[c] = "none" /\ c \notin removed
  /\ status' = [status EXCEPT ![c] = "bare"]
  /\ UNCHANGED <<process, bound, removed, orphans, trouble, had, faults>>

SnapshotCreated(c) ==
  /\ c \notin Preprovisioned /\ status[c] \in {"bare", "unready"}
  /\ \E s \in {"unready", "ready"} : status' = [status EXCEPT ![c] = s]
  /\ UNCHANGED <<process, bound, removed, orphans, trouble, had, faults>>

VolumeDeleted(v) ==
  /\ v \in bound /\ Fault("deletion", None) /\ bound' = bound \ {v} /\ removed' = removed \cup {v}
  /\ UNCHANGED <<process, status, orphans, trouble>>

SnapshotDeleted(c) ==
  /\ c \notin Preprovisioned /\ status[c] = "ready" /\ Fault("deletion", None)
  /\ status' = [status EXCEPT ![c] = "none"] /\ removed' = removed \cup {c}
  /\ UNCHANGED <<process, bound, orphans, trouble>>

SourceDeleted(c) ==
  /\ status[c] = "ready" /\ c \notin orphans /\ Fault("deletion", None) /\ orphans' = orphans \cup {c}
  /\ UNCHANGED <<process, bound, status, removed, trouble>>

(* It is no longer on disk, while its object stays.                        *)
Lost(i) ==
  /\ i \in bound \/ (i \in Content /\ status[i] = "ready")
  /\ i \notin removed /\ Fault("loss", None) /\ removed' = removed \cup {i}
  /\ UNCHANGED <<process, bound, status, orphans, trouble>>

Troubled(n) ==
  /\ \E t \in Trouble \ trouble[n] : /\ Fault(t, n)
                                    /\ trouble' = [trouble EXCEPT ![n] = @ \cup {t}]
  /\ UNCHANGED <<process, objects>>

Repaired(n, t) ==
  /\ t \in trouble[n]
  /\ trouble' = [trouble EXCEPT ![n] = @ \ {t}]
  /\ UNCHANGED <<process, objects, had, faults>>

-----------------------------------------------------------------------------
(* A nil dereference in a handler ends the process; the calls to it fail.  *)
Panic ==
  /\ running' = FALSE /\ ClientSet' = FALSE
  /\ call' = [k \in Kind |-> IF call[k] = Idle THEN Idle
                              ELSE [Idle EXCEPT !.at = "error", !.asked = call[k].asked]]
  /\ open' = [n \in Node |-> 0] /\ failed' = [n \in Node |-> 0]

Restart ==
  /\ ~running /\ running' = TRUE
  /\ UNCHANGED <<ClientSet, call, open, failed, world>>

Set(k, c) == call' = [call EXCEPT ![k] = c]
Go(k, at) == Set(k, [call[k] EXCEPT !.at = at])

(* The callers: a monitor, and the snapshotter about a content of its.     *)
Ask(k) ==
  /\ running /\ call[k].at = "idle"
  /\ k # "volumes" => Cardinality({l \in Kind \ {"volumes"} : call[l].at # "idle"}) < MaxCalls
  /\ \E a \in IF k = "snapshots" THEN {c \in Preprovisioned : status[c] \in {"bare", "unready"}}
              ELSE IF k = "get" THEN Volume ELSE {None} :
       Set(k, [Idle EXCEPT !.at = IF k = "snapshots" THEN "list" ELSE "client", !.asked = a])
  /\ UNCHANGED <<running, ClientSet, open, failed, world>>

(* The snapshotter records what the first entry says, or the error.        *)
Answer(k) ==
  /\ call[k].at \in {"answered", "error"}
  /\ Set(k, Idle)
  /\ status' = IF k = "snapshots"
               THEN [status EXCEPT ![call[k].asked] = IF call[k].entries = {} THEN "unready" ELSE "ready"]
               ELSE status
  /\ UNCHANGED <<running, ClientSet, open, failed, bound, removed, orphans, trouble, had, faults>>

-----------------------------------------------------------------------------
(* GetClientFromCacheOrCreate.                                             *)
CheckClient(k) ==
  /\ call[k].at = "client"
  /\ Go(k, IF ClientSet THEN "list" ELSE "make")
  /\ UNCHANGED <<running, ClientSet, open, failed, world>>

(* InClusterConfig's error leaves the variable; NewForConfig assigns it,   *)
(* nil when it fails.                                                      *)
MakeClient(k) ==
  /\ call[k].at = "make"
  /\ \/ ClientSet' = TRUE /\ Go(k, "return") /\ UNCHANGED <<had, faults>>
     \/ ClientSet' \in {ClientSet, FALSE} /\ Go(k, "error") /\ Fault("config", None)
  /\ UNCHANGED <<running, open, failed, objects, trouble>>

(* return ClientSet, nil: read again, and used.                            *)
ReturnClient(k) ==
  /\ call[k].at = "return"
  /\ IF ClientSet THEN Go(k, "list") /\ UNCHANGED <<running, ClientSet, open, failed>>
     ELSE Panic
  /\ UNCHANGED world

-----------------------------------------------------------------------------
Begin(k, items) ==
  Set(k, [call[k] EXCEPT !.at = "next", !.listed = items, !.todo = items, !.copy = status])

ListBound ==                 \* a slip: a PV that is not Bound is an error, not passed over
  /\ call["volumes"].at = "list"
  /\ IF bound = Volume THEN Begin("volumes", bound) ELSE Go("volumes", "error")
  /\ UNCHANGED <<running, ClientSet, open, failed, world>>

(* getAllPVsOfLocalCSI.                                                    *)
ListPVs ==
  /\ call["volumes"].at = "list"
  /\ \/ Begin("volumes", bound) /\ UNCHANGED <<had, faults>>
     \/ Go("volumes", "error") /\ Fault("api", None)
  /\ UNCHANGED <<running, ClientSet, open, failed, objects, trouble>>

(* ControllerGetVolume asks no agent.                                      *)
ControllerGetVolume ==
  LET v == call["get"].asked IN
  /\ call["get"].at = "list"
  /\ IF v \in bound THEN Set("get", [call["get"] EXCEPT !.at = "answered", !.entries = {v}])
     ELSE Go("get", "error")
  /\ UNCHANGED <<running, ClientSet, open, failed, world>>

(* getAllSnapshotContentOfLocalCSI swallows the error.                     *)
ListContents ==
  /\ call["snapshots"].at = "list"
  /\ \/ Begin("snapshots", {c \in Content : status[c] # "none"}) /\ UNCHANGED <<had, faults>>
     \/ Begin("snapshots", {}) /\ Fault("api", None)
  /\ UNCHANGED <<running, ClientSet, open, failed, objects, trouble>>

(* getNodeConn: a connection, ready or not; but none without a node in the *)
(* PV, or an address of it in the lister.                                  *)
Unreached(i) == Home[i] # None => "node" \in trouble[Home[i]]

Connect(k, i) ==
  /\ ~Unreached(i)
  /\ Set(k, [call[k] EXCEPT !.at = "rpc", !.item = i, !.todo = @ \ {i}])
  /\ open' = [open EXCEPT ![Home[i]] = @ + 1]
  /\ UNCHANGED <<running, ClientSet, failed>>

PassOver(k, i) ==
  /\ Set(k, [call[k] EXCEPT !.todo = @ \ {i}])
  /\ UNCHANGED <<running, ClientSet, open, failed>>

Done(k) ==
  /\ call[k].at = "next" /\ call[k].todo = {}
  /\ Go(k, "answered")
  /\ UNCHANGED <<running, ClientSet, open, failed, world>>

(* A PV without a group is passed over; one without a connection ends it.  *)
NextVolume ==
  /\ call["volumes"].at = "next"
  /\ \E v \in call["volumes"].todo :
       \/ v \in Ungrouped /\ PassOver("volumes", v)
       \/ v \notin Ungrouped /\ Connect("volumes", v)
       \/ /\ v \notin Ungrouped /\ Unreached(v)
          /\ Go("volumes", "error") /\ UNCHANGED <<running, ClientSet, open, failed>>
  /\ UNCHANGED world

(* What it loops over are copies.  The status of one may be nil, or not    *)
(* say if it is ready, and the source of one made by hand names no volume. *)
(* One that is not ready is passed over, one whose source's PV the lister  *)
(* does not have, and one without a connection.                            *)
NextSnapshot ==
  /\ call["snapshots"].at = "next"
  /\ \E c \in call["snapshots"].todo :
       LET ready == call["snapshots"].copy[c] IN
       \/ ready = "bare" /\ Panic
       \/ ready = "unready" /\ PassOver("snapshots", c)
       \/ ready = "ready" /\ c \in Preprovisioned /\ Panic
       \/ /\ ready = "ready" /\ c \notin Preprovisioned
          /\ IF c \in orphans \/ Unreached(c) THEN PassOver("snapshots", c)
             ELSE Connect("snapshots", c)
  /\ UNCHANGED world

(* GetVolume finds no volume, and answers nil and no error: the name is    *)
(* not among those the agent at the address lists.                         *)
Nil(i) == i \in removed \/ trouble[Home[i]] \cap {"moved", "group"} # {}

(* Or the agent does not answer, or its ListVol fails over debris.         *)
Failing(n) ==
  \/ "agent" \in trouble[n]
  \/ "debris" \in trouble[n] /\ trouble[n] \cap {"moved", "group"} = {}

Unanswered(n) ==
  /\ Failing(n) /\ failed[n] < MaxFailed
  /\ failed' = [failed EXCEPT ![n] = @ + 1]

SkipsNode(k) ==              \* a slip: continue for return
  /\ Unanswered(Home[call[k].item])
  /\ Go(k, "next")
  /\ UNCHANGED <<running, ClientSet, open>>

ErrorUnread(k) ==            \* a slip: the entry is read before the error
  /\ Failing(Home[call[k].item])
  /\ Panic

(* GetVolume with an error: the connection stays open.                     *)
GetVolumeFails(k) ==
  /\ Unanswered(Home[call[k].item])
  /\ Go(k, IF k = "volumes" THEN "error" ELSE "next")
  /\ UNCHANGED <<running, ClientSet, open>>

GetVolumeKept(k) ==          \* a slip: the connection of an answer stays open
  LET i == call[k].item IN
  /\ ~Failing(Home[i])
  /\ IF Nil(i) THEN Panic
     ELSE /\ Set(k, [call[k] EXCEPT !.at = "next", !.entries = @ \cup {i}])
          /\ UNCHANGED <<running, ClientSet, failed, open>>

(* And without: the entry, or nil, which is not looked for.                *)
GetVolumeAnswers(k) ==
  LET i == call[k].item IN
  /\ ~Failing(Home[i])
  /\ IF Nil(i) THEN Panic
     ELSE /\ open' = [open EXCEPT ![Home[i]] = @ - 1]
          /\ Set(k, [call[k] EXCEPT !.at = "next", !.entries = @ \cup {i}])
          /\ UNCHANGED <<running, ClientSet, failed>>

GetVolume(k) ==
  /\ call[k].at = "rpc"
  /\ GetVolumeFails(k) \/ GetVolumeAnswers(k)
  /\ UNCHANGED world

-----------------------------------------------------------------------------
Handler(k) == CheckClient(k) \/ MakeClient(k) \/ ReturnClient(k) \/ Done(k) \/ GetVolume(k)

Server ==
  \/ ListPVs \/ ControllerGetVolume \/ ListContents \/ NextVolume \/ NextSnapshot
  \/ \E k \in Kind : Handler(k) \/ Answer(k)

Next ==
  \/ \E v \in Volume : PVBound(v) \/ VolumeDeleted(v)
  \/ \E c \in Content : ContentMade(c) \/ SnapshotCreated(c) \/ SnapshotDeleted(c) \/ SourceDeleted(c)
  \/ \E i \in Item : Lost(i)
  \/ \E n \in Node : Troubled(n) \/ \E t \in Trouble : Repaired(n, t)
  \/ \E k \in Kind : Ask(k)
  \/ Server
  \/ Restart

Spec == Init /\ [][Next]_vars

(* Goroutines run, gRPC fails a call whose peer is gone, the kubelet       *)
(* starts controller and agents again, the monitor lists volumes again and *)
(* again.  Nobody need clear debris, or mend a group, a node or a PV.      *)
Volumes == ListPVs \/ NextVolume \/ Handler("volumes") \/ Answer("volumes")

FairSpec ==
  /\ Spec
  /\ WF_vars(Volumes) /\ WF_vars(Ask("volumes")) /\ WF_vars(Restart)
  /\ \A n \in Node : WF_vars(Repaired(n, "agent"))

-----------------------------------------------------------------------------
(* A connection that is open is that of a call under way, or of one that   *)
(* failed since the process started: one answered leaves none.             *)
ConnectionsAccounted ==
  \A n \in Node :
    open[n] = failed[n] + Cardinality({k \in Kind : call[k].at = "rpc" /\ Home[call[k].item] = n})

(* What kept the agent from being asked for an item, or from answering.    *)
Omitted(i) == \/ i \in orphans \/ Home[i] = None
              \/ failed[Home[i]] > 0 \/ <<"node", Home[i]>> \in had

(* ListVolumes answers every volume with a group that was Bound when it    *)
(* began, or an error; ListSnapshots every snapshot that was ready when it *)
(* began, those of other nodes too when an agent does not answer, and      *)
(* leaves one out only when its source's PV was deleted or names no node,  *)
(* or when since the process started its node was missing in the cache or  *)
(* a call to the agent failed.                                             *)
ListingsWhole ==
  LET v == call["volumes"]  s == call["snapshots"] IN
  /\ v.at = "answered" => v.entries = v.listed \ Ungrouped
  /\ s.at = "answered" =>
       \A i \in s.listed : s.copy[i] = "ready" => i \in s.entries \/ Omitted(i)

(* A listing ends the process only over a content whose status does not    *)
(* say if it is ready, one that was made by hand, a volume or snapshot     *)
(* that is no longer on disk, a group that cannot be opened or another     *)
(* agent at the address of the node it asks, or a clientset that a         *)
(* concurrent call could not make: never over an agent that fails, over    *)
(* debris, over a source that was deleted, or a node that is missing.      *)
PanicsNamed ==
  [][running /\ ~running' =>
       \/ \E c \in Content : call["snapshots"].copy[c] = "bare"
       \/ \E c \in Preprovisioned : call["snapshots"].copy[c] = "ready"
       \/ \E k \in Kind : call[k].at = "rpc" /\ Nil(call[k].item)
       \/ <<"config", None>> \in had]_vars

(* The monitor comes to have its answer, whatever calls race with its own  *)
(* and however often agents fail, once nothing ends the process and each   *)
(* PV with a group names a node that the lister has, without debris.       *)
Listable(v) == Home[v] # None /\ trouble[Home[v]] \cap {"node", "debris"} = {}

VolumesListed ==
  <>[](running /\ \A v \in bound \ Ungrouped : Listable(v))
    => []<>(call["volumes"].at = "answered")

=============================================================================
