------------------------------- MODULE NodeMount -------------------------------
(***************************************************************************)
(* NodePublishVolume and NodeUnpublishVolume of the node agent,            *)
(* src/pkg/driver/agent.go, on one node: a target path for each pod, a     *)
(* directory onto which the volume's mountpoint is bind-mounted.           *)
(*                                                                         *)
(* Mount runs mount(8) twice, to bind and to remount with the options.     *)
(* IsLikelyNotMountPoint compares devices, and cannot see a bind mount     *)
(* within one file system; CleanupMountPoint reads the mount table.  The   *)
(* kubelet has one call at a time for a target and repeats it until it     *)
(* succeeds; a call whose deadline has passed works on in the agent.       *)
(* Mounts outlive the agent: it mounts in the host's name space.           *)
(***************************************************************************)
EXTENDS Naturals, Sequences

CONSTANTS
  Target,   \* target paths, one for each pod and volume
  Block,    \* those published with the block access type
  Readonly, \* those published read-only
  MaxLate,  \* bound on the calls that outlive their deadline
  MaxFaults \* bound on agent restarts and failing mount commands

ASSUME NodeMountAssumption ==
  /\ Block \subseteq Target /\ Readonly \subseteq Target
  /\ MaxLate \in Nat /\ MaxFaults \in Nat

VARIABLES
  pod,    \* where each target's pod is
  jobs,   \* the agent's handlers
  exists, \* the targets that are there
  mnt,    \* the mounts stacked on each, the last one on top
  fs,     \* /opt/csi-hostpath and the kubelet's directory are on one, or on two
  late, faults

vars == <<pod, jobs, exists, mnt, fs, late, faults>>

Places == {"mkdir", "check", "bind", "remount",
           "stat", "list", "umount", "relist", "rmdir"}
Job == [op : {"publish", "unpublish"}, target : Target, at : Places,
        caller : {"waits", "left"}]

TypeOK ==
  /\ pod \in [Target -> {"none", "starting", "running", "ending", "gone"}]
  /\ jobs \subseteq Job
  /\ exists \subseteq Target
  /\ mnt \in [Target -> Seq({"rw", "ro"})]
  /\ fs \in {"one", "two"}
  /\ late \in 0 .. MaxLate /\ faults \in 0 .. MaxFaults

Init ==
  /\ pod = [t \in Target |-> "none"]
  /\ jobs = {}
  /\ exists = {}
  /\ mnt = [t \in Target |-> <<>>]
  /\ fs \in {"one", "two"}
  /\ late = 0 /\ faults = 0

-----------------------------------------------------------------------------
(* The kubelet.                                                            *)

Pod(t, from, to) ==
  /\ pod[t] \in from
  /\ pod' = [pod EXCEPT ![t] = to]
  /\ UNCHANGED <<jobs, exists, mnt, fs, late, faults>>

PodScheduled(t) == Pod(t, {"none"}, "starting")
PodDeleted(t)   == Pod(t, {"starting", "running"}, "ending")

KubeletCalls(t) ==
  /\ ~\E j \in jobs : j.target = t /\ j.caller = "waits"
  /\ \/ /\ pod[t] = "starting"
        /\ jobs' = jobs \cup
             {[op |-> "publish", target |-> t, at |-> "mkdir", caller |-> "waits"]}
     \/ /\ pod[t] = "ending"
        /\ jobs' = jobs \cup
             {[op |-> "unpublish", target |-> t, at |-> "stat", caller |-> "waits"]}
  /\ UNCHANGED <<pod, exists, mnt, fs, late, faults>>

-----------------------------------------------------------------------------
At(j, op, place) == j.op = op /\ j.at = place

Goto(j, place) ==
  /\ jobs' = (jobs \ {j}) \cup {[j EXCEPT !.at = place]}
  /\ UNCHANGED pod

(* The kubelet hears of it unless it has given the call up.                *)
ReturnError(j) == jobs' = jobs \ {j} /\ UNCHANGED pod

ReturnDone(j) ==
  /\ jobs' = jobs \ {j}
  /\ pod' = IF j.caller = "left" THEN pod
            ELSE [pod EXCEPT ![j.target] =
                    CASE j.op = "unpublish" -> "gone"
                      [] j.op = "publish" /\ @ = "starting" -> "running"
                      [] OTHER -> @]

bounds == <<fs, late, faults>>

(* NodePublishVolume.  A block volume is not mounted at all.               *)
MakeTarget(j) ==
  /\ At(j, "publish", "mkdir")
  /\ IF j.target \in Block THEN ReturnDone(j) /\ UNCHANGED exists
     ELSE exists' = exists \cup {j.target} /\ Goto(j, "check")
  /\ UNCHANGED <<mnt, bounds>>

CheckDirectory(j) ==        \* a slip: a target that is there is mounted
  /\ At(j, "publish", "check")
  /\ IF j.target \in exists THEN ReturnDone(j) ELSE ReturnError(j)
  /\ UNCHANGED <<exists, mnt, bounds>>

(* IsLikelyNotMountPoint.                                                  *)
CheckTarget(j) ==
  /\ At(j, "publish", "check")
  /\ IF j.target \notin exists THEN ReturnError(j)
     ELSE IF mnt[j.target] # <<>> /\ fs = "two" THEN ReturnDone(j)
     ELSE Goto(j, "bind")
  /\ UNCHANGED <<exists, mnt, bounds>>

Bind(j) ==
  /\ At(j, "publish", "bind")
  /\ IF j.target \notin exists THEN ReturnError(j) /\ UNCHANGED mnt
     ELSE /\ mnt' = [mnt EXCEPT ![j.target] = Append(@, "rw")]
          /\ Goto(j, "remount")
  /\ UNCHANGED <<exists, bounds>>

RemountPlain(j) ==          \* a slip: the options of the bind, "ro" not among them
  LET t == j.target IN
  /\ At(j, "publish", "remount")
  /\ IF mnt[t] = <<>> THEN ReturnError(j) /\ UNCHANGED mnt
     ELSE /\ mnt' = [mnt EXCEPT ![t][Len(mnt[t])] = "rw"]
          /\ ReturnDone(j)
  /\ UNCHANGED <<exists, bounds>>

(* Of the mount on top, which may be another call's.                       *)
Remount(j) ==
  LET t == j.target IN
  /\ At(j, "publish", "remount")
  /\ IF mnt[t] = <<>> THEN ReturnError(j) /\ UNCHANGED mnt
     ELSE /\ mnt' = [mnt EXCEPT ![t][Len(mnt[t])] = IF t \in Readonly THEN "ro" ELSE "rw"]
          /\ ReturnDone(j)
  /\ UNCHANGED <<exists, bounds>>

-----------------------------------------------------------------------------
(* NodeUnpublishVolume: CleanupMountPoint.                                 *)

StatTarget(j) ==
  /\ At(j, "unpublish", "stat")
  /\ IF j.target \notin exists THEN ReturnDone(j) ELSE Goto(j, "list")
  /\ UNCHANGED <<exists, mnt, bounds>>

ListMounts(j) ==
  /\ At(j, "unpublish", "list")
  /\ IF j.target \notin exists THEN ReturnError(j)
     ELSE Goto(j, IF mnt[j.target] = <<>> THEN "rmdir" ELSE "umount")
  /\ UNCHANGED <<exists, mnt, bounds>>

UmountRefused(j) ==         \* a slip: what is mounted twice is in use
  LET t == j.target IN
  /\ At(j, "unpublish", "umount")
  /\ IF Len(mnt[t]) # 1 THEN ReturnError(j) /\ UNCHANGED mnt
     ELSE mnt' = [mnt EXCEPT ![t] = <<>>] /\ Goto(j, "relist")
  /\ UNCHANGED <<exists, bounds>>

UmountLazily(j) ==          \* a slip: what is mounted below is left
  LET t == j.target IN
  /\ At(j, "unpublish", "umount")
  /\ IF mnt[t] = <<>> THEN ReturnError(j) /\ UNCHANGED mnt
     ELSE /\ mnt' = [mnt EXCEPT ![t] = SubSeq(@, 1, Len(@) - 1)]
          /\ ReturnDone(j)
  /\ UNCHANGED <<exists, bounds>>

(* umount takes the mount on top; not mounted is an error.                 *)
Umount(j) ==
  LET t == j.target IN
  /\ At(j, "unpublish", "umount")
  /\ IF mnt[t] = <<>> THEN ReturnError(j) /\ UNCHANGED mnt
     ELSE /\ mnt' = [mnt EXCEPT ![t] = SubSeq(@, 1, Len(@) - 1)]
          /\ Goto(j, "relist")
  /\ UNCHANGED <<exists, bounds>>

(* "Failed to unmount path": one mount is taken in a call.                 *)
ListAgain(j) ==
  /\ At(j, "unpublish", "relist")
  /\ IF j.target \in exists /\ mnt[j.target] = <<>> THEN Goto(j, "rmdir")
     ELSE ReturnError(j)
  /\ UNCHANGED <<exists, mnt, bounds>>

RemoveTarget(j) ==
  LET t == j.target IN
  /\ At(j, "unpublish", "rmdir")
  /\ IF t \in exists /\ mnt[t] = <<>>
     THEN exists' = exists \ {t} /\ ReturnDone(j)
     ELSE ReturnError(j) /\ UNCHANGED exists
  /\ UNCHANGED <<mnt, bounds>>

(* NodeGetVolumeStats: statfs of whatever the path is on.                  *)
NodeGetVolumeStats(t) ==
  IF t \notin exists THEN "error" ELSE IF mnt[t] = <<>> THEN "node" ELSE "volume"

-----------------------------------------------------------------------------
CallTimesOut(j) ==
  /\ late < MaxLate
  /\ j.caller = "waits"
  /\ jobs' = (jobs \ {j}) \cup {[j EXCEPT !.caller = "left"]}
  /\ late' = late + 1
  /\ UNCHANGED <<pod, exists, mnt, fs, faults>>

(* mount(8) fails, on the bind or on the remount.                          *)
MountFails(j) ==
  /\ faults < MaxFaults
  /\ j.at \in {"bind", "remount"}
  /\ ReturnError(j)
  /\ faults' = faults + 1
  /\ UNCHANGED <<exists, mnt, fs, late>>

AgentRestarts ==
  /\ faults < MaxFaults
  /\ jobs # {}
  /\ jobs' = {}
  /\ faults' = faults + 1
  /\ UNCHANGED <<pod, exists, mnt, fs, late>>

Step(j) ==
  \/ MakeTarget(j) \/ CheckTarget(j) \/ Bind(j) \/ Remount(j)
  \/ StatTarget(j) \/ ListMounts(j) \/ Umount(j) \/ ListAgain(j) \/ RemoveTarget(j)

Next ==
  \/ \E t \in Target : PodScheduled(t) \/ PodDeleted(t) \/ KubeletCalls(t)
  \/ \E j \in jobs : Step(j) \/ CallTimesOut(j) \/ MountFails(j)
  \/ AgentRestarts

Spec == Init /\ [][Next]_vars

(* The kubelet repeats a call that failed; handlers wait for nothing but   *)
(* system calls and commands.                                              *)
FairSpec ==
  /\ Spec
  /\ \A t \in Target : /\ WF_vars(KubeletCalls(t))
                       /\ WF_vars(\E j \in jobs : j.target = t /\ Step(j))

-----------------------------------------------------------------------------
(* A pod that runs with a volume it mounts has it mounted, whatever late   *)
(* calls, restarts and repeated calls there were: what the kubelet is told *)
(* of its usage is the volume's, never the node's.                         *)
RunningHasVolume ==
  \A t \in Target \ Block : pod[t] = "running" => NodeGetVolumeStats(t) = "volume"

(* "Indicates SP MUST publish the volume in readonly mode." (csi.pb.go     *)
(* 4060): what a pod sees of a read-only volume is mounted read-only, save *)
(* after a restart or a failure between the bind and the remount, or under *)
(* a late call: the next one finds a mount point, and does not look how it *)
(* is mounted.                                                             *)
ReadonlyHonoured ==
  \A t \in Readonly \ Block : pod[t] = "running" =>
    mnt[t][Len(mnt[t])] = "ro" \/ faults > 0 \/ late > 0

(* A target that NodeUnpublishVolume has answered for is neither mounted   *)
(* nor there, whatever restarts and failures there were ("unpublishes      *)
(* (unmounts) the volume", agent.go:255), but for a NodePublishVolume      *)
(* that was given up and works on.                                         *)
GoneIsClean ==
  \A t \in Target : pod[t] = "gone" =>
    late > 0 \/ (mnt[t] = <<>> /\ t \notin exists)

(* A pod that is to go gets rid of its volume, mounts that were stacked    *)
(* included, one in each call.                                             *)
TeardownEnds == \A t \in Target : pod[t] = "ending" ~> pod[t] = "gone"

=============================================================================
