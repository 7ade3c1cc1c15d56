----------------------------- MODULE CSIController -----------------------------
(***************************************************************************)
(* The controller plugin (src/pkg/driver/controller.go) between the CSI    *)
(* sidecars and the node agents, one RPC at a time.  A handler looks its   *)
(* volume up in the lister cache, asks the node's agent with GetVolume     *)
(* whether the name exists, and calls the agent if it must.                *)
(*                                                                         *)
(* What the sidecars do is taken from how the code and deploy/ rely on     *)
(* them: one call at a time for each object, repeated until it succeeds.   *)
(* An agent is taken at the grain of VolumeServer's handlers: a name is    *)
(* absent, whole, partial (a directory without metadata), or torn (a       *)
(* metadata file that two handlers wrote, and nobody can read); one name   *)
(* of a node that is partial or torn fails every ListVol there.            *)
(***************************************************************************)
EXTENDS Naturals, FiniteSets

CONSTANTS
  Vol, Snap,  \* names of volumes and of snapshots
  NodeOf,     \* the node selected for each volume's claim
  SnapOf,     \* the volume each snapshot is taken of
  Growing,    \* the claims whose class allows expansion
  From,       \* the volume or snapshot a volume is made from, or None
  None,
  MaxTimeouts,\* bound on the times that calls are given up, or the controller
              \* ends, while agents work on
  MaxFaults,  \* bound on agent crashes, failed agent calls and lost answers
  Together    \* FALSE: a behaviour has the ones or the others

Name == Vol \cup Snap

ASSUME ControllerAssumption ==
  /\ Vol \cap Snap = {} /\ None \notin Name
  /\ SnapOf \in [Snap -> Vol]
  /\ From \in [Vol -> Name \cup {None}]
  /\ DOMAIN NodeOf = Vol /\ Growing \subseteq Vol
  /\ MaxTimeouts \in Nat /\ MaxFaults \in Nat /\ Together \in BOOLEAN

VARIABLES
  phase,   \* of each claim and its PV
  snap,    \* of each snapshot and its content object
  resize,  \* of each claim, whether it is to grow, and how far the call is
  cache,   \* the PVs pvLister shows
  rpc,     \* the controller's call for each object: what, and how far
  jobs,    \* handlers running in agents
  disk,    \* what the agent's node holds under each name
  spoilt,  \* the names whose removal was answered though it removed nothing,
           \* or not all (history)
  grown,   \* the volumes that an expansion was begun for (history)
  timeouts,
  faults

vars == <<phase, snap, resize, cache, rpc, jobs, disk, spoilt, grown, timeouts, faults>>
count == <<timeouts, faults>>
history == <<spoilt, grown>>

Phases == {"none", "wanted", "dropped", "bound", "released", "gone"}
Snaps  == {"none", "wanted", "ready", "deleting", "gone"}
Makes  == {"CreateVolume", "CreateSnapshot"}
Drops  == {"DeleteVolume", "DeleteSnapshot"}
Calls  == Makes \cup Drops \cup {"ControllerExpandVolume"}
NoCall == [op |-> "none", at |-> "none"]

(* A handler in an agent: not begun, with the metadata read that it        *)
(* copies, at work, or a removal at work that has met an expansion or a    *)
(* copy under its name.  Nobody waits for a late one.                      *)
Job == [op : Calls, name : Name, late : BOOLEAN,
        at : {"queued", "read", "begun", "met", "met_copy"}]

TypeOK ==
  /\ phase \in [Vol -> Phases]
  /\ snap \in [Snap -> Snaps]
  /\ resize \in [Vol -> {"none", "wanted", "lookup", "call", "done"}]
  /\ cache \in SUBSET Vol
  /\ rpc \in [Name -> [op : Makes \cup Drops, at : {"lookup", "get", "call"}] \cup {NoCall}]
  /\ jobs \subseteq Job
  /\ disk \in [Name -> {"absent", "partial", "torn", "whole"}]
  /\ spoilt \subseteq Name /\ grown \subseteq Vol
  /\ timeouts \in 0 .. MaxTimeouts /\ faults \in 0 .. MaxFaults

-----------------------------------------------------------------------------
(* GetNodeNameFromCsiPV; a snapshot lives where its source lives.          *)
Source(x) == IF x \in Snap THEN SnapOf[x] ELSE x
Place(x)  == NodeOf[Source(x)]
HasPV(v)  == phase[v] \in {"bound", "released"}

(* ListVol of the node fails.                                              *)
Unreadable(x) == disk[x] \in {"partial", "torn"}
Broken(node)  == \E x \in Name : Place(x) = node /\ Unreadable(x)

(* What a name is made from, and whose sizes its metadata can come to hold *)
(* through the copies.  They are all one until one of these volumes is     *)
(* expanded; then their lengths may differ.                                *)
Origin(x) == IF x \in Snap THEN {SnapOf[x]} ELSE {From[x]} \ {None}
Copied(x) == Origin(x) # {}

Kin == [x \in Name |->
          {v \in Vol : \A A \in SUBSET Name :
             x \in A /\ (\A y \in A : Origin(y) \subseteq A) => v \in A}]

Grown(x) == Kin[x] \cap grown # {}

Init ==
  /\ phase = [v \in Vol |-> "none"]
  /\ snap = [s \in Snap |-> "none"]
  /\ resize = [v \in Vol |-> "none"]
  /\ cache = {}
  /\ rpc = [x \in Name |-> NoCall]
  /\ jobs = {}
  /\ disk = [x \in Name |-> "absent"]
  /\ spoilt = {} /\ grown = {}
  /\ timeouts = 0 /\ faults = 0

-----------------------------------------------------------------------------
(* The cluster: users and the Kubernetes controllers around the sidecars.  *)

Usable(x) == \/ x = None
             \/ x \in Vol /\ phase[x] = "bound"
             \/ x \in Snap /\ snap[x] = "ready"

(* Finalizers keep the source of a claim that waits, and the source of a   *)
(* snapshot that is being taken.                                           *)
Protected(x) == \/ \E v \in Vol : From[v] = x /\ phase[v] \in {"wanted", "dropped"}
                \/ \E s \in Snap : SnapOf[s] = x /\ snap[s] = "wanted"

cluster == <<phase, snap, resize>>

Claim(v) ==
  /\ phase[v] = "none" /\ Usable(From[v])
  /\ phase' = [phase EXCEPT ![v] = "wanted"]
  /\ UNCHANGED <<snap, resize, cache, rpc, jobs, disk, history, count>>

Unclaim(v) ==
  /\ \/ phase[v] = "wanted" /\ phase' = [phase EXCEPT ![v] = "dropped"]
     \/ phase[v] = "bound" /\ phase' = [phase EXCEPT ![v] = "released"]
  /\ ~Protected(v)
  /\ UNCHANGED <<snap, resize, cache, rpc, jobs, disk, history, count>>

Resize(v) ==                  \* once for each claim
  /\ v \in Growing /\ phase[v] = "bound" /\ resize[v] = "none"
  /\ resize' = [resize EXCEPT ![v] = "wanted"]
  /\ UNCHANGED <<phase, snap, cache, rpc, jobs, disk, history, count>>

TakeSnapshot(s) ==
  /\ snap[s] = "none" /\ phase[SnapOf[s]] = "bound"
  /\ snap' = [snap EXCEPT ![s] = "wanted"]
  /\ UNCHANGED <<phase, resize, cache, rpc, jobs, disk, history, count>>

DropSnapshot(s) ==
  /\ snap[s] = "ready" /\ ~Protected(s)
  /\ snap' = [snap EXCEPT ![s] = "deleting"]
  /\ UNCHANGED <<phase, resize, cache, rpc, jobs, disk, history, count>>

(* The informer's watch: the cache follows the API server, later.          *)
SyncCache ==
  /\ cache' = {v \in Vol : HasPV(v)}
  /\ cache' # cache
  /\ UNCHANGED <<cluster, rpc, jobs, disk, history, count>>

(* What is due for an object, if anything: the sidecar calls again and     *)
(* again until the call succeeds.                                          *)
Due(x) ==
  IF x \in Vol
  THEN CASE phase[x] = "wanted" -> "CreateVolume"
         [] phase[x] = "released" -> "DeleteVolume"
         [] OTHER -> "none"
  ELSE CASE snap[x] = "wanted" -> "CreateSnapshot"
         [] snap[x] = "deleting" -> "DeleteSnapshot"
         [] OTHER -> "none"

SidecarCalls(x) ==
  /\ rpc[x] = NoCall /\ Due(x) # "none"
  /\ rpc' = [rpc EXCEPT ![x] = [op |-> Due(x), at |-> "lookup"]]
  /\ UNCHANGED <<cluster, cache, jobs, disk, history, count>>

(* What a call that succeeds makes of its object.  A volume made for a     *)
(* claim that was deleted meanwhile gets its PV, which is then released.   *)
Succeed(x) ==
  /\ rpc' = [rpc EXCEPT ![x] = NoCall]
  /\ CASE rpc[x].op = "CreateVolume" ->
            /\ phase' = [phase EXCEPT ![x] = IF @ = "wanted" THEN "bound" ELSE "released"]
            /\ UNCHANGED <<snap, resize>>
       [] rpc[x].op = "DeleteVolume" ->
            phase' = [phase EXCEPT ![x] = "gone"] /\ UNCHANGED <<snap, resize>>
       [] rpc[x].op = "CreateSnapshot" ->
            snap' = [snap EXCEPT ![x] = "ready"] /\ UNCHANGED <<phase, resize>>
       [] rpc[x].op = "DeleteSnapshot" ->
            snap' = [snap EXCEPT ![x] = "gone"] /\ UNCHANGED <<phase, resize>>

Fail(x) == rpc' = [rpc EXCEPT ![x] = NoCall] /\ UNCHANGED cluster

-----------------------------------------------------------------------------
(* The controller's handlers.                                              *)

Advance(x, place) == rpc' = [rpc EXCEPT ![x].at = place] /\ UNCHANGED cluster

Sent(o, x) == [op |-> o, name |-> x, at |-> "queued", late |-> FALSE]

(* A slip: every call needs the PV, CreateVolume's too.                    *)
LookupCached(x) ==
  /\ rpc[x].at = "lookup"
  /\ IF Source(x) \in cache THEN Advance(x, "get") ELSE Fail(x)
  /\ UNCHANGED <<cache, jobs, disk, history, count>>

(* CreateVolume has its node from the claim, if pvcLister still shows it;  *)
(* the others find the PV of the volume, or of the snapshot's source, in   *)
(* the cache, or fail.                                                     *)
Lookup(x) ==
  LET creates == rpc[x].op = "CreateVolume" IN
  /\ rpc[x].at = "lookup"
  /\ \/ /\ creates \/ Source(x) \in cache
        /\ Advance(x, "get")
     \/ /\ IF creates THEN phase[x] = "dropped" ELSE Source(x) \notin cache
        /\ Fail(x)
  /\ UNCHANGED <<cache, jobs, disk, history, count>>

(* Slips: the directory alone counts as the volume; an agent that was      *)
(* called is not waited for.                                               *)
GetVolumeByDirectory(x) ==
  /\ rpc[x].at = "get"
  /\ IF (rpc[x].op \in Makes) = (disk[x] # "absent")
     THEN Succeed(x) /\ UNCHANGED jobs
     ELSE Advance(x, "call") /\ jobs' = jobs \cup {Sent(rpc[x].op, x)}
  /\ UNCHANGED <<cache, disk, history, count>>

GetVolumeUnawaited(x) ==
  /\ rpc[x].at = "get"
  /\ IF Broken(Place(x)) THEN Fail(x) /\ UNCHANGED jobs
     ELSE /\ Succeed(x)
          /\ jobs' = IF (rpc[x].op \in Makes) = (disk[x] = "whole") THEN jobs
                     ELSE jobs \cup {[Sent(rpc[x].op, x) EXCEPT !.late = TRUE]}
  /\ UNCHANGED <<cache, disk, history, count>>

(* GetVolume lists the node's group.  There already, or gone already: the  *)
(* call succeeds at once.                                                  *)
GetVolume(x) ==
  /\ rpc[x].at = "get"
  /\ IF Broken(Place(x)) THEN Fail(x) /\ UNCHANGED jobs
     ELSE IF (rpc[x].op \in Makes) = (disk[x] = "whole")
          THEN Succeed(x) /\ UNCHANGED jobs
          ELSE Advance(x, "call") /\ jobs' = jobs \cup {Sent(rpc[x].op, x)}
  /\ UNCHANGED <<cache, disk, history, count>>

Fault ==
  /\ faults < MaxFaults /\ (Together \/ timeouts = 0)
  /\ faults' = faults + 1 /\ UNCHANGED timeouts

(* The agent cannot be asked; or it cannot open the group's directory, and *)
(* its answer is the empty listing: the name is taken for missing.         *)
GetVolumeUnlisted(x) ==
  /\ Fault
  /\ rpc[x].at = "get"
  /\ \/ Fail(x) /\ UNCHANGED <<jobs, spoilt>>
     \/ /\ rpc[x].op \in Makes
        /\ Advance(x, "call") /\ jobs' = jobs \cup {Sent(rpc[x].op, x)}
        /\ UNCHANGED spoilt
     \/ /\ rpc[x].op \in Drops
        /\ Succeed(x) /\ spoilt' = spoilt \cup {x}
        /\ UNCHANGED jobs
  /\ UNCHANGED <<cache, disk, grown>>

(* ControllerExpandVolume, called by another sidecar than the rest: no     *)
(* GetVolume comes first.                                                  *)
SidecarResizes(v) ==
  /\ resize[v] = "wanted" /\ phase[v] = "bound"
  /\ resize' = [resize EXCEPT ![v] = "lookup"]
  /\ UNCHANGED <<phase, snap, cache, rpc, jobs, disk, history, count>>

ControllerExpandVolume(v) ==
  /\ resize[v] = "lookup"
  /\ IF v \in cache
     THEN /\ resize' = [resize EXCEPT ![v] = "call"]
          /\ jobs' = jobs \cup {Sent("ControllerExpandVolume", v)}
     ELSE /\ resize' = [resize EXCEPT ![v] = "wanted"]
          /\ UNCHANGED jobs
  /\ UNCHANGED <<phase, snap, cache, rpc, disk, history, count>>

-----------------------------------------------------------------------------
(* The agents' handlers (VolumeServer), from their first change to the     *)
(* last.                                                                   *)

Answer(j, good) ==
  IF j.late THEN UNCHANGED <<cluster, rpc>>
  ELSE IF j.op = "ControllerExpandVolume"
  THEN /\ resize' = [resize EXCEPT ![j.name] = IF good THEN "done" ELSE "wanted"]
       /\ UNCHANGED <<phase, snap, rpc>>
  ELSE IF good THEN Succeed(j.name) ELSE Fail(j.name)

(* CloneVol and CreateSnapshot read their source's metadata first, and     *)
(* ExpandVol its own: on this node, or the handler returns an error.       *)
Copies(j) == j.op \in Makes /\ Copied(j.name)
Reads(j)  == j.op = "ControllerExpandVolume" \/ Copies(j)

Readable(j) ==
  LET from == CASE j.op = "CreateVolume" -> From[j.name]
                [] j.op = "CreateSnapshot" -> SnapOf[j.name]
                [] OTHER -> j.name
  IN  Place(from) = Place(j.name) /\ disk[from] = "whole"

(* The first change: a directory, or the removal of a metadata file; a     *)
(* directory that has a metadata file keeps it.                            *)
Beginning(j) ==
  IF j.op \in Makes /\ disk[j.name] # "absent" THEN disk[j.name]
  ELSE IF j.op \in Drops /\ disk[j.name] = "absent" THEN "absent"
  ELSE "partial"

(* A slip: the old metadata goes, or the directory is made, before the     *)
(* metadata is read.                                                       *)
AgentReadsLate(j) ==
  /\ j.at = "queued" /\ Reads(j)
  /\ disk' = [disk EXCEPT ![j.name] = Beginning(j)]
  /\ IF Readable(j)
     THEN /\ jobs' = (jobs \ {j}) \cup {[j EXCEPT !.at = "read"]}
          /\ UNCHANGED <<cluster, rpc>>
     ELSE /\ jobs' = jobs \ {j}
          /\ Answer(j, FALSE)
  /\ UNCHANGED <<cache, history, count>>

AgentReads(j) ==
  /\ j.at = "queued" /\ Reads(j)
  /\ IF Readable(j)
     THEN /\ jobs' = (jobs \ {j}) \cup {[j EXCEPT !.at = "read"]}
          /\ UNCHANGED <<cluster, rpc>>
     ELSE /\ jobs' = jobs \ {j}
          /\ Answer(j, FALSE)
  /\ UNCHANGED <<cache, disk, history, count>>

(* Two removals under one name only help each other; one that is at work   *)
(* with any other handler has met it.                                      *)
AtWork(j) == j.at \in {"begun", "met", "met_copy"}

Meet(set, x) ==
  LET here  == {k \in set : k.name = x /\ AtWork(k)}
      drops == {k \in here : k.op \in Drops}
      how   == IF \E k \in here : Copies(k) THEN "met_copy" ELSE "met"
  IN  IF here = drops THEN set
      ELSE (set \ drops) \cup
           {[k EXCEPT !.at = IF @ = "met_copy" THEN @ ELSE how] : k \in drops}

(* ExpandVol makes no directory, and fails in one that was removed.        *)
AgentBegins(j) ==
  /\ j.at = IF Reads(j) THEN "read" ELSE "queued"
  /\ IF j.op = "ControllerExpandVolume" /\ disk[j.name] = "absent"
     THEN /\ jobs' = jobs \ {j}
          /\ Answer(j, FALSE)
          /\ UNCHANGED <<disk, grown>>
     ELSE /\ jobs' = Meet((jobs \ {j}) \cup {[j EXCEPT !.at = "begun"]}, j.name)
          /\ disk' = [disk EXCEPT ![j.name] = Beginning(j)]
          /\ grown' = grown \cup {v \in Vol : v = j.name /\ j.op = "ControllerExpandVolume"}
          /\ UNCHANGED <<cluster, rpc>>
  /\ UNCHANGED <<cache, spoilt, count>>

(* A removal has taken a maker's directory: MkdirAll makes it again.       *)
MakesAgain(j) ==
  /\ AtWork(j) /\ j.op \in Makes /\ disk[j.name] = "absent"
  /\ disk' = [disk EXCEPT ![j.name] = "partial"]
  /\ UNCHANGED <<cluster, cache, rpc, jobs, history, count>>

(* A removal leaves what another handler puts there after it has listed    *)
(* the directory, and succeeds.  Of a copy it can leave files without the  *)
(* metadata.                                                               *)
Left(j) == CASE j.at = "begun" -> {"absent"}
             [] j.at = "met" -> {"absent", disk[j.name]}
             [] OTHER -> {"absent", "partial", disk[j.name]}

RemovalEnds(j) ==
  /\ AtWork(j) /\ j.op \in Drops
  /\ jobs' = jobs \ {j}
  /\ \E left \in Left(j) : disk' = [disk EXCEPT ![j.name] = left]
  /\ Answer(j, TRUE)
  /\ UNCHANGED <<cache, history, count>>

(* RemoveAll fails, at once or halfway, and its error is dropped.          *)
RemovalFails(j) ==
  /\ Fault
  /\ j.op \in Drops /\ disk[j.name] # "absent"
  /\ jobs' = jobs \ {j}
  /\ \E left \in {disk[j.name], "partial"} : disk' = [disk EXCEPT ![j.name] = left]
  /\ spoilt' = spoilt \cup {j.name}
  /\ Answer(j, TRUE)
  /\ UNCHANGED <<cache, grown>>

(* The metadata is written from the file's start, and nothing is cut off:  *)
(* over a longer text, such as an expansion's or a later copy's, it is     *)
(* torn.  The expansions of a claim all write one text, no shorter than    *)
(* its CreateVolume's.  What is written to a file that an expansion has    *)
(* removed is lost.                                                        *)
Writes(j) ==
  LET longer == Grown(j.name) /\ (j.op \in Makes \/ Copied(j.name))
      lost   == \E k \in jobs \ {j} : /\ k.name = j.name /\ AtWork(k)
                                      /\ k.op = "ControllerExpandVolume"
  IN  IF disk[j.name] = "absent" THEN {"absent"}
      ELSE {"whole"} \cup (IF longer /\ disk[j.name] # "partial" THEN {"torn"} ELSE {})
                     \cup (IF lost THEN {disk[j.name]} ELSE {})

(* A slip: an error after the last change, such as that of a Close.        *)
MakingEndsLate(j) ==
  /\ AtWork(j) /\ j.op \notin Drops
  /\ jobs' = jobs \ {j}
  /\ \E left \in Writes(j) : disk' = [disk EXCEPT ![j.name] = left]
  /\ \E good \in BOOLEAN : Answer(j, good)
  /\ UNCHANGED <<cache, history, count>>

(* A handler whose directory was removed under it fails at the next path   *)
(* it opens, or has none left to open and succeeds.                        *)
MakingEnds(j) ==
  /\ AtWork(j) /\ j.op \notin Drops
  /\ jobs' = jobs \ {j}
  /\ \E left \in Writes(j) : disk' = [disk EXCEPT ![j.name] = left]
  /\ \E good \in BOOLEAN : (good \/ disk[j.name] = "absent") /\ Answer(j, good)
  /\ UNCHANGED <<cache, history, count>>

AgentEnds(j) == RemovalEnds(j) \/ MakingEnds(j)

(* The call's deadline passes.  It fails, and the agent, which does not    *)
(* look at its context, works on.                                          *)
GiveUp(j) ==
  /\ timeouts < MaxTimeouts /\ (Together \/ faults = 0)
  /\ ~j.late
  /\ Answer(j, FALSE)
  /\ jobs' = (jobs \ {j}) \cup {[j EXCEPT !.late = TRUE]}
  /\ timeouts' = timeouts + 1
  /\ UNCHANGED <<cache, disk, history, faults>>

(* A system call of the handler fails, and what it has made stays.  Or the *)
(* answer of one that has ended is lost.                                   *)
AgentFails(j) ==
  /\ Fault
  /\ AtWork(j)
  /\ jobs' = jobs \ {j}
  /\ \E left \in IF j.op \in Drops THEN Left(j) ELSE Writes(j) \cup {disk[j.name]} :
       disk' = [disk EXCEPT ![j.name] = left]
  /\ Answer(j, FALSE)
  /\ UNCHANGED <<cache, history>>

(* The agent of a node restarts: its handlers are gone, their calls fail.  *)
Waits(set, x, ops) == \E j \in set : j.name = x /\ ~j.late /\ j.op \in ops

AgentCrash(node) ==
  LET hit == {j \in jobs : Place(j.name) = node} IN
  /\ Fault
  /\ hit # {}
  /\ jobs' = jobs \ hit
  /\ rpc' = [x \in Name |-> IF Waits(hit, x, Makes \cup Drops) THEN NoCall ELSE rpc[x]]
  /\ resize' = [v \in Vol |-> IF Waits(hit, v, {"ControllerExpandVolume"})
                              THEN "wanted" ELSE resize[v]]
  /\ UNCHANGED <<phase, snap, cache, disk, history>>

-----------------------------------------------------------------------------
(* The controller's process ends, at a listing's panic (Listings) or a      *)
(* signal, and another starts and fills its caches.  Its calls fail; the   *)
(* agents work on.                                                         *)
ControllerRestarts ==
  /\ timeouts < MaxTimeouts /\ (Together \/ faults = 0)
  /\ \/ \E x \in Name : rpc[x] # NoCall
     \/ \E v \in Vol : resize[v] \in {"lookup", "call"}
  /\ rpc' = [x \in Name |-> NoCall]
  /\ resize' = [v \in Vol |-> IF resize[v] \in {"lookup", "call"} THEN "wanted" ELSE resize[v]]
  /\ jobs' = {[j EXCEPT !.late = TRUE] : j \in jobs}
  /\ cache' = {v \in Vol : HasPV(v)}
  /\ timeouts' = timeouts + 1
  /\ UNCHANGED <<phase, snap, disk, history, faults>>

-----------------------------------------------------------------------------
Handler(x) == Lookup(x) \/ GetVolume(x)

Next ==
  \/ \E v \in Vol : Claim(v) \/ Unclaim(v) \/ Resize(v)
  \/ \E s \in Snap : TakeSnapshot(s) \/ DropSnapshot(s)
  \/ SyncCache
  \/ \E x \in Name : SidecarCalls(x) \/ Handler(x) \/ GetVolumeUnlisted(x)
  \/ \E v \in Vol : SidecarResizes(v) \/ ControllerExpandVolume(v)
  \/ \E j \in jobs : \/ AgentReads(j) \/ AgentBegins(j) \/ MakesAgain(j) \/ AgentEnds(j)
                     \/ RemovalFails(j) \/ AgentFails(j) \/ GiveUp(j)
  \/ \E v \in Vol : AgentCrash(NodeOf[v])
  \/ ControllerRestarts

Spec == Init /\ [][Next]_vars

CallsFor(x) == IF x \in Snap THEN {"CreateSnapshot", "DeleteSnapshot"}
               ELSE {"CreateVolume", "DeleteVolume", "ControllerExpandVolume"}

(* The sidecars repeat a call that failed, the informers deliver what      *)
(* changed, and a handler that runs goes on, a late one too.               *)
FairSpec ==
  /\ Spec
  /\ WF_vars(SyncCache)
  /\ \A x \in Name :
       /\ WF_vars(SidecarCalls(x))
       /\ WF_vars(Handler(x))
       /\ \A o \in CallsFor(x), late \in BOOLEAN :
            WF_vars(\E j \in jobs : /\ j.name = x /\ j.op = o /\ j.late = late
                                    /\ AgentReads(j) \/ AgentBegins(j) \/ AgentEnds(j))
  /\ \A v \in Vol : WF_vars(SidecarResizes(v)) /\ WF_vars(ControllerExpandVolume(v))

-----------------------------------------------------------------------------
(* A bound claim has its volume: present in its node's group from the      *)
(* answer of CreateVolume until DeleteVolume is called for it, and intact  *)
(* but while it is being expanded.  Only what a fault cut short leaves it  *)
(* partial; its metadata are torn only if it, or what it is a copy of, was *)
(* expanded, and by a second writer: the handler of a call that was given   *)
(* up, or one called after a fault for what was there.                     *)
TornByTwo(x) == disk[x] = "torn" => Grown(x) /\ (timeouts > 0 \/ faults > 0)

BoundHasVolume ==
  \A v \in Vol : phase[v] = "bound" =>
    /\ disk[v] # "absent"
    /\ disk[v] = "partial" =>
         faults > 0 \/ \E j \in jobs : j.name = v /\ j.op = "ControllerExpandVolume"
    /\ TornByTwo(v)

(* A snapshot that was reported ready stays, with its metadata, until its  *)
(* deletion is asked for, though its source may be gone and late handlers  *)
(* finish; a second copier of a source that was expanded can tear them.    *)
ReadyHasSnapshot ==
  \A s \in Snap : snap[s] = "ready" => disk[s] \in {"whole", "torn"} /\ TornByTwo(s)

(* What is gone has left nothing.  A snapshot, or a volume nobody resized, *)
(* whose deletion has succeeded has no directory left, whatever            *)
(* overlapped, failed or died before.  The exceptions: a removal that was  *)
(* answered and did not remove (spoilt); a ControllerExpandVolume, alone   *)
(* among the calls, can still be at work when DeleteVolume is, and         *)
(* RemoveVol succeeds whatever it leaves ("RemoveLV removes a volume",     *)
(* hostpath_commands.go:135); and the handler of a call that was given up  *)
(* may put back what a later call removed.  A claim that is deleted while  *)
(* its volume is made leaves no volume that nothing will delete, unless a  *)
(* fault cut CreateVolume short.                                           *)
NothingLeft ==
  timeouts = 0 =>
    /\ \A v \in Vol \ spoilt : phase[v] = "gone" /\ resize[v] = "none" => disk[v] = "absent"
    /\ \A s \in Snap \ spoilt : snap[s] = "gone" => disk[s] = "absent"
    /\ \A v \in Vol : phase[v] = "dropped" /\ rpc[v] = NoCall =>
         disk[v] = "absent" \/ faults > 0

(* A node's group can be listed whenever no handler is at work there: only *)
(* a fault leaves a name unreadable, or a late handler, and this one only  *)
(* where it copies or where sizes have grown.                              *)
PartialHasJob ==
  \A x \in Name : Unreadable(x) =>
    \/ faults > 0
    \/ \E j \in jobs : j.name = x /\ AtWork(j)
    \/ timeouts > 0 /\ (Copied(x) \/ Grown(x))

(* A name is unreadable and nobody is at work on it: nothing will repair   *)
(* it.                                                                     *)
Debris(node) == \E x \in Name : /\ Place(x) = node /\ Unreadable(x)
                                 /\ ~\E j \in jobs : j.name = x /\ AtWork(j)

(* Every claim gets its volume, every deleted claim's volume goes, and     *)
(* every resize is done; a snapshot that is asked for is made, and one     *)
(* that is to be deleted goes ("snapshot create/delete/restore",           *)
(* README.md:10); though calls are given up and late handlers work on,     *)
(* until debris in the node's group stops all of them.  But a snapshot can *)
(* not be deleted once the PV of its source, which nothing keeps, is gone: *)
(* DeleteSnapshot then fails for ever (controller.go:608).                 *)
Served ==
  /\ \A v \in Vol :
       LET stuck == Debris(NodeOf[v]) IN
       /\ phase[v] = "wanted" ~> phase[v] # "wanted" \/ stuck
       /\ phase[v] = "released" ~> phase[v] = "gone" \/ stuck
       /\ resize[v] = "wanted" ~> resize[v] = "done" \/ phase[v] # "bound" \/ stuck
  /\ \A s \in Snap :
       LET stuck == Debris(Place(s)) IN
       /\ snap[s] = "wanted" ~> snap[s] # "wanted" \/ stuck
       /\ snap[s] = "deleting" ~> snap[s] = "gone" \/ phase[SnapOf[s]] = "gone" \/ stuck

=============================================================================
