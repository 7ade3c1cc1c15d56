---------------------------- MODULE GroupSnapshot ----------------------------
(***************************************************************************)
(* Volume group snapshots, src/pkg/driver/group_controller.go: one group   *)
(* of volumes, whose snapshots CreateVolumeGroupSnapshot makes one after   *)
(* another and DeleteVolumeGroupSnapshot removes one after another, asking *)
(* the agent of each member's node.                                        *)
(*                                                                         *)
(* The sidecar repeats a call until it succeeds; it asks for the deletion  *)
(* of the snapshots it was told of.  A call can be lost (its deadline, or  *)
(* a restart of the controller) while the agent goes on with what it was   *)
(* asked for, beside the calls that follow; an agent can fail half way     *)
(* (see VolumeServer), after which no ListVol succeeds on its node.  What  *)
(* a handler does that its caller waits for is one step.                   *)
(***************************************************************************)
EXTENDS Naturals

CONSTANTS
  Vol,      \* the group's source volumes
  NodeOf,   \* the node of each
  Fleeting, \* those whose claim and PV may be deleted
  Growing,  \* those that are expanded meanwhile: metadata copied later is longer
  None,
  MaxLost,  \* bound on the calls lost
  MaxFails  \* bound on the agent calls that fail

ASSUME GroupSnapshotAssumption ==
  /\ DOMAIN NodeOf = Vol /\ Fleeting \subseteq Vol /\ Growing \subseteq Vol
  /\ None \notin Vol
  /\ MaxLost \in Nat /\ MaxFails \in Nat

VARIABLES
  phase,    \* of the group snapshot
  cache,    \* the source PVs the lister shows
  call,     \* the call in progress: its loop over the members
  disk,     \* the snapshot of each member on its node
  late,     \* what the agents do for calls that were lost
  content,  \* the members whose snapshot the sidecar was told of
  skipped,  \* auxiliary: those the last call went past not knowing what is there
  lost, fails

vars == <<phase, cache, call, disk, late, content, skipped, lost, fails>>

(* The locals of the loop: the members still to do, the one in hand and    *)
(* the point reached with it, volGroupSnapReady and snapshots.             *)
Call == [op : {"create", "delete"}, todo : SUBSET Vol, member : Vol \cup {None},
         at : {"next", "get", "call"}, ready : BOOLEAN, snapshots : SUBSET Vol]

ASSUME NoneIsNoCall == None \notin Call

NoWork == [op |-> "none", member |-> None, at |-> "none"]

TypeOK ==
  /\ phase \in {"none", "wanted", "ready", "deleting", "gone"}
  /\ cache \subseteq Vol
  /\ call \in Call \cup {None}
  /\ disk \in [Vol -> {"absent", "partial", "torn", "whole"}]
  /\ late \in [1 .. MaxLost -> [op : {"none", "create", "delete"}, member : Vol \cup {None},
                               at : {"none", "queued", "begun", "ended"}]]
  /\ content \subseteq Vol /\ skipped \subseteq Vol
  /\ lost \in 0 .. MaxLost /\ fails \in 0 .. MaxFails

Init ==
  /\ phase = "none"
  /\ cache \in SUBSET Vol
  /\ call = None
  /\ disk = [v \in Vol |-> "absent"]
  /\ late = [i \in 1 .. MaxLost |-> NoWork]
  /\ content = {} /\ skipped = {}
  /\ lost = 0 /\ fails = 0

-----------------------------------------------------------------------------
(* The cluster and the sidecar.                                            *)

Ask ==
  /\ \/ phase = "none" /\ phase' = "wanted"
     \/ phase = "ready" /\ phase' = "deleting"
  /\ UNCHANGED <<cache, call, disk, late, content, skipped, lost, fails>>

SyncCache ==
  /\ phase \in {"none", "wanted"}
  /\ cache' = Vol
  /\ cache' # cache
  /\ UNCHANGED <<phase, call, disk, late, content, skipped, lost, fails>>

(* A source may be deleted once the group snapshot is taken.               *)
SourceDeleted(v) ==
  /\ phase \in {"ready", "deleting"}
  /\ v \in Fleeting \cap cache
  /\ cache' = cache \ {v}
  /\ UNCHANGED <<phase, call, disk, late, content, skipped, lost, fails>>

Begin(o, members) ==
  call' = [op |-> o, todo |-> members, member |-> None,
           at |-> "next", ready |-> TRUE, snapshots |-> {}]

SidecarCalls ==
  /\ call = None
  /\ \/ phase = "wanted" /\ Begin("create", Vol)
     \/ phase = "deleting" /\ Begin("delete", content)
  /\ skipped' = {}
  /\ UNCHANGED <<phase, cache, disk, late, content, lost, fails>>

-----------------------------------------------------------------------------
(* The agents' handlers.                                                   *)

(* ListVol fails over metadata that is missing or cannot be read.          *)
Broken(node) == \E v \in Vol : NodeOf[v] = node /\ disk[v] \in {"partial", "torn"}

(* What a creation leaves: meta.json is opened without O_TRUNC, so that a  *)
(* shorter text over a longer one is torn.                                 *)
Written(v) == {"whole"} \cup IF v \in Growing /\ disk[v] \in {"torn", "whole"} THEN {"torn"} ELSE {}

Making(v) == \E i \in 1 .. MaxLost : late[i] = [op |-> "create", member |-> v, at |-> "begun"]

(* And a removal, beside a creation that goes on making directories.       *)
Cleared(v) == {"absent"} \cup IF Making(v) THEN {"partial"} ELSE {}

Leaves(v, what) == \E d \in what : disk' = [disk EXCEPT ![v] = d]

Fault == fails < MaxFails /\ fails' = fails + 1

(* A creation makes its directory, a removal removes meta.json first.      *)
LateBegins(i) ==
  LET v == late[i].member IN
  /\ late[i].at = "queued"
  /\ late' = [late EXCEPT ![i].at = "begun"]
  /\ disk' = IF (disk[v] = "absent") = (late[i].op = "create")
             THEN [disk EXCEPT ![v] = "partial"] ELSE disk
  /\ UNCHANGED <<phase, cache, call, content, skipped, lost, fails>>

(* Under a creation the directory may have been removed: it may have made  *)
(* it again, or find no place for meta.json.                               *)
LateEnds(i) ==
  LET v == late[i].member IN
  /\ late[i].at = "begun"
  /\ late' = [late EXCEPT ![i].at = "ended"]
  /\ \/ late[i].op = "create" /\ Leaves(v, Written(v))
     \/ late[i].op = "create" /\ disk[v] = "absent" /\ UNCHANGED disk
     \/ late[i].op = "delete" /\ Leaves(v, Cleared(v))
  /\ UNCHANGED <<phase, cache, call, content, skipped, lost, fails>>

LateFails(i) ==
  /\ late[i].at \in {"queued", "begun"}
  /\ late' = [late EXCEPT ![i].at = "ended"]
  /\ Fault
  /\ UNCHANGED <<phase, cache, call, disk, content, skipped, lost>>

-----------------------------------------------------------------------------
(* The loop over the members.                                              *)

NextMember == call' = [call EXCEPT !.at = "next", !.member = None]
GiveUp     == call' = None                   \* return an error
Doing(o, place) == call # None /\ call.op = o /\ call.at = place

(* The member is passed over, whatever there is of it.                     *)
Skip(v) == NextMember /\ skipped' = skipped \cup {v}

(* The member's PV, its group and its node: a member without is skipped,   *)
(* or ends a deletion.                                                     *)
SkipSilently(v) ==      \* a slip: the skipped member is forgotten
  /\ call # None /\ call.at = "next" /\ v \in call.todo
  /\ call' = [call EXCEPT !.todo = @ \ {v}, !.at = IF v \in cache THEN "get" ELSE "next",
                          !.member = IF v \in cache THEN v ELSE None]
  /\ UNCHANGED <<phase, cache, disk, late, content, skipped, lost, fails>>

LookupMember(v) ==
  /\ call # None /\ call.at = "next" /\ v \in call.todo
  /\ CASE v \in cache ->
            call' = [call EXCEPT !.todo = @ \ {v}, !.at = "get", !.member = v]
       [] v \notin cache /\ call.op = "create" ->
            call' = [call EXCEPT !.todo = @ \ {v}, !.ready = FALSE]
       [] v \notin cache /\ call.op = "delete" -> GiveUp
  /\ UNCHANGED <<phase, cache, disk, late, content, skipped, lost, fails>>

(* getNodeConn fails: the same.                                            *)
NoConnection(v) ==
  /\ call # None /\ call.at = "next" /\ v \in call.todo \cap cache
  /\ IF call.op = "create" THEN call' = [call EXCEPT !.todo = @ \ {v}, !.ready = FALSE]
     ELSE GiveUp
  /\ Fault
  /\ UNCHANGED <<phase, cache, disk, late, content, skipped, lost>>

(* GetVolume in CreateVolumeGroupSnapshot.  Its error is logged, and       *)
(* volGroupSnapReady stays; a snapshot that exists leaves sizeBytes 0, and *)
(* so out of the answer.                                                   *)
GetForCreate ==
  LET v == call.member IN
  /\ Doing("create", "get")
  /\ \/ Broken(NodeOf[v]) /\ Skip(v)
     \/ /\ ~Broken(NodeOf[v]) /\ UNCHANGED skipped
        /\ IF disk[v] = "whole" THEN NextMember ELSE call' = [call EXCEPT !.at = "call"]
  /\ UNCHANGED <<phase, cache, disk, late, content, lost, fails>>

(* GetVolume gets no answer from the agent.                                *)
GetFails ==
  /\ call # None /\ call.at = "get"
  /\ IF call.op = "create" THEN Skip(call.member) ELSE GiveUp /\ UNCHANGED skipped
  /\ Fault
  /\ UNCHANGED <<phase, cache, disk, late, content, lost>>

(* A group that cannot be opened is listed as empty: a snapshot that is    *)
(* there is made again, or passes for deleted.                             *)
Unlisted ==
  /\ call # None /\ call.at = "get"
  /\ IF call.op = "create" THEN call' = [call EXCEPT !.at = "call"] /\ UNCHANGED skipped
     ELSE Skip(call.member)
  /\ Fault
  /\ UNCHANGED <<phase, cache, disk, late, content, lost>>

SnapshotBefore ==       \* a slip: reported before the agent has made it
  LET v == call.member IN
  /\ Doing("create", "call")
  /\ call' = [call EXCEPT !.at = "next", !.member = None, !.snapshots = @ \cup {v}]
  /\ disk' \in {disk, [disk EXCEPT ![v] = "whole"]}
  /\ UNCHANGED <<phase, cache, late, content, skipped, lost, fails>>

SnapshotMade ==
  LET v == call.member IN
  /\ Doing("create", "call")
  /\ Leaves(v, Written(v))
  /\ call' = [call EXCEPT !.at = "next", !.member = None, !.snapshots = @ \cup {v}]
  /\ UNCHANGED <<phase, cache, late, content, skipped, lost, fails>>

(* The agent fails, before, half way or after: then the answer is lost.    *)
SnapshotFails ==
  LET v == call.member IN
  /\ Doing("create", "call")
  /\ Leaves(v, {IF disk[v] = "absent" THEN "partial" ELSE disk[v], disk[v]} \cup Written(v))
  /\ call' = [call EXCEPT !.at = "next", !.member = None, !.ready = FALSE]
  /\ Fault
  /\ UNCHANGED <<phase, cache, late, content, skipped, lost>>

(* GetVolume in DeleteVolumeGroupSnapshot.  What is not there is skipped.  *)
DeleteOnce ==           \* a slip: deleting what is gone is an error
  LET v == call.member IN
  /\ Doing("delete", "get")
  /\ IF disk[v] # "whole" THEN GiveUp ELSE call' = [call EXCEPT !.at = "call"]
  /\ UNCHANGED <<phase, cache, disk, late, content, skipped, lost, fails>>

DeleteOrSkip ==         \* a slip: an error of ListVol passes for not found
  LET v == call.member IN
  /\ Doing("delete", "get")
  /\ IF disk[v] = "whole" /\ ~Broken(NodeOf[v])
     THEN call' = [call EXCEPT !.at = "call"] ELSE NextMember
  /\ UNCHANGED <<phase, cache, disk, late, content, skipped, lost, fails>>

GetForDelete ==
  LET v == call.member IN
  /\ Doing("delete", "get")
  /\ CASE Broken(NodeOf[v]) -> GiveUp
       [] ~Broken(NodeOf[v]) /\ disk[v] = "absent" -> NextMember
       [] ~Broken(NodeOf[v]) /\ disk[v] = "whole" -> call' = [call EXCEPT !.at = "call"]
  /\ UNCHANGED <<phase, cache, disk, late, content, skipped, lost, fails>>

SnapshotRemoved ==
  LET v == call.member IN
  /\ Doing("delete", "call")
  /\ Leaves(v, Cleared(v))
  /\ NextMember
  /\ UNCHANGED <<phase, cache, late, content, skipped, lost, fails>>

(* RemoveAll fails, and its error is dropped; or the call does.            *)
RemovalFails ==
  LET v == call.member IN
  /\ Doing("delete", "call")
  /\ \/ Skip(v) /\ Leaves(v, {disk[v], "partial"})
     \/ GiveUp /\ UNCHANGED skipped /\ Leaves(v, {disk[v], "partial", "absent"})
  /\ Fault
  /\ UNCHANGED <<phase, cache, late, content, lost>>

(* The answer, and what the sidecar makes of it.                           *)
CreateAnswered ==
  /\ Doing("create", "next") /\ call.todo = {}
  /\ content' = content \cup call.snapshots
  /\ phase' = IF call.ready THEN "ready" ELSE phase
  /\ call' = None
  /\ UNCHANGED <<cache, disk, late, skipped, lost, fails>>

DeleteAnswered ==
  /\ Doing("delete", "next") /\ call.todo = {}
  /\ phase' = "gone"
  /\ call' = None
  /\ UNCHANGED <<cache, disk, late, content, skipped, lost, fails>>

(* The call is lost.  What the agent was asked for goes on, or was never   *)
(* heard.                                                                  *)
CallLost ==
  /\ call # None
  /\ lost < MaxLost /\ lost' = lost + 1
  /\ call' = None
  /\ \/ UNCHANGED late
     \/ /\ call.at = "call"
        /\ late' = [late EXCEPT ![lost + 1] =
                      [op |-> call.op, member |-> call.member, at |-> "queued"]]
  /\ UNCHANGED <<phase, cache, disk, content, skipped, fails>>

-----------------------------------------------------------------------------
Handler ==
  \/ \E v \in Vol : LookupMember(v)
  \/ GetForCreate \/ SnapshotMade
  \/ GetForDelete \/ SnapshotRemoved
  \/ CreateAnswered \/ DeleteAnswered

Late(i) == LateBegins(i) \/ LateEnds(i)

Next ==
  \/ Ask \/ SyncCache \/ SidecarCalls \/ Handler
  \/ GetFails \/ Unlisted \/ SnapshotFails \/ RemovalFails \/ CallLost
  \/ \E v \in Vol : SourceDeleted(v) \/ NoConnection(v)
  \/ \E i \in 1 .. MaxLost : Late(i) \/ LateFails(i)

Spec == Init /\ [][Next]_vars

(* The sidecar repeats its calls, the informer catches up, handlers run.   *)
FairSpec ==
  /\ Spec
  /\ WF_vars(SyncCache) /\ WF_vars(SidecarCalls) /\ WF_vars(Handler)
  /\ \A i \in 1 .. MaxLost : WF_vars(Late(i))

-----------------------------------------------------------------------------
(* A creation of the member's snapshot outlived its call.                  *)
Outlived(v) == \E i \in 1 .. MaxLost : late[i].op = "create" /\ late[i].member = v

(* Made again over what was made already, from metadata that has grown.    *)
Torn(v) == disk[v] = "torn" /\ v \in Growing /\ (Outlived(v) \/ fails > 0)

(* "Indicates if all individual snapshots in the group snapshot are ready  *)
(* to use" (csi.pb.go:5294), "A list of snapshots belonging to this group" *)
(* (csi.pb.go:5288): when CreateVolumeGroupSnapshot answers ready, the     *)
(* snapshot of every source volume is there and the answers so far have    *)
(* named it, though the PV of some was not in the cache before.  Not so    *)
(* for a member whose GetVolume failed, which is passed over and leaves    *)
(* the group ready (group_controller.go:90): that takes a failure, or a    *)
(* creation that outlived its call and still fails the listings of its     *)
(* node.  A snapshot that a call finds made, by a call that was lost or    *)
(* whose agent failed, is not in its answer.                               *)
ReadyIsAll ==
  phase = "ready" =>
    /\ \A v \in Vol \ skipped :
         /\ disk[v] = "whole" \/ Torn(v)
         /\ v \in content \/ lost > 0 \/ fails > 0
    /\ skipped = {} \/ fails > 0 \/ \E v \in Vol : Outlived(v)

(* A snapshot that an answer has named is there until its deletion is      *)
(* asked for, whatever becomes of the other members; only a creation that  *)
(* runs once more can spoil its metadata.                                  *)
ListedExists ==
  phase \in {"wanted", "ready"} =>
    \A v \in content \cup (IF call = None THEN {} ELSE call.snapshots) :
      disk[v] = "whole" \/ Torn(v)

(* DeleteVolumeGroupSnapshot that succeeds has removed every snapshot it   *)
(* was given, over all its attempts, but one in a group that could not be  *)
(* opened, one whose RemoveAll failed, and one that a creation which       *)
(* outlived its call makes again.                                          *)
DeletedAllNamed ==
  phase = "gone" => \A v \in content \ skipped : disk[v] = "absent" \/ Outlived(v)

(* A snapshot without readable metadata on which nobody is at work.        *)
Debris ==
  \E v \in Vol : /\ disk[v] \in {"partial", "torn"}
                /\ ~\E i \in 1 .. MaxLost : late[i].member = v /\ late[i].at = "begun"

(* Calls that are lost or fail being repeated, a group snapshot that is    *)
(* wanted is answered ready; and one that is to go goes, while the sources *)
(* stay, but where debris fails the listings.                              *)
GroupServed == /\ phase = "wanted" ~> phase # "wanted"
               /\ phase = "deleting" ~> phase = "gone" \/ Debris \/ cache # Vol

=============================================================================
