-------------------------- MODULE GroupSnapshotProofs --------------------------
(***************************************************************************)
(* Proofs about GroupSnapshot, for any group of volumes, any nodes and any *)
(* bounds on lost and failing calls.                                       *)
(***************************************************************************)
EXTENDS GroupSnapshot, TLAPS

(* The members that answers, or the call in progress, have named.          *)
InCall == IF call = None THEN {} ELSE call.snapshots
Named  == content \cup InCall

(* A call is for what its phase asks, and has a member in hand between two *)
(* turns of its loop only; a snapshot is made over another only beside a   *)
(* creation that outlived its call, or after a failure.                    *)
Calls ==
  /\ call # None =>
       /\ call.op = "create" <=> phase = "wanted"
       /\ call.op = "delete" <=> phase = "deleting"
       /\ call.at = "next" <=> call.member = None
       /\ call.op = "create" /\ call.at = "call" /\ disk[call.member] \in {"torn", "whole"} =>
            Outlived(call.member) \/ fails > 0
       /\ call.op = "delete" => call.snapshots = {}
  /\ phase = "none" => content = {} /\ \A v \in Vol : disk[v] = "absent"

(* Calls that were lost left what the agents still do, one each.           *)
Lates ==
  \A i \in 1 .. MaxLost :
    /\ late[i].at # "none" =>
         i <= lost /\ late[i].op \in {"create", "delete"} /\ late[i].member \in Vol
    /\ late[i].at = "none" => late[i] = NoWork
    /\ late[i].op = "delete" => phase \in {"deleting", "gone"}
    /\ phase = "none" => late[i].at = "none"

(* What spoils a snapshot; what a call made is named, unless the call was  *)
(* lost.                                                                   *)
Whole ==
  /\ \A v \in Vol : disk[v] = "torn" => Torn(v)
  /\ \A v \in Vol : disk[v] = "partial" =>
       fails > 0 \/ Outlived(v) \/ phase \in {"deleting", "gone"}
  /\ phase = "wanted" =>
       \A v \in Vol :
         disk[v] \in {"torn", "whole"} => v \in Named \/ lost > 0 \/ fails > 0

(* The members that a creation is through with, and still hopes for, are   *)
(* made; those that a deletion is through with are gone.                   *)
Created ==
  call # None /\ call.op = "create" =>
    /\ call.ready = TRUE =>
         \A v \in Vol \ (call.todo \cup {call.member} \cup skipped) :
           disk[v] \in {"torn", "whole"}
    /\ skipped = {} \/ fails > 0 \/ \E v \in Vol : Outlived(v)

Deleted ==
  call # None /\ call.op = "delete" =>
    \A v \in content \ (call.todo \cup {call.member} \cup skipped) :
      disk[v] = "absent" \/ Outlived(v)

IInv ==
  /\ TypeOK /\ Calls /\ Lates /\ Whole /\ Created /\ Deleted
  /\ ReadyIsAll /\ ListedExists /\ DeletedAllNamed

-----------------------------------------------------------------------------
LEMMA InitIInv == Init => IInv
<1> SUFFICES ASSUME Init PROVE IInv
  OBVIOUS
<1>1. TypeOK
  BY GroupSnapshotAssumption DEF Init, TypeOK, NoWork
<1>2. Lates
  BY DEF Init, Lates, NoWork
<1> QED BY <1>1, <1>2
        DEF Init, IInv, Calls, Whole, Created, Deleted, ReadyIsAll, ListedExists, DeletedAllNamed

(* Outlived hangs on late alone.                                           *)
LEMMA SameLate ==
  ASSUME late' = late
  PROVE  \A v \in Vol : Outlived(v)' <=> Outlived(v)
  BY DEF Outlived

LEMMA MakingOutlives == \A v \in Vol : Making(v) => Outlived(v)
  BY DEF Making, Outlived

LEMMA WhatIsWritten ==
  ASSUME NEW v \in Vol
  PROVE  /\ Written(v) \subseteq {"torn", "whole"}
         /\ "torn" \in Written(v) => v \in Growing /\ disk[v] \in {"torn", "whole"}
  BY DEF Written

LEMMA WhatIsCleared ==
  ASSUME NEW v \in Vol
  PROVE  \A d \in Cleared(v) : d = "absent" \/ (d = "partial" /\ Outlived(v))
  BY MakingOutlives DEF Cleared

(* The listing of a node fails only over what failed or outlived a call.   *)
LEMMA BrokenHasCause ==
  ASSUME IInv, phase = "wanted", NEW node, Broken(node)
  PROVE  fails > 0 \/ \E w \in Vol : Outlived(w)
  BY DEF IInv, Broken, Whole, Torn

(* What the loop makes of its locals: it takes a member up, passes over    *)
(* one, asks the agent, is through with the member in hand.                *)
TakesUp(v)   == call' = [call EXCEPT !.todo = @ \ {v}, !.at = "get", !.member = v]
PassesOver(v) == call' = [call EXCEPT !.todo = @ \ {v}, !.ready = FALSE]

LEMMA TakenUp ==
  ASSUME call \in Call, NEW v \in Vol, TakesUp(v)
  PROVE  /\ call' \in Call /\ call' # None
         /\ call'.op = call.op /\ call'.todo = call.todo \ {v} /\ call'.at = "get"
         /\ call'.member = v /\ call'.ready = call.ready /\ call'.snapshots = call.snapshots
<1>1. /\ call'.op = call.op /\ call'.todo = call.todo \ {v} /\ call'.at = "get"
      /\ call'.member = v /\ call'.ready = call.ready /\ call'.snapshots = call.snapshots
  BY DEF Call, TakesUp
<1>2. call' \in Call
  BY DEF Call, TakesUp
<1> QED BY <1>1, <1>2, NoneIsNoCall

LEMMA PassedOver ==
  ASSUME call \in Call, NEW v \in Vol, PassesOver(v)
  PROVE  /\ call' \in Call /\ call' # None
         /\ call'.op = call.op /\ call'.todo = call.todo \ {v} /\ call'.at = call.at
         /\ call'.member = call.member /\ call'.ready = FALSE
         /\ call'.snapshots = call.snapshots
  BY NoneIsNoCall DEF Call, PassesOver

LEMMA Asked ==
  ASSUME NEW c \in Call, NEW d, d = [c EXCEPT !.at = "call"]
  PROVE  /\ d \in Call
         /\ d.op = c.op /\ d.todo = c.todo /\ d.at = "call" /\ d.member = c.member
         /\ d.ready = c.ready /\ d.snapshots = c.snapshots
  BY DEF Call

LEMMA Through ==
  ASSUME NEW c \in Call, NEW d, d = [c EXCEPT !.at = "next", !.member = None]
  PROVE  /\ d \in Call
         /\ d.op = c.op /\ d.todo = c.todo /\ d.at = "next" /\ d.member = None
         /\ d.ready = c.ready /\ d.snapshots = c.snapshots
  BY DEF Call

NamesAndPasses(v) ==
  call' = [call EXCEPT !.at = "next", !.member = None, !.snapshots = @ \cup {v}]

LEMMA ThroughNamed ==
  ASSUME call \in Call, NEW v \in Vol, NamesAndPasses(v)
  PROVE  /\ call' \in Call /\ call' # None
         /\ call'.op = call.op /\ call'.todo = call.todo /\ call'.at = "next"
         /\ call'.member = None /\ call'.ready = call.ready
         /\ call'.snapshots = call.snapshots \cup {v}
<1>1. call' \in Call
  BY DEF Call, NamesAndPasses
<1>2. /\ call'.op = call.op /\ call'.todo = call.todo /\ call'.at = "next"
      /\ call'.member = None /\ call'.ready = call.ready
  BY DEF Call, NamesAndPasses
<1>3. call'.snapshots = call.snapshots \cup {v}
  BY DEF Call, NamesAndPasses
<1> QED BY <1>1, <1>2, <1>3, NoneIsNoCall

LEMMA ThroughFailed ==
  ASSUME NEW c \in Call, NEW d,
         d = [c EXCEPT !.at = "next", !.member = None, !.ready = FALSE]
  PROVE  /\ d \in Call
         /\ d.op = c.op /\ d.todo = c.todo /\ d.at = "next" /\ d.member = None
         /\ d.ready = FALSE /\ d.snapshots = c.snapshots
  BY DEF Call

(* A call that begins.                                                     *)
LEMMA BeginKeeps ==
  ASSUME IInv, SidecarCalls
  PROVE  IInv'
<1> USE DEF IInv
<1>1. ASSUME NEW o \in {"create", "delete"}, NEW members \in SUBSET Vol, Begin(o, members)
      PROVE  /\ call' \in Call /\ call' # None
             /\ call'.op = o /\ call'.todo = members /\ call'.member = None
             /\ call'.at = "next" /\ call'.snapshots = {}
  <2> DEFINE c == [op |-> o, todo |-> members, member |-> None,
                   at |-> "next", ready |-> TRUE, snapshots |-> {}]
  <2>1. c \in Call
    BY DEF Call
  <2>2. /\ c.op = o /\ c.todo = members /\ c.member = None
        /\ c.at = "next" /\ c.snapshots = {}
    OBVIOUS
  <2>3. call' = c
    BY <1>1 DEF Begin
  <2> HIDE DEF c
  <2> QED BY <2>1, <2>2, <2>3, NoneIsNoCall
<1>2. \/ phase = "wanted" /\ Begin("create", Vol)
      \/ phase = "deleting" /\ Begin("delete", content)
  BY DEF SidecarCalls
<1>3. call = None /\ skipped' = {} /\ UNCHANGED <<phase, cache, disk, late, content, lost, fails>>
  BY DEF SidecarCalls
<1>4. \A v \in Vol : Outlived(v)' <=> Outlived(v)
  BY <1>3, SameLate
<1>5. TypeOK' /\ Lates'
  BY <1>1, <1>2, <1>3 DEF TypeOK, Lates
<1>6. Calls' /\ Whole' /\ Created' /\ Deleted'
  BY <1>1, <1>2, <1>3, <1>4
  DEF TypeOK, Calls, Whole, Torn, Named, InCall, Created, Deleted
<1>7. ReadyIsAll' /\ ListedExists' /\ DeletedAllNamed'
  BY <1>1, <1>2, <1>3, <1>4 DEF TypeOK, Torn, ReadyIsAll, ListedExists, DeletedAllNamed
<1> QED BY <1>5, <1>6, <1>7

(* A call that ends without an answer, having changed nothing on disk.     *)
LEMMA GiveUpKeeps ==
  ASSUME IInv, call # None, GiveUp, UNCHANGED <<phase, cache, disk, late, content, skipped>>,
         lost' \in 0 .. MaxLost, fails' \in 0 .. MaxFails,
         lost' >= lost, fails' >= fails,
         call.op = "delete" \/ lost' > 0 \/ fails' > 0
  PROVE  IInv'
<1> USE DEF IInv
<1>1. \A v \in Vol : Outlived(v)' <=> Outlived(v)
  BY SameLate
<1>2. TypeOK' /\ Calls' /\ Lates'
  BY GroupSnapshotAssumption DEF GiveUp, TypeOK, Calls, Lates
<1>3. Whole' /\ Created' /\ Deleted'
  BY <1>1, GroupSnapshotAssumption
  DEF GiveUp, TypeOK, Calls, Whole, Torn, Named, InCall, Created, Deleted
<1>4. ReadyIsAll' /\ ListedExists' /\ DeletedAllNamed'
  BY <1>1, GroupSnapshotAssumption
  DEF GiveUp, TypeOK, Calls, Torn, ReadyIsAll, ListedExists, DeletedAllNamed
<1> QED BY <1>2, <1>3, <1>4

(* The steps of the cluster.                                               *)
LEMMA ClusterKeeps ==
  ASSUME IInv, Ask \/ SyncCache \/ \E v \in Vol : SourceDeleted(v)
  PROVE  IInv'
<1> USE DEF IInv
<1>1. UNCHANGED <<call, disk, late, content, skipped, lost, fails>>
  BY DEF Ask, SyncCache, SourceDeleted
<1>2. \A v \in Vol : Outlived(v)' <=> Outlived(v)
  BY <1>1, SameLate
<1>3. CASE Ask
  <2>1. TypeOK' /\ Calls' /\ Lates'
    BY <1>1, <1>3 DEF Ask, TypeOK, Call, Calls, Lates
  <2>2. Whole' /\ Created' /\ Deleted'
    BY <1>1, <1>2, <1>3
    DEF Ask, TypeOK, Call, Calls, Whole, Torn, Named, InCall, Created, Deleted
  <2>3. ReadyIsAll' /\ ListedExists' /\ DeletedAllNamed'
    BY <1>1, <1>2, <1>3
    DEF Ask, TypeOK, Call, Calls, Torn, ReadyIsAll, ListedExists, DeletedAllNamed
  <2> QED BY <2>1, <2>2, <2>3
<1>4. CASE SyncCache \/ \E v \in Vol : SourceDeleted(v)
  <2>1. phase' = phase
    BY <1>4 DEF SyncCache, SourceDeleted
  <2>2. TypeOK'
    BY <1>1, <1>4, <2>1 DEF SyncCache, SourceDeleted, TypeOK
  <2>3. Calls' /\ Lates' /\ Named' = Named
    BY <1>1, <1>2, <2>1 DEF TypeOK, Call, Calls, Lates, Named, InCall
  <2>4. \A v \in Vol : Torn(v)' <=> Torn(v)
    BY <1>1, <1>2 DEF Torn
  <2>5. Whole'
    BY <1>1, <1>2, <2>1, <2>3, <2>4 DEF Whole
  <2>6. Created' /\ Deleted'
    BY <1>1, <1>2, <2>1 DEF TypeOK, Created, Deleted
  <2>7. ListedExists'
    BY <1>1, <2>1, <2>4 DEF TypeOK, Call, ListedExists
  <2>8. ReadyIsAll' /\ DeletedAllNamed'
    BY <1>1, <1>2, <2>1, <2>4 DEF TypeOK, ReadyIsAll, DeletedAllNamed
  <2> QED BY <2>2, <2>3, <2>5, <2>6, <2>7, <2>8
<1> QED BY <1>3, <1>4

(* LookupMember and NoConnection.                                          *)
LEMMA LookupKeeps ==
  ASSUME IInv, NEW v \in Vol, LookupMember(v) \/ NoConnection(v)
  PROVE  IInv'
<1> USE DEF IInv
<1>1. /\ call \in Call /\ call # None /\ call.at = "next" /\ v \in call.todo
      /\ UNCHANGED <<phase, cache, disk, late, content, skipped, lost>>
      /\ fails' \in 0 .. MaxFails /\ fails' >= fails
  <2>1. CASE LookupMember(v)
    BY <2>1, GroupSnapshotAssumption DEF LookupMember, TypeOK
  <2>2. CASE NoConnection(v)
    BY <2>2, GroupSnapshotAssumption DEF NoConnection, Fault, TypeOK
  <2> QED BY <2>1, <2>2
<1>2. TakesUp(v) \/ (call.op = "create" /\ PassesOver(v)) \/ (call.op = "delete" /\ GiveUp)
  BY <1>1 DEF LookupMember, NoConnection, Call, TakesUp, PassesOver
<1>0. \A w \in Vol : Outlived(w)' <=> Outlived(w)
  BY <1>1, SameLate
<1>3. CASE call.op = "delete" /\ GiveUp
  BY <1>1, <1>3, GiveUpKeeps, GroupSnapshotAssumption DEF TypeOK
<1>4. CASE TakesUp(v)
  <2>1. /\ call' \in Call /\ call' # None
        /\ call'.op = call.op /\ call'.todo = call.todo \ {v} /\ call'.at = "get"
        /\ call'.member = v /\ call'.ready = call.ready /\ call'.snapshots = call.snapshots
    BY <1>1, <1>4, TakenUp
  <2>2. TypeOK' /\ Calls' /\ Lates'
    BY <1>0, <1>1, <2>1, GroupSnapshotAssumption DEF TypeOK, Calls, Lates
  <2>3. Whole' /\ Created' /\ Deleted'
    BY <1>0, <1>1, <2>1, GroupSnapshotAssumption
    DEF TypeOK, Calls, Whole, Torn, Named, InCall, Created, Deleted
  <2>4. ReadyIsAll' /\ DeletedAllNamed'
    BY <1>1 DEF Calls, Call, ReadyIsAll, DeletedAllNamed
  <2>5. ListedExists'
    BY <1>0, <1>1, <2>1 DEF TypeOK, Call, Torn, ListedExists
  <2> QED BY <2>2, <2>3, <2>4, <2>5
<1>5. CASE call.op = "create" /\ PassesOver(v)
  <2>1. /\ call' \in Call /\ call' # None
        /\ call'.op = call.op /\ call'.todo = call.todo \ {v} /\ call'.at = call.at
        /\ call'.member = call.member /\ call'.ready = FALSE
        /\ call'.snapshots = call.snapshots
    BY <1>1, <1>5, PassedOver
  <2>2. TypeOK' /\ Calls' /\ Lates'
    BY <1>0, <1>1, <2>1, GroupSnapshotAssumption DEF TypeOK, Calls, Lates
  <2>3. Whole' /\ Created' /\ Deleted'
    BY <1>0, <1>1, <1>5, <2>1, GroupSnapshotAssumption
    DEF TypeOK, Calls, Whole, Torn, Named, InCall, Created, Deleted
  <2>4. ReadyIsAll' /\ DeletedAllNamed'
    BY <1>1 DEF Calls, Call, ReadyIsAll, DeletedAllNamed
  <2>5. ListedExists'
    BY <1>0, <1>1, <2>1 DEF TypeOK, Call, Torn, ListedExists
  <2> QED BY <2>2, <2>3, <2>4, <2>5
<1> QED BY <1>2, <1>3, <1>4, <1>5

(* The steps with a member in hand: what they have in common.              *)
LEMMA InHand ==
  ASSUME IInv, call # None, call.at \in {"get", "call"}
  PROVE  call \in Call /\ call.member \in Vol /\ call.op \in {"create", "delete"}
  BY DEF IInv, TypeOK, Calls, Call

(* GetVolume passes over a member, or the agent is called.                 *)
LEMMA PassKeeps ==
  ASSUME IInv, call # None, call.at = "get", NextMember,
         UNCHANGED <<phase, cache, disk, late, content, lost>>,
         fails' \in 0 .. MaxFails, fails' >= fails,
         \/ /\ skipped' = skipped
            /\ disk[call.member] \in IF call.op = "create" THEN {"whole"} ELSE {"absent"}
         \/ /\ skipped' = skipped \cup {call.member}
            /\ fails' > 0 \/ \E w \in Vol : Outlived(w)
  PROVE  IInv'
<1> USE DEF IInv
<1>1. /\ call \in Call /\ call.member \in Vol /\ call.op \in {"create", "delete"}
  BY InHand
<1>2. /\ call' \in Call /\ call' # None
      /\ call'.op = call.op /\ call'.todo = call.todo /\ call'.at = "next"
      /\ call'.member = None /\ call'.ready = call.ready /\ call'.snapshots = call.snapshots
  BY <1>1, Through, NoneIsNoCall DEF NextMember
<1>3. \A w \in Vol : Outlived(w)' <=> Outlived(w)
  BY SameLate
<1>4. TypeOK' /\ Calls' /\ Lates'
  BY <1>1, <1>2, GroupSnapshotAssumption DEF TypeOK, Calls, Lates
<1>5. Whole' /\ Deleted'
  BY <1>1, <1>2, <1>3, GroupSnapshotAssumption
  DEF TypeOK, Calls, Whole, Torn, Named, InCall, Deleted
<1>6. Created'
  BY <1>1, <1>2, <1>3, GroupSnapshotAssumption DEF TypeOK, Created
<1>7. ReadyIsAll' /\ DeletedAllNamed'
  BY <1>1 DEF Calls, ReadyIsAll, DeletedAllNamed
<1>8. ListedExists'
  BY <1>1, <1>2, <1>3 DEF TypeOK, Call, Torn, ListedExists
<1> QED BY <1>4, <1>5, <1>6, <1>7, <1>8

LEMMA AskKeeps ==
  ASSUME IInv, call # None, call.at = "get", call' = [call EXCEPT !.at = "call"],
         UNCHANGED <<phase, cache, disk, late, content, skipped, lost>>,
         fails' \in 0 .. MaxFails, fails' >= fails,
         call.op = "create" => disk[call.member] \notin {"torn", "whole"} \/ fails' > 0
  PROVE  IInv'
<1> USE DEF IInv
<1>1. /\ call \in Call /\ call.member \in Vol /\ call.op \in {"create", "delete"}
  BY InHand
<1>2. /\ call' \in Call /\ call' # None
      /\ call'.op = call.op /\ call'.todo = call.todo /\ call'.at = "call"
      /\ call'.member = call.member /\ call'.ready = call.ready
      /\ call'.snapshots = call.snapshots
  BY <1>1, Asked, NoneIsNoCall
<1>3. \A w \in Vol : Outlived(w)' <=> Outlived(w)
  BY SameLate
<1>4. TypeOK' /\ Calls' /\ Lates'
  BY <1>1, <1>2, <1>3, GroupSnapshotAssumption DEF TypeOK, Calls, Lates
<1>5. Whole' /\ Created' /\ Deleted'
  BY <1>1, <1>2, <1>3, GroupSnapshotAssumption
  DEF TypeOK, Calls, Whole, Torn, Named, InCall, Created, Deleted
<1>6. ReadyIsAll' /\ DeletedAllNamed'
  BY <1>1 DEF Calls, ReadyIsAll, DeletedAllNamed
<1>7. ListedExists'
  BY <1>1, <1>2, <1>3 DEF TypeOK, Call, Torn, ListedExists
<1> QED BY <1>4, <1>5, <1>6, <1>7

LEMMA GetKeeps ==
  ASSUME IInv, GetForCreate \/ GetForDelete \/ GetFails \/ Unlisted
  PROVE  IInv'
<1> USE DEF IInv
<1>1. /\ call \in Call /\ call # None /\ call.at = "get" /\ call.member \in Vol
      /\ call.op \in {"create", "delete"}
      /\ UNCHANGED <<phase, cache, disk, late, content, lost>>
      /\ lost \in 0 .. MaxLost /\ fails \in 0 .. MaxFails
  <2>1. call # None /\ call.at = "get" /\ UNCHANGED <<phase, cache, disk, late, content, lost>>
    BY DEF GetForCreate, GetForDelete, GetFails, Unlisted, Doing
  <2> QED BY <2>1, InHand DEF TypeOK
<1>2. disk[call.member] \in {"partial", "torn"} => Broken(NodeOf[call.member])
  BY <1>1 DEF Broken
<1>3. CASE GetForCreate
  <2>1. call.op = "create" /\ phase = "wanted" /\ fails' = fails
    BY <1>1, <1>3 DEF GetForCreate, Doing, Calls
  <2>2. CASE Broken(NodeOf[call.member]) /\ Skip(call.member)
    <3>1. fails > 0 \/ \E w \in Vol : Outlived(w)
      BY <2>1, <2>2, BrokenHasCause
    <3> QED BY <1>1, <2>1, <2>2, <3>1, PassKeeps, GroupSnapshotAssumption DEF Skip
  <2>3. CASE ~Broken(NodeOf[call.member]) /\ skipped' = skipped /\ disk[call.member] = "whole" /\ NextMember
    BY <1>1, <2>1, <2>3, PassKeeps, GroupSnapshotAssumption
  <2>4. CASE /\ ~Broken(NodeOf[call.member]) /\ skipped' = skipped
             /\ disk[call.member] # "whole" /\ call' = [call EXCEPT !.at = "call"]
    BY <1>1, <1>2, <2>1, <2>4, AskKeeps, GroupSnapshotAssumption
  <2> QED BY <1>3, <2>2, <2>3, <2>4 DEF GetForCreate
<1>4. CASE GetForDelete
  <2>1. call.op = "delete" /\ fails' = fails /\ skipped' = skipped
    BY <1>4 DEF GetForDelete, Doing
  <2>2. \/ GiveUp
        \/ disk[call.member] = "absent" /\ NextMember
        \/ call' = [call EXCEPT !.at = "call"]
    <3>1. disk[call.member] \in {"absent", "partial", "torn", "whole"}
      BY <1>1 DEF TypeOK
    <3> QED BY <1>2, <1>4, <3>1 DEF GetForDelete
  <2>3. CASE GiveUp
    BY <1>1, <2>1, <2>3, GiveUpKeeps, GroupSnapshotAssumption
  <2>4. CASE disk[call.member] = "absent" /\ NextMember
    BY <1>1, <2>1, <2>4, PassKeeps, GroupSnapshotAssumption
  <2>5. CASE call' = [call EXCEPT !.at = "call"]
    BY <1>1, <2>1, <2>5, AskKeeps, GroupSnapshotAssumption
  <2> QED BY <2>2, <2>3, <2>4, <2>5
<1>5. CASE GetFails \/ Unlisted
  <2>1. fails' \in 0 .. MaxFails /\ fails' > 0 /\ fails' >= fails
    BY <1>1, <1>5, GroupSnapshotAssumption DEF GetFails, Unlisted, Fault
  <2>2. \/ Skip(call.member)
        \/ GiveUp /\ skipped' = skipped
        \/ call' = [call EXCEPT !.at = "call"] /\ skipped' = skipped
    BY <1>5 DEF GetFails, Unlisted
  <2>3. CASE Skip(call.member)
    BY <1>1, <2>1, <2>3, PassKeeps DEF Skip
  <2>4. CASE GiveUp /\ skipped' = skipped
    BY <1>1, <2>1, <2>4, GiveUpKeeps, GroupSnapshotAssumption
  <2>5. CASE call' = [call EXCEPT !.at = "call"] /\ skipped' = skipped
    BY <1>1, <2>1, <2>5, AskKeeps
  <2> QED BY <2>2, <2>3, <2>4, <2>5
<1> QED BY <1>3, <1>4, <1>5

(* The agent's answers.                                                    *)
LEMMA MadeKeeps ==
  ASSUME IInv, SnapshotMade
  PROVE  IInv'
<1> USE DEF IInv
<1> DEFINE v == call.member
<1>1. /\ call # None /\ call.at = "call" /\ call.op = "create"
      /\ Leaves(v, Written(v)) /\ NamesAndPasses(v)
      /\ UNCHANGED <<phase, cache, late, content, skipped, lost, fails>>
  BY DEF SnapshotMade, Doing, NamesAndPasses
<1>2. call \in Call /\ v \in Vol /\ phase = "wanted"
  BY <1>1, InHand DEF Calls
<1>3. /\ call' \in Call /\ call' # None
      /\ call'.op = call.op /\ call'.todo = call.todo /\ call'.at = "next"
      /\ call'.member = None /\ call'.ready = call.ready
      /\ call'.snapshots = call.snapshots \cup {v}
  BY <1>1, <1>2, ThroughNamed
<1>4. PICK d \in Written(v) : disk' = [disk EXCEPT ![v] = d]
  BY <1>1 DEF Leaves
<1>5. /\ d \in {"torn", "whole"}
      /\ d = "torn" => v \in Growing /\ (Outlived(v) \/ fails > 0)
  BY <1>1, <1>2, WhatIsWritten DEF Calls
<1>6. \A w \in Vol : Outlived(w)' <=> Outlived(w)
  BY <1>1, SameLate
<1>7. TypeOK' /\ Calls' /\ Lates'
  BY <1>1, <1>2, <1>3, <1>4, <1>5, <1>6, GroupSnapshotAssumption DEF TypeOK, Calls, Lates
<1>8. /\ disk' \in [Vol -> {"absent", "partial", "torn", "whole"}]
      /\ \A w \in Vol : disk'[w] = IF w = v THEN d ELSE disk[w]
  BY <1>2, <1>4, <1>5 DEF TypeOK
<1> HIDE DEF v
<1>9. Whole' /\ Created' /\ Deleted'
  BY <1>1, <1>2, <1>3, <1>5, <1>6, <1>8, GroupSnapshotAssumption
  DEF TypeOK, Calls, Whole, Torn, Named, InCall, Created, Deleted, v
<1>10. ReadyIsAll' /\ DeletedAllNamed'
  BY <1>1, <1>2 DEF ReadyIsAll, DeletedAllNamed
<1>11. ListedExists'
  <2>1. \A w \in Vol : disk[w] = "whole" \/ Torn(w) => disk'[w] = "whole" \/ Torn(w)'
    BY <1>1, <1>5, <1>6, <1>8 DEF Torn
  <2>2. \A w \in Vol : w = v => disk'[w] = "whole" \/ Torn(w)'
    BY <1>1, <1>5, <1>6, <1>8 DEF Torn
  <2> QED BY <1>1, <1>2, <1>3, <2>1, <2>2 DEF TypeOK, Call, ListedExists
<1> QED BY <1>7, <1>9, <1>10, <1>11

LEMMA FailsKeeps ==
  ASSUME IInv, SnapshotFails
  PROVE  IInv'
<1> USE DEF IInv
<1> DEFINE v == call.member
<1>1. /\ call # None /\ call.at = "call" /\ call.op = "create"
      /\ call' = [call EXCEPT !.at = "next", !.member = None, !.ready = FALSE]
      /\ UNCHANGED <<phase, cache, late, content, skipped, lost>>
  BY DEF SnapshotFails, Doing
<1>2. call \in Call /\ v \in Vol /\ phase = "wanted"
  BY <1>1, InHand DEF Calls
<1>3. /\ call' \in Call /\ call' # None
      /\ call'.op = call.op /\ call'.todo = call.todo /\ call'.at = "next"
      /\ call'.member = None /\ call'.ready = FALSE
      /\ call'.snapshots = call.snapshots
  BY <1>1, <1>2, ThroughFailed, NoneIsNoCall
<1>4. fails' \in 0 .. MaxFails /\ fails' > 0 /\ fails' >= fails
  BY GroupSnapshotAssumption DEF SnapshotFails, Fault, TypeOK
<1>5. PICK d \in {IF disk[v] = "absent" THEN "partial" ELSE disk[v], disk[v]} \cup Written(v) :
        disk' = [disk EXCEPT ![v] = d]
  BY DEF SnapshotFails, Leaves
<1>6. /\ d \in {"absent", "partial", "torn", "whole"}
      /\ d = "torn" => v \in Growing
      /\ disk[v] \in {"torn", "whole"} => d \in {"torn", "whole"}
  BY <1>2, WhatIsWritten DEF TypeOK, Whole, Torn
<1>7. \A w \in Vol : Outlived(w)' <=> Outlived(w)
  BY <1>1, SameLate
<1>8. TypeOK' /\ Calls' /\ Lates'
  BY <1>1, <1>2, <1>3, <1>4, <1>5, <1>6, <1>7, GroupSnapshotAssumption DEF TypeOK, Calls, Lates
<1>9. /\ disk' \in [Vol -> {"absent", "partial", "torn", "whole"}]
      /\ \A w \in Vol : disk'[w] = IF w = v THEN d ELSE disk[w]
  BY <1>2, <1>5, <1>6 DEF TypeOK
<1>10. Whole' /\ Created' /\ Deleted'
  BY <1>1, <1>2, <1>3, <1>4, <1>6, <1>7, <1>9, GroupSnapshotAssumption
  DEF TypeOK, Calls, Whole, Torn, Named, InCall, Created, Deleted
<1>11. ReadyIsAll' /\ DeletedAllNamed'
  BY <1>1, <1>2, <1>3, <1>4 DEF TypeOK, Calls, ReadyIsAll, DeletedAllNamed
<1>12. ListedExists'
  <2>1. \A w \in Vol : disk[w] = "whole" \/ Torn(w) => disk'[w] = "whole" \/ Torn(w)'
    BY <1>1, <1>4, <1>6, <1>7, <1>9 DEF Torn
  <2> QED BY <1>1, <1>2, <1>3, <2>1 DEF TypeOK, Call, ListedExists
<1> QED BY <1>8, <1>10, <1>11, <1>12

(* A removal, answered or not.                                             *)
LEMMA RemovedKeeps ==
  ASSUME IInv, SnapshotRemoved \/ RemovalFails
  PROVE  IInv'
<1> USE DEF IInv
<1> DEFINE v == call.member
<1>1. /\ call # None /\ call.at = "call" /\ call.op = "delete"
      /\ UNCHANGED <<phase, cache, late, content, lost>>
  BY DEF SnapshotRemoved, RemovalFails, Doing
<1>2. call \in Call /\ v \in Vol /\ phase = "deleting"
  BY <1>1, InHand DEF Calls
<1>3. /\ fails' \in 0 .. MaxFails /\ fails' >= fails
  BY GroupSnapshotAssumption DEF SnapshotRemoved, RemovalFails, Fault, TypeOK
<1>4. PICK d \in {"absent", "partial", disk[v]} :
        /\ disk' = [disk EXCEPT ![v] = d]
        /\ \/ /\ NextMember
              /\ \/ skipped' = skipped /\ (d = "absent" \/ Outlived(v))
                 \/ skipped' = skipped \cup {v}
           \/ GiveUp /\ skipped' = skipped
  BY <1>2, WhatIsCleared DEF SnapshotRemoved, RemovalFails, Leaves, Skip
<1>5. \A w \in Vol : Outlived(w)' <=> Outlived(w)
  BY <1>1, SameLate
<1>6. /\ d \in {"absent", "partial", "torn", "whole"} /\ d = "torn" => disk[v] = "torn"
      /\ disk' \in [Vol -> {"absent", "partial", "torn", "whole"}]
      /\ \A w \in Vol : disk'[w] = IF w = v THEN d ELSE disk[w]
  BY <1>2, <1>4 DEF TypeOK
<1>7. CASE GiveUp /\ skipped' = skipped
  <2>1. TypeOK' /\ Calls' /\ Lates'
    BY <1>1, <1>2, <1>3, <1>6, <1>7 DEF GiveUp, TypeOK, Calls, Lates
  <2>2. Whole' /\ Created' /\ Deleted'
    BY <1>1, <1>2, <1>3, <1>5, <1>6, <1>7, GroupSnapshotAssumption
    DEF GiveUp, TypeOK, Whole, Torn, Created, Deleted
  <2>3. ReadyIsAll' /\ ListedExists' /\ DeletedAllNamed'
    BY <1>1, <1>2 DEF ReadyIsAll, ListedExists, DeletedAllNamed
  <2> QED BY <2>1, <2>2, <2>3
<1>8. CASE /\ NextMember
           /\ \/ skipped' = skipped /\ (d = "absent" \/ Outlived(v))
              \/ skipped' = skipped \cup {v}
  <2>1. /\ call' \in Call /\ call' # None
        /\ call'.op = call.op /\ call'.todo = call.todo /\ call'.at = "next"
        /\ call'.member = None /\ call'.ready = call.ready
        /\ call'.snapshots = call.snapshots
    BY <1>2, <1>8, Through, NoneIsNoCall DEF NextMember
  <2>2. TypeOK' /\ Calls' /\ Lates'
    BY <1>1, <1>2, <1>3, <1>6, <1>8, <2>1 DEF TypeOK, Calls, Lates
  <2>3. Whole' /\ Created'
    BY <1>1, <1>2, <1>3, <1>5, <1>6, <2>1, GroupSnapshotAssumption
    DEF TypeOK, Whole, Torn, Created
  <2>4. Deleted'
    BY <1>1, <1>2, <1>5, <1>6, <1>8, <2>1 DEF TypeOK, Deleted
  <2>5. ReadyIsAll' /\ ListedExists' /\ DeletedAllNamed'
    BY <1>1, <1>2 DEF ReadyIsAll, ListedExists, DeletedAllNamed
  <2> QED BY <2>2, <2>3, <2>4, <2>5
<1> QED BY <1>4, <1>7, <1>8

(* The call is answered, or lost.                                          *)
LEMMA AnswersKeep ==
  ASSUME IInv, CreateAnswered \/ DeleteAnswered
  PROVE  IInv'
<1> USE DEF IInv
<1>1. call \in Call /\ call.member = None /\ call.todo = {}
  BY DEF CreateAnswered, DeleteAnswered, Doing, TypeOK, Calls
<1>0. late' = late /\ \A v \in Vol : Outlived(v)' <=> Outlived(v)
  BY SameLate DEF CreateAnswered, DeleteAnswered
<1>2. CASE CreateAnswered
  <2>1. TypeOK' /\ Calls' /\ Lates'
    BY <1>0, <1>1, <1>2 DEF CreateAnswered, Doing, Call, TypeOK, Calls, Lates
  <2>2. Whole' /\ Created' /\ Deleted'
    BY <1>0, <1>1, <1>2, GroupSnapshotAssumption
    DEF CreateAnswered, Doing, TypeOK, Calls, Whole, Torn, Named, InCall, Created, Deleted
  <2>3. ListedExists' /\ DeletedAllNamed'
    <3>1. /\ phase = "wanted" /\ call # None /\ phase' \in {"wanted", "ready"}
          /\ call' = None /\ disk' = disk /\ fails' = fails
          /\ content' = content \cup call.snapshots
      BY <1>2 DEF CreateAnswered, Doing, Calls
    <3>2. \A v \in Vol : Torn(v)' <=> Torn(v)
      BY <1>0, <3>1 DEF Torn
    <3> QED BY <1>1, <3>1, <3>2 DEF TypeOK, Call, ListedExists, DeletedAllNamed
  <2>4. ReadyIsAll'
    <3>1. /\ phase = "wanted" /\ call # None /\ call.op = "create"
          /\ UNCHANGED <<disk, skipped, lost, fails>>
          /\ content' = content \cup call.snapshots
          /\ phase' = IF call.ready THEN "ready" ELSE phase
      BY <1>2 DEF CreateAnswered, Doing, Calls
    <3> SUFFICES ASSUME phase' = "ready"
                 PROVE  ReadyIsAll'
      BY DEF ReadyIsAll
    <3>2. call.ready = TRUE
      BY <1>1, <3>1 DEF Call
    <3>3. \A v \in Vol \ skipped : disk[v] \in {"torn", "whole"}
      BY <1>1, <3>1, <3>2, GroupSnapshotAssumption DEF Created
    <3>4. skipped = {} \/ fails > 0 \/ \E v \in Vol : Outlived(v)
      BY <3>1 DEF Created
    <3>5. \A v \in Vol \ skipped : v \in content' \/ lost > 0 \/ fails > 0
      BY <3>1, <3>3 DEF Whole, Named, InCall
    <3>6. \A v \in Vol : disk[v] = "torn" => v \in Growing /\ (Outlived(v) \/ fails > 0)
      BY DEF Whole, Torn
    <3> QED BY <1>0, <3>1, <3>3, <3>4, <3>5, <3>6 DEF ReadyIsAll, Torn
  <2> QED BY <2>1, <2>2, <2>3, <2>4
<1>3. CASE DeleteAnswered
  <2>1. TypeOK' /\ Calls' /\ Lates'
    BY <1>0, <1>1, <1>3 DEF DeleteAnswered, Doing, TypeOK, Calls, Lates
  <2>2. Whole' /\ Created' /\ Deleted'
    BY <1>0, <1>1, <1>3, GroupSnapshotAssumption
    DEF DeleteAnswered, Doing, TypeOK, Calls, Whole, Torn, Named, InCall, Created, Deleted
  <2>3. ReadyIsAll' /\ ListedExists'
    BY <1>1, <1>3 DEF DeleteAnswered, ReadyIsAll, ListedExists
  <2>4. DeletedAllNamed'
    BY <1>0, <1>1, <1>3, GroupSnapshotAssumption DEF DeleteAnswered, Doing, Deleted, DeletedAllNamed, TypeOK
  <2> QED BY <2>1, <2>2, <2>3, <2>4
<1> QED BY <1>2, <1>3

LEMMA LostKeeps ==
  ASSUME IInv, CallLost
  PROVE  IInv'
<1> USE DEF IInv
<1>1. /\ call \in Call /\ call # None /\ call' = None
      /\ call.op \in {"create", "delete"}
      /\ UNCHANGED <<phase, cache, disk, content, skipped, fails>>
  BY DEF CallLost, TypeOK, Call
<1>2. /\ lost' \in 0 .. MaxLost /\ lost' = lost + 1 /\ lost \in Nat /\ fails \in 0 .. MaxFails
      /\ lost + 1 \in 1 .. MaxLost
  BY GroupSnapshotAssumption DEF CallLost, TypeOK
<1>3. CASE late' = late
  BY <1>1, <1>2, <1>3, GiveUpKeeps, GroupSnapshotAssumption DEF GiveUp
<1>4. CASE /\ call.at = "call"
           /\ late' = [late EXCEPT ![lost + 1] =
                         [op |-> call.op, member |-> call.member, at |-> "queued"]]
  <2>1. call.member \in Vol /\ phase \in {"wanted", "deleting"}
    BY <1>1, <1>4, InHand DEF Calls
  <2>2. late[lost + 1] = NoWork
    BY <1>2 DEF Lates, TypeOK
  <2>3. /\ \A i \in 1 .. MaxLost : late'[i] = IF i = lost + 1
             THEN [op |-> call.op, member |-> call.member, at |-> "queued"] ELSE late[i]
    BY <1>4 DEF TypeOK
  <2>4. \A v \in Vol : Outlived(v) => Outlived(v)'
    BY <2>2, <2>3 DEF Outlived, NoWork
  <2>5. TypeOK'
    BY <1>1, <1>2, <1>4, <2>1 DEF TypeOK
  <2>6. Lates'
    BY <1>1, <1>2, <2>1, <2>3 DEF Lates, Calls, NoWork
  <2>7. Calls'
    BY <1>1, <1>4, <2>1 DEF TypeOK, Calls
  <2>8. Whole' /\ Created' /\ Deleted'
    BY <1>1, <1>2, <2>1, <2>4 DEF TypeOK, Whole, Torn, Created, Deleted
  <2>9. ReadyIsAll' /\ ListedExists' /\ DeletedAllNamed'
    BY <1>1, <2>1, <2>4 DEF TypeOK, Torn, ReadyIsAll, ListedExists, DeletedAllNamed
  <2> QED BY <2>5, <2>6, <2>7, <2>8, <2>9
<1> QED BY <1>3, <1>4 DEF CallLost

(* What the agents still do for a call that was lost.                      *)
LateMoves(i, place) == late' = [late EXCEPT ![i].at = place]

LEMMA LateMoved ==
  ASSUME IInv, NEW i \in 1 .. MaxLost, NEW place \in {"begun", "ended"}, LateMoves(i, place),
         late[i].at # "none", phase' = phase, lost' = lost
  PROVE  /\ late' \in [1 .. MaxLost -> [op : {"none", "create", "delete"},
                          member : Vol \cup {None}, at : {"none", "queued", "begun", "ended"}]]
         /\ Lates'
         /\ \A v \in Vol : Outlived(v)' <=> Outlived(v)
         /\ lost > 0 /\ phase # "none" /\ late[i].member \in Vol
         /\ late[i].op \in {"create", "delete"}
         /\ late[i].op = "delete" => phase \in {"deleting", "gone"}
         /\ late[i].op = "create" => Outlived(late[i].member)
<1> USE DEF IInv
<1> DEFINE Job == [op : {"none", "create", "delete"}, member : Vol \cup {None},
                   at : {"none", "queued", "begun", "ended"}]
<1>1. late \in [1 .. MaxLost -> Job] /\ lost \in Nat
  BY GroupSnapshotAssumption DEF TypeOK
<1>2. late' = [late EXCEPT ![i] = [late[i] EXCEPT !.at = place]]
  BY <1>1 DEF LateMoves
<1>3. [late[i] EXCEPT !.at = place] \in Job
  BY <1>1
<1>4. /\ late' \in [1 .. MaxLost -> Job]
      /\ \A j \in 1 .. MaxLost : late'[j].op = late[j].op /\ late'[j].member = late[j].member
      /\ \A j \in 1 .. MaxLost : j # i => late'[j] = late[j]
      /\ late'[i].at = place
  BY <1>1, <1>2, <1>3
<1> HIDE DEF Job
<1>5. \A v \in Vol : Outlived(v)' <=> Outlived(v)
  <2>1. \A j \in 1 .. MaxLost : late'[j].op = late[j].op /\ late'[j].member = late[j].member
    BY <1>4
  <2> QED BY <2>1 DEF Outlived
<1>6. lost > 0 /\ phase # "none" /\ late[i].member \in Vol /\ late[i].op \in {"create", "delete"}
  BY <1>1, GroupSnapshotAssumption DEF Lates
<1>7. Lates'
  <2> SUFFICES ASSUME NEW j \in 1 .. MaxLost
               PROVE  /\ late'[j].at # "none" => j <= lost /\ late'[j].op \in {"create", "delete"}
                                                /\ late'[j].member \in Vol
                      /\ late'[j].at = "none" => late'[j] = NoWork
                      /\ late'[j].op = "delete" => phase \in {"deleting", "gone"}
                      /\ phase = "none" => late'[j].at = "none"
    BY DEF Lates
  <2>1. CASE j = i
    BY <1>4, <1>6, <2>1 DEF Lates
  <2>2. CASE j # i
    <3>1. late'[j] = late[j]
      BY <1>4, <2>2
    <3> QED BY <3>1 DEF Lates
  <2> QED BY <2>1, <2>2
<1> USE DEF Job
<1> QED BY <1>4, <1>5, <1>6, <1>7 DEF Lates, Outlived

(* An agent changes the snapshot of one member, behind the controller.     *)
LEMMA LateKeeps ==
  ASSUME IInv, NEW i \in 1 .. MaxLost, Late(i) \/ LateFails(i)
  PROVE  IInv'
<1> USE DEF IInv
<1> DEFINE v == late[i].member
<1>1. /\ UNCHANGED <<phase, cache, call, content, skipped, lost>>
      /\ late[i].at # "none" /\ \E place \in {"begun", "ended"} : LateMoves(i, place)
      /\ fails' \in 0 .. MaxFails /\ fails' >= fails /\ fails \in 0 .. MaxFails
  BY GroupSnapshotAssumption DEF Late, LateBegins, LateEnds, LateFails, Fault, LateMoves, TypeOK
<1>2. /\ late' \in [1 .. MaxLost -> [op : {"none", "create", "delete"},
                          member : Vol \cup {None}, at : {"none", "queued", "begun", "ended"}]]
      /\ Lates'
      /\ \A w \in Vol : Outlived(w)' <=> Outlived(w)
      /\ lost > 0 /\ phase # "none" /\ v \in Vol /\ late[i].op \in {"create", "delete"}
      /\ late[i].op = "delete" => phase \in {"deleting", "gone"}
      /\ late[i].op = "create" => Outlived(v)
  BY <1>1, LateMoved
<1>3. \E d \in {"absent", "partial", "torn", "whole"} :
        /\ disk' = [disk EXCEPT ![v] = d]
        /\ \/ d = disk[v]
           \/ /\ late[i].op = "create"
              /\ d = "torn" => v \in Growing /\ disk[v] \in {"torn", "whole"}
              /\ disk[v] \in {"torn", "whole"} => d \in {"torn", "whole"}
           \/ late[i].op = "delete" /\ d \in {"absent", "partial"}
              /\ (d = "absent" \/ disk[v] # "absent" \/ Outlived(v))
  <2>1. disk = [disk EXCEPT ![v] = disk[v]] /\ disk[v] \in {"absent", "partial", "torn", "whole"}
    BY <1>2 DEF TypeOK
  <2>2. CASE disk' = disk
    BY <2>1, <2>2
  <2>3. CASE LateBegins(i) /\ disk' # disk
    <3>1. disk' = [disk EXCEPT ![v] = "partial"] /\ ((disk[v] = "absent") = (late[i].op = "create"))
      BY <2>3 DEF LateBegins
    <3>2. CASE late[i].op = "create"
      BY <2>1, <3>1, <3>2
    <3>3. CASE late[i].op = "delete"
      BY <2>1, <3>1, <3>3
    <3> QED BY <1>2, <3>2, <3>3
  <2>4. CASE LateEnds(i) /\ disk' # disk
    <3>1. CASE late[i].op = "create" /\ Leaves(v, Written(v))
      <4>1. PICK d \in Written(v) : disk' = [disk EXCEPT ![v] = d]
        BY <3>1 DEF Leaves
      <4>2. d \in {"torn", "whole"} /\ (d = "torn" => v \in Growing /\ disk[v] \in {"torn", "whole"})
        BY <1>2, WhatIsWritten
      <4> QED BY <3>1, <4>1, <4>2
    <3>2. CASE late[i].op = "delete" /\ Leaves(v, Cleared(v))
      <4>1. PICK d \in Cleared(v) : disk' = [disk EXCEPT ![v] = d]
        BY <3>2 DEF Leaves
      <4>2. d = "absent" \/ (d = "partial" /\ Outlived(v))
        BY <1>2, WhatIsCleared
      <4> QED BY <3>2, <4>1, <4>2
    <3> QED BY <2>4, <3>1, <3>2 DEF LateEnds
  <2> QED BY <2>2, <2>3, <2>4 DEF Late, LateFails
<1>4. PICK d \in {"absent", "partial", "torn", "whole"} :
        /\ disk' = [disk EXCEPT ![v] = d]
        /\ \/ d = disk[v]
           \/ /\ late[i].op = "create"
              /\ d = "torn" => v \in Growing /\ disk[v] \in {"torn", "whole"}
              /\ disk[v] \in {"torn", "whole"} => d \in {"torn", "whole"}
           \/ late[i].op = "delete" /\ d \in {"absent", "partial"}
              /\ (d = "absent" \/ disk[v] # "absent" \/ Outlived(v))
  BY <1>3
<1>5. /\ disk' \in [Vol -> {"absent", "partial", "torn", "whole"}]
      /\ \A w \in Vol : disk'[w] = IF w = v THEN d ELSE disk[w]
  BY <1>2, <1>4 DEF TypeOK
<1>6. TypeOK' /\ phase' = phase /\ call' = call
  BY <1>1, <1>2, <1>5 DEF TypeOK
<1> HIDE DEF v
<1>7. call # None => call \in Call /\ (call.at = "call" => call.member \in Vol)
  BY InHand DEF TypeOK
<1>8. Calls'
  BY <1>1, <1>2, <1>4, <1>5, <1>6, <1>7, GroupSnapshotAssumption DEF Calls, Whole, Torn
<1>9. Whole'
  BY <1>1, <1>2, <1>4, <1>5, <1>6, GroupSnapshotAssumption DEF TypeOK, Whole, Torn, Named, InCall
<1>10. Created' /\ Deleted'
  BY <1>1, <1>2, <1>4, <1>5, <1>6, GroupSnapshotAssumption DEF TypeOK, Calls, Created, Deleted
<1>11. ReadyIsAll' /\ ListedExists'
  BY <1>1, <1>2, <1>4, <1>5, <1>6, <1>9, GroupSnapshotAssumption
  DEF TypeOK, Whole, Torn, ReadyIsAll, ListedExists
<1>12. DeletedAllNamed'
  BY <1>1, <1>2, <1>4, <1>5, <1>6 DEF TypeOK, DeletedAllNamed
<1> QED BY <1>2, <1>6, <1>8, <1>9, <1>10, <1>11, <1>12

LEMMA StepKeeps == IInv /\ [Next]_vars => IInv'
<1> SUFFICES ASSUME IInv, [Next]_vars PROVE IInv'
  OBVIOUS
<1>1. CASE UNCHANGED vars
  <2>1. \A v \in Vol : Outlived(v)' <=> Outlived(v)
    BY <1>1, SameLate DEF vars
  <2>2. \A v \in Vol : Torn(v)' <=> Torn(v)
    BY <1>1, <2>1 DEF vars, Torn
  <2>3. TypeOK' /\ Named' = Named
    BY <1>1 DEF vars, IInv, TypeOK, Named, InCall
  <2>4. Calls' /\ Lates'
    BY <1>1, <2>1 DEF vars, IInv, TypeOK, Call, Calls, Lates
  <2>6. Whole'
    BY <1>1, <2>1, <2>2, <2>3 DEF vars, IInv, Whole
  <2>7. Created' /\ Deleted'
    BY <1>1, <2>1 DEF vars, IInv, TypeOK, Created, Deleted
  <2>5. ReadyIsAll' /\ ListedExists' /\ DeletedAllNamed'
    BY <1>1, <2>1, <2>2 DEF vars, IInv, TypeOK, Call, ReadyIsAll, ListedExists, DeletedAllNamed
  <2> QED BY <2>3, <2>4, <2>5, <2>6, <2>7 DEF IInv
<1>2. CASE Next
  BY <1>2, ClusterKeeps, BeginKeeps, LookupKeeps, GetKeeps, MadeKeeps, FailsKeeps,
     RemovedKeeps, AnswersKeep, LostKeeps, LateKeeps
  DEF Next, Handler
<1> QED BY <1>1, <1>2

-----------------------------------------------------------------------------
(* Every reachable state satisfies the inductive invariant.                *)
THEOREM Invariance == Spec => []IInv
<1>1. Init => IInv
  BY InitIInv
<1>2. IInv /\ [Next]_vars => IInv'
  BY StepKeeps
<1> QED BY <1>1, <1>2, PTL DEF Spec

(* The variables keep their types, the locals of the loop included.        *)
THEOREM TypeCorrect == Spec => []TypeOK
<1>1. IInv => TypeOK
  BY DEF IInv
<1> QED BY <1>1, Invariance, PTL

(* CreateVolumeGroupSnapshot answers ready only when every member that it  *)
(* did not pass over has its snapshot, readable but where a creation ran   *)
(* once more from longer metadata, and was named, but after a lost or a    *)
(* failed call; and it passes over one, with the group ready, only after a *)
(* failure, or beside a creation that outlived its call.                   *)
THEOREM ReadyMeansAll == Spec => []ReadyIsAll
<1>1. IInv => ReadyIsAll
  BY DEF IInv
<1> QED BY <1>1, Invariance, PTL

(* What any answer has named is there until the group is to be deleted,    *)
(* and its metadata readable but where it was made again from longer.      *)
THEOREM ListedStays == Spec => []ListedExists
<1>1. IInv => ListedExists
  BY DEF IInv
<1> QED BY <1>1, Invariance, PTL

(* DeleteVolumeGroupSnapshot that succeeds, after any number of lost calls *)
(* and failures, leaves none of the snapshots it was given, but those its  *)
(* last attempt went past (the group was not opened, or RemoveAll failed)  *)
(* and those a creation which outlived its call makes again.               *)
THEOREM DeletedAll == Spec => []DeletedAllNamed
<1>1. IInv => DeletedAllNamed
  BY DEF IInv
<1> QED BY <1>1, Invariance, PTL

=============================================================================
