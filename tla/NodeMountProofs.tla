---------------------------- MODULE NodeMountProofs ----------------------------
(***************************************************************************)
(* Proofs about NodeMount, for any targets, any number of late calls and   *)
(* of restarts and failing commands.                                       *)
(***************************************************************************)
EXTENDS NodeMount, SequenceTheorems, TLAPS

Modes == {"rw", "ro"}

(* What is mounted is there; a handler that publishes runs for a pod that  *)
(* was scheduled, one that unpublishes for a pod that is to go.            *)
Handled ==
  /\ \A t \in Target : mnt[t] # <<>> => t \in exists /\ pod[t] # "none"
  /\ \A j \in jobs :
       /\ j.op = "publish" =>
            pod[j.target] # "none" /\ j.at \in {"mkdir", "check", "bind", "remount"}
       /\ j.op = "unpublish" =>
            /\ pod[j.target] \in {"ending", "gone"}
            /\ j.at \in {"stat", "list", "umount", "relist", "rmdir"}
       /\ j.at \in {"check", "bind", "remount"} => j.target \notin Block

(* As long as no deadline has passed there is one handler for a target,    *)
(* while its pod starts or ends.                                           *)
OneByOne ==
  late = 0 =>
    /\ \A j \in jobs : j.caller = "waits" /\ pod[j.target] \in {"starting", "ending"}
    /\ \A j, k \in jobs : j.target = k.target => j = k

(* As long as nothing has failed either, a pod that starts has nothing     *)
(* mounted before the remount.                                             *)
Undisturbed ==
  late = 0 /\ faults = 0 =>
    \A t \in Target : pod[t] = "starting" /\ mnt[t] # <<>> =>
      \E j \in jobs : j.target = t /\ j.at = "remount"

IInv ==
  /\ TypeOK /\ Handled /\ OneByOne /\ Undisturbed
  /\ RunningHasVolume /\ ReadonlyHonoured /\ GoneIsClean

-----------------------------------------------------------------------------
LEMMA OnTop ==
  ASSUME NEW s \in Seq(Modes), s # <<>>, NEW x \in Modes
  PROVE  /\ [s EXCEPT ![Len(s)] = x] \in Seq(Modes)
         /\ [s EXCEPT ![Len(s)] = x] # <<>>
         /\ [s EXCEPT ![Len(s)] = x][Len([s EXCEPT ![Len(s)] = x])] = x
  BY ExceptSeq

LEMMA Below ==
  ASSUME NEW s \in Seq(Modes), s # <<>>
  PROVE  SubSeq(s, 1, Len(s) - 1) \in Seq(Modes)
<1>1. Len(s) \in Nat /\ \A i \in 1 .. Len(s) - 1 : s[i] \in Modes
  OBVIOUS
<1> QED BY <1>1, SubSeqProperties

LEMMA Stacked ==
  ASSUME NEW s \in Seq(Modes), NEW x \in Modes
  PROVE  Append(s, x) \in Seq(Modes) /\ Append(s, x) # <<>>
  BY AppendProperties, EmptySeq

LEMMA InitIInv == Init => IInv
  BY NodeMountAssumption
  DEF Init, IInv, TypeOK, Handled, OneByOne, Undisturbed, RunningHasVolume,
      ReadonlyHonoured, GoneIsClean

(* A handler that goes on is the same but for its place.                   *)
LEMMA Moved ==
  ASSUME NEW j \in Job, NEW place \in Places, NEW k, k = [j EXCEPT !.at = place]
  PROVE  /\ k \in Job /\ k.op = j.op /\ k.target = j.target /\ k.caller = j.caller
         /\ k.at = place
  BY DEF Job

-----------------------------------------------------------------------------
(* A handler goes on, and at most has made its target.                     *)
LEMMA GotoKeeps ==
  ASSUME IInv, NEW j \in jobs, NEW place \in Places, Goto(j, place), j.at # "remount",
         exists' = exists \/ (j.op = "publish" /\ exists' = exists \cup {j.target}),
         UNCHANGED <<mnt, bounds>>,
         j.op = "publish" => place \in {"check", "bind"} /\ j.target \notin Block,
         j.op = "unpublish" => place \in {"list", "umount", "relist", "rmdir"}
  PROVE  IInv'
<1> USE NodeMountAssumption DEF bounds
<1>1. j \in Job /\ j.target \in Target /\ j.op \in {"publish", "unpublish"}
  BY DEF IInv, TypeOK, Job
<1>2. PICK k : k = [j EXCEPT !.at = place]
  OBVIOUS
<1>3. /\ k \in Job /\ k.op = j.op /\ k.target = j.target /\ k.caller = j.caller
      /\ k.at = place
  BY <1>1, <1>2, Moved
<1>4. jobs' = (jobs \ {j}) \cup {k} /\ UNCHANGED <<pod, mnt, fs, late, faults>>
  BY <1>2 DEF Goto
<1>5. TypeOK' /\ Handled'
  BY <1>1, <1>3, <1>4 DEF IInv, TypeOK, Handled
<1>6. OneByOne' /\ Undisturbed'
  BY <1>1, <1>3, <1>4 DEF IInv, OneByOne, Undisturbed
<1>7. RunningHasVolume' /\ ReadonlyHonoured'
  BY <1>1, <1>4 DEF IInv, RunningHasVolume, ReadonlyHonoured, NodeGetVolumeStats
<1>8. GoneIsClean'
  BY <1>1, <1>4 DEF IInv, TypeOK, OneByOne, GoneIsClean
<1> QED BY <1>5, <1>6, <1>7, <1>8 DEF IInv

(* A handler ends and has changed nothing.                                 *)
LEMMA ErrorKeeps ==
  ASSUME IInv, NEW j \in jobs, ReturnError(j), UNCHANGED <<exists, mnt, fs, late>>,
         faults' \in 0 .. MaxFaults, faults' = 0 => faults = 0,
         j.at # "remount" \/ mnt[j.target] = <<>> \/ faults' # 0
  PROVE  IInv'
<1> USE NodeMountAssumption
<1>1. j \in Job /\ j.target \in Target
  BY DEF IInv, TypeOK, Job
<1>2. jobs' = jobs \ {j} /\ UNCHANGED <<pod, exists, mnt, fs, late>>
  BY DEF ReturnError
<1>3. TypeOK' /\ Handled'
  BY <1>1, <1>2 DEF IInv, TypeOK, Handled
<1>4. OneByOne' /\ Undisturbed'
  BY <1>1, <1>2 DEF IInv, OneByOne, Undisturbed
<1>5. RunningHasVolume' /\ ReadonlyHonoured' /\ GoneIsClean'
  BY <1>1, <1>2 DEF IInv, RunningHasVolume, ReadonlyHonoured, GoneIsClean, NodeGetVolumeStats
<1> QED BY <1>3, <1>4, <1>5 DEF IInv

(* What an answer makes of the pod.                                        *)
LEMMA Answered ==
  ASSUME IInv, NEW j \in jobs, ReturnDone(j)
  PROVE  /\ jobs' = jobs \ {j}
         /\ pod' \in [Target -> {"none", "starting", "running", "ending", "gone"}]
         /\ \A t \in Target \ {j.target} : pod'[t] = pod[t]
         /\ \/ pod'[j.target] = pod[j.target]
            \/ j.op = "unpublish" /\ pod'[j.target] = "gone"
            \/ /\ j.op = "publish" /\ pod[j.target] = "starting"
               /\ pod'[j.target] = "running"
         /\ j.caller = "waits" /\ j.op = "unpublish" => pod'[j.target] = "gone"
         /\ j.caller = "waits" /\ j.op = "publish" => pod'[j.target] # "starting"
<1>1. j.target \in Target /\ j.op \in {"publish", "unpublish"} /\ j.caller \in {"waits", "left"}
  BY DEF IInv, TypeOK, Job
<1>2. CASE j.caller = "left"
  BY <1>1, <1>2 DEF ReturnDone, IInv, TypeOK
<1>3. CASE j.caller = "waits" /\ j.op = "unpublish"
  BY <1>1, <1>3 DEF ReturnDone, IInv, TypeOK
<1>4. CASE j.caller = "waits" /\ j.op = "publish"
  BY <1>1, <1>4 DEF ReturnDone, IInv, TypeOK
<1> QED BY <1>1, <1>2, <1>3, <1>4

(* NodePublishVolume is done: the volume is mounted, and rightly so if     *)
(* nothing came between.                                                   *)
LEMMA PublishedKeeps ==
  ASSUME IInv, NEW j \in jobs, j.op = "publish", ReturnDone(j), UNCHANGED <<exists, bounds>>,
         \/ UNCHANGED mnt
         \/ /\ mnt[j.target] # <<>>
            /\ \E m \in Seq(Modes) \ {<<>>} : mnt' = [mnt EXCEPT ![j.target] = m],
         j.target \notin Block =>
           /\ mnt'[j.target] # <<>>
           /\ j.target \in Readonly /\ pod[j.target] = "starting" =>
                mnt'[j.target][Len(mnt'[j.target])] = "ro" \/ faults > 0 \/ late > 0
  PROVE  IInv'
<1> USE NodeMountAssumption DEF bounds
<1> DEFINE t == j.target
<1>1. j \in Job /\ t \in Target
  BY DEF IInv, TypeOK, Job
<1>2. /\ jobs' = jobs \ {j}
      /\ pod' \in [Target -> {"none", "starting", "running", "ending", "gone"}]
      /\ \A u \in Target \ {t} : pod'[u] = pod[u]
      /\ pod'[t] = pod[t] \/ (pod[t] = "starting" /\ pod'[t] = "running")
      /\ j.caller = "waits" => pod'[t] # "starting"
  BY Answered
<1>3. /\ mnt' \in [Target -> Seq(Modes)] /\ \A u \in Target \ {t} : mnt'[u] = mnt[u]
      /\ mnt[t] = <<>> <=> mnt'[t] = <<>>
  <2>1. CASE UNCHANGED mnt
    BY <2>1 DEF IInv, TypeOK, Modes
  <2>2. CASE /\ mnt[t] # <<>>
             /\ \E m \in Seq(Modes) \ {<<>>} : mnt' = [mnt EXCEPT ![t] = m]
    BY <1>1, <2>2 DEF IInv, TypeOK, Modes
  <2> QED BY <2>1, <2>2
<1>4. TypeOK'
  BY <1>2, <1>3 DEF IInv, TypeOK, Modes
<1>5. Handled'
  <2>1. \A u \in Target : mnt'[u] # <<>> => u \in exists' /\ pod'[u] # "none"
    BY <1>1, <1>2, <1>3 DEF IInv, Handled
  <2>2. ASSUME NEW k \in jobs' PROVE pod'[k.target] = pod[k.target] \/ k.op = "publish"
    BY <1>1, <1>2, <2>2 DEF IInv, TypeOK, Job, Handled
  <2>3. ASSUME NEW k \in jobs' PROVE pod[k.target] # "none" => pod'[k.target] # "none"
    BY <1>1, <1>2, <2>3 DEF IInv, TypeOK, Job
  <2> QED BY <1>2, <2>1, <2>2, <2>3 DEF IInv, TypeOK, Job, Handled
<1>6. OneByOne' /\ Undisturbed'
  BY <1>1, <1>2, <1>3 DEF IInv, TypeOK, Job, OneByOne, Undisturbed
<1>7. RunningHasVolume'
  BY <1>1, <1>2, <1>3 DEF IInv, Handled, RunningHasVolume, NodeGetVolumeStats
<1>8. ReadonlyHonoured'
  <2>1. pod'[t] = "running" => pod[t] = "starting" \/ late > 0
    BY <1>2 DEF IInv, TypeOK, OneByOne
  <2> QED BY <1>1, <1>2, <1>3, <2>1 DEF IInv, ReadonlyHonoured
<1>9. GoneIsClean'
  BY <1>1, <1>2, <1>3 DEF IInv, GoneIsClean
<1> QED BY <1>4, <1>5, <1>6, <1>7, <1>8, <1>9 DEF IInv

(* NodeUnpublishVolume is done: neither mounted nor there.                 *)
LEMMA UnpublishedKeeps ==
  ASSUME IInv, NEW j \in jobs, j.op = "unpublish", ReturnDone(j), UNCHANGED <<mnt, bounds>>,
         mnt[j.target] = <<>>, exists' = exists \ {j.target}
  PROVE  IInv'
<1> USE NodeMountAssumption DEF bounds
<1> DEFINE t == j.target
<1>1. j \in Job /\ t \in Target
  BY DEF IInv, TypeOK, Job
<1>2. pod[t] \in {"ending", "gone"}
  BY DEF IInv, Handled
<1>3. /\ jobs' = jobs \ {j}
      /\ pod' \in [Target -> {"none", "starting", "running", "ending", "gone"}]
      /\ \A u \in Target \ {t} : pod'[u] = pod[u]
      /\ pod'[t] = pod[t] \/ pod'[t] = "gone"
      /\ j.caller = "waits" => pod'[t] = "gone"
  BY Answered
<1>4. TypeOK'
  BY <1>3 DEF IInv, TypeOK
<1>5. Handled'
  BY <1>1, <1>2, <1>3 DEF IInv, TypeOK, Job, Handled
<1>6. OneByOne' /\ Undisturbed'
  BY <1>1, <1>2, <1>3 DEF IInv, TypeOK, Job, OneByOne, Undisturbed
<1>7. RunningHasVolume' /\ ReadonlyHonoured'
  BY <1>1, <1>2, <1>3 DEF IInv, RunningHasVolume, ReadonlyHonoured, NodeGetVolumeStats
<1>8. GoneIsClean'
  BY <1>1, <1>3 DEF IInv, GoneIsClean
<1> QED BY <1>4, <1>5, <1>6, <1>7, <1>8 DEF IInv

-----------------------------------------------------------------------------
(* The two commands that change what is mounted and let the handler go on. *)
LEMMA BindKeeps ==
  ASSUME IInv, NEW j \in jobs, Bind(j)
  PROVE  IInv'
<1> USE NodeMountAssumption DEF bounds
<1> DEFINE t == j.target
<1>1. /\ j \in Job /\ t \in Target /\ j.op = "publish" /\ j.at = "bind"
      /\ t \notin Block /\ pod[t] # "none"
  BY DEF IInv, TypeOK, Job, Bind, At, Handled
<1>2. CASE t \notin exists
  BY <1>1, <1>2, ErrorKeeps DEF Bind, IInv, TypeOK
<1>3. CASE t \in exists
  <2>1. PICK k : k = [j EXCEPT !.at = "remount"]
    OBVIOUS
  <2>2. /\ k \in Job /\ k.op = j.op /\ k.target = t /\ k.caller = j.caller
        /\ k.at = "remount"
    BY <1>1, <2>1, Moved DEF Places
  <2>3. /\ jobs' = (jobs \ {j}) \cup {k}
        /\ mnt' = [mnt EXCEPT ![t] = Append(@, "rw")]
        /\ UNCHANGED <<pod, exists, fs, late, faults>>
    BY <1>3, <2>1 DEF Bind, Goto
  <2>4. /\ mnt' \in [Target -> Seq(Modes)] /\ mnt'[t] # <<>>
        /\ \A u \in Target \ {t} : mnt'[u] = mnt[u]
    <3>1. Append(mnt[t], "rw") \in Seq(Modes) /\ Append(mnt[t], "rw") # <<>>
      BY <1>1, Stacked DEF IInv, TypeOK, Modes
    <3> QED BY <1>1, <2>3, <3>1 DEF IInv, TypeOK, Modes
  <2>5. late = 0 => pod[t] \in {"starting", "ending"}
    BY DEF IInv, OneByOne
  <2>6. TypeOK'
    BY <2>2, <2>3, <2>4 DEF IInv, TypeOK, Modes
  <2>7. Handled'
    BY <1>1, <1>3, <2>2, <2>3, <2>4 DEF IInv, Handled
  <2>8. OneByOne' /\ Undisturbed'
    BY <1>1, <2>2, <2>3, <2>4 DEF IInv, OneByOne, Undisturbed
  <2>9. RunningHasVolume'
    BY <1>1, <1>3, <2>3, <2>4 DEF IInv, RunningHasVolume, NodeGetVolumeStats
  <2>10. ReadonlyHonoured' /\ GoneIsClean'
    BY <1>1, <2>3, <2>4, <2>5 DEF IInv, TypeOK, ReadonlyHonoured, GoneIsClean
  <2> QED BY <2>6, <2>7, <2>8, <2>9, <2>10 DEF IInv
<1> QED BY <1>2, <1>3

LEMMA UmountKeeps ==
  ASSUME IInv, NEW j \in jobs, Umount(j)
  PROVE  IInv'
<1> USE NodeMountAssumption DEF bounds
<1> DEFINE t == j.target
<1>1. /\ j \in Job /\ t \in Target /\ j.op = "unpublish" /\ j.at = "umount"
      /\ pod[t] \in {"ending", "gone"}
  BY DEF IInv, TypeOK, Job, Umount, At, Handled
<1>2. CASE mnt[t] = <<>>
  BY <1>1, <1>2, ErrorKeeps DEF Umount, IInv, TypeOK
<1>3. CASE mnt[t] # <<>>
  <2>1. PICK k : k = [j EXCEPT !.at = "relist"]
    OBVIOUS
  <2>2. /\ k \in Job /\ k.op = j.op /\ k.target = t /\ k.caller = j.caller
        /\ k.at = "relist"
    BY <1>1, <2>1, Moved DEF Places
  <2>3. /\ jobs' = (jobs \ {j}) \cup {k}
        /\ mnt' = [mnt EXCEPT ![t] = SubSeq(@, 1, Len(@) - 1)]
        /\ UNCHANGED <<pod, exists, fs, late, faults>>
    BY <1>3, <2>1 DEF Umount, Goto
  <2>4. /\ mnt' \in [Target -> Seq(Modes)]
        /\ \A u \in Target \ {t} : mnt'[u] = mnt[u]
    <3>1. SubSeq(mnt[t], 1, Len(mnt[t]) - 1) \in Seq(Modes)
      BY <1>1, <1>3, Below DEF IInv, TypeOK, Modes
    <3> QED BY <1>1, <2>3, <3>1 DEF IInv, TypeOK, Modes
  <2>5. TypeOK'
    BY <2>2, <2>3, <2>4 DEF IInv, TypeOK, Modes
  <2>6. Handled'
    BY <1>1, <1>3, <2>2, <2>3, <2>4 DEF IInv, Handled
  <2>7. OneByOne' /\ Undisturbed'
    BY <1>1, <2>2, <2>3, <2>4 DEF IInv, OneByOne, Undisturbed
  <2>8. RunningHasVolume' /\ ReadonlyHonoured'
    BY <1>1, <2>3, <2>4 DEF IInv, RunningHasVolume, ReadonlyHonoured, NodeGetVolumeStats
  <2>9. GoneIsClean'
    BY <1>1, <1>3, <2>3, <2>4 DEF IInv, GoneIsClean
  <2> QED BY <2>5, <2>6, <2>7, <2>8, <2>9 DEF IInv
<1> QED BY <1>2, <1>3

-----------------------------------------------------------------------------
(* Each step of a handler is one of these.                                 *)
LEMMA PublishKeeps ==
  ASSUME IInv, NEW j \in jobs, MakeTarget(j) \/ CheckTarget(j) \/ Remount(j)
  PROVE  IInv'
<1> DEFINE t == j.target
<1>1. j \in Job /\ t \in Target /\ j.op = "publish"
  BY DEF IInv, TypeOK, Job, MakeTarget, CheckTarget, Remount, At
<1>2. late \in Nat /\ faults \in 0 .. MaxFaults
  BY NodeMountAssumption DEF IInv, TypeOK
<1>3. CASE MakeTarget(j) /\ t \in Block
  BY <1>1, <1>3, PublishedKeeps DEF MakeTarget
<1>4. CASE MakeTarget(j) /\ t \notin Block
  BY <1>1, <1>4, GotoKeeps DEF MakeTarget, At, Places
<1>5. CASE CheckTarget(j)
  <2>1. t \notin Block /\ j.at = "check" /\ UNCHANGED <<exists, mnt, bounds>>
    BY <1>5 DEF CheckTarget, At, IInv, Handled
  <2>2. CASE ReturnError(j)
    BY <1>2, <2>1, <2>2, ErrorKeeps DEF bounds
  <2>3. CASE mnt[t] # <<>> /\ ReturnDone(j)
    <3>1. pod[t] = "starting" => faults > 0 \/ late > 0
      <4>1. late = 0 => \A k \in jobs : k.target = t => k = j
        BY DEF IInv, OneByOne
      <4> QED BY <1>1, <1>2, <2>1, <2>3, <4>1 DEF IInv, Undisturbed
    <3> QED BY <1>1, <2>1, <2>3, <3>1, PublishedKeeps
  <2>4. CASE Goto(j, "bind")
    BY <1>1, <2>1, <2>4, GotoKeeps DEF Places
  <2> QED BY <1>5, <2>2, <2>3, <2>4 DEF CheckTarget
<1>6. CASE Remount(j) /\ mnt[t] = <<>>
  BY <1>2, <1>6, ErrorKeeps DEF Remount, bounds
<1>7. CASE Remount(j) /\ mnt[t] # <<>>
  <2>1. PICK x \in Modes : /\ mnt' = [mnt EXCEPT ![t][Len(mnt[t])] = x]
                           /\ t \in Readonly => x = "ro"
    BY <1>7 DEF Remount, Modes
  <2>2. PICK m : m = [mnt[t] EXCEPT ![Len(mnt[t])] = x]
    OBVIOUS
  <2>3. m \in Seq(Modes) /\ m # <<>> /\ m[Len(m)] = x
    <3>1. mnt[t] \in Seq(Modes)
      BY <1>1 DEF IInv, TypeOK, Modes
    <3> QED BY <1>7, <2>2, <3>1, OnTop
  <2>4. mnt' = [mnt EXCEPT ![t] = m] /\ mnt'[t] = m
    BY <1>1, <2>1, <2>2 DEF IInv, TypeOK
  <2> QED BY <1>1, <1>7, <2>1, <2>3, <2>4, PublishedKeeps DEF Remount
<1> QED BY <1>3, <1>4, <1>5, <1>6, <1>7

LEMMA UnpublishKeeps ==
  ASSUME IInv, NEW j \in jobs,
         StatTarget(j) \/ ListMounts(j) \/ ListAgain(j) \/ RemoveTarget(j)
  PROVE  IInv'
<1> DEFINE t == j.target
<1>1. /\ j \in Job /\ t \in Target /\ j.op = "unpublish"
      /\ j.at \in {"stat", "list", "relist", "rmdir"}
  BY DEF IInv, TypeOK, Job, StatTarget, ListMounts, ListAgain, RemoveTarget, At
<1>2. faults \in 0 .. MaxFaults
  BY DEF IInv, TypeOK
<1>3. CASE StatTarget(j)
  <2>1. t \notin exists => mnt[t] = <<>> /\ exists = exists \ {t}
    BY <1>1 DEF IInv, Handled
  <2>2. CASE t \notin exists
    BY <1>1, <1>3, <2>1, <2>2, UnpublishedKeeps DEF StatTarget
  <2>3. CASE t \in exists
    BY <1>1, <1>3, <2>3, GotoKeeps DEF StatTarget, Places
  <2> QED BY <2>2, <2>3
<1>4. CASE ListMounts(j)
  <2>1. CASE t \notin exists
    BY <1>1, <1>2, <1>4, <2>1, ErrorKeeps DEF ListMounts, bounds
  <2>2. CASE t \in exists
    <3>1. PICK place \in {"rmdir", "umount"} : Goto(j, place)
      BY <1>4, <2>2 DEF ListMounts
    <3>2. place \in Places /\ UNCHANGED <<exists, mnt, bounds>>
      BY <1>4, <3>1 DEF ListMounts, Places
    <3> QED BY <1>1, <3>1, <3>2, GotoKeeps
  <2> QED BY <2>1, <2>2
<1>5. CASE ListAgain(j)
  <2>1. UNCHANGED <<exists, mnt, bounds>> /\ (Goto(j, "rmdir") \/ ReturnError(j))
    BY <1>5 DEF ListAgain
  <2>2. CASE Goto(j, "rmdir")
    BY <1>1, <2>1, <2>2, GotoKeeps DEF Places
  <2>3. CASE ReturnError(j)
    BY <1>1, <1>2, <2>1, <2>3, ErrorKeeps DEF bounds
  <2> QED BY <2>1, <2>2, <2>3
<1>6. CASE RemoveTarget(j)
  <2>1. CASE t \in exists /\ mnt[t] = <<>>
    BY <1>1, <1>6, <2>1, UnpublishedKeeps DEF RemoveTarget
  <2>2. CASE ~(t \in exists /\ mnt[t] = <<>>)
    BY <1>1, <1>2, <1>6, <2>2, ErrorKeeps DEF RemoveTarget, bounds
  <2> QED BY <2>1, <2>2
<1> QED BY <1>3, <1>4, <1>5, <1>6

-----------------------------------------------------------------------------
(* The kubelet, and what goes wrong.                                       *)
LEMMA PodKeeps ==
  ASSUME IInv, NEW t \in Target, PodScheduled(t) \/ PodDeleted(t)
  PROVE  IInv'
<1> USE NodeMountAssumption
<1>1. PICK to \in {"starting", "ending"} :
        /\ pod' = [pod EXCEPT ![t] = to]
        /\ to = "starting" => pod[t] = "none"
        /\ to = "ending" => pod[t] \in {"starting", "running"}
        /\ UNCHANGED <<jobs, exists, mnt, fs, late, faults>>
  BY DEF PodScheduled, PodDeleted, Pod
<1>2. TypeOK'
  BY <1>1 DEF IInv, TypeOK
<1>3. Handled'
  BY <1>1 DEF IInv, TypeOK, Job, Handled
<1>4. OneByOne' /\ Undisturbed'
  BY <1>1 DEF IInv, TypeOK, Job, Handled, OneByOne, Undisturbed
<1>5. RunningHasVolume' /\ ReadonlyHonoured' /\ GoneIsClean'
  BY <1>1 DEF IInv, TypeOK, RunningHasVolume, ReadonlyHonoured, GoneIsClean, NodeGetVolumeStats
<1> QED BY <1>2, <1>3, <1>4, <1>5 DEF IInv

LEMMA CallKeeps ==
  ASSUME IInv, NEW t \in Target, KubeletCalls(t)
  PROVE  IInv'
<1> USE NodeMountAssumption
<1>1. PICK k \in Job :
        /\ jobs' = jobs \cup {k} /\ k.target = t /\ k.caller = "waits"
        /\ \/ pod[t] = "starting" /\ k.op = "publish" /\ k.at = "mkdir"
           \/ pod[t] = "ending" /\ k.op = "unpublish" /\ k.at = "stat"
  <2> DEFINE call(op, place) == [op |-> op, target |-> t, at |-> place, caller |-> "waits"]
  <2>1. call("publish", "mkdir") \in Job /\ call("unpublish", "stat") \in Job
    BY DEF Job, Places
  <2>2. CASE pod[t] = "starting" /\ jobs' = jobs \cup {call("publish", "mkdir")}
    BY <2>1, <2>2
  <2>3. CASE pod[t] = "ending" /\ jobs' = jobs \cup {call("unpublish", "stat")}
    BY <2>1, <2>3
  <2> QED BY <2>2, <2>3 DEF KubeletCalls
<1>2. /\ ~\E j \in jobs : j.target = t /\ j.caller = "waits"
      /\ UNCHANGED <<pod, exists, mnt, fs, late, faults>>
  BY DEF KubeletCalls
<1>3. TypeOK' /\ Handled'
  BY <1>1, <1>2 DEF IInv, TypeOK, Handled
<1>4. OneByOne' /\ Undisturbed'
  BY <1>1, <1>2 DEF IInv, OneByOne, Undisturbed
<1>5. RunningHasVolume' /\ ReadonlyHonoured' /\ GoneIsClean'
  BY <1>2 DEF IInv, RunningHasVolume, ReadonlyHonoured, GoneIsClean, NodeGetVolumeStats
<1> QED BY <1>3, <1>4, <1>5 DEF IInv

LEMMA FaultKeeps ==
  ASSUME IInv, AgentRestarts \/ \E j \in jobs : CallTimesOut(j) \/ MountFails(j)
  PROVE  IInv'
<1> USE NodeMountAssumption
<1>1. late \in 0 .. MaxLate /\ faults \in 0 .. MaxFaults
  BY DEF IInv, TypeOK
<1>2. CASE AgentRestarts
  <2>1. TypeOK' /\ Handled'
    BY <1>1, <1>2 DEF AgentRestarts, IInv, TypeOK, Handled
  <2>2. OneByOne' /\ Undisturbed'
    BY <1>1, <1>2 DEF AgentRestarts, OneByOne, Undisturbed
  <2>3. RunningHasVolume' /\ ReadonlyHonoured' /\ GoneIsClean'
    BY <1>1, <1>2 DEF AgentRestarts, IInv, RunningHasVolume, ReadonlyHonoured, GoneIsClean,
                      NodeGetVolumeStats
  <2> QED BY <2>1, <2>2, <2>3 DEF IInv
<1>3. ASSUME NEW j \in jobs, CallTimesOut(j) PROVE IInv'
  <2>1. PICK k : k = [j EXCEPT !.caller = "left"]
    OBVIOUS
  <2>2. k \in Job /\ k.op = j.op /\ k.target = j.target /\ k.at = j.at
    BY <2>1 DEF IInv, TypeOK, Job
  <2>3. /\ jobs' = (jobs \ {j}) \cup {k} /\ late' = late + 1 /\ late < MaxLate
        /\ UNCHANGED <<pod, exists, mnt, fs, faults>>
    BY <1>3, <2>1 DEF CallTimesOut
  <2>4. TypeOK' /\ Handled'
    BY <1>1, <2>2, <2>3 DEF IInv, TypeOK, Handled
  <2>5. OneByOne' /\ Undisturbed'
    BY <1>1, <2>3 DEF OneByOne, Undisturbed
  <2>6. RunningHasVolume' /\ ReadonlyHonoured' /\ GoneIsClean'
    BY <1>1, <2>3 DEF IInv, RunningHasVolume, ReadonlyHonoured, GoneIsClean, NodeGetVolumeStats
  <2> QED BY <2>4, <2>5, <2>6 DEF IInv
<1>4. ASSUME NEW j \in jobs, MountFails(j) PROVE IInv'
  BY <1>1, <1>4, ErrorKeeps DEF MountFails
<1> QED BY <1>2, <1>3, <1>4

LEMMA StutterKeeps == ASSUME IInv, UNCHANGED vars PROVE IInv'
<1>1. UNCHANGED <<pod, jobs, exists, mnt, fs, late, faults>>
  BY DEF vars
<1> QED BY <1>1 DEF IInv, TypeOK, Handled, OneByOne, Undisturbed, RunningHasVolume,
                    ReadonlyHonoured, GoneIsClean, NodeGetVolumeStats

LEMMA NextKeeps == ASSUME IInv, [Next]_vars PROVE IInv'
<1>1. CASE \E t \in Target : PodScheduled(t) \/ PodDeleted(t)
  BY <1>1, PodKeeps
<1>2. CASE \E t \in Target : KubeletCalls(t)
  BY <1>2, CallKeeps
<1>3. CASE \E j \in jobs : Step(j)
  BY <1>3, PublishKeeps, UnpublishKeeps, BindKeeps, UmountKeeps DEF Step
<1>4. CASE AgentRestarts \/ \E j \in jobs : CallTimesOut(j) \/ MountFails(j)
  BY <1>4, FaultKeeps
<1>5. CASE UNCHANGED vars
  BY <1>5, StutterKeeps
<1> QED BY <1>1, <1>2, <1>3, <1>4, <1>5 DEF Next

-----------------------------------------------------------------------------
(* The invariant of the two calls, for any number of pods.                 *)
THEOREM Invariance == Spec => []IInv
<1>1. Init => IInv
  BY InitIInv
<1>2. IInv /\ [Next]_vars => IInv'
  BY NextKeeps
<1> QED BY <1>1, <1>2, PTL DEF Spec

(* The variables of the node keep their types.                             *)
THEOREM TypeCorrect == Spec => []TypeOK
<1>1. IInv => TypeOK
  BY DEF IInv
<1> QED BY <1>1, Invariance, PTL

(* NodePublishVolume answers success for a mounted volume only, and nobody *)
(* unmounts it while the pod runs, late handlers included.                 *)
THEOREM RunsOnVolume == Spec => []RunningHasVolume
<1>1. IInv => RunningHasVolume
  BY DEF IInv
<1> QED BY <1>1, Invariance, PTL

(* A read-only volume is remounted read-only before its pod runs, but      *)
(* after a failure, a restart or a late call.                              *)
THEOREM MountedReadonly == Spec => []ReadonlyHonoured
<1>1. IInv => ReadonlyHonoured
  BY DEF IInv
<1> QED BY <1>1, Invariance, PTL

(* NodeUnpublishVolume answers success when nothing is left of the target. *)
THEOREM LeavesClean == Spec => []GoneIsClean
<1>1. IInv => GoneIsClean
  BY DEF IInv
<1> QED BY <1>1, Invariance, PTL

=============================================================================
