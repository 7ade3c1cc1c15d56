-------------------------- MODULE CSIControllerProofs --------------------------
(***************************************************************************)
(* Proofs about CSIController, for any volumes, snapshots and nodes, any   *)
(* number of calls that are given up, of restarts and of agents that fail, *)
(* and about the processes that it and the agents run in (PluginProcess).  *)
(***************************************************************************)
EXTENDS CSIControllerInvariant, PluginProcess, TLAPS

-----------------------------------------------------------------------------
LEMMA InitIInv == Init => IInv
  BY ControllerAssumption
  DEF Init, IInv, TypeOK, CallsFit, JobsFit, Alone, MadeStays, Torn, TornByTwo, OneWriter,
      PartialMends, NotYet, Gone, Name, NoCall, Phases, Snaps

(* Volumes and snapshots are told apart, and a job is one of its kind.     *)
LEMMA JobFacts ==
  ASSUME IInv, NEW j \in jobs
  PROVE  /\ j \in Job /\ j.name \in Name /\ j.late \in BOOLEAN /\ j.op \in Calls
         /\ j.name \in Vol <=> j.name \notin Snap
         /\ JobFits(j)
<1>1. j \in Job
  BY DEF IInv, TypeOK
<1>2. JobFits(j)
  BY DEF IInv, JobsFit
<1> QED BY <1>1, <1>2, ControllerAssumption DEF Job, Name

(* Steps of the cluster: what is asked for and what was released only      *)
(* comes nearer to its end.                                                *)
LEMMA ClusterKeeps ==
  ASSUME IInv, UNCHANGED <<rpc, jobs, disk, history, count>>, UNCHANGED cache,
         \/ \E v \in Vol : Claim(v) \/ Unclaim(v) \/ Resize(v)
         \/ \E s \in Snap : TakeSnapshot(s) \/ DropSnapshot(s)
  PROVE  IInv'
<1>1. TypeOK'
  BY DEF IInv, TypeOK, count, history, Claim, Unclaim, Resize, TakeSnapshot, DropSnapshot,
         Phases, Snaps
<1>2. \A x \in Name : Ending(x) => Ending(x)'
  BY ControllerAssumption
  DEF IInv, TypeOK, Claim, Unclaim, Resize, TakeSnapshot, DropSnapshot, Phases, Snaps, Name, Ending
<1>3. /\ \A v \in Vol :
           /\ resize[v] # "none" => resize'[v] = resize[v]
           /\ phase'[v] = "bound" => phase[v] = "bound"
           /\ phase'[v] \in {"none", "wanted", "dropped"} => phase[v] \in {"none", "wanted", "dropped"}
           /\ phase'[v] = "gone" => phase[v] = "gone" /\ resize'[v] = resize[v]
      /\ \A s \in Snap :
           /\ snap'[s] = "ready" => snap[s] = "ready"
           /\ snap'[s] = "gone" => snap[s] = "gone"
  BY ControllerAssumption
  DEF IInv, TypeOK, Claim, Unclaim, Resize, TakeSnapshot, DropSnapshot, Phases, Snaps
<1>4. CallsFit'
  BY ControllerAssumption
  DEF IInv, CallsFit, TypeOK, Claim, Unclaim, Resize, TakeSnapshot, DropSnapshot, Phases, Snaps
<1>5. JobsFit'
  <2>1. SUFFICES ASSUME NEW j \in jobs PROVE JobFits(j)'
    BY DEF JobsFit
  <2> QED BY <2>1, <1>2, <1>3, JobFacts DEF JobFits, count, Calls, Makes, Drops, Owns
<1>6. Alone' /\ PartialMends' /\ Torn' /\ OneWriter'
  BY DEF IInv, Alone, PartialMends, Torn, TornByTwo, Grown, OneWriter, count, history
<1>7. MadeStays'
  BY <1>2, <1>3, JobFacts DEF IInv, MadeStays, count, AtWork
<1>8. NotYet' /\ Gone'
  BY <1>3 DEF IInv, NotYet, Gone, count, history, AtWork
<1> QED BY <1>1, <1>4, <1>5, <1>6, <1>7, <1>8 DEF IInv

LEMMA SyncCacheKeeps ==
  ASSUME IInv, SyncCache
  PROVE  IInv'
<1>1. /\ UNCHANGED <<phase, snap, resize, rpc, jobs, disk, spoilt, grown, timeouts, faults>>
      /\ cache' \in SUBSET Vol
  BY DEF SyncCache, cluster, history, count
<1>2. TypeOK' /\ CallsFit' /\ JobsFit'
  BY <1>1 DEF IInv, TypeOK, CallsFit, JobsFit, JobFits, Ending
<1>3. Alone' /\ MadeStays' /\ PartialMends' /\ NotYet' /\ Gone' /\ Torn' /\ OneWriter'
  BY <1>1 DEF IInv, Alone, MadeStays, Ending, PartialMends, NotYet, Gone,
              Torn, TornByTwo, Grown, OneWriter
<1> QED BY <1>2, <1>3 DEF IInv

-----------------------------------------------------------------------------
(* The controller's calls: what becomes of an object, and of its name's    *)
(* call, while no handler of the agents is waited for by that call.        *)

(* What a call that succeeds makes of the object.                          *)
LEMMA SucceedFits ==
  ASSUME IInv, NEW x \in Name, rpc[x] # NoCall, Succeed(x)
  PROVE  /\ rpc' = [rpc EXCEPT ![x] = NoCall] /\ resize' = resize
         /\ phase' \in [Vol -> Phases] /\ snap' \in [Snap -> Snaps]
         /\ \A v \in Vol : phase'[v] # phase[v] =>
              /\ v = x
              /\ \/ /\ rpc[x].op = "CreateVolume"
                    /\ \/ phase[v] = "wanted" /\ phase'[v] = "bound"
                       \/ phase[v] = "dropped" /\ phase'[v] = "released"
                 \/ rpc[x].op = "DeleteVolume" /\ phase[v] = "released" /\ phase'[v] = "gone"
         /\ \A s \in Snap : snap'[s] # snap[s] =>
              /\ s = x
              /\ \/ rpc[x].op = "CreateSnapshot" /\ snap[s] = "wanted" /\ snap'[s] = "ready"
                 \/ rpc[x].op = "DeleteSnapshot" /\ snap[s] = "deleting" /\ snap'[s] = "gone"
         /\ rpc[x].op = "CreateVolume" => x \in Vol /\ phase'[x] \in {"bound", "released"}
<1>1. /\ rpc[x].op \in {"CreateVolume", "DeleteVolume"} => x \in Vol /\ x \notin Snap
      /\ rpc[x].op \in {"CreateSnapshot", "DeleteSnapshot"} => x \in Snap /\ x \notin Vol
      /\ rpc[x].op \in Makes \cup Drops
  BY ControllerAssumption DEF IInv, TypeOK, CallsFit, NoCall, Name
<1>2. CASE rpc[x].op = "CreateVolume"
  BY <1>1, <1>2 DEF IInv, TypeOK, CallsFit, Succeed, Phases
<1>3. CASE rpc[x].op = "DeleteVolume"
  BY <1>1, <1>3 DEF IInv, TypeOK, CallsFit, Succeed, Phases
<1>4. CASE rpc[x].op = "CreateSnapshot"
  BY <1>1, <1>4 DEF IInv, TypeOK, CallsFit, Succeed, Snaps
<1>5. CASE rpc[x].op = "DeleteSnapshot"
  BY <1>1, <1>5 DEF IInv, TypeOK, CallsFit, Succeed, Snaps
<1> QED BY <1>1, <1>2, <1>3, <1>4, <1>5 DEF Makes, Drops

(* A call of nobody's handler may begin, go on or fail.                    *)
LEMMA CallMoves ==
  ASSUME IInv, NEW x \in Name, rpc[x].at # "call",
         UNCHANGED <<cluster, cache, jobs, disk, history, timeouts>>,
         faults' \in faults .. MaxFaults, NEW c, rpc' = [rpc EXCEPT ![x] = c],
         c \in [op : Makes \cup Drops, at : {"lookup", "get", "call"}] \cup {NoCall},
         c.op \in {"none", Due(x), rpc[x].op}
  PROVE  IInv'
<1>1. UNCHANGED <<phase, snap, resize, cache, jobs, disk, spoilt, grown, timeouts>>
  BY DEF cluster, history
<1>0. /\ faults' \in 0 .. MaxFaults /\ (faults > 0 => faults' > 0)
      /\ (faults' = 0 => faults = 0)
  BY ControllerAssumption DEF IInv, TypeOK
<1>2. TypeOK' /\ Alone' /\ MadeStays' /\ PartialMends' /\ NotYet' /\ Gone'
  BY <1>0, <1>1 DEF IInv, TypeOK, Alone, MadeStays, Ending, PartialMends, NotYet, Gone
<1>5. Torn' /\ OneWriter'
  BY <1>0, <1>1 DEF IInv, Torn, TornByTwo, Grown, OneWriter
<1>3. CallsFit'
  BY <1>1, ControllerAssumption DEF IInv, TypeOK, CallsFit, Due, NoCall, Name
<1>4. JobsFit'
  <2>1. SUFFICES ASSUME NEW j \in jobs PROVE JobFits(j)'
    BY <1>1 DEF JobsFit
  <2>2. JobFits(j)
    BY JobFacts
  <2>3. ~j.late /\ j.op \in Owns => j.name # x
    BY <2>2 DEF JobFits
  <2> QED BY <1>1, <2>3, JobFacts DEF JobFits, Ending, IInv, TypeOK
<1> QED BY <1>2, <1>3, <1>4, <1>5 DEF IInv

(* A fault is counted.                                                     *)
LEMMA FaultCounts ==
  ASSUME IInv, Fault
  PROVE  /\ faults' \in 0 .. MaxFaults /\ faults' \in faults .. MaxFaults /\ faults' > 0
         /\ timeouts' = timeouts
<1>1. faults' = faults + 1 /\ faults < MaxFaults /\ faults \in 0 .. MaxFaults
  BY DEF Fault, IInv, TypeOK
<1> QED BY <1>1, ControllerAssumption DEF Fault

LEMMA SidecarCallsKeeps ==
  ASSUME IInv, NEW x \in Name, SidecarCalls(x)
  PROVE  IInv'
<1>1. Due(x) \in Makes \cup Drops
  BY DEF SidecarCalls, Due, Makes, Drops
<1>2. rpc[x].at # "call"
  BY DEF SidecarCalls, NoCall
<1>3. faults' \in faults .. MaxFaults /\ timeouts' = timeouts
  BY ControllerAssumption DEF SidecarCalls, count, IInv, TypeOK
<1> QED BY <1>1, <1>2, <1>3, CallMoves DEF SidecarCalls

LEMMA LookupKeeps ==
  ASSUME IInv, NEW x \in Name, Lookup(x)
  PROVE  IInv'
<1>1. rpc[x] \in [op : Makes \cup Drops, at : {"lookup", "get", "call"}] /\ rpc[x].at = "lookup"
  BY DEF IInv, TypeOK, Lookup, NoCall
<1>4. faults' \in faults .. MaxFaults /\ timeouts' = timeouts
  BY ControllerAssumption DEF Lookup, count, IInv, TypeOK
<1>2. CASE Advance(x, "get")
  <2>1. rpc' = [rpc EXCEPT ![x] = [rpc[x] EXCEPT !.at = "get"]]
    BY <1>2 DEF Advance
  <2> QED BY <1>1, <1>2, <1>4, <2>1, CallMoves DEF Lookup, Advance
<1>3. CASE Fail(x)
  BY <1>1, <1>3, <1>4, CallMoves DEF Lookup, Fail, NoCall
<1> QED BY <1>2, <1>3 DEF Lookup

(* A call that asks the agent has no handler in it.                        *)
LEMMA AsksAlone ==
  ASSUME IInv, NEW x \in Name, rpc[x].at = "get"
  PROVE  /\ rpc[x] \in [op : Makes \cup Drops, at : {"lookup", "get", "call"}]
         /\ \A j \in jobs : ~j.late /\ j.op \in Owns => j.name # x
<1>1. rpc[x] \in [op : Makes \cup Drops, at : {"lookup", "get", "call"}]
  BY DEF IInv, TypeOK, NoCall
<1>2. ASSUME NEW j \in jobs PROVE ~j.late /\ j.op \in Owns => j.name # x
  <2>1. JobFits(j) /\ rpc[x].at # "call"
    BY JobFacts
  <2> QED BY <2>1 DEF JobFits
<1> QED BY <1>1, <1>2

(* GetVolume's answer may be that the call has nothing left to do.         *)
LEMMA SucceedKeeps ==
  ASSUME IInv, NEW x \in Name, rpc[x].at = "get", Succeed(x),
         UNCHANGED <<cache, jobs, disk, grown, timeouts>>, faults' \in faults .. MaxFaults,
         spoilt \subseteq spoilt', spoilt' \subseteq Name,
         rpc[x].op \in Makes => disk[x] = "whole",
         rpc[x].op \in Drops => disk[x] = "absent" \/ x \in spoilt'
  PROVE  IInv'
<1>1. /\ rpc[x] \in [op : Makes \cup Drops, at : {"lookup", "get", "call"}]
      /\ \A j \in jobs : ~j.late /\ j.op \in Owns => j.name # x
      /\ rpc[x] # NoCall
  BY AsksAlone DEF NoCall
<1>2. UNCHANGED <<resize, cache, jobs, disk, grown, timeouts>>
  BY <1>1, SucceedFits
<1>3. /\ faults' \in 0 .. MaxFaults /\ (faults > 0 => faults' > 0)
      /\ (faults' = 0 => faults = 0)
  BY ControllerAssumption DEF IInv, TypeOK
<1>6. \A y \in Name : Ending(y) => Ending(y)'
  BY <1>1, SucceedFits, ControllerAssumption DEF Ending, Name
<1>7. TypeOK'
  BY <1>1, <1>2, <1>3, SucceedFits DEF IInv, TypeOK, NoCall
<1>8. CallsFit'
  <2>1. \A y \in Name : rpc'[y] = IF y = x THEN NoCall ELSE rpc[y]
    BY <1>1, SucceedFits DEF IInv, TypeOK
  <2>2. /\ \A v \in Vol : phase'[v] # phase[v] =>
             /\ v = x
             /\ phase[v] \in {"wanted", "dropped"} \/ phase'[v] = "gone"
             /\ phase[v] \in {"wanted", "dropped", "released"}
        /\ \A t \in Snap : snap'[t] # snap[t] => t = x
    BY <1>1, SucceedFits
  <2>3. /\ \A v \in Vol : v \in Name /\ v \notin Snap
        /\ \A t \in Snap : t \in Name
    BY ControllerAssumption DEF Name
  <2> QED BY <1>2, <2>1, <2>2, <2>3 DEF IInv, CallsFit, NoCall
<1>9. JobsFit'
  <2>1. SUFFICES ASSUME NEW j \in jobs PROVE JobFits(j)'
    BY <1>2 DEF JobsFit
  <2>2. JobFits(j) /\ j.name \in Name
    BY JobFacts
  <2>3. ~j.late /\ j.op \in Owns => j.name # x
    BY <1>1
  <2>4. ~j.late /\ j.op \in Owns => rpc'[j.name] = rpc[j.name]
    BY <1>1, <2>2, <2>3, SucceedFits DEF IInv, TypeOK
  <2> QED BY <1>2, <1>6, <2>2, <2>4 DEF JobFits
<1>10. MadeStays'
  <2>1. \A k \in jobs' : AtWork(k) /\ k.op \in Makes /\ ~Ending(k.name)' => disk'[k.name] # "absent"
    BY <1>2, <1>6, JobFacts DEF IInv, MadeStays
  <2>2. ASSUME NEW v \in Vol, phase'[v] = "bound"
        PROVE  phase[v] = "bound" \/ disk[v] = "whole"
    BY <1>1, <2>2, SucceedFits DEF Makes
  <2>3. ASSUME NEW t \in Snap, snap'[t] = "ready"
        PROVE  snap[t] = "ready" \/ disk[t] = "whole"
    BY <1>1, <2>3, SucceedFits DEF Makes
  <2> QED BY <1>2, <1>3, <2>1, <2>2, <2>3 DEF IInv, MadeStays, AtWork
<1>11. Alone' /\ PartialMends'
  BY <1>2, <1>3 DEF IInv, Alone, PartialMends
<1>12. Torn' /\ OneWriter'
  BY <1>2, <1>3 DEF IInv, Torn, TornByTwo, Grown, OneWriter
<1>13. NotYet'
  BY <1>1, <1>2, <1>3, SucceedFits DEF IInv, NotYet
<1>14. Gone'
  BY <1>1, <1>2, SucceedFits DEF IInv, Gone, Drops
<1> QED BY <1>7, <1>8, <1>9, <1>10, <1>11, <1>12, <1>13, <1>14 DEF IInv

(* Or it is sent on to the agent.                                          *)
LEMMA SendKeeps ==
  ASSUME IInv, NEW x \in Name, rpc[x].at = "get", Advance(x, "call"),
         jobs' = jobs \cup {Sent(rpc[x].op, x)},
         UNCHANGED <<cache, disk, history, timeouts>>, faults' \in faults .. MaxFaults,
         rpc[x].op \in Makes => disk[x] = "absent" \/ faults' > 0
  PROVE  IInv'
<1>0. /\ rpc[x] \in [op : Makes \cup Drops, at : {"lookup", "get", "call"}]
      /\ \A j \in jobs : ~j.late /\ j.op \in Owns => j.name # x
  BY AsksAlone
<1>1. PICK s : s = Sent(rpc[x].op, x)
  OBVIOUS
<1>2. UNCHANGED <<phase, snap, resize, cache, disk, spoilt, grown, timeouts>>
  BY DEF Advance, cluster, history
<1>3. rpc' = [rpc EXCEPT ![x] = [rpc[x] EXCEPT !.at = "call"]]
  BY DEF Advance
<1>4. /\ s \in Job /\ s.op = rpc[x].op /\ s.name = x /\ s.at = "queued" /\ ~s.late
      /\ s.op \in Owns /\ s.op # "ControllerExpandVolume"
  BY <1>0, <1>1 DEF Sent, Job, Calls, Owns, Makes, Drops
<1>5. /\ faults' \in 0 .. MaxFaults /\ (faults > 0 => faults' > 0)
      /\ (faults' = 0 => faults = 0)
  BY ControllerAssumption DEF IInv, TypeOK
<1>6. TypeOK'
  BY <1>0, <1>1, <1>2, <1>3, <1>4, <1>5 DEF IInv, TypeOK
<1>7. CallsFit'
  BY <1>0, <1>2, <1>3 DEF IInv, TypeOK, CallsFit, Name
<1>8. JobsFit'
  <2>1. \A j \in jobs : JobFits(j)'
    <3>1. SUFFICES ASSUME NEW j \in jobs PROVE JobFits(j)'
      OBVIOUS
    <3>2. JobFits(j) /\ j.name \in Name
      BY JobFacts
    <3>3. ~j.late /\ j.op \in Owns => rpc'[j.name] = rpc[j.name]
      BY <1>0, <1>3, <3>2 DEF IInv, TypeOK
    <3> QED BY <1>2, <3>2, <3>3 DEF JobFits, Ending
  <2>2. JobFits(s)'
    <3>1. rpc'[x].op = s.op /\ rpc'[x].at = "call"
      BY <1>0, <1>3, <1>4 DEF IInv, TypeOK
    <3>2. s.op \in {"CreateSnapshot", "DeleteSnapshot"} <=> x \in Snap
      BY <1>0, <1>4, ControllerAssumption DEF IInv, CallsFit, Name, Makes, Drops
    <3>3. s.op \in Drops => Ending(x)'
      BY <1>0, <1>2, <1>4, ControllerAssumption DEF IInv, CallsFit, Name, Drops, Ending
    <3> QED BY <1>4, <3>1, <3>2, <3>3 DEF JobFits
  <2> QED BY <1>1, <2>1, <2>2 DEF JobsFit
<1>9. Alone'
  BY <1>0, <1>1, <1>4 DEF IInv, Alone
<1>10. MadeStays'
  BY <1>1, <1>2, <1>4, <1>5 DEF IInv, MadeStays, AtWork, Ending
<1>11. PartialMends' /\ NotYet' /\ Gone' /\ Torn'
  BY <1>2, <1>5 DEF IInv, PartialMends, NotYet, Gone, Torn, TornByTwo, Grown
<1>12. OneWriter'
  BY <1>1, <1>2, <1>4, <1>5 DEF IInv, OneWriter, AtWork
<1> QED BY <1>6, <1>7, <1>8, <1>9, <1>10, <1>11, <1>12 DEF IInv

LEMMA GetVolumeKeeps ==
  ASSUME IInv, NEW x \in Name, GetVolume(x)
  PROVE  IInv'
<1>1. /\ rpc[x] \in [op : Makes \cup Drops, at : {"lookup", "get", "call"}] /\ rpc[x].at = "get"
      /\ UNCHANGED <<cache, disk, history, spoilt, grown, timeouts, faults>>
      /\ faults' \in faults .. MaxFaults
  BY AsksAlone, ControllerAssumption DEF GetVolume, history, count, IInv, TypeOK
<1>2. CASE Fail(x) /\ UNCHANGED jobs
  BY <1>1, <1>2, CallMoves DEF Fail, NoCall
<1>3. ASSUME ~Broken(Place(x))
      PROVE  disk[x] \in {"absent", "whole"}
  BY <1>3 DEF Broken, Unreadable, IInv, TypeOK
<1>4. CASE /\ ~Broken(Place(x)) /\ (rpc[x].op \in Makes) = (disk[x] = "whole")
           /\ Succeed(x) /\ UNCHANGED jobs
  <2>1. rpc[x].op \in Drops => rpc[x].op \notin Makes
    BY DEF Makes, Drops
  <2> QED BY <1>1, <1>3, <1>4, <2>1, SucceedKeeps DEF IInv, TypeOK
<1>5. CASE /\ ~Broken(Place(x)) /\ (rpc[x].op \in Makes) # (disk[x] = "whole")
           /\ Advance(x, "call") /\ jobs' = jobs \cup {Sent(rpc[x].op, x)}
  BY <1>1, <1>3, <1>5, SendKeeps
<1> QED BY <1>2, <1>4, <1>5 DEF GetVolume

LEMMA GetVolumeUnlistedKeeps ==
  ASSUME IInv, NEW x \in Name, GetVolumeUnlisted(x)
  PROVE  IInv'
<1>1. /\ rpc[x] \in [op : Makes \cup Drops, at : {"lookup", "get", "call"}] /\ rpc[x].at = "get"
      /\ UNCHANGED <<cache, disk, grown, timeouts>>
      /\ faults' \in faults .. MaxFaults /\ faults' > 0
      /\ spoilt \subseteq Name
  BY AsksAlone, FaultCounts DEF GetVolumeUnlisted, IInv, TypeOK
<1>2. CASE Fail(x) /\ UNCHANGED <<jobs, spoilt>>
  BY <1>1, <1>2, CallMoves DEF Fail, NoCall, history
<1>3. CASE /\ rpc[x].op \in Makes
           /\ Advance(x, "call") /\ jobs' = jobs \cup {Sent(rpc[x].op, x)}
           /\ UNCHANGED spoilt
  BY <1>1, <1>3, SendKeeps DEF history
<1>4. CASE /\ rpc[x].op \in Drops
           /\ Succeed(x) /\ spoilt' = spoilt \cup {x}
           /\ UNCHANGED jobs
  <2>1. rpc[x].op \notin Makes
    BY <1>4 DEF Makes, Drops
  <2> QED BY <1>1, <1>4, <2>1, SucceedKeeps
<1> QED BY <1>2, <1>3, <1>4 DEF GetVolumeUnlisted

LEMMA ResizeCallKeeps ==
  ASSUME IInv, NEW v \in Vol, SidecarResizes(v) \/ ControllerExpandVolume(v)
  PROVE  IInv'
<1>1. UNCHANGED <<phase, snap, rpc, disk, spoilt, grown, timeouts, faults>> /\ cache' = cache
  BY DEF SidecarResizes, ControllerExpandVolume, history, count
<1>2. /\ resize' \in [Vol -> {"none", "wanted", "lookup", "call", "done"}]
      /\ \A w \in Vol : /\ w # v => resize'[w] = resize[w]
                        /\ (resize'[w] # "none") = (resize[w] # "none")
      /\ resize[v] # "call"
  BY DEF SidecarResizes, ControllerExpandVolume, IInv, TypeOK
<1>3. PICK s : s = Sent("ControllerExpandVolume", v)
  OBVIOUS
<1>4. /\ jobs' = jobs \/ (jobs' = jobs \cup {s} /\ resize'[v] = "call")
      /\ s \in Job /\ s.op = "ControllerExpandVolume" /\ s.op \notin Owns /\ s.name = v
      /\ s.at = "queued" /\ ~s.late
  <2>1. jobs' = jobs \/ (jobs' = jobs \cup {s} /\ resize'[v] = "call")
    BY <1>3 DEF SidecarResizes, ControllerExpandVolume, IInv, TypeOK
  <2> QED BY <1>3, <2>1 DEF Sent, Job, Calls, Owns, Makes, Drops, Name
<1>5. TypeOK'
  BY <1>1, <1>2, <1>4 DEF IInv, TypeOK
<1>6. CallsFit'
  BY <1>1, <1>2 DEF IInv, CallsFit
<1>7. \A j \in jobs : ~j.late /\ j.op \notin Owns => j.name # v
  BY <1>2, JobFacts DEF JobFits
<1>8. JobsFit'
  <2>1. ASSUME NEW j \in jobs PROVE JobFits(j)'
    <3>1. JobFits(j) /\ j.name \in Name /\ (j.op \notin Owns => j.name \in Vol)
      BY JobFacts DEF JobFits, Owns, Makes, Drops, Calls
    <3> QED BY <1>1, <1>2, <1>7, <3>1 DEF JobFits, Ending, Name
  <2>2. jobs' # jobs => JobFits(s)'
    BY <1>1, <1>2, <1>4, ControllerAssumption DEF JobFits, Drops
  <2> QED BY <1>4, <2>1, <2>2 DEF JobsFit
<1>9. Alone'
  BY <1>4, <1>7 DEF IInv, Alone
<1>10. MadeStays'
  BY <1>1, <1>4 DEF IInv, MadeStays, AtWork, Ending
<1>11. PartialMends' /\ NotYet' /\ Gone' /\ Torn'
  BY <1>1, <1>2, <1>4 DEF IInv, PartialMends, NotYet, Gone, Torn, TornByTwo, Grown
<1>12. OneWriter'
  BY <1>1, <1>4 DEF IInv, OneWriter, AtWork, Owns
<1> QED BY <1>5, <1>6, <1>8, <1>9, <1>10, <1>11, <1>12 DEF IInv

-----------------------------------------------------------------------------
(* What an answer may make of the objects.                                 *)
Moves(j, good) ==
  /\ \A v \in Vol : phase'[v] # phase[v] =>
       /\ v = j.name /\ good /\ ~j.late
       /\ \/ /\ j.op = "CreateVolume"
             /\ \/ phase[v] = "wanted" /\ phase'[v] = "bound"
                \/ phase[v] = "dropped" /\ phase'[v] = "released"
          \/ j.op = "DeleteVolume" /\ phase[v] = "released" /\ phase'[v] = "gone"
  /\ \A s \in Snap : snap'[s] # snap[s] =>
       /\ s = j.name /\ good /\ ~j.late
       /\ \/ j.op = "CreateSnapshot" /\ snap[s] = "wanted" /\ snap'[s] = "ready"
          \/ j.op = "DeleteSnapshot" /\ snap[s] = "deleting" /\ snap'[s] = "gone"
  /\ j.op = "CreateVolume" /\ good /\ ~j.late =>
       j.name \in Vol /\ phase'[j.name] \in {"bound", "released"}

(* The agents' handlers: what an answer makes of the call that waits for   *)
(* it, and what it leaves of the other handlers.                           *)
LEMMA AnswerFits ==
  ASSUME IInv, NEW j \in jobs, NEW good \in BOOLEAN, Answer(j, good)
  PROVE  /\ phase' \in [Vol -> Phases] /\ snap' \in [Snap -> Snaps]
         /\ resize' \in [Vol -> {"none", "wanted", "lookup", "call", "done"}]
         /\ rpc' \in [Name -> [op : Makes \cup Drops, at : {"lookup", "get", "call"}] \cup {NoCall}]
         /\ CallsFit'
         /\ \A v \in Vol : (resize'[v] # "none") = (resize[v] # "none")
         /\ \A y \in Name : Ending(y) => Ending(y)'
         /\ \A k \in jobs : k # j /\ ~k.late =>
              /\ k.op \in Owns => rpc'[k.name] = rpc[k.name]
              /\ k.op \notin Owns => resize'[k.name] = resize[k.name]
         /\ Moves(j, good)
<1>1. JobFits(j) /\ j.name \in Name /\ j.late \in BOOLEAN /\ j.op \in Calls
  BY JobFacts
<1>2. CASE j.late
  BY <1>2 DEF Answer, cluster, IInv, TypeOK, CallsFit, Ending, Moves
<1>3. CASE ~j.late /\ j.op = "ControllerExpandVolume"
  <2>1. j.name \in Vol /\ resize[j.name] = "call" /\ j.op \notin Owns /\ j.op # "CreateVolume"
    BY <1>1, <1>3, ControllerAssumption DEF JobFits, Owns, Makes, Drops, Name
  <2>2. /\ UNCHANGED <<phase, snap, rpc>>
        /\ \E r \in {"wanted", "done"} : resize' = [resize EXCEPT ![j.name] = r]
    BY <1>3 DEF Answer
  <2>3. \A k \in jobs : k # j /\ ~k.late /\ k.op \notin Owns => k.name # j.name
    BY <1>3, <2>1 DEF IInv, Alone
  <2>4. \A k \in jobs : k # j /\ ~k.late /\ k.op \notin Owns => resize'[k.name] = resize[k.name]
    BY <2>2, <2>3, JobFacts DEF IInv, TypeOK, JobFits, Owns, Makes, Drops, Calls
  <2> QED BY <2>1, <2>2, <2>4 DEF IInv, TypeOK, CallsFit, Ending, Moves
<1>4. CASE ~j.late /\ j.op # "ControllerExpandVolume"
  <2>1. j.op \in Owns /\ rpc[j.name].op = j.op /\ rpc[j.name].at = "call" /\ rpc[j.name] # NoCall
    BY <1>1, <1>4 DEF JobFits, Owns, Calls, NoCall
  <2>2. \A k \in jobs : k # j /\ ~k.late /\ k.op \in Owns => k.name # j.name
    BY <1>4, <2>1 DEF IInv, Alone
  <2>3. CASE good
    <3>1. Succeed(j.name)
      BY <1>4, <2>3 DEF Answer
    <3>2. rpc' = [rpc EXCEPT ![j.name] = NoCall] /\ resize' = resize
      BY <1>1, <2>1, <3>1, SucceedFits
    <3>3. CallsFit'
      <4>1. \A y \in Name : rpc'[y] = IF y = j.name THEN NoCall ELSE rpc[y]
        BY <3>2 DEF IInv, TypeOK
      <4>2. /\ \A v \in Vol : phase'[v] # phase[v] =>
                 /\ v = j.name
                 /\ phase[v] \in {"wanted", "dropped"} \/ phase'[v] = "gone"
                 /\ phase[v] \in {"wanted", "dropped", "released"}
            /\ \A s \in Snap : snap'[s] # snap[s] => s = j.name
        BY <1>1, <2>1, <3>1, SucceedFits
      <4>3. \A v \in Vol : v \in Name /\ v \notin Snap
        BY ControllerAssumption DEF Name
      <4>4. \A s \in Snap : s \in Name
        BY DEF Name
      <4> QED BY <3>2, <4>1, <4>2, <4>3, <4>4 DEF IInv, CallsFit, NoCall
    <3>4. \A y \in Name : Ending(y) => Ending(y)'
      BY <1>1, <2>1, <3>1, SucceedFits, ControllerAssumption DEF Ending, Name
    <3>5. \A k \in jobs : k # j /\ ~k.late /\ k.op \in Owns => rpc'[k.name] = rpc[k.name]
      BY <2>2, <3>2, JobFacts DEF IInv, TypeOK
    <3> QED BY <1>1, <1>4, <2>1, <2>3, <3>1, <3>2, <3>3, <3>4, <3>5, SucceedFits DEF IInv, TypeOK, Moves
  <2>4. CASE ~good
    <3>1. rpc' = [rpc EXCEPT ![j.name] = NoCall] /\ UNCHANGED <<phase, snap, resize>>
      BY <1>4, <2>4 DEF Answer, Fail, cluster
    <3>2. CallsFit'
      BY <1>1, <3>1 DEF IInv, TypeOK, CallsFit, NoCall, Name
    <3>3. \A k \in jobs : k # j /\ ~k.late /\ k.op \in Owns => rpc'[k.name] = rpc[k.name]
      BY <2>2, <3>1, JobFacts DEF IInv, TypeOK
    <3> QED BY <1>1, <2>4, <3>1, <3>2, <3>3 DEF IInv, TypeOK, Ending, Moves
  <2> QED BY <2>3, <2>4
<1> QED BY <1>1, <1>2, <1>3, <1>4

(* The other handlers go on as they were.                                  *)
LEMMA OthersFit ==
  ASSUME IInv, NEW j \in jobs, NEW good \in BOOLEAN, Answer(j, good),
         timeouts' \in {timeouts, timeouts + 1}
  PROVE  \A k \in jobs : k # j => JobFits(k)'
<1>1. SUFFICES ASSUME NEW k \in jobs, k # j PROVE JobFits(k)'
  OBVIOUS
<1>2. JobFits(k) /\ k.name \in Name /\ k.late \in BOOLEAN /\ k.op \in Calls
  BY JobFacts
<1>3. timeouts \in Nat /\ (timeouts > 0 => timeouts' > 0) /\ (timeouts' = 0 => timeouts = 0)
  BY ControllerAssumption DEF IInv, TypeOK
<1>4. Ending(k.name) => Ending(k.name)'
  BY <1>2, AnswerFits
<1>5. k.name \in Vol => (resize'[k.name] # "none") = (resize[k.name] # "none")
  BY AnswerFits
<1>6. /\ ~k.late /\ k.op \in Owns => rpc'[k.name] = rpc[k.name]
      /\ ~k.late /\ k.op \notin Owns => resize'[k.name] = resize[k.name]
  BY <1>1, AnswerFits
<1>7. k.op = "ControllerExpandVolume" => k.name \in Vol
  BY <1>2 DEF JobFits, Name
<1> QED BY <1>2, <1>3, <1>4, <1>5, <1>6, <1>7 DEF JobFits, Copied

(* A handler that leaves changes what is at work only under its own name.  *)
LEMMA LeavesFit ==
  ASSUME IInv, NEW j \in jobs, NEW good \in BOOLEAN, Answer(j, good),
         jobs' = jobs \ {j}, cache' = cache, timeouts' = timeouts,
         disk' \in [Name -> {"absent", "partial", "torn", "whole"}],
         faults' \in 0 .. MaxFaults, spoilt' \in SUBSET Name, grown' = grown
  PROVE  TypeOK' /\ CallsFit' /\ JobsFit' /\ Alone'
<1>1. TypeOK'
  BY AnswerFits DEF IInv, TypeOK
<1>2. CallsFit'
  BY AnswerFits
<1>3. JobsFit'
  BY OthersFit DEF JobsFit
<1>4. Alone'
  BY DEF IInv, Alone
<1> QED BY <1>1, <1>2, <1>3, <1>4

(* A handler that fails before its first change, or when the disk is as it *)
(* was.                                                                    *)
LEMMA RefusedKeeps ==
  ASSUME IInv, NEW j \in jobs, ~AtWork(j), Answer(j, FALSE), jobs' = jobs \ {j},
         UNCHANGED <<cache, disk, history, count>>
  PROVE  IInv'
<1>1. UNCHANGED <<cache, disk, spoilt, grown, timeouts, faults>>
  BY DEF history, count
<1>2. TypeOK' /\ CallsFit' /\ JobsFit' /\ Alone'
  BY <1>1, LeavesFit DEF IInv, TypeOK
<1>3. /\ Moves(j, FALSE) /\ \A y \in Name : Ending(y) => Ending(y)'
      /\ \A v \in Vol : (resize'[v] # "none") = (resize[v] # "none")
  BY AnswerFits
<1>4. /\ \A v \in Vol : phase'[v] = phase[v]
      /\ \A s \in Snap : snap'[s] = snap[s]
  BY <1>3 DEF Moves
<1>5. MadeStays'
  BY <1>1, <1>3, <1>4, JobFacts DEF IInv, MadeStays, AtWork
<1>6. PartialMends' /\ NotYet' /\ Gone'
  BY <1>1, <1>3, <1>4 DEF IInv, PartialMends, NotYet, Gone, AtWork
<1>7. Torn' /\ OneWriter'
  BY <1>1 DEF IInv, Torn, TornByTwo, Grown, OneWriter, AtWork
<1> QED BY <1>2, <1>5, <1>6, <1>7 DEF IInv

(* What a removal leaves: nothing, where nobody was met.                   *)
LEMMA LeftFits ==
  ASSUME IInv, NEW j \in jobs, AtWork(j), NEW left \in Left(j)
  PROVE  /\ left \in {"absent", "partial", disk[j.name]}
         /\ j.at = "begun" => left = "absent"
         /\ left = "partial" => j.at = "met_copy" \/ disk[j.name] = "partial"
BY JobFacts DEF Left, AtWork, Job

LEMMA RemovalEndsKeeps ==
  ASSUME IInv, NEW j \in jobs, RemovalEnds(j)
  PROVE  IInv'
<1>1. /\ jobs' = jobs \ {j} /\ Answer(j, TRUE)
      /\ UNCHANGED <<cache, spoilt, grown, timeouts, faults>>
      /\ AtWork(j) /\ j.op \in Drops
  BY DEF RemovalEnds, history, count
<1>2. /\ JobFits(j) /\ Ending(j.name) /\ j.name \in Name /\ j.op \notin Makes
      /\ j.op # "ControllerExpandVolume" /\ j.at \in {"begun", "met", "met_copy"}
      /\ j.late \in BOOLEAN
  BY <1>1, JobFacts DEF JobFits, Makes, Drops, AtWork, Job
<1>3. PICK left \in Left(j) : disk' = [disk EXCEPT ![j.name] = left]
  BY DEF RemovalEnds
<1>4. /\ left \in {"absent", "partial", disk[j.name]}
      /\ j.at = "begun" => left = "absent"
      /\ left = "partial" => j.at = "met_copy" \/ disk[j.name] = "partial"
  BY <1>1, LeftFits
<1>5. disk' \in [Name -> {"absent", "partial", "torn", "whole"}]
  BY <1>2, <1>3, <1>4 DEF IInv, TypeOK
<1>6. TypeOK' /\ CallsFit' /\ JobsFit' /\ Alone'
  BY <1>1, <1>5, LeavesFit DEF IInv, TypeOK
<1>7. \A y \in Name : y # j.name => disk'[y] = disk[y]
  BY <1>2, <1>3 DEF IInv, TypeOK
<1>8. disk'[j.name] = left
  BY <1>2, <1>3 DEF IInv, TypeOK
<1>9. \A y \in Name : Ending(y) => Ending(y)'
  BY <1>1, AnswerFits
<1>14. /\ \A v \in Vol : phase'[v] # phase[v] =>
            v = j.name /\ ~j.late /\ phase[v] = "released" /\ phase'[v] = "gone"
       /\ \A s \in Snap : snap'[s] # snap[s] =>
            s = j.name /\ ~j.late /\ snap[s] = "deleting" /\ snap'[s] = "gone"
       /\ \A v \in Vol : (resize'[v] # "none") = (resize[v] # "none")
  <2>1. j.op # "CreateVolume" /\ j.op # "CreateSnapshot"
    BY <1>2 DEF Makes
  <2>2. Moves(j, TRUE) /\ \A v \in Vol : (resize'[v] # "none") = (resize[v] # "none")
    BY <1>1, AnswerFits
  <2> QED BY <2>1, <2>2 DEF Moves
<1>10. MadeStays'
  <2>1. \A k \in jobs' : AtWork(k) /\ k.op \in Makes /\ ~Ending(k.name)' => disk'[k.name] # "absent"
    BY <1>1, <1>2, <1>7, <1>9, JobFacts DEF IInv, MadeStays
  <2>2. \A v \in Vol : phase'[v] = "bound" => phase[v] = "bound" /\ v # j.name
    BY <1>2, <1>14 DEF Ending
  <2>3. \A s \in Snap : snap'[s] = "ready" => snap[s] = "ready" /\ s # j.name
    BY <1>2, <1>14, ControllerAssumption DEF Ending
  <2> QED BY <1>1, <1>7, <2>1, <2>2, <2>3 DEF IInv, MadeStays, AtWork, Name
<1>11. PartialMends'
  <2>1. SUFFICES ASSUME NEW y \in Name, disk'[y] = "partial"
                 PROVE  \/ faults > 0
                        \/ timeouts > 0 /\ Copied(y)
                        \/ \E k \in jobs' : /\ k.name = y /\ AtWork(k)
                                            /\ k.op \notin Drops \/ k.at = "begun"
    BY <1>1 DEF PartialMends, Copied, AtWork
  <2>2. CASE y # j.name
    BY <1>1, <1>7, <2>1, <2>2 DEF IInv, PartialMends
  <2>3. CASE y = j.name /\ j.at = "met_copy"
    BY <1>2, <2>3 DEF JobFits
  <2>4. CASE y = j.name /\ j.at # "met_copy"
    <3>1. disk[y] = "partial" /\ j.at # "begun"
      BY <1>4, <1>8, <2>1, <2>4
    <3> QED BY <1>1, <3>1 DEF IInv, PartialMends
  <2> QED BY <2>2, <2>3, <2>4
<1>12. NotYet'
  BY <1>1, <1>2, <1>7, <1>14 DEF IInv, NotYet, Ending, Name, AtWork
<1>13. Gone'
  <2>1. timeouts = 0 /\ ~(j.name \in Vol /\ resize[j.name] # "none") => disk'[j.name] = "absent"
    BY <1>2, <1>4, <1>8 DEF JobFits
  <2> QED BY <1>1, <1>7, <1>14, <2>1, ControllerAssumption DEF IInv, Gone, Name
<1>15. Torn'
  BY <1>1, <1>4, <1>7, <1>8 DEF IInv, Torn, TornByTwo, Grown
<1>16. OneWriter'
  <2>1. SUFFICES ASSUME timeouts = 0, faults = 0 PROVE OneWriter'
    BY <1>1 DEF OneWriter
  <2>2. left \in {"absent", disk[j.name]}
    BY <1>2, <1>4, <2>1 DEF JobFits
  <2>3. \A y \in Name : disk'[y] \in {"absent", disk[y]}
    BY <1>7, <1>8, <2>2
  <2> QED BY <1>1, <2>1, <2>3, JobFacts DEF IInv, OneWriter, AtWork
<1> QED BY <1>6, <1>10, <1>11, <1>12, <1>13, <1>15, <1>16 DEF IInv

(* A removal that fails is a fault, and what it leaves is remembered.      *)
LEMMA RemovalFailsKeeps ==
  ASSUME IInv, NEW j \in jobs, RemovalFails(j)
  PROVE  IInv'
<1>1. /\ jobs' = jobs \ {j} /\ Answer(j, TRUE) /\ UNCHANGED <<cache, grown, timeouts>>
      /\ j.op \in Drops /\ disk[j.name] # "absent"
      /\ faults' \in 0 .. MaxFaults /\ faults' > 0
      /\ spoilt' = spoilt \cup {j.name}
  BY FaultCounts DEF RemovalFails
<1>2. /\ JobFits(j) /\ Ending(j.name) /\ j.name \in Name /\ j.op \notin Makes
      /\ j.op # "ControllerExpandVolume" /\ j.late \in BOOLEAN
  BY <1>1, JobFacts DEF JobFits, Makes, Drops
<1>3. PICK left \in {disk[j.name], "partial"} : disk' = [disk EXCEPT ![j.name] = left]
  BY DEF RemovalFails
<1>4. /\ disk' \in [Name -> {"absent", "partial", "torn", "whole"}]
      /\ \A y \in Name : y # j.name => disk'[y] = disk[y]
      /\ disk'[j.name] = left
  BY <1>2, <1>3 DEF IInv, TypeOK
<1>5. TypeOK' /\ CallsFit' /\ JobsFit' /\ Alone'
  BY <1>1, <1>2, <1>4, LeavesFit DEF IInv, TypeOK
<1>6. \A y \in Name : Ending(y) => Ending(y)'
  BY <1>1, AnswerFits
<1>7. /\ \A v \in Vol : phase'[v] # phase[v] =>
           v = j.name /\ phase[v] = "released" /\ phase'[v] = "gone"
      /\ \A s \in Snap : snap'[s] # snap[s] =>
           s = j.name /\ snap[s] = "deleting" /\ snap'[s] = "gone"
      /\ \A v \in Vol : (resize'[v] # "none") = (resize[v] # "none")
  <2>1. j.op # "CreateVolume" /\ j.op # "CreateSnapshot"
    BY <1>2 DEF Makes
  <2>2. Moves(j, TRUE) /\ \A v \in Vol : (resize'[v] # "none") = (resize[v] # "none")
    BY <1>1, AnswerFits
  <2> QED BY <2>1, <2>2 DEF Moves
<1>8. MadeStays'
  <2>1. \A k \in jobs' : AtWork(k) /\ k.op \in Makes /\ ~Ending(k.name)' => disk'[k.name] # "absent"
    BY <1>1, <1>2, <1>4, <1>6, JobFacts DEF IInv, MadeStays
  <2>2. \A v \in Vol : phase'[v] = "bound" => phase[v] = "bound" /\ v # j.name
    BY <1>2, <1>7 DEF Ending
  <2>3. \A s \in Snap : snap'[s] = "ready" => snap[s] = "ready" /\ s # j.name
    BY <1>2, <1>7, ControllerAssumption DEF Ending
  <2> QED BY <1>1, <1>4, <2>1, <2>2, <2>3 DEF IInv, MadeStays, AtWork, Name
<1>9. Torn'
  BY <1>1, <1>3, <1>4 DEF IInv, Torn, TornByTwo, Grown
<1>10. Gone'
  BY <1>1, <1>4, <1>7 DEF IInv, Gone, Name
<1>11. PartialMends' /\ NotYet' /\ OneWriter'
  BY <1>1 DEF PartialMends, NotYet, OneWriter
<1> QED BY <1>5, <1>8, <1>9, <1>10, <1>11 DEF IInv

(* While no call is given up, only removals share a writer's name.         *)
LEMMA OthersRemove ==
  ASSUME IInv, timeouts = 0, NEW j \in jobs, NEW k \in jobs, k # j, k.name = j.name,
         j.op \notin Drops
  PROVE  k.op \in Drops
<1>1. /\ JobFits(j) /\ j.name \in Name /\ j.op \in Calls /\ ~j.late
      /\ JobFits(k) /\ k.op \in Calls /\ ~k.late
      /\ j.name \in Vol <=> j.name \notin Snap
  BY JobFacts DEF JobFits
<1>2. SUFFICES ASSUME k.op \notin Drops PROVE FALSE
  OBVIOUS
<1>3. ~(j.op \in Owns <=> k.op \in Owns)
  BY <1>1 DEF IInv, Alone
<1>4. ASSUME NEW m \in jobs, m.op = "ControllerExpandVolume", JobFits(m),
             NEW n \in jobs, n.op \in Makes, JobFits(n), ~n.late, n.name = m.name, n.name \in Name
      PROVE  FALSE
  <2>1. m.name \in Vol /\ resize[m.name] # "none"
    BY <1>4 DEF JobFits, Name
  <2>2. rpc[m.name].op = "CreateVolume"
    BY <1>4, <2>1, ControllerAssumption DEF JobFits, Owns, Makes
  <2> QED BY <2>1, <2>2 DEF IInv, CallsFit
<1> QED BY <1>1, <1>2, <1>3, <1>4 DEF Owns, Calls

(* What a writer leaves, where nothing was removed under it.               *)
LEMMA WritesFit ==
  ASSUME IInv, NEW j \in jobs, AtWork(j), j.op \notin Drops, NEW left \in Writes(j)
  PROVE  /\ left \in {"absent", "partial", "torn", "whole"}
         /\ (left = "absent") = (disk[j.name] = "absent")
         /\ left = "partial" =>
              /\ disk[j.name] = "partial"
              /\ \E k \in jobs \ {j} : /\ k.name = j.name /\ AtWork(k)
                                       /\ k.op = "ControllerExpandVolume"
         /\ left = "torn" => Grown(j.name) /\ (timeouts > 0 \/ faults > 0)
<1>1. j.name \in Name /\ disk[j.name] \in {"absent", "partial", "torn", "whole"}
  BY JobFacts DEF IInv, TypeOK
<1>2. left = "torn" => disk[j.name] \in {"torn", "whole"} /\ Grown(j.name)
  BY <1>1 DEF Writes, IInv, Torn, TornByTwo
<1>3. left = "torn" => timeouts > 0 \/ faults > 0
  BY <1>1, <1>2, ControllerAssumption DEF IInv, TypeOK, OneWriter
<1> QED BY <1>1, <1>2, <1>3 DEF Writes

LEMMA MakingEndsKeeps ==
  ASSUME IInv, NEW j \in jobs, MakingEnds(j)
  PROVE  IInv'
<1>1. PICK good \in BOOLEAN : Answer(j, good) /\ (disk[j.name] # "absent" => good)
  BY DEF MakingEnds
<1>2. /\ jobs' = jobs \ {j} /\ UNCHANGED <<cache, spoilt, grown, timeouts, faults>>
      /\ AtWork(j) /\ j.op \notin Drops
  BY DEF MakingEnds, history, count
<1>3. /\ JobFits(j) /\ j.name \in Name /\ j.late \in BOOLEAN
      /\ j.op \in {"CreateVolume", "CreateSnapshot", "ControllerExpandVolume"}
      /\ j.op = "CreateSnapshot" <=> j.name \in Snap
      /\ j.name \in Vol <=> j.name \notin Snap
  BY <1>2, JobFacts DEF Calls, Makes, Drops, JobFits
<1>4. PICK left \in Writes(j) : disk' = [disk EXCEPT ![j.name] = left]
  BY DEF MakingEnds
<1>5. /\ left \in {"absent", "partial", "torn", "whole"}
      /\ (left = "absent") = (disk[j.name] = "absent")
      /\ left = "partial" => \E k \in jobs' : /\ k.name = j.name /\ AtWork(k)
                                              /\ k.op = "ControllerExpandVolume"
      /\ left = "torn" => Grown(j.name) /\ (timeouts > 0 \/ faults > 0)
  BY <1>2, WritesFit
<1>6. /\ disk' \in [Name -> {"absent", "partial", "torn", "whole"}]
      /\ disk'[j.name] = left
      /\ \A y \in Name : y # j.name => disk'[y] = disk[y]
  BY <1>3, <1>4, <1>5 DEF IInv, TypeOK
<1>7. TypeOK' /\ CallsFit' /\ JobsFit' /\ Alone'
  BY <1>1, <1>2, <1>6, LeavesFit DEF IInv, TypeOK
<1>8. /\ Moves(j, good) /\ \A y \in Name : Ending(y) => Ending(y)'
      /\ \A v \in Vol : (resize'[v] # "none") = (resize[v] # "none")
  BY <1>1, AnswerFits
<1>9. MadeStays'
  <2>1. \A k \in jobs' : AtWork(k) /\ k.op \in Makes /\ ~Ending(k.name)' => disk'[k.name] # "absent"
    BY <1>2, <1>5, <1>6, <1>8, JobFacts DEF IInv, MadeStays
  <2>2. ASSUME NEW v \in Vol, phase'[v] = "bound", v = j.name
        PROVE  disk'[v] # "absent"
    <3>1. CASE phase[v] = "bound"
      BY <1>5, <1>6, <2>2, <3>1 DEF IInv, MadeStays
    <3>2. CASE phase[v] # "bound"
      <4>1. j.op = "CreateVolume" /\ phase[v] = "wanted"
        BY <1>8, <2>2, <3>2 DEF Moves
      <4> QED BY <1>2, <1>5, <1>6, <2>2, <4>1 DEF IInv, MadeStays, Ending, Makes
    <3> QED BY <3>1, <3>2
  <2>3. ASSUME NEW v \in Vol, phase'[v] = "bound", v # j.name
        PROVE  /\ disk'[v] # "absent"
               /\ disk'[v] = "partial" =>
                    \/ faults > 0
                    \/ \E k \in jobs' : k.name = v /\ AtWork(k) /\ k.op = "ControllerExpandVolume"
    BY <1>2, <1>6, <1>8, <2>3 DEF IInv, MadeStays, Moves, Name
  <2>4. ASSUME NEW s \in Snap, snap'[s] = "ready"
        PROVE  disk'[s] \in {"whole", "torn"}
    <3>1. CASE snap[s] = "ready" /\ s # j.name
      BY <1>6, <2>4, <3>1 DEF IInv, MadeStays, Name
    <3>2. CASE s = j.name
      <4>1. disk[s] # "absent"
        <5>1. CASE snap[s] = "ready"
          BY <3>2, <5>1 DEF IInv, MadeStays
        <5>2. CASE snap[s] # "ready"
          <6>1. j.op = "CreateSnapshot" /\ snap[s] = "wanted"
            BY <1>8, <2>4, <3>2, <5>2 DEF Moves
          <6> QED BY <1>2, <1>3, <3>2, <6>1 DEF IInv, MadeStays, Ending, Makes
        <5> QED BY <5>1, <5>2
      <4>2. left # "partial"
        <5>1. SUFFICES ASSUME NEW k \in jobs, k.name = s, k.op = "ControllerExpandVolume" PROVE FALSE
          BY <1>2, <1>5, <3>2
        <5>2. JobFits(k)
          BY JobFacts
        <5> QED BY <3>2, <5>1, <5>2 DEF JobFits
      <4> QED BY <1>5, <1>6, <3>2, <4>1, <4>2
    <3>3. CASE snap[s] # "ready" /\ s # j.name
      BY <1>8, <2>4, <3>3 DEF Moves
    <3> QED BY <3>1, <3>2, <3>3
  <2>5. faults' = faults /\ \A k \in jobs' : (AtWork(k))' = AtWork(k)
    BY <1>2 DEF AtWork
  <2> QED BY <1>5, <1>6, <2>1, <2>2, <2>3, <2>4, <2>5 DEF MadeStays, AtWork
<1>10. PartialMends'
  <2>1. SUFFICES ASSUME NEW y \in Name, disk'[y] = "partial"
                 PROVE  \/ faults > 0
                        \/ timeouts > 0 /\ Copied(y)
                        \/ \E k \in jobs' : /\ k.name = y /\ AtWork(k)
                                            /\ k.op \notin Drops \/ k.at = "begun"
    BY <1>2 DEF PartialMends, Copied, AtWork
  <2>2. CASE y = j.name
    BY <1>5, <1>6, <2>1, <2>2 DEF Drops
  <2>3. CASE y # j.name
    BY <1>2, <1>6, <2>1, <2>3 DEF IInv, PartialMends
  <2> QED BY <2>2, <2>3
<1>11. NotYet'
  <2>1. SUFFICES ASSUME timeouts = 0, faults = 0, NEW v \in Vol,
                        phase'[v] \in {"none", "wanted", "dropped"}, disk'[v] # "absent"
                 PROVE  \E k \in jobs' : k.name = v /\ AtWork(k) /\ k.op = "CreateVolume"
    BY <1>2 DEF NotYet, AtWork
  <2>2. phase[v] \in {"none", "wanted", "dropped"}
    BY <1>8, <2>1 DEF Moves
  <2>3. CASE v # j.name
    BY <1>2, <1>6, <2>1, <2>2, <2>3 DEF IInv, NotYet, Name
  <2>4. CASE v = j.name
    <3>1. ~j.late /\ good
      BY <1>1, <1>3, <1>5, <1>6, <2>1, <2>4 DEF JobFits
    <3>2. j.op # "CreateVolume"
      BY <1>8, <2>1, <2>4, <3>1 DEF Moves
    <3>3. resize[v] # "none"
      BY <1>3, <2>4, <3>2 DEF JobFits
    <3> QED BY <2>2, <3>3 DEF IInv, CallsFit
  <2> QED BY <2>3, <2>4
<1>12. Gone'
  <2>1. SUFFICES ASSUME timeouts = 0 PROVE Gone'
    BY <1>2 DEF Gone
  <2>2. ~j.late
    BY <1>3, <2>1 DEF JobFits
  <2>3. \A v \in Vol : phase'[v] = "gone" => phase[v] = "gone"
    BY <1>3, <1>8 DEF Moves
  <2>4. \A s \in Snap : snap'[s] = "gone" => snap[s] = "gone"
    BY <1>3, <1>8 DEF Moves
  <2>5. disk[j.name] = "absent" => disk'[j.name] = "absent"
    BY <1>5, <1>6
  <2> QED BY <1>2, <1>6, <1>8, <2>1, <2>3, <2>4, <2>5 DEF IInv, Gone, Name
<1>13. Torn'
  BY <1>2, <1>5, <1>6 DEF IInv, Torn, TornByTwo, Grown
(* The only writer is gone, and whoever is left under the name removes.    *)
<1>14. OneWriter'
  <2>1. SUFFICES ASSUME timeouts = 0, faults = 0, NEW k \in jobs, k # j, k.name = j.name
                 PROVE  k.op \in Drops
    BY <1>2, <1>6, JobFacts DEF IInv, OneWriter, AtWork, Makes, Drops
  <2> QED BY <1>2, <1>3, <2>1, OthersRemove
<1> QED BY <1>7, <1>9, <1>10, <1>11, <1>12, <1>13, <1>14 DEF IInv

(* A failed system call, or a lost answer.                                 *)
LEMMA AgentFailsKeeps ==
  ASSUME IInv, NEW j \in jobs, AgentFails(j)
  PROVE  IInv'
<1>1. /\ Answer(j, FALSE) /\ jobs' = jobs \ {j} /\ AtWork(j)
      /\ UNCHANGED <<cache, spoilt, grown, timeouts>>
      /\ faults' \in 0 .. MaxFaults /\ faults' > 0
  BY FaultCounts DEF AgentFails, history
<1>2. j.name \in Name /\ JobFits(j) /\ j.op \in Calls
  BY JobFacts
<1>3. PICK left : /\ left \in IF j.op \in Drops THEN Left(j) ELSE Writes(j) \cup {disk[j.name]}
                  /\ disk' = [disk EXCEPT ![j.name] = left]
  BY DEF AgentFails
<1>4. /\ left \in {"absent", "partial", "torn", "whole"}
      /\ j.op \notin Drops => (left = "absent") = (disk[j.name] = "absent")
      /\ left = "torn" => Grown(j.name)
      /\ j.op \notin Drops /\ left = "partial" => disk[j.name] = "partial"
      /\ j.op \in Drops /\ timeouts = 0 =>
           left = "absent" \/ (j.name \in Vol /\ resize[j.name] # "none")
  <2>1. /\ disk[j.name] \in {"absent", "partial", "torn", "whole"}
        /\ disk[j.name] = "torn" => Grown(j.name)
    BY <1>2 DEF IInv, TypeOK, Torn, TornByTwo
  <2>2. CASE j.op \in Drops
    <3>1. /\ left \in {"absent", "partial", disk[j.name]}
          /\ j.at = "begun" => left = "absent"
      BY <1>1, <1>3, <2>2, LeftFits
    <3>2. timeouts = 0 => j.at = "begun" \/ (j.name \in Vol /\ resize[j.name] # "none")
      BY <1>1, <1>2 DEF AtWork, JobFits
    <3> QED BY <2>1, <2>2, <3>1, <3>2
  <2>3. CASE j.op \notin Drops
    BY <1>1, <1>3, <2>1, <2>3, WritesFit
  <2> QED BY <2>2, <2>3
<1>5. /\ disk' \in [Name -> {"absent", "partial", "torn", "whole"}]
      /\ disk'[j.name] = left
      /\ \A y \in Name : y # j.name => disk'[y] = disk[y]
  BY <1>2, <1>3, <1>4 DEF IInv, TypeOK
<1>6. TypeOK' /\ CallsFit' /\ JobsFit' /\ Alone'
  BY <1>1, <1>5, LeavesFit DEF IInv, TypeOK
<1>7. /\ Moves(j, FALSE) /\ \A y \in Name : Ending(y) => Ending(y)'
      /\ \A v \in Vol : (resize'[v] # "none") = (resize[v] # "none")
  BY <1>1, AnswerFits
<1>8. /\ \A v \in Vol : phase'[v] = phase[v]
      /\ \A s \in Snap : snap'[s] = snap[s]
  BY <1>7 DEF Moves
<1>9. j.op \in Drops => Ending(j.name)
  BY <1>2 DEF JobFits
<1>10. MadeStays'
  <2>1. \A k \in jobs' : AtWork(k) /\ k.op \in Makes /\ ~Ending(k.name)' => disk'[k.name] # "absent"
    BY <1>1, <1>4, <1>5, <1>7, <1>9, JobFacts DEF IInv, MadeStays
  <2>2. \A v \in Vol : phase'[v] = "bound" => disk'[v] # "absent"
    BY <1>4, <1>5, <1>8, <1>9 DEF IInv, MadeStays, Ending, Name
  <2>3. ASSUME NEW s \in Snap, snap'[s] = "ready" PROVE disk'[s] \in {"whole", "torn"}
    <3>1. snap[s] = "ready" /\ disk[s] \in {"whole", "torn"} /\ s \notin Vol
      BY <1>8, <2>3, ControllerAssumption DEF IInv, MadeStays
    <3>2. s = j.name => j.op \notin Drops
      BY <1>9, <3>1 DEF Ending
    <3> QED BY <1>4, <1>5, <3>1, <3>2 DEF Name
  <2> QED BY <1>1, <2>1, <2>2, <2>3 DEF MadeStays, AtWork
<1>11. Gone'
  <2>1. SUFFICES ASSUME timeouts = 0 PROVE Gone'
    BY <1>1 DEF Gone
  <2>2. disk[j.name] = "absent" =>
          left = "absent" \/ (j.name \in Vol /\ resize[j.name] # "none")
    BY <1>4, <2>1
  <2> QED BY <1>1, <1>5, <1>7, <1>8, <2>1, <2>2, ControllerAssumption DEF IInv, Gone, Name
<1>12. Torn'
  BY <1>1, <1>4, <1>5 DEF IInv, Torn, TornByTwo, Grown
<1>13. PartialMends' /\ NotYet' /\ OneWriter'
  BY <1>1 DEF PartialMends, NotYet, OneWriter
<1> QED BY <1>6, <1>10, <1>11, <1>12, <1>13 DEF IInv

(* A handler that nobody waits for any more is at work as it was.          *)
LEMMA GiveUpKeeps ==
  ASSUME IInv, NEW j \in jobs, GiveUp(j)
  PROVE  IInv'
<1>0. PICK l : l = [j EXCEPT !.late = TRUE]
  OBVIOUS
<1>1. /\ Answer(j, FALSE) /\ jobs' = (jobs \ {j}) \cup {l}
      /\ UNCHANGED <<cache, disk, spoilt, grown, faults>>
      /\ timeouts' = timeouts + 1 /\ timeouts < MaxTimeouts
  BY <1>0 DEF GiveUp, history
<1>2. timeouts' \in 0 .. MaxTimeouts /\ timeouts' > 0
  BY <1>1, ControllerAssumption DEF IInv, TypeOK
<1>3. l \in Job /\ l.op = j.op /\ l.name = j.name /\ l.at = j.at /\ l.late
  BY <1>0, JobFacts DEF Job
<1>4. /\ Moves(j, FALSE) /\ CallsFit' /\ \A y \in Name : Ending(y) => Ending(y)'
      /\ \A v \in Vol : (resize'[v] # "none") = (resize[v] # "none")
  BY <1>1, AnswerFits
<1>5. /\ \A v \in Vol : phase'[v] = phase[v]
      /\ \A s \in Snap : snap'[s] = snap[s]
  BY <1>4 DEF Moves
<1>6. TypeOK'
  BY <1>1, <1>2, <1>3, AnswerFits DEF IInv, TypeOK
<1>7. JobsFit'
  <2>1. \A k \in jobs : k # j => JobFits(k)'
    BY <1>1, OthersFit
  <2>2. JobFits(l)'
    <3>1. JobFits(j) /\ j.name \in Name /\ (j.op = "ControllerExpandVolume" => j.name \in Vol)
      BY JobFacts DEF JobFits
    <3>2. Ending(j.name) => Ending(j.name)'
      BY <1>4, <3>1
    <3> QED BY <1>2, <1>3, <1>4, <3>1, <3>2 DEF JobFits, Copied
  <2> QED BY <1>1, <2>1, <2>2 DEF JobsFit
<1>8. Alone'
  BY <1>1, <1>3 DEF IInv, Alone
<1>9. MadeStays'
  <2>1. \A k \in jobs' : AtWork(k) /\ k.op \in Makes /\ ~Ending(k.name)' => disk'[k.name] # "absent"
    BY <1>1, <1>3, <1>4, JobFacts DEF IInv, MadeStays, AtWork
  <2>2. ASSUME NEW v \in Vol, phase'[v] = "bound", disk'[v] = "partial", ~(faults' > 0)
        PROVE  \E k \in jobs' : k.name = v /\ AtWork(k) /\ k.op = "ControllerExpandVolume"
    <3>1. PICK k \in jobs : k.name = v /\ AtWork(k) /\ k.op = "ControllerExpandVolume"
      BY <1>1, <1>5, <2>2 DEF IInv, MadeStays
    <3> QED BY <1>1, <1>3, <3>1 DEF AtWork
  <2>3. \A v \in Vol : phase'[v] = "bound" => disk'[v] # "absent"
    BY <1>1, <1>5 DEF IInv, MadeStays
  <2>4. \A s \in Snap : snap'[s] = "ready" => disk'[s] \in {"whole", "torn"}
    BY <1>1, <1>5 DEF IInv, MadeStays
  <2> QED BY <2>1, <2>2, <2>3, <2>4 DEF MadeStays, AtWork
<1>10. PartialMends'
  <2>1. SUFFICES ASSUME NEW x \in Name, disk'[x] = "partial", ~(faults' > 0),
                        ~(timeouts' > 0 /\ Copied(x))
                 PROVE  \E k \in jobs' : /\ k.name = x /\ AtWork(k)
                                         /\ k.op \notin Drops \/ k.at = "begun"
    BY DEF PartialMends, Copied, AtWork
  <2>2. PICK k \in jobs : k.name = x /\ AtWork(k) /\ (k.op \notin Drops \/ k.at = "begun")
    BY <1>1, <1>2, <2>1 DEF IInv, PartialMends
  <2> QED BY <1>1, <1>3, <2>2 DEF AtWork
<1>11. NotYet' /\ Gone' /\ OneWriter'
  BY <1>2 DEF NotYet, Gone, OneWriter
<1>12. Torn'
  BY <1>1, <1>2 DEF IInv, Torn, TornByTwo, Grown
<1> QED BY <1>4, <1>6, <1>7, <1>8, <1>9, <1>10, <1>11, <1>12 DEF IInv

(* The handlers of another node's agent, and what is on disk, are left.    *)
LEMMA AgentCrashKeeps ==
  ASSUME IInv, NEW node, AgentCrash(node)
  PROVE  IInv'
<1>0. PICK hit \in SUBSET jobs : hit = {j \in jobs : Place(j.name) = node}
  OBVIOUS
<1>1. /\ jobs' = jobs \ hit
      /\ rpc' = [x \in Name |-> IF Waits(hit, x, Makes \cup Drops) THEN NoCall ELSE rpc[x]]
      /\ resize' = [v \in Vol |-> IF Waits(hit, v, {"ControllerExpandVolume"})
                                  THEN "wanted" ELSE resize[v]]
      /\ UNCHANGED <<phase, snap, cache, disk, spoilt, grown, timeouts>>
  BY <1>0, FaultCounts DEF AgentCrash, history
<1>2. faults' \in 0 .. MaxFaults /\ faults' > 0
  BY FaultCounts DEF AgentCrash
<1>3. TypeOK'
  BY <1>1, <1>2 DEF IInv, TypeOK
<1>4. \A v \in Vol : (resize'[v] # "none") = (resize[v] # "none")
  <2>1. \A v \in Vol : Waits(hit, v, {"ControllerExpandVolume"}) => resize[v] # "none"
    BY JobFacts DEF Waits, JobFits
  <2> QED BY <1>1, <2>1
<1>5. CallsFit'
  BY <1>1, <1>4, ControllerAssumption DEF IInv, CallsFit, NoCall, Name
<1>6. JobsFit'
  <2>1. SUFFICES ASSUME NEW j \in jobs, j \notin hit PROVE JobFits(j)'
    BY <1>1 DEF JobsFit
  <2>2. /\ JobFits(j) /\ j.name \in Name /\ (j.op \in Owns \/ j.name \in Vol)
      /\ (j.op = "ControllerExpandVolume" => j.name \in Vol)
    BY JobFacts DEF JobFits, Owns, Makes, Drops, Calls
  <2>3. \A k \in hit : k.name # j.name
    BY <1>0, <2>1
  <2>4. rpc'[j.name] = rpc[j.name] /\ (j.name \in Vol => resize'[j.name] = resize[j.name])
    BY <1>1, <2>2, <2>3 DEF Waits
  <2> QED BY <1>1, <2>2, <2>4 DEF JobFits, Copied, Ending
<1>7. Alone' /\ MadeStays' /\ PartialMends' /\ NotYet' /\ Gone'
  BY <1>1, <1>2, <1>4
  DEF IInv, Alone, MadeStays, PartialMends, NotYet, Gone, Ending, AtWork
<1>8. Torn' /\ OneWriter'
  BY <1>1, <1>2 DEF IInv, Torn, TornByTwo, Grown, OneWriter
<1> QED BY <1>3, <1>5, <1>6, <1>7, <1>8 DEF IInv

(* Every handler is late when the controller's process has ended.          *)
LEMMA ControllerRestartsKeeps ==
  ASSUME IInv, ControllerRestarts
  PROVE  IInv'
<1>1. /\ rpc' = [x \in Name |-> NoCall]
      /\ resize' = [v \in Vol |-> IF resize[v] \in {"lookup", "call"} THEN "wanted" ELSE resize[v]]
      /\ cache' \in SUBSET Vol /\ timeouts' = timeouts + 1 /\ timeouts < MaxTimeouts
      /\ UNCHANGED <<phase, snap, disk, spoilt, grown, faults>>
  BY DEF ControllerRestarts, history
<1>2. timeouts' \in 0 .. MaxTimeouts /\ timeouts' > 0
  BY <1>1, ControllerAssumption DEF IInv, TypeOK
<1>3. \A k \in jobs' : \E j \in jobs : k = [j EXCEPT !.late = TRUE]
  BY DEF ControllerRestarts
<1>4. \A k \in jobs' : \E j \in jobs : /\ k \in Job /\ k.op = j.op /\ k.name = j.name
                                       /\ k.at = j.at /\ k.late
  BY <1>3, JobFacts DEF Job
<1>5. \A j \in jobs : [j EXCEPT !.late = TRUE] \in jobs'
  BY DEF ControllerRestarts
<1>6. \A j \in jobs : \E k \in jobs' : k.op = j.op /\ k.name = j.name /\ k.at = j.at
  <2>1. \A j \in jobs : /\ [j EXCEPT !.late = TRUE].op = j.op
                        /\ [j EXCEPT !.late = TRUE].name = j.name
                        /\ [j EXCEPT !.late = TRUE].at = j.at
    BY JobFacts DEF Job
  <2> QED BY <1>5, <2>1
<1>7. TypeOK' /\ CallsFit'
  BY <1>1, <1>2, <1>4, ControllerAssumption DEF IInv, TypeOK, CallsFit, NoCall, Name
<1>8. JobsFit'
  <2>1. SUFFICES ASSUME NEW k \in jobs' PROVE JobFits(k)'
    BY DEF JobsFit
  <2>2. PICK j \in jobs : /\ k \in Job /\ k.op = j.op /\ k.name = j.name
                          /\ k.at = j.at /\ k.late
    BY <1>4
  <2>3. JobFits(j) /\ j.name \in Name /\ (j.op = "ControllerExpandVolume" => j.name \in Vol)
    BY JobFacts DEF JobFits
  <2> QED BY <1>1, <1>2, <2>2, <2>3 DEF JobFits, Copied, Ending
<1>9. Alone' /\ NotYet' /\ Gone' /\ OneWriter'
  BY <1>2, <1>4 DEF Alone, NotYet, Gone, OneWriter
<1>10. MadeStays'
  BY <1>1, <1>4, <1>6 DEF IInv, MadeStays, Ending, AtWork
<1>12. Torn'
  BY <1>1, <1>2 DEF IInv, Torn, TornByTwo, Grown
<1>11. PartialMends'
  BY <1>1, <1>2, <1>6 DEF IInv, PartialMends, Copied, AtWork
<1> QED BY <1>7, <1>8, <1>9, <1>10, <1>11, <1>12 DEF IInv

-----------------------------------------------------------------------------
(* What becomes of one handler when another begins under the name x.       *)
Here(set, x) == {k \in set : k.name = x /\ AtWork(k)}
Turned(set, x, k) ==
  IF k \notin Here(set, x) \/ k.op \notin Drops \/ \A c \in Here(set, x) : c.op \in Drops
  THEN k
  ELSE [k EXCEPT !.at = IF @ = "met_copy" \/ \E c \in Here(set, x) : Copies(c)
                        THEN "met_copy" ELSE "met"]

LEMMA MeetTurns ==
  ASSUME NEW set \in SUBSET Job, NEW x
  PROVE  Meet(set, x) = {Turned(set, x, k) : k \in set}
<1> DEFINE here  == Here(set, x)
           drops == {k \in here : k.op \in Drops}
           how   == IF \E k \in here : Copies(k) THEN "met_copy" ELSE "met"
           met(k) == [k EXCEPT !.at = IF @ = "met_copy" THEN @ ELSE how]
<1>1. Meet(set, x) = IF here = drops THEN set ELSE (set \ drops) \cup {met(k) : k \in drops}
  BY DEF Meet, Here
<1>2. CASE here = drops
  <2>1. \A k \in set : Turned(set, x, k) = k
    BY <1>2 DEF Turned
  <2> QED BY <1>1, <1>2, <2>1
<1>3. CASE here # drops
  <2>1. PICK c \in here : c.op \notin Drops
    BY <1>3
  <2>2. \A k \in set \ drops : Turned(set, x, k) = k
    BY DEF Turned
  <2>3. \A k \in drops : Turned(set, x, k) = met(k)
    BY <2>1 DEF Turned
  <2>4. drops \subseteq set
    BY DEF Here
  <2> HIDE DEF here, drops, met
  <2>5. Meet(set, x) = {Turned(set, x, k) : k \in set \ drops} \cup {Turned(set, x, k) : k \in drops}
    BY <1>1, <1>3, <2>2, <2>3
  <2> QED BY <2>4, <2>5
<1> QED BY <1>2, <1>3

(* A handler is turned only into one that has met another, which goes on.  *)
LEMMA TurnedFits ==
  ASSUME NEW set \in SUBSET Job, NEW x, NEW k \in set
  PROVE  LET m == Turned(set, x, k) IN
         /\ m \in Job /\ m.op = k.op /\ m.name = k.name /\ m.late = k.late
         /\ AtWork(m) = AtWork(k)
         /\ m # k => \E c \in set :
              /\ k.name = x /\ k.op \in Drops /\ AtWork(k)
              /\ c.name = x /\ c.op \notin Drops /\ AtWork(c)
         /\ m # k => \/ m.at = "met"
                     \/ m.at = "met_copy" /\ k.at = "met_copy"
                     \/ m.at = "met_copy" /\ \E c \in set : c.name = x /\ Copies(c)
<1> DEFINE m == Turned(set, x, k)
<1>1. CASE m = k
  BY <1>1
<1>2. CASE m # k
  <2>1. /\ k \in Here(set, x) /\ k.op \in Drops
        /\ \E c \in Here(set, x) : c.op \notin Drops
        /\ m = [k EXCEPT !.at = IF @ = "met_copy" \/ \E c \in Here(set, x) : Copies(c)
                                THEN "met_copy" ELSE "met"]
    BY <1>2 DEF Turned
  <2>2. m.at \in {"met", "met_copy"}
    BY <2>1 DEF Job
  <2>3. m \in Job /\ m.op = k.op /\ m.name = k.name /\ m.late = k.late
    BY <2>1 DEF Job
  <2>4. m.at = "met_copy" => k.at = "met_copy" \/ \E c \in Here(set, x) : Copies(c)
    BY <2>1 DEF Job
  <2>5. AtWork(m) /\ AtWork(k) /\ k.name = x
    BY <2>1, <2>2 DEF AtWork, Here
  <2> HIDE DEF m
  <2> QED BY <2>1, <2>2, <2>3, <2>4, <2>5 DEF Here, m
<1> QED BY <1>1, <1>2

LEMMA AgentReadsKeeps ==
  ASSUME IInv, NEW j \in jobs, AgentReads(j)
  PROVE  IInv'
<1>1. CASE ~Readable(j)
  BY <1>1, RefusedKeeps DEF AgentReads, AtWork
<1>2. CASE Readable(j)
  <2>1. PICK r : r = [j EXCEPT !.at = "read"]
    OBVIOUS
  <2>2. /\ jobs' = (jobs \ {j}) \cup {r} /\ j.at = "queued" /\ Reads(j)
        /\ UNCHANGED <<phase, snap, resize, cache, rpc, disk, spoilt, grown, timeouts, faults>>
    BY <1>2, <2>1 DEF AgentReads, cluster, history, count
  <2>3. r \in Job /\ r.op = j.op /\ r.name = j.name /\ r.late = j.late /\ r.at = "read"
    BY <2>1, JobFacts DEF Job
  <2>4. ~AtWork(j) /\ ~AtWork(r) /\ j.op \notin Drops
    BY <2>2, <2>3 DEF AtWork, Reads, Copies, Makes, Drops
  <2>5. TypeOK' /\ CallsFit'
    BY <2>2, <2>3 DEF IInv, TypeOK, CallsFit
  <2>6. JobsFit'
    <3>1. JobFits(r)'
      BY <2>2, <2>3, <2>4, JobFacts DEF JobFits, Ending
    <3>2. ASSUME NEW k \in jobs PROVE JobFits(k)'
      BY <2>2, JobFacts DEF JobFits, Ending
    <3> QED BY <2>2, <3>1, <3>2 DEF JobsFit
  <2>7. Alone'
    BY <2>2, <2>3 DEF IInv, Alone
  <2>8. MadeStays'
    <3>1. \A k \in jobs' : AtWork(k) => k \in jobs
      BY <2>2, <2>4
    <3>2. \A k \in jobs : AtWork(k) => k \in jobs'
      BY <2>2, <2>4
    <3> QED BY <2>2, <3>1, <3>2 DEF IInv, MadeStays, Ending, AtWork
  <2>9. PartialMends' /\ NotYet' /\ Gone'
    <3>1. \A k \in jobs : AtWork(k) => k \in jobs'
      BY <2>2, <2>4
    <3> QED BY <2>2, <3>1 DEF IInv, PartialMends, NotYet, Gone, AtWork
  <2>10. Torn' /\ OneWriter'
    BY <2>2, <2>3, <2>4 DEF IInv, Torn, TornByTwo, Grown, OneWriter, AtWork
  <2> QED BY <2>5, <2>6, <2>7, <2>8, <2>9, <2>10 DEF IInv
<1> QED BY <1>1, <1>2

(* A maker that makes its directory again is at work in it.                *)
LEMMA MakesAgainKeeps ==
  ASSUME IInv, NEW j \in jobs, MakesAgain(j)
  PROVE  IInv'
<1>1. /\ AtWork(j) /\ j.op \in Makes /\ disk[j.name] = "absent"
      /\ disk' = [disk EXCEPT ![j.name] = "partial"]
      /\ UNCHANGED <<phase, snap, resize, cache, rpc, jobs, spoilt, grown, timeouts, faults>>
  BY DEF MakesAgain, cluster, history, count
<1>2. /\ JobFits(j) /\ j.name \in Name /\ j.op \notin Drops /\ (j.late => timeouts > 0)
      /\ j.name \in Vol <=> j.name \notin Snap
  BY <1>1, JobFacts DEF JobFits, Makes, Drops
<1>3. /\ disk' \in [Name -> {"absent", "partial", "torn", "whole"}]
      /\ \A y \in Name : y # j.name => disk'[y] = disk[y]
      /\ disk'[j.name] = "partial"
  BY <1>1, <1>2 DEF IInv, TypeOK
<1>4. TypeOK' /\ CallsFit' /\ Alone'
  BY <1>1, <1>3 DEF IInv, TypeOK, CallsFit, Alone
<1>5. JobsFit'
  BY <1>1 DEF IInv, JobsFit, JobFits, Ending
<1>6. MadeStays'
  BY <1>1, <1>2, <1>3 DEF IInv, MadeStays, Ending, AtWork, Name
<1>7. PartialMends'
  BY <1>1, <1>2, <1>3 DEF IInv, PartialMends, AtWork
(* While no call is given up, its call still waits, and nothing else is at  *)
(* the name.                                                               *)
<1>8. timeouts = 0 => /\ j.name \in Vol => phase[j.name] \in {"wanted", "dropped"}
                                           /\ j.op = "CreateVolume"
                      /\ j.name \in Snap => snap[j.name] = "wanted"
  BY <1>1, <1>2 DEF JobFits, Owns, Makes, IInv, CallsFit
<1>9. NotYet' /\ Gone'
  BY <1>1, <1>3, <1>8, <1>2 DEF IInv, NotYet, Gone, AtWork, Name
<1>10. Torn'
  BY <1>1, <1>3 DEF IInv, Torn, TornByTwo, Grown
<1>11. OneWriter'
  <2>1. SUFFICES ASSUME timeouts = 0, faults = 0, NEW k \in jobs, k # j, k.name = j.name
                 PROVE  k.op \in Drops
    BY <1>1, <1>2, <1>3, JobFacts DEF IInv, OneWriter, AtWork, Makes, Drops
  <2> QED BY <1>2, <2>1, OthersRemove
<1> QED BY <1>4, <1>5, <1>6, <1>7, <1>9, <1>10, <1>11 DEF IInv

LEMMA AgentBeginsKeeps ==
  ASSUME IInv, NEW j \in jobs, AgentBegins(j)
  PROVE  IInv'
<1>0. ~AtWork(j)
  BY DEF AgentBegins, AtWork
<1>1. CASE j.op = "ControllerExpandVolume" /\ disk[j.name] = "absent"
  BY <1>0, <1>1, RefusedKeeps DEF AgentBegins, history
<1>2. CASE ~(j.op = "ControllerExpandVolume" /\ disk[j.name] = "absent")
  <2>0. PICK b, x, set : /\ b = [j EXCEPT !.at = "begun"] /\ x = j.name
                         /\ set = (jobs \ {j}) \cup {b}
    OBVIOUS
  <2>1. /\ jobs' = Meet(set, x) /\ disk' = [disk EXCEPT ![x] = Beginning(j)] /\ ~AtWork(j)
        /\ grown \subseteq grown' /\ grown' \subseteq Vol
        /\ UNCHANGED <<phase, snap, resize, cache, rpc, spoilt, timeouts, faults>>
    BY <1>0, <1>2, <2>0 DEF AgentBegins, cluster, count, IInv, TypeOK
  <2>2. /\ JobFits(j) /\ x \in Name /\ j.late \in BOOLEAN /\ j.op \in Calls
        /\ j.name \in Vol <=> j.name \notin Snap
    BY <2>0, JobFacts
  <2>3. /\ b \in Job /\ b.op = j.op /\ b.name = x /\ b.at = "begun" /\ b.late = j.late /\ AtWork(b)
        /\ set \in SUBSET Job /\ b \in set
    BY <2>0, JobFacts DEF Job, AtWork, IInv, TypeOK
  <2>4. \A k \in set : JobFits(k)
    <3>1. JobFits(b)
      BY <2>0, <2>2, <2>3 DEF JobFits
    <3> QED BY <2>0, <3>1, JobFacts
  <2>5. \A k, l \in set :
          ~k.late /\ ~l.late /\ k.name = l.name /\ (k.op \in Owns <=> l.op \in Owns) => k = l
    <3>1. \A k \in jobs \ {j} :
            ~(~k.late /\ ~b.late /\ k.name = b.name /\ (k.op \in Owns <=> b.op \in Owns))
      BY <2>0, <2>3 DEF IInv, Alone
    <3>2. \A k, l \in jobs \ {j} :
            ~k.late /\ ~l.late /\ k.name = l.name /\ (k.op \in Owns <=> l.op \in Owns) => k = l
      BY DEF IInv, Alone
    <3>3. SUFFICES ASSUME NEW k \in set, NEW l \in set, ~k.late, ~l.late, k.name = l.name,
                          k.op \in Owns <=> l.op \in Owns
                   PROVE  k = l
      OBVIOUS
    <3>4. k = b \/ k \in jobs \ {j}
      BY <2>0
    <3>5. l = b \/ l \in jobs \ {j}
      BY <2>0
    <3> QED BY <3>1, <3>2, <3>3, <3>4, <3>5
  <2>6. jobs' = {Turned(set, x, k) : k \in set}
    BY <2>1, <2>3, MeetTurns
  <2>7. /\ disk' \in [Name -> {"absent", "partial", "torn", "whole"}]
        /\ \A y \in Name : y # x => disk'[y] = disk[y]
        /\ disk'[x] = Beginning(j)
    BY <2>0, <2>1, <2>2 DEF Beginning, IInv, TypeOK
  (* What is begun finds its name: only removals leave it absent.          *)
  <2>8. /\ disk'[x] \in {disk[x], "partial"}
        /\ j.op \notin Drops => disk'[x] # "absent"
        /\ j.op \in Makes /\ disk[x] # "absent" => disk'[x] = disk[x]
        /\ disk'[x] # "partial" /\ j.op \notin Makes => disk'[x] = "absent"
        /\ j.op \in Drops /\ disk[x] = "absent" => disk'[x] = "absent"
    BY <2>0, <2>2, <2>7 DEF Beginning, Makes, Drops, IInv, TypeOK
  <2>9. \A k \in set : (k.op \notin Drops \/ k.name # x) => k \in jobs'
    BY <2>3, <2>6, TurnedFits
  <2>10. ASSUME NEW k \in set, AtWork(k), k.op \notin Drops \/ k.at = "begun"
         PROVE  \E m \in jobs' : m.name = k.name /\ AtWork(m) /\ (m.op \notin Drops \/ m.at = "begun")
    <3>1. CASE Turned(set, x, k) = k
      BY <2>6, <2>10, <3>1
    <3>2. CASE Turned(set, x, k) # k
      <4>1. PICK c \in set : k.name = x /\ c.name = x /\ c.op \notin Drops /\ AtWork(c)
        BY <2>3, <3>2, TurnedFits
      <4> QED BY <2>9, <4>1
    <3> QED BY <3>1, <3>2
  <2>11. TypeOK'
    BY <2>1, <2>3, <2>6, <2>7, TurnedFits DEF IInv, TypeOK
  <2>12. CallsFit'
    BY <2>1 DEF IInv, CallsFit
  (* Only an expansion can be at work with a removal, but for late ones.   *)
  <2>13. ASSUME NEW k \in set, k.op \in Drops, k.name = x,
                NEW c \in set, c.op \notin Drops, c.name = x, timeouts = 0
         PROVE  x \in Vol /\ resize[x] # "none"
    <3>1. Ending(x) /\ ~c.late /\ JobFits(c)
      BY <2>4, <2>13 DEF JobFits
    <3>2. c.op \in Calls
      BY <2>3, <2>13 DEF Job
    <3>3. CASE c.op = "CreateVolume"
      BY <2>2, <2>13, <3>1, <3>3, ControllerAssumption
      DEF JobFits, Owns, Makes, IInv, CallsFit, Ending, Name
    <3>4. CASE c.op = "CreateSnapshot"
      BY <2>2, <2>13, <3>1, <3>4, ControllerAssumption
      DEF JobFits, Owns, Makes, IInv, CallsFit, Ending, Name
    <3>5. CASE c.op = "ControllerExpandVolume"
      BY <2>2, <2>13, <3>1, <3>5 DEF JobFits, Name
    <3> QED BY <2>13, <3>2, <3>3, <3>4, <3>5 DEF Calls, Makes, Drops
  <2>14. ASSUME NEW k \in set, k.op \in Drops, k.name = x,
                NEW c \in set, c.name = x, Copies(c)
         PROVE  timeouts > 0 /\ Copied(x)
    <3>1. c.op \in Makes /\ c.op \notin Drops /\ Copied(x)
      BY <2>14 DEF Copies, Copied, Makes, Drops
    <3>2. timeouts # 0
      <4>1. SUFFICES ASSUME timeouts = 0 PROVE FALSE
        OBVIOUS
      <4>2. x \in Vol /\ JobFits(c) /\ ~c.late /\ Ending(x)
        BY <2>4, <2>13, <2>14, <3>1, <4>1 DEF JobFits
      <4> QED BY <2>14, <3>1, <4>2, ControllerAssumption
              DEF JobFits, Owns, Makes, IInv, CallsFit, Ending, Name
    <3> QED BY <3>1, <3>2, ControllerAssumption DEF IInv, TypeOK
  <2>15. JobsFit'
    <3>1. SUFFICES ASSUME NEW k \in set, NEW m, m = Turned(set, x, k) PROVE JobFits(m)'
      BY <2>6 DEF JobsFit
    <3>2. JobFits(k) /\ k.name \in Name
      BY <2>3, <2>4 DEF Job
    <3>3. CASE m = k
      BY <2>1, <3>2, <3>3 DEF JobFits, Copied, Ending
    <3>4. CASE m # k
      <4>1. /\ m.op = k.op /\ m.name = k.name /\ m.late = k.late /\ k.name = x /\ k.op \in Drops
            /\ m.at \in {"met", "met_copy"}
        BY <2>3, <3>1, <3>4, TurnedFits
      <4>2. m.at = "met" /\ timeouts = 0 => x \in Vol /\ resize[x] # "none"
        BY <2>3, <2>13, <3>1, <3>4, <4>1, TurnedFits
      <4>3. m.at = "met_copy" => timeouts > 0 /\ Copied(x)
        <5>1. m.at = "met_copy" => k.at = "met_copy" \/ \E c \in set : c.name = x /\ Copies(c)
          BY <2>3, <3>1, <3>4, TurnedFits
        <5> QED BY <2>14, <3>2, <4>1, <5>1 DEF JobFits
      <4> QED BY <2>1, <3>2, <4>1, <4>2, <4>3 DEF JobFits, Copied, Ending, Drops
    <3> QED BY <3>3, <3>4
  <2>16. Alone'
    <3>1. SUFFICES ASSUME NEW k \in set, NEW l \in set, NEW m, NEW n,
                          m = Turned(set, x, k), n = Turned(set, x, l),
                          ~m.late, ~n.late, m.name = n.name, m.op \in Owns <=> n.op \in Owns
                   PROVE  m = n
      BY <2>6 DEF Alone
    <3>2. /\ m.op = k.op /\ m.name = k.name /\ m.late = k.late
          /\ n.op = l.op /\ n.name = l.name /\ n.late = l.late
      BY <2>3, <3>1, TurnedFits
    <3> QED BY <2>5, <3>1, <3>2
  <2>17. MadeStays'
    <3>1. ASSUME NEW m \in jobs', AtWork(m), m.op \in Makes, ~Ending(m.name)
          PROVE  disk'[m.name] # "absent"
      <4>1. PICK k \in set : k.op = m.op /\ k.name = m.name /\ AtWork(k)
        BY <2>3, <2>6, <3>1, TurnedFits
      <4>2. CASE k = b
        BY <2>3, <2>8, <3>1, <4>1, <4>2 DEF Makes, Drops
      <4>3. CASE k # b
        <5>1. k \in jobs /\ disk[k.name] # "absent"
          BY <2>0, <3>1, <4>1, <4>3 DEF IInv, MadeStays
        <5> QED BY <2>7, <2>8, <4>1, <5>1, JobFacts
      <4> QED BY <4>2, <4>3
    <3>2. ASSUME NEW v \in Vol, phase[v] = "bound"
          PROVE  /\ disk'[v] # "absent"
                 /\ disk'[v] = "partial" =>
                      \/ faults > 0
                      \/ \E k \in jobs' : k.name = v /\ AtWork(k) /\ k.op = "ControllerExpandVolume"
      <4>1. disk[v] # "absent" /\ disk'[v] # "absent"
        BY <2>7, <2>8, <3>2 DEF IInv, MadeStays, Name
      <4>2. ASSUME disk[v] = "partial", ~(faults > 0)
            PROVE  \E k \in jobs' : k.name = v /\ AtWork(k) /\ k.op = "ControllerExpandVolume"
        <5>1. PICK k \in jobs : k.name = v /\ AtWork(k) /\ k.op = "ControllerExpandVolume"
          BY <3>2, <4>2 DEF IInv, MadeStays
        <5>2. k \in set /\ k.op \notin Drops
          BY <2>0, <2>1, <5>1 DEF Drops
        <5> QED BY <2>9, <5>1, <5>2
      <4>3. ASSUME disk[v] # "partial", disk'[v] = "partial"
            PROVE  \E k \in jobs' : k.name = v /\ AtWork(k) /\ k.op = "ControllerExpandVolume"
        <5>1. v = x /\ j.op \notin Makes
          BY <2>7, <2>8, <4>1, <4>3 DEF Name
        <5>2. j.op \notin Drops
          BY <2>0, <2>2, <3>2, <5>1 DEF JobFits, Ending
        <5> QED BY <2>2, <2>3, <2>9, <5>1, <5>2 DEF Calls
      <4> QED BY <4>1, <4>2, <4>3 DEF IInv, TypeOK, Name
    <3>3. ASSUME NEW s \in Snap, snap[s] = "ready"
          PROVE  disk'[s] \in {"whole", "torn"}
      <4>1. disk[s] \in {"whole", "torn"}
        BY <3>3 DEF IInv, MadeStays
      <4>2. CASE s = x
        <5>1. j.op = "CreateSnapshot"
          BY <2>0, <2>2, <3>3, <4>2, ControllerAssumption DEF JobFits, Ending, Drops, Name
        <5> QED BY <2>8, <4>1, <4>2, <5>1 DEF Makes
      <4> QED BY <2>7, <4>1, <4>2 DEF Name
    <3> QED BY <2>1, <3>1, <3>2, <3>3 DEF MadeStays, AtWork, Ending
  <2>18. PartialMends'
    <3>1. SUFFICES ASSUME NEW y \in Name, disk'[y] = "partial", ~(faults > 0),
                          ~(timeouts > 0 /\ Copied(y))
                   PROVE  \E m \in jobs' : /\ m.name = y /\ AtWork(m)
                                           /\ m.op \notin Drops \/ m.at = "begun"
      BY <2>1 DEF PartialMends, Copied, AtWork
    <3>2. CASE y = x
      BY <2>3, <2>10, <3>2
    <3>3. CASE y # x
      <4>1. PICK k \in jobs : k.name = y /\ AtWork(k) /\ (k.op \notin Drops \/ k.at = "begun")
        BY <2>7, <3>1, <3>3 DEF IInv, PartialMends
      <4> QED BY <2>0, <2>1, <2>10, <4>1
    <3> QED BY <3>2, <3>3
  <2>19. NotYet'
    <3>1. SUFFICES ASSUME timeouts = 0, faults = 0, NEW v \in Vol,
                          phase[v] \in {"none", "wanted", "dropped"}, disk'[v] # "absent"
                   PROVE  \E m \in jobs' : m.name = v /\ AtWork(m) /\ m.op = "CreateVolume"
      BY <2>1 DEF NotYet, AtWork
    <3>2. CASE v = x
      <4>1. j.op = "CreateVolume"
        BY <2>0, <2>2, <3>1, <3>2 DEF JobFits, Ending, IInv, CallsFit, Calls, Makes
      <4> QED BY <2>3, <2>9, <3>2, <4>1 DEF Drops
    <3>3. CASE v # x
      <4>1. PICK k \in jobs : k.name = v /\ AtWork(k) /\ k.op = "CreateVolume"
        BY <2>7, <3>1, <3>3 DEF IInv, NotYet, Name
      <4>2. k \in set /\ k.op \notin Drops
        BY <2>0, <2>1, <4>1 DEF Drops
      <4> QED BY <2>9, <4>1, <4>2
    <3> QED BY <3>2, <3>3
  <2>20. Gone'
    <3>1. SUFFICES ASSUME timeouts = 0 PROVE Gone'
      BY <2>1 DEF Gone
    <3>2. ~j.late
      BY <2>2, <3>1 DEF JobFits
    <3>3. \A v \in Vol : phase[v] = "gone" /\ resize[v] = "none" => v # x
      BY <2>0, <2>2, <3>2 DEF JobFits, IInv, CallsFit, Calls, Owns, Makes, Drops
    <3>4. \A s \in Snap : snap[s] = "gone" => s # x
      BY <2>0, <2>2, <3>2, ControllerAssumption
      DEF JobFits, IInv, CallsFit, Calls, Owns, Makes, Drops, Name
    <3> QED BY <2>1, <2>7, <3>1, <3>3, <3>4 DEF IInv, Gone, Name
  <2>21. Torn'
    BY <2>1, <2>7, <2>8 DEF IInv, Torn, TornByTwo, Grown
  (* The others under the name only remove, and need not find anything.    *)
  <2>22. OneWriter'
    <3>1. SUFFICES ASSUME timeouts = 0, faults = 0, NEW k \in set,
                          NEW m, m = Turned(set, x, k), m.op \notin Drops
                   PROVE  /\ m.op \in Makes /\ ~AtWork(m) => disk'[m.name] = "absent"
                          /\ AtWork(m) => disk'[m.name] \in {"absent", "partial"}
      BY <2>1, <2>6 DEF OneWriter, AtWork, Makes, Drops
    <3>2. m = k
      BY <2>3, <3>1, TurnedFits
    <3>3. CASE k = b
      BY <1>0, <2>0, <2>2, <2>3, <2>8, <3>1, <3>2, <3>3 DEF IInv, OneWriter
    <3>4. CASE k # b /\ k.name # x
      BY <2>0, <2>7, <3>1, <3>2, <3>4, JobFacts DEF IInv, OneWriter
    <3>5. CASE k # b /\ k.name = x
      <4>1. k \in jobs /\ k # j
        BY <2>0, <3>5
      <4>2. j.op \in Drops
        BY <2>0, <3>1, <3>2, <3>5, <4>1, OthersRemove
      <4>3. disk'[x] \in {"absent", "partial"}
        BY <2>8, <4>2 DEF Makes, Drops
      <4> QED BY <2>0, <2>8, <3>1, <3>2, <3>5, <4>1, <4>2, <4>3 DEF IInv, OneWriter
    <3> QED BY <3>3, <3>4, <3>5
  <2> QED BY <2>11, <2>12, <2>15, <2>16, <2>17, <2>18, <2>19, <2>20, <2>21, <2>22 DEF IInv
<1> QED BY <1>1, <1>2

LEMMA NextKeeps == IInv /\ [Next]_vars => IInv'
<1> SUFFICES ASSUME IInv, [Next]_vars PROVE IInv'
  OBVIOUS
<1>1. CASE UNCHANGED vars
  <2>1. TypeOK' /\ CallsFit' /\ JobsFit' /\ Alone'
    BY <1>1 DEF vars, IInv, TypeOK, CallsFit, JobsFit, JobFits, Alone, Ending, Copied
  <2>2. MadeStays' /\ PartialMends' /\ NotYet' /\ Gone' /\ Torn' /\ OneWriter'
    BY <1>1 DEF vars, IInv, MadeStays, PartialMends, NotYet, Gone, Ending, AtWork,
                Torn, TornByTwo, Grown, OneWriter
  <2> QED BY <2>1, <2>2 DEF IInv
<1>2. ASSUME \/ \E v \in Vol : Claim(v) \/ Unclaim(v) \/ Resize(v)
             \/ \E s \in Snap : TakeSnapshot(s) \/ DropSnapshot(s)
      PROVE  IInv'
  <2>1. UNCHANGED <<rpc, jobs, disk, history, count>> /\ UNCHANGED cache
    BY <1>2 DEF Claim, Unclaim, Resize, TakeSnapshot, DropSnapshot
  <2> QED BY <1>2, <2>1, ClusterKeeps
<1>3. ASSUME NEW x \in Name, SidecarCalls(x) \/ Handler(x) \/ GetVolumeUnlisted(x) PROVE IInv'
  BY <1>3, SidecarCallsKeeps, LookupKeeps, GetVolumeKeeps, GetVolumeUnlistedKeeps DEF Handler
<1>4. ASSUME NEW v \in Vol, SidecarResizes(v) \/ ControllerExpandVolume(v) PROVE IInv'
  BY <1>4, ResizeCallKeeps
<1>5. ASSUME NEW j \in jobs,
             \/ AgentReads(j) \/ AgentBegins(j) \/ MakesAgain(j) \/ AgentEnds(j)
             \/ RemovalFails(j) \/ AgentFails(j) \/ GiveUp(j)
      PROVE  IInv'
  BY <1>5, AgentReadsKeeps, AgentBeginsKeeps, MakesAgainKeeps, RemovalEndsKeeps, MakingEndsKeeps,
     RemovalFailsKeeps, AgentFailsKeeps, GiveUpKeeps
  DEF AgentEnds
<1>6. ASSUME NEW v \in Vol, AgentCrash(NodeOf[v]) PROVE IInv'
  BY <1>6, AgentCrashKeeps
<1>7. CASE SyncCache \/ ControllerRestarts
  BY <1>7, SyncCacheKeeps, ControllerRestartsKeeps
<1> QED BY <1>1, <1>2, <1>3, <1>4, <1>5, <1>6, <1>7 DEF Next

(* Every reachable state satisfies the inductive invariant.                *)
THEOREM ControllerInvariance == Spec => []IInv
<1>1. Init => IInv
  BY InitIInv
<1>2. IInv /\ [Next]_vars => IInv'
  BY NextKeeps
<1> QED BY <1>1, <1>2, PTL DEF Spec

(* The variables keep their types.                                         *)
THEOREM ControllerTypes == Spec => []TypeOK
<1>1. IInv => TypeOK
  BY DEF IInv
<1> QED BY <1>1, ControllerInvariance, PTL

(* However many calls are given up, agents fail and controllers restart, a *)
(* bound claim has its volume until its deletion is asked for.  Without a  *)
(* fault only an expansion at work leaves it partial; its metadata are     *)
(* torn only after an expansion, its own or of what it copies, and only    *)
(* after a call that was given up or a fault.                              *)
THEOREM BoundVolumeStays == Spec => []BoundHasVolume
<1>1. IInv => BoundHasVolume
  BY DEF IInv, MadeStays, Torn, BoundHasVolume, Name
<1> QED BY <1>1, ControllerInvariance, PTL

(* A snapshot that was reported ready is there until its deletion is asked *)
(* for, whole, or torn where its source was expanded and a call given up,  *)
(* or a fault, brought a second copier.                                    *)
THEOREM ReadySnapshotStays == Spec => []ReadyHasSnapshot
<1>1. IInv => ReadyHasSnapshot
  BY DEF IInv, MadeStays, Torn, ReadyHasSnapshot, Name
<1> QED BY <1>1, ControllerInvariance, PTL

(* Where no call was given up, a snapshot that is gone, or a volume that   *)
(* nobody resized, has left nothing, but for a removal that was answered   *)
(* and failed, or an empty listing; and a claim deleted while its volume   *)
(* is made leaves none that nothing will delete, unless there was a fault. *)
THEOREM GoneLeavesNothing == Spec => []NothingLeft
<1>1. ASSUME IInv, timeouts = 0, NEW v \in Vol, phase[v] = "dropped", rpc[v] = NoCall,
             ~(faults > 0)
      PROVE  disk[v] = "absent"
  <2>1. faults = 0
    BY <1>1 DEF IInv, TypeOK
  <2>2. SUFFICES ASSUME disk[v] # "absent" PROVE FALSE
    OBVIOUS
  <2>3. PICK j \in jobs : j.name = v /\ j.op = "CreateVolume"
    BY <1>1, <2>1, <2>2 DEF IInv, NotYet
  <2>4. JobFits(j)
    BY <1>1, <2>3, JobFacts
  <2> QED BY <1>1, <2>3, <2>4 DEF JobFits, Owns, Makes, NoCall
<1>2. IInv => NothingLeft
  BY <1>1 DEF IInv, Gone, NothingLeft
<1> QED BY <1>2, ControllerInvariance, PTL

(* Without a fault, a name whose metadata cannot be read has a handler at  *)
(* work, or a call was given up and the name is a copy or its sizes have   *)
(* grown.                                                                  *)
THEOREM PartialNameHasJob == Spec => []PartialHasJob
<1>1. IInv => PartialHasJob
  BY DEF IInv, PartialMends, Torn, TornByTwo, Unreadable, PartialHasJob
<1> QED BY <1>1, ControllerInvariance, PTL

-----------------------------------------------------------------------------
(* The plugin processes themselves (PluginProcess), for any set of         *)
(* processes, endpoints and ports: what CSIController's restarts rest on,  *)
(* whose new process is asked only once its caches were filled.            *)

(* A process serves only once main has come to its wait, and a controller  *)
(* only after its informers were filled; only a pod that is being deleted  *)
(* has had them stopped.                                                   *)
Started ==
  /\ \A p \in Process : csi[p] # "off" => at[p] = "wait"
  /\ \A p \in Process : at[p] = "down" => informers[p] = "none"
  /\ \A p \in Controller : at[p] = "wait" => informers[p] \in {"live", "frozen"}
  /\ \A p \in Process : informers[p] \in {"frozen", "cut"} => pod[p] = "ending"

ProcessIInv == ProcessTypeOK /\ Started

-----------------------------------------------------------------------------
LEMMA InitProcessIInv ==
  ASSUME ProcessInit
  PROVE  ProcessIInv
  BY PluginProcessAssumption DEF ProcessInit, ProcessIInv, ProcessTypeOK, Started, Files, AllPorts

(* What the end of a process leaves.                                       *)
LEMMA ExitKeeps ==
  ASSUME ProcessIInv, NEW p \in Process, Exit(p),
         crashes' \in 0 .. MaxCrashes,
         \/ UNCHANGED pod
         \/ pod[p] = "ending" /\ pod' = [pod EXCEPT ![p] = "gone"]
  PROVE  ProcessIInv'
<1>1. port' \in [AllPorts -> Process \cup {Nobody}]
  BY DEF ProcessIInv, ProcessTypeOK, Exit, Ends
<1>2. ProcessTypeOK'
  BY <1>1 DEF ProcessIInv, ProcessTypeOK, Exit, Ends
<1>3. Started'
  BY PluginProcessAssumption DEF ProcessIInv, ProcessTypeOK, Started, Exit, Ends
<1> QED BY <1>2, <1>3 DEF ProcessIInv

LEMMA NewKeeps ==
  ASSUME ProcessIInv, NEW p \in Process, New(p)
  PROVE  ProcessIInv'
<1>1. Ports[p] \in SUBSET AllPorts
  BY DEF AllPorts
<1>2. ProcessTypeOK'
  BY <1>1 DEF ProcessIInv, ProcessTypeOK, New
<1>3. Started'
  BY PluginProcessAssumption DEF ProcessIInv, ProcessTypeOK, Started, New
<1> QED BY <1>2, <1>3 DEF ProcessIInv

LEMMA SyncKeeps ==
  ASSUME ProcessIInv, NEW p \in Process, InformersFill(p) \/ WaitForCacheSync(p)
  PROVE  ProcessIInv'
<1>1. CASE InformersFill(p)
  BY <1>1, PluginProcessAssumption DEF ProcessIInv, ProcessTypeOK, Started, InformersFill
<1>2. CASE WaitForCacheSync(p) /\ Exit(p)
  BY <1>2, ExitKeeps DEF WaitForCacheSync, ProcessIInv, ProcessTypeOK
<1>3. CASE at[p] = "sync" /\ informers[p] \in {"live", "frozen"} /\ Run(p)
           /\ UNCHANGED <<pod, crashes>>
  BY <1>3, PluginProcessAssumption DEF Run, ProcessIInv, ProcessTypeOK, Started
<1> QED BY <1>1, <1>2, <1>3 DEF WaitForCacheSync

LEMMA ListenKeeps ==
  ASSUME ProcessIInv, NEW p \in Process, RemoveSocket(p) \/ Listen(p)
  PROVE  ProcessIInv'
<1>1. CASE RemoveSocket(p)
  BY <1>1, PluginProcessAssumption DEF ProcessIInv, ProcessTypeOK, Started, RemoveSocket
<1>2. CASE Listen(p) /\ Exit(p)
  BY <1>2, ExitKeeps DEF Listen, ProcessIInv, ProcessTypeOK
<1>3. CASE Listen(p) /\ file[Endpoint[p]] = Nobody
  BY <1>3, PluginProcessAssumption DEF ProcessIInv, ProcessTypeOK, Started, Listen
<1> QED BY <1>1, <1>2, <1>3 DEF Listen

LEMMA PortKeeps ==
  ASSUME ProcessIInv, NEW p \in Process, NEW x \in AllPorts, OpenPort(p, x)
  PROVE  ProcessIInv'
<1>1. CASE port[x] # Nobody
  BY <1>1, ExitKeeps DEF OpenPort, ProcessIInv, ProcessTypeOK
<1>2. CASE port[x] = Nobody
  BY <1>2, PluginProcessAssumption DEF ProcessIInv, ProcessTypeOK, Started, OpenPort
<1> QED BY <1>1, <1>2

LEMMA KubeletKeeps ==
  ASSUME ProcessIInv, NEW p \in Process,
         Scheduled(p) \/ Deleted(p) \/ Signal(p) \/ Kill(p) \/ Crash(p)
  PROVE  ProcessIInv'
<1>1. CASE Scheduled(p)
  BY <1>1, PluginProcessAssumption DEF ProcessIInv, ProcessTypeOK, Started, Scheduled
<1>2. CASE Deleted(p)
  BY <1>2, PluginProcessAssumption DEF ProcessIInv, ProcessTypeOK, Started, Deleted
<1>3. CASE Signal(p) /\ Exit(p)
  BY <1>3, ExitKeeps DEF Signal, ProcessIInv, ProcessTypeOK
<1>4. CASE Signal(p) /\ p \in Controller /\ informers[p] \in {"filling", "live"}
  BY <1>4, PluginProcessAssumption DEF ProcessIInv, ProcessTypeOK, Started, Signal
<1>5. CASE Kill(p)
  BY <1>5, ExitKeeps DEF Kill, ProcessIInv, ProcessTypeOK
<1>6. CASE Crash(p)
  <2>1. crashes' \in 0 .. MaxCrashes
    BY <1>6, PluginProcessAssumption DEF Crash, ProcessIInv, ProcessTypeOK
  <2> QED BY <1>6, <2>1, ExitKeeps DEF Crash
<1> QED BY <1>1, <1>2, <1>3, <1>4, <1>5, <1>6 DEF Signal

LEMMA ProcessStepKeeps ==
  ASSUME ProcessIInv, [ProcessNext]_pvars
  PROVE  ProcessIInv'
<1>1. CASE UNCHANGED pvars
  BY <1>1 DEF pvars, ProcessIInv, ProcessTypeOK, Started
<1>2. CASE ProcessNext
  BY <1>2, NewKeeps, SyncKeeps, ListenKeeps, PortKeeps, KubeletKeeps DEF ProcessNext, Step
<1> QED BY <1>1, <1>2

-----------------------------------------------------------------------------
(* Every reachable state satisfies the inductive invariant.                *)
THEOREM ProcessInvariance == ProcessSpec => []ProcessIInv
<1>1. ProcessInit => ProcessIInv
  BY InitProcessIInv
<1>2. ProcessIInv /\ [ProcessNext]_pvars => ProcessIInv'
  BY ProcessStepKeeps
<1> QED BY <1>1, <1>2, PTL DEF ProcessSpec

(* The variables keep their types.                                         *)
THEOREM ProcessTypes == ProcessSpec => []ProcessTypeOK
<1>1. ProcessIInv => ProcessTypeOK
  BY DEF ProcessIInv
<1>2. ProcessSpec => []ProcessIInv
  BY ProcessInvariance
<1> QED BY <1>1, <1>2, PTL

(* However many processes start, are signalled, end and start again on a   *)
(* node, no controller serves before its informers were filled, or after   *)
(* they were stopped but for the grace period of a pod that is deleted.    *)
THEOREM OnlySyncedServe == ProcessSpec => []ServesSynced
<1>1. ProcessIInv => ServesSynced
  BY PluginProcessAssumption DEF ProcessIInv, Started, ServesSynced
<1>2. ProcessSpec => []ProcessIInv
  BY ProcessInvariance
<1> QED BY <1>1, <1>2, PTL

-----------------------------------------------------------------------------
(* The step of the action property: nothing but an exit of its own, or the *)
(* removal of its socket by another process of the endpoint, keeps callers *)
(* from a process that could be reached.                                   *)
Kept(p) ==
  Reachable(p) => \/ Reachable(p)' \/ csi'[p] = "off"
                  \/ \E q \in Process \ {p} :
                       /\ Endpoint[q] = Endpoint[p]
                       /\ csi[q] = "remove" /\ csi'[q] = "listen"

LEMMA ExitReaches ==
  ASSUME ProcessIInv, NEW p \in Process, NEW q \in Process, Exit(q)
  PROVE  Kept(p)
  BY DEF Kept, Reachable, Exit, Ends, ProcessIInv, ProcessTypeOK

LEMMA KeepsReaching ==
  ASSUME ProcessIInv, NEW p \in Process, ProcessNext
  PROVE  Kept(p)
<1>1. SUFFICES ASSUME Reachable(p) PROVE Kept(p)
  BY DEF Kept
<1>2. PICK q \in Process :
        \/ Scheduled(q) \/ Deleted(q) \/ Signal(q) \/ Kill(q) \/ Crash(q)
        \/ Step(q)
        \/ \E x \in AllPorts : OpenPort(q, x)
  BY DEF ProcessNext
<1>3. Endpoint[p] \in Files /\ Endpoint[q] \in Files
  BY DEF Files
<1>4. CASE Exit(q)
  BY <1>4, ExitReaches
<1>5. CASE UNCHANGED <<csi, file>>
  BY <1>5 DEF Kept, Reachable
<1>6. CASE RemoveSocket(q)
  <2>1. q # p
    BY <1>1, <1>6 DEF RemoveSocket, Reachable
  <2>2. CASE Endpoint[q] = Endpoint[p]
    BY <1>6, <2>1, <2>2 DEF RemoveSocket, Kept, ProcessIInv, ProcessTypeOK
  <2>3. CASE Endpoint[q] # Endpoint[p]
    BY <1>1, <1>3, <1>6, <2>1, <2>3 DEF RemoveSocket, Kept, Reachable, ProcessIInv, ProcessTypeOK
  <2> QED BY <2>2, <2>3
<1>7. CASE Listen(q) /\ file[Endpoint[q]] = Nobody
  <2>1. Endpoint[q] # Endpoint[p]
    BY <1>1, <1>7, PluginProcessAssumption DEF Reachable
  <2> QED BY <1>1, <1>3, <1>7, <2>1 DEF Listen, Kept, Reachable, ProcessIInv, ProcessTypeOK
<1>8. CASE (New(q) \/ (at[q] = "sync" /\ Run(q)))
  <2>1. csi[q] = "off" /\ UNCHANGED file
    BY <1>8 DEF New, Run, ProcessIInv, ProcessTypeOK, Started
  <2>2. q # p /\ csi'[p] = csi[p]
    BY <1>1, <1>8, <2>1 DEF New, Run, Reachable, ProcessIInv, ProcessTypeOK
  <2> QED BY <1>1, <2>1, <2>2 DEF Kept, Reachable
<1> QED
  BY <1>2, <1>4, <1>5, <1>6, <1>7, <1>8
  DEF Scheduled, Deleted, Signal, Kill, Crash, Step, OpenPort,
      InformersFill, WaitForCacheSync, Listen

(* Of any number of processes that share endpoints, one that can be        *)
(* reached stays so until it exits or another of its endpoint starts.      *)
THEOREM StaysReachable == ProcessSpec => ReachableUntilReplaced
<1>1. ProcessIInv /\ [ProcessNext]_pvars => [\A p \in Process : Kept(p)]_pvars
  BY KeepsReaching
<1>2. ProcessSpec => []ProcessIInv
  BY ProcessInvariance
<1> QED BY <1>1, <1>2, PTL DEF ProcessSpec, ReachableUntilReplaced, Kept

=============================================================================
