------------------------ MODULE CSIControllerInvariant ------------------------
(***************************************************************************)
(* The inductive invariant of CSIController: what every call, handler and  *)
(* directory is there for.  TLC checks it (MCCSIController) and            *)
(* CSIControllerProofs proves it.                                          *)
(***************************************************************************)
EXTENDS CSIController

Owns == Makes \cup Drops     \* the calls of the provisioner and the snapshotter

(* The life of a name that a deletion has been asked for.                  *)
Ending(x) == IF x \in Vol THEN phase[x] \in {"released", "gone"}
             ELSE snap[x] \in {"deleting", "gone"}

(* What a call, and a handler, is for is due, or was; one that somebody    *)
(* waits for is the only one of its sidecar for the name.                  *)
CallsFit ==
  /\ \A v \in Vol :
       /\ rpc[v].op = "CreateVolume" => phase[v] \in {"wanted", "dropped"}
       /\ rpc[v].op = "DeleteVolume" => phase[v] = "released"
       /\ rpc[v].op \notin {"CreateSnapshot", "DeleteSnapshot"}
       /\ resize[v] # "none" => phase[v] \in {"bound", "released", "gone"}
  /\ \A s \in Snap :
       /\ rpc[s].op = "CreateSnapshot" => snap[s] = "wanted"
       /\ rpc[s].op = "DeleteSnapshot" => snap[s] = "deleting"
       /\ rpc[s].op \notin {"CreateVolume", "DeleteVolume"}

JobFits(j) ==
  /\ j.op \in {"CreateSnapshot", "DeleteSnapshot"} <=> j.name \in Snap
  /\ j.op \in Drops => Ending(j.name)
  /\ j.op = "ControllerExpandVolume" => resize[j.name] # "none"
  /\ j.op \notin Drops => j.at \in {"queued", "read", "begun"}
  /\ j.late => timeouts > 0
  /\ ~j.late /\ j.op \in Owns => rpc[j.name].op = j.op /\ rpc[j.name].at = "call"
  /\ ~j.late /\ j.op \notin Owns => resize[j.name] = "call"
  /\ j.at = "met_copy" => timeouts > 0 /\ Copied(j.name)
  /\ j.at = "met" /\ timeouts = 0 => j.name \in Vol /\ resize[j.name] # "none"

JobsFit == \A j \in jobs : JobFits(j)

Alone ==
  \A j, k \in jobs :
    ~j.late /\ ~k.late /\ j.name = k.name /\ (j.op \in Owns <=> k.op \in Owns) => j = k

(* While no deletion is asked for, what is being made is there, and so is  *)
(* what is bound, whole but while it is expanded.                          *)
MadeStays ==
  /\ \A j \in jobs : AtWork(j) /\ j.op \in Makes /\ ~Ending(j.name) => disk[j.name] # "absent"
  /\ \A v \in Vol : phase[v] = "bound" =>
       /\ disk[v] # "absent"
       /\ disk[v] = "partial" =>
            \/ faults > 0
            \/ \E j \in jobs : j.name = v /\ AtWork(j) /\ j.op = "ControllerExpandVolume"
  /\ \A s \in Snap : snap[s] = "ready" => disk[s] \in {"whole", "torn"}

(* A second writer, which tears, comes only with a call that was given up  *)
(* or a fault: else a handler that will write metadata meets none.         *)
Torn == \A x \in Name : TornByTwo(x)

OneWriter ==
  timeouts = 0 /\ faults = 0 =>
    \A j \in jobs :
      /\ j.op \in Makes /\ ~AtWork(j) => disk[j.name] = "absent"
      /\ j.op \notin Drops /\ AtWork(j) => disk[j.name] \in {"absent", "partial"}

(* A name that is partial has at work a handler that will repair or remove *)
(* it, not only removals that have met another.                            *)
PartialMends ==
  \A x \in Name : disk[x] = "partial" =>
    \/ faults > 0
    \/ timeouts > 0 /\ Copied(x)
    \/ \E j \in jobs : j.name = x /\ AtWork(j) /\ (j.op \notin Drops \/ j.at = "begun")

(* Before a claim is bound there is only what its call is making.          *)
NotYet ==
  timeouts = 0 /\ faults = 0 =>
    \A v \in Vol : phase[v] \in {"none", "wanted", "dropped"} /\ disk[v] # "absent" =>
      \E j \in jobs : j.name = v /\ AtWork(j) /\ j.op = "CreateVolume"

(* What is gone has left nothing but what an expansion put back.           *)
Gone ==
  timeouts = 0 =>
    /\ \A v \in Vol \ spoilt : phase[v] = "gone" /\ resize[v] = "none" => disk[v] = "absent"
    /\ \A s \in Snap \ spoilt : snap[s] = "gone" => disk[s] = "absent"

IInv == /\ TypeOK /\ CallsFit /\ JobsFit /\ Alone
        /\ MadeStays /\ Torn /\ OneWriter /\ PartialMends /\ NotYet /\ Gone

=============================================================================
