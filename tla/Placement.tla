------------------------------- MODULE Placement -------------------------------
(***************************************************************************)
(* On which node CreateVolume puts a volume, and where DeleteVolume looks  *)
(* for it (src/pkg/driver/controller.go).  The node is the selected-node   *)
(* annotation of the claim, which the controller looks up by name in its   *)
(* own cache; the agent is found at the address of the node, in another    *)
(* cache.  A volume is named after its claim's uid, so the claims that     *)
(* follow one another under a name, as those of a StatefulSet do, have a   *)
(* volume each.                                                            *)
(***************************************************************************)
EXTENDS Naturals

CONSTANTS
  Uid,       \* the claims that are made under one name, one after the other
  Node, None,
  Classes,   \* what the claims may be like: the ways to give each its properties
  MaxMoves,  \* bound on the times two nodes exchange their addresses
  MaxLosses  \* bound on lost answers, groups not opened and removals that fail

ASSUME PlacementAssumption ==
  /\ None \notin Node
  /\ Classes \subseteq [Uid -> SUBSET {"supported", "grouped"}]
  /\ MaxMoves \in Nat /\ MaxLosses \in Nat

VARIABLES
  class,   \* what each claim is like, from the start
  claim,   \* how far each claim and its PV are
  selected,\* the node the scheduler chose for it
  shown,   \* what pvcLister shows under the name: {}, or {the annotation}
  pv,      \* the node in the affinity of the PV
  call,    \* the controller's call for it
  dirs,    \* the volumes whose directories each node holds
  pool,    \* the nodes on which the volume group has been made
  debris,  \* those of them where it holds a directory without its metadata
  spoilt,  \* auxiliary: the volumes whose deletion was answered and not done
  unheard, \* auxiliary: those whose creation was done and not answered
  addr,    \* the address of each node, taken as the node that had it first
  known,   \* what nodeLister shows of it
  moves, losses

vars == <<class, claim, selected, shown, pv, call, dirs, pool, debris, spoilt, unheard,
          addr, known, moves, losses>>

Claims == {"none", "pending", "dropped", "bound", "released", "gone"}
Doing(o, place, n, a) == [op |-> o, at |-> place, node |-> n, agent |-> a]
Idle   == Doing("none", "none", None, None)

TypeOK ==
  /\ class \in Classes
  /\ claim \in [Uid -> Claims]
  /\ selected \in [Uid -> Node \cup {None}]
  /\ shown \in {{}} \cup {{n} : n \in Node \cup {None}}
  /\ pv \in [Uid -> Node \cup {None}]
  /\ call \in [Uid -> [op : {"none", "CreateVolume", "DeleteVolume"},
                       at : {"none", "lookup", "connect", "call"},
                       node : Node \cup {None}, agent : Node \cup {None}]]
  /\ \A u \in Uid : call[u].at \in {"connect", "call"} => call[u].node \in Node
  /\ dirs \in [Node -> SUBSET Uid]
  /\ pool \subseteq Node /\ debris \subseteq Node
  /\ spoilt \subseteq Uid /\ unheard \subseteq Uid
  /\ addr \in [Node -> Node]
  /\ known \in [Node -> Node \cup {None}]
  /\ moves \in 0 .. MaxMoves /\ losses \in 0 .. MaxLosses

Init ==
  /\ class \in Classes
  /\ claim = [u \in Uid |-> "none"]
  /\ selected = [u \in Uid |-> None]
  /\ shown = {}
  /\ pv = [u \in Uid |-> None]
  /\ call = [u \in Uid |-> Idle]
  /\ dirs = [n \in Node |-> {}]
  /\ pool = {} /\ debris = {} /\ spoilt = {} /\ unheard = {}
  /\ addr = [n \in Node |-> n]
  /\ known \in [Node -> Node \cup {None}] /\ \A n \in Node : known[n] \in {n, None}
  /\ moves = 0 /\ losses = 0

-----------------------------------------------------------------------------
(* Users, the scheduler, the informers, the network.                       *)
Named(u) == claim[u] \in {"pending", "bound"}

agents  == <<dirs, pool, debris>>
ghosts  == <<spoilt, unheard>>
network == <<addr, known, moves>>

(* Those with the access mode SINGLE_NODE_WRITER, and those whose class    *)
(* has the parameter "hostpath", the volume group.                         *)
Supported == {u \in Uid : "supported" \in class[u]}
Grouped   == {u \in Uid : "grouped" \in class[u]}

ClaimMade(u) ==
  /\ claim[u] = "none" /\ ~\E w \in Uid : Named(w)
  /\ claim' = [claim EXCEPT ![u] = "pending"]
  /\ UNCHANGED <<class, selected, shown, pv, call, agents, ghosts, network, losses>>

NodeSelected(u) ==
  /\ claim[u] = "pending" /\ selected[u] = None
  /\ \E n \in Node : selected' = [selected EXCEPT ![u] = n]
  /\ UNCHANGED <<class, claim, shown, pv, call, agents, ghosts, network, losses>>

ClaimDeleted(u) ==
  /\ Named(u)
  /\ claim' = [claim EXCEPT ![u] = IF @ = "bound" THEN "released" ELSE "dropped"]
  /\ UNCHANGED <<class, selected, shown, pv, call, agents, ghosts, network, losses>>

SyncClaims ==
  /\ shown' = {selected[u] : u \in {w \in Uid : Named(w)}}
  /\ shown' # shown
  /\ UNCHANGED <<class, claim, selected, pv, call, agents, ghosts, network, losses>>

SyncNodes ==
  /\ known # addr
  /\ known' = addr
  /\ UNCHANGED <<class, claim, selected, shown, pv, call, agents, ghosts, addr, moves, losses>>

AddressesMove(n, m) ==
  /\ moves < MaxMoves /\ n # m
  /\ addr' = [addr EXCEPT ![n] = addr[m], ![m] = addr[n]]
  /\ moves' = moves + 1
  /\ UNCHANGED <<class, claim, selected, shown, pv, call, agents, ghosts, known, losses>>

-----------------------------------------------------------------------------
(* The provisioner calls for a claim once its node is selected, and again  *)
(* until the call succeeds or the claim is gone.                           *)
ProvisionerCalls(u) ==
  /\ call[u] = Idle
  /\ \/ /\ claim[u] = "pending" /\ selected[u] # None
        /\ call' = [call EXCEPT ![u] = Doing("CreateVolume", "lookup", None, None)]
     \/ /\ claim[u] = "released"
        /\ call' = [call EXCEPT ![u] = Doing("DeleteVolume", "lookup", None, None)]
  /\ UNCHANGED <<class, claim, selected, shown, pv, agents, ghosts, network, losses>>

At(u, op, place) == call[u].op = op /\ call[u].at = place

Fail(u) == call' = [call EXCEPT ![u] = Idle] /\ UNCHANGED <<claim, pv>>

Succeed(u, c) ==
  /\ call' = [call EXCEPT ![u] = Idle]
  /\ claim' = [claim EXCEPT ![u] = c]

ToConnect(u, n) ==
  /\ call' = [call EXCEPT ![u] = Doing(call[u].op, "connect", n, None)]
  /\ UNCHANGED <<claim, pv>>

(* validateVolumeCreateReq.                                                *)
Valid(u) == u \in Supported

LookupAny(u) ==              \* a slip: a claim without the annotation goes anywhere
  /\ At(u, "CreateVolume", "lookup")
  /\ IF ~Valid(u) \/ shown = {} THEN Fail(u)
     ELSE \E n \in Node : /\ shown \cap {None, n} # {}
                          /\ ToConnect(u, n)
  /\ UNCHANGED <<class, selected, shown, agents, ghosts, network, losses>>

(* Whatever claim has the name, in the cache, at this moment.              *)
LookupClaim(u) ==
  /\ At(u, "CreateVolume", "lookup")
  /\ IF ~Valid(u) \/ shown \subseteq {None} THEN Fail(u)
     ELSE \E n \in shown : ToConnect(u, n)
  /\ UNCHANGED <<class, selected, shown, agents, ghosts, network, losses>>

(* GetNodeNameFromCsiPV.                                                   *)
LookupPV(u) ==
  /\ At(u, "DeleteVolume", "lookup")
  /\ ToConnect(u, pv[u])
  /\ UNCHANGED <<class, selected, shown, agents, ghosts, network, losses>>

AgentAt(a) == CHOOSE n \in Node : addr[n] = a

(* getNodeConn: the agent is the one that has the address now.             *)
Connect(u) ==
  LET a == known[call[u].node] IN
  /\ call[u].at = "connect"
  /\ IF a = None THEN Fail(u)
     ELSE /\ call' = [call EXCEPT ![u] = Doing(call[u].op, "call", call[u].node, AgentAt(a))]
          /\ UNCHANGED <<claim, pv>>
  /\ UNCHANGED <<class, selected, shown, agents, ghosts, network, losses>>

(* Without the parameter the group is "" and its directory the one that    *)
(* holds the groups: once there is a group, ListVol finds no metadata in   *)
(* it and fails, as it does in a group with such a directory.              *)
Listable(u, n) == n \notin IF u \in Grouped THEN debris ELSE pool

Lose == losses < MaxLosses /\ losses' = losses + 1

Made(u, n) ==
  /\ dirs' = [dirs EXCEPT ![n] = @ \cup {u}]
  /\ pool' = IF u \in Grouped THEN pool \cup {n} ELSE pool
  /\ UNCHANGED debris

RecordsSelected(u) ==         \* a slip: the PV gets the node of the claim it was asked for
  LET n == call[u].agent IN
  /\ At(u, "CreateVolume", "call")
  /\ IF ~Listable(u, n) THEN Fail(u) /\ UNCHANGED agents
     ELSE /\ Made(u, n)
          /\ pv' = [pv EXCEPT ![u] = selected[u]]
          /\ Succeed(u, IF claim[u] = "pending" THEN "bound" ELSE "released")
  /\ UNCHANGED <<class, selected, shown, ghosts, network, losses>>

RefuseExisting(u) ==         \* a slip: a volume that is there is an error
  LET n == call[u].agent IN
  /\ At(u, "CreateVolume", "call")
  /\ \/ /\ ~Listable(u, n) \/ u \in dirs[n]
        /\ Fail(u) /\ UNCHANGED <<agents, unheard, losses>>
     \/ /\ Listable(u, n) /\ u \notin dirs[n] /\ Made(u, n)
        /\ pv' = [pv EXCEPT ![u] = call[u].node]
        /\ Succeed(u, IF claim[u] = "pending" THEN "bound" ELSE "released")
        /\ UNCHANGED <<unheard, losses>>
     \/ /\ Listable(u, n) /\ Made(u, n)
        /\ Fail(u) /\ unheard' = unheard \cup {u} /\ Lose
  /\ UNCHANGED <<class, selected, shown, spoilt, network>>

(* GetVolume, CreateVolume if there is none, and an answer whose topology  *)
(* becomes the affinity of the PV.  A group that cannot be opened is       *)
(* listed as empty, whatever it holds; the answer may be lost.             *)
CreateVolume(u) ==
  LET n == call[u].agent IN
  /\ At(u, "CreateVolume", "call")
  /\ \/ /\ ~Listable(u, n)
        /\ Fail(u) /\ UNCHANGED <<agents, unheard, losses>>
     \/ /\ (Listable(u, n) /\ UNCHANGED losses) \/ Lose
        /\ Made(u, n)
        /\ pv' = [pv EXCEPT ![u] = call[u].node]
        /\ Succeed(u, IF claim[u] = "pending" THEN "bound" ELSE "released")
        /\ UNCHANGED unheard
     \/ /\ Listable(u, n) /\ Made(u, n)
        /\ Fail(u) /\ unheard' = unheard \cup {u} /\ Lose
  /\ UNCHANGED <<class, selected, shown, spoilt, network>>

DeletePVOnly(u) ==           \* a slip: the attribute is looked for under another key
  /\ At(u, "DeleteVolume", "call")
  /\ Succeed(u, "gone")
  /\ UNCHANGED <<class, selected, shown, pv, agents, ghosts, network, losses>>

(* A PV without a group is deleted, its volume is not.  A volume that is   *)
(* not found is deleted already, and in a group that cannot be opened none *)
(* is found; the error of RemoveAll is dropped, which may leave the        *)
(* directory as it was or without its metadata.                            *)
DeleteVolume(u) ==
  LET n == call[u].agent IN
  /\ At(u, "DeleteVolume", "call")
  /\ \/ /\ u \notin Grouped
        /\ Succeed(u, "gone") /\ UNCHANGED <<dirs, debris, spoilt, losses>>
     \/ /\ u \in Grouped /\ ~Listable(u, n)
        /\ Fail(u) /\ UNCHANGED <<dirs, debris, spoilt, losses>>
     \/ /\ u \in Grouped /\ Listable(u, n)
        /\ dirs' = [dirs EXCEPT ![n] = @ \ {u}]
        /\ Succeed(u, "gone") /\ UNCHANGED <<debris, spoilt, losses>>
     \/ /\ u \in Grouped /\ Lose
        /\ \/ UNCHANGED debris
           \/ Listable(u, n) /\ u \in dirs[n] /\ debris' = debris \cup {n}
        /\ Succeed(u, "gone") /\ spoilt' = spoilt \cup {u} /\ UNCHANGED dirs
  /\ UNCHANGED <<class, selected, shown, pv, pool, unheard, network>>

-----------------------------------------------------------------------------
Handler(u) == LookupClaim(u) \/ LookupPV(u) \/ Connect(u) \/ CreateVolume(u) \/ DeleteVolume(u)

Next ==
  \/ \E u \in Uid : \/ ClaimMade(u) \/ NodeSelected(u) \/ ClaimDeleted(u)
                    \/ ProvisionerCalls(u) \/ Handler(u)
  \/ SyncClaims \/ SyncNodes
  \/ \E n, m \in Node : AddressesMove(n, m)

Spec == Init /\ [][Next]_vars

FairSpec ==
  /\ Spec
  /\ WF_vars(SyncClaims) /\ WF_vars(SyncNodes)
  /\ \A u \in Uid : WF_vars(ProvisionerCalls(u)) /\ WF_vars(Handler(u))

-----------------------------------------------------------------------------
(* The node a bound claim's PV names, where its pods will be put, holds    *)
(* the volume, unless an address came to lead to another node's agent.     *)
PVLeadsToVolume == \A u \in Uid : claim[u] = "bound" => u \in dirs[pv[u]] \/ moves > 0

(* The node of a PV is one the scheduler chose for a claim of the name; a  *)
(* bound claim that is not on its own is on that of a claim that had the   *)
(* name before and has ended, which the cache still showed.                *)
MisplacedByNamesake ==
  \A u \in Uid : pv[u] # None =>
    \E w \in Uid : /\ selected[w] = pv[u]
                  /\ \/ w = u \/ claim[u] # "bound"
                     \/ claim[w] \in {"dropped", "released", "gone"}

(* A claim with a group that is gone leaves no directory on any node, but  *)
(* for a group that could not be opened or a RemoveAll that failed, an     *)
(* address that led to another node, or a creation whose answer was lost   *)
(* on another node, a namesake's.                                          *)
GoneLeavesNothing ==
  \A u \in Grouped, n \in Node :
    claim[u] = "gone" /\ u \in dirs[n] =>
      \/ u \in spoilt
      \/ moves > 0
      \/ u \in unheard /\ pv[u] # n

(* Listings at the node fail for good: for a claim without a group once    *)
(* the node has one, and in a group where a removal left debris.           *)
HeldUp(u, n) == n \in Node /\ ~Listable(u, AgentAt(addr[n]))

(* "dynamic provision pvc(createVolume/deleteVolume)" (README.md:7): a     *)
(* claim whose node is selected is provisioned unless it is deleted, and a *)
(* PV that is released goes, but where listings fail for good.             *)
ClaimsProvisioned ==
  \A u \in Uid :
    /\ u \in Supported /\ claim[u] = "pending" /\ selected[u] # None
         ~> claim[u] # "pending" \/ HeldUp(u, selected[u])
    /\ claim[u] = "released"
         ~> claim[u] = "gone" \/ (u \in Grouped /\ HeldUp(u, pv[u]))

=============================================================================
