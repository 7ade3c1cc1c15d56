---------------------------- MODULE PlacementProofs ----------------------------
(***************************************************************************)
(* Proofs about Placement, for any number of claims that follow one        *)
(* another under a name, any nodes, and any bounds.                        *)
(***************************************************************************)
EXTENDS Placement, TLAPS

(* The scheduler chose the node for some claim of the name.                *)
Chosen(n) == \E w \in Uid : selected[w] = n

(* One claim has the name at a time; a call is for what its claim's state  *)
(* asks; a PV has a node, and a claim that is not bound yet has none.      *)
Claimed ==
  /\ \A u, w \in Uid : Named(u) /\ Named(w) => u = w
  /\ \A u \in Uid :
       /\ call[u].op = "none" => call[u].at = "none"
       /\ call[u].op = "CreateVolume" => claim[u] \in {"pending", "dropped"}
       /\ call[u].op = "DeleteVolume" => claim[u] = "released"
       /\ call[u].op = "DeleteVolume" /\ call[u].at \in {"connect", "call"} =>
            call[u].node = pv[u]
       /\ call[u].at = "call" => call[u].agent \in Node
       /\ claim[u] = "none" => selected[u] = None
       /\ claim[u] \in {"none", "pending", "dropped"} => pv[u] = None
       /\ claim[u] \in {"bound", "released", "gone"} => pv[u] \in Node

(* What caches, calls and PVs say was chosen for a claim of the name.      *)
FromAnnotation ==
  /\ \A n \in shown : n # None => Chosen(n)
  /\ \A u \in Uid : call[u].node # None => Chosen(call[u].node)
  /\ \A u \in Uid : pv[u] # None => Chosen(pv[u])

(* Every address is some node's; until addresses move, the one known of a  *)
(* node leads to it, and its own agent is asked.                           *)
Addressed ==
  /\ \A a \in Node : \E n \in Node : addr[n] = a
  /\ moves = 0 =>
       /\ \A n \in Node : addr[n] = n /\ known[n] \in {n, None}
       /\ \A u \in Uid : call[u].at = "call" => call[u].agent = call[u].node

(* Where the directories of a volume are, while addresses stay.            *)
Directories ==
  moves = 0 =>
    \A u \in Uid :
      /\ claim[u] \in {"bound", "released"} => u \in dirs[pv[u]]
      /\ \A n \in Node : u \in dirs[n] => u \in unheard \/ pv[u] = n
      /\ claim[u] = "gone" /\ u \in Grouped => u \notin dirs[pv[u]] \/ u \in spoilt

IInv == TypeOK /\ Claimed /\ FromAnnotation /\ Addressed /\ Directories

-----------------------------------------------------------------------------
LEMMA InitIInv == Init => IInv
<1> SUFFICES ASSUME Init PROVE IInv
  OBVIOUS
<1> USE PlacementAssumption
<1>1. TypeOK
  BY DEF Init, TypeOK, Claims, Idle, Doing
<1>2. Claimed /\ FromAnnotation
  BY DEF Init, Claimed, FromAnnotation, Named, Idle, Doing
<1>3. Addressed /\ Directories
  BY DEF Init, Addressed, Directories, Idle, Doing
<1> QED BY <1>1, <1>2, <1>3 DEF IInv

-----------------------------------------------------------------------------
(* The steps of users, the scheduler, the informers and the network.       *)
LEMMA ClaimsKeep ==
  ASSUME IInv, NEW u \in Uid, ClaimMade(u) \/ NodeSelected(u) \/ ClaimDeleted(u)
  PROVE  IInv'
<1> USE PlacementAssumption DEF agents, ghosts, network
<1>1. CASE ClaimMade(u)
  <2>1. TypeOK' /\ Claimed'
    BY <1>1 DEF IInv, TypeOK, Claims, Claimed, Named, ClaimMade
  <2>2. FromAnnotation' /\ Addressed' /\ Directories'
    BY <1>1 DEF IInv, TypeOK, FromAnnotation, Chosen, Addressed, Directories, Grouped, ClaimMade
  <2> QED BY <2>1, <2>2 DEF IInv
<1>2. CASE NodeSelected(u)
  <2>1. PICK n \in Node : selected' = [selected EXCEPT ![u] = n]
    BY <1>2 DEF NodeSelected
  <2>2. TypeOK' /\ Claimed'
    BY <1>2, <2>1 DEF IInv, TypeOK, Claimed, Named, NodeSelected
  <2>3. \A m : m # None /\ Chosen(m) => Chosen(m)'
    BY <1>2, <2>1 DEF IInv, TypeOK, Chosen, NodeSelected
  <2>4. FromAnnotation'
    BY <1>2, <2>3 DEF IInv, FromAnnotation, NodeSelected
  <2>5. Addressed' /\ Directories'
    BY <1>2 DEF IInv, TypeOK, Addressed, Directories, Grouped, NodeSelected
  <2> QED BY <2>2, <2>4, <2>5 DEF IInv
<1>3. CASE ClaimDeleted(u)
  <2>1. TypeOK' /\ Claimed'
    BY <1>3 DEF IInv, TypeOK, Claims, Claimed, Named, ClaimDeleted
  <2>2. FromAnnotation' /\ Addressed' /\ Directories'
    BY <1>3 DEF IInv, TypeOK, FromAnnotation, Chosen, Addressed, Directories, Grouped, ClaimDeleted, Named
  <2> QED BY <2>1, <2>2 DEF IInv
<1> QED BY <1>1, <1>2, <1>3

LEMMA SyncKeeps ==
  ASSUME IInv, SyncClaims \/ SyncNodes \/ \E n, m \in Node : AddressesMove(n, m)
  PROVE  IInv'
<1> USE PlacementAssumption DEF agents, ghosts, network
<1>1. CASE SyncClaims
  <2>1. shown' \in {{}} \cup {{n} : n \in Node \cup {None}}
    <3>1. CASE \E u \in Uid : Named(u)
      <4>1. PICK u \in Uid : Named(u)
        BY <3>1
      <4>2. {w \in Uid : Named(w)} = {u}
        BY <4>1 DEF IInv, Claimed
      <4>3. shown' = {selected[u]}
        BY <1>1, <4>2 DEF SyncClaims
      <4>4. selected[u] \in Node \cup {None}
        BY DEF IInv, TypeOK
      <4> QED BY <4>3, <4>4
    <3>2. CASE ~\E u \in Uid : Named(u)
      <4>1. shown' = {}
        BY <1>1, <3>2 DEF SyncClaims
      <4> QED BY <4>1
    <3> QED BY <3>1, <3>2
  <2>2. TypeOK' /\ Claimed'
    BY <1>1, <2>1 DEF IInv, TypeOK, Claimed, Named, SyncClaims
  <2>3. FromAnnotation'
    BY <1>1 DEF IInv, TypeOK, FromAnnotation, Chosen, SyncClaims
  <2>4. Addressed' /\ Directories'
    BY <1>1 DEF IInv, Addressed, Directories, Grouped, SyncClaims
  <2> QED BY <2>2, <2>3, <2>4 DEF IInv
<1>2. CASE SyncNodes
  <2>1. TypeOK' /\ Claimed'
    BY <1>2 DEF IInv, TypeOK, Claimed, Named, SyncNodes
  <2>2. FromAnnotation' /\ Addressed' /\ Directories'
    BY <1>2 DEF IInv, TypeOK, FromAnnotation, Chosen, Addressed, Directories, Grouped, SyncNodes
  <2> QED BY <2>1, <2>2 DEF IInv
<1>3. ASSUME NEW n \in Node, NEW m \in Node, AddressesMove(n, m)
      PROVE  IInv'
  <2>1. moves' \in 0 .. MaxMoves /\ moves' > 0
    BY <1>3 DEF IInv, TypeOK, AddressesMove
  <2>2. TypeOK' /\ Claimed'
    BY <1>3, <2>1 DEF IInv, TypeOK, Claimed, Named, AddressesMove
  <2>3. FromAnnotation' /\ Directories'
    BY <1>3, <2>1 DEF IInv, FromAnnotation, Chosen, Directories, AddressesMove
  <2>4. Addressed'
    <3>1. SUFFICES ASSUME NEW a \in Node PROVE \E k \in Node : addr'[k] = a
      BY <2>1 DEF Addressed
    <3>2. PICK k \in Node : addr[k] = a
      BY DEF IInv, Addressed
    <3>3. addr'[n] = addr[m] /\ addr'[m] = addr[n]
      BY <1>3 DEF AddressesMove, IInv, TypeOK
    <3>4. k \notin {n, m} => addr'[k] = addr[k]
      BY <1>3 DEF AddressesMove, IInv, TypeOK
    <3> QED BY <3>2, <3>3, <3>4
  <2> QED BY <2>2, <2>3, <2>4 DEF IInv
<1> QED BY <1>1, <1>2, <1>3

-----------------------------------------------------------------------------
(* What a step of a call does to its record.                               *)
LEMMA CallEdited ==
  ASSUME IInv, NEW u \in Uid, NEW o \in {"none", "CreateVolume", "DeleteVolume"},
         NEW place \in {"none", "lookup", "connect", "call"},
         NEW n \in Node \cup {None}, NEW a \in Node \cup {None},
         place \in {"connect", "call"} => n \in Node,
         call' = [call EXCEPT ![u] = Doing(o, place, n, a)]
  PROVE  /\ call' \in [Uid -> [op : {"none", "CreateVolume", "DeleteVolume"},
                               at : {"none", "lookup", "connect", "call"},
                               node : Node \cup {None}, agent : Node \cup {None}]]
         /\ \A w \in Uid : call'[w].at \in {"connect", "call"} => call'[w].node \in Node
         /\ \A w \in Uid \ {u} : call'[w] = call[w]
         /\ call'[u].op = o /\ call'[u].at = place
         /\ call'[u].node = n /\ call'[u].agent = a
  BY DEF IInv, TypeOK, Doing

(* A call that begins, or fails.                                           *)
LEMMA BeginsKeep ==
  ASSUME IInv, NEW u \in Uid, ProvisionerCalls(u)
  PROVE  IInv'
<1> USE PlacementAssumption DEF agents, ghosts, network
<1>1. PICK o \in {"CreateVolume", "DeleteVolume"} :
        /\ call' = [call EXCEPT ![u] = Doing(o, "lookup", None, None)]
        /\ o = "CreateVolume" => claim[u] = "pending"
        /\ o = "DeleteVolume" => claim[u] = "released"
  BY DEF ProvisionerCalls
<1>2. /\ call' \in [Uid -> [op : {"none", "CreateVolume", "DeleteVolume"},
                            at : {"none", "lookup", "connect", "call"},
                            node : Node \cup {None}, agent : Node \cup {None}]]
      /\ \A w \in Uid : call'[w].at \in {"connect", "call"} => call'[w].node \in Node
      /\ \A w \in Uid \ {u} : call'[w] = call[w]
      /\ call'[u].op = o /\ call'[u].at = "lookup" /\ call'[u].node = None
  BY <1>1, CallEdited, ZenonT(60)
<1>3. UNCHANGED <<class, claim, selected, shown, pv, dirs, pool, debris, spoilt, unheard,
                 addr, known, moves, losses>>
  BY DEF ProvisionerCalls
<1>4. TypeOK' /\ Claimed'
  BY <1>1, <1>2, <1>3 DEF IInv, TypeOK, Claimed, Named
<1>5. FromAnnotation'
  BY <1>2, <1>3 DEF IInv, FromAnnotation, Chosen
<1>6. Addressed'
  BY <1>2, <1>3 DEF IInv, Addressed
<1>7. Directories'
  BY <1>3 DEF IInv, Directories, Grouped
<1> QED BY <1>4, <1>5, <1>6, <1>7 DEF IInv

LEMMA FailKeeps ==
  ASSUME IInv, NEW u \in Uid, Fail(u),
         UNCHANGED <<class, selected, shown, agents, ghosts, network, losses>>
  PROVE  IInv'
<1> USE PlacementAssumption DEF agents, ghosts, network
<1>1. /\ call' \in [Uid -> [op : {"none", "CreateVolume", "DeleteVolume"},
                            at : {"none", "lookup", "connect", "call"},
                            node : Node \cup {None}, agent : Node \cup {None}]]
      /\ \A w \in Uid : call'[w].at \in {"connect", "call"} => call'[w].node \in Node
      /\ \A w \in Uid \ {u} : call'[w] = call[w]
      /\ call'[u].op = "none" /\ call'[u].at = "none" /\ call'[u].node = None
  BY CallEdited DEF Fail, Idle
<1>2. UNCHANGED <<class, claim, selected, shown, pv, dirs, pool, debris, spoilt, unheard,
                 addr, known, moves, losses>>
  BY DEF Fail
<1>3. TypeOK'
  BY <1>1, <1>2 DEF IInv, TypeOK
<1>5. Claimed'
  BY <1>1, <1>2 DEF IInv, Claimed, Named
<1>4. FromAnnotation' /\ Addressed' /\ Directories'
  BY <1>1, <1>2 DEF IInv, FromAnnotation, Chosen, Addressed, Directories, Grouped
<1> QED BY <1>3, <1>4, <1>5 DEF IInv

(* The node is found, in a claim or in the PV.                             *)
LEMMA ConnectsKeep ==
  ASSUME IInv, NEW u \in Uid, NEW n \in Node, ToConnect(u, n),
         call[u].op \in {"CreateVolume", "DeleteVolume"}, Chosen(n),
         call[u].op = "DeleteVolume" => n = pv[u],
         UNCHANGED <<class, selected, shown, agents, ghosts, network, losses>>
  PROVE  IInv'
<1> USE PlacementAssumption DEF agents, ghosts, network
<1>1. /\ call' \in [Uid -> [op : {"none", "CreateVolume", "DeleteVolume"},
                            at : {"none", "lookup", "connect", "call"},
                            node : Node \cup {None}, agent : Node \cup {None}]]
      /\ \A w \in Uid : call'[w].at \in {"connect", "call"} => call'[w].node \in Node
      /\ \A w \in Uid \ {u} : call'[w] = call[w]
      /\ call'[u].op = call[u].op /\ call'[u].at = "connect" /\ call'[u].node = n
  <2>1. PICK o \in {"CreateVolume", "DeleteVolume"}, b \in Node \cup {None} :
          o = call[u].op /\ b = None
    OBVIOUS
  <2>2. call' = [call EXCEPT ![u] = Doing(o, "connect", n, b)]
    BY <2>1 DEF ToConnect
  <2> QED BY <2>1, <2>2 DEF IInv, TypeOK, Doing
<1>2. UNCHANGED <<class, claim, selected, shown, pv, dirs, pool, debris, spoilt, unheard,
                 addr, known, moves, losses>>
  BY DEF ToConnect
<1>3. TypeOK'
  BY <1>1, <1>2 DEF IInv, TypeOK
<1>4. Claimed'
  BY <1>1, <1>2 DEF IInv, Claimed, Named
<1>5. FromAnnotation' /\ Addressed' /\ Directories'
  BY <1>1, <1>2 DEF IInv, FromAnnotation, Chosen, Addressed, Directories, Grouped
<1> QED BY <1>3, <1>4, <1>5 DEF IInv

LEMMA LookupKeeps ==
  ASSUME IInv, NEW u \in Uid, LookupClaim(u) \/ LookupPV(u)
  PROVE  IInv'
<1> USE PlacementAssumption
<1>1. CASE LookupClaim(u) /\ Fail(u)
  BY <1>1, FailKeeps DEF LookupClaim
<1>2. CASE LookupClaim(u) /\ ~(~Valid(u) \/ shown \subseteq {None})
  <2>1. PICK n \in shown : ToConnect(u, n)
    BY <1>2 DEF LookupClaim
  <2>2. n \in Node /\ Chosen(n)
    BY <1>2 DEF IInv, TypeOK, FromAnnotation
  <2> QED BY <1>2, <2>1, <2>2, ConnectsKeep DEF LookupClaim, At
<1>3. CASE LookupPV(u)
  <2>1. call[u].op = "DeleteVolume" /\ claim[u] = "released"
    BY <1>3 DEF LookupPV, At, IInv, Claimed
  <2>2. pv[u] \in Node /\ Chosen(pv[u])
    BY <2>1 DEF IInv, Claimed, FromAnnotation
  <2> QED BY <1>3, <2>1, <2>2, ConnectsKeep DEF LookupPV
<1> QED BY <1>1, <1>2, <1>3 DEF LookupClaim

LEMMA ConnectKeeps ==
  ASSUME IInv, NEW u \in Uid, Connect(u)
  PROVE  IInv'
<1> USE PlacementAssumption DEF agents, ghosts, network
<1> DEFINE n == call[u].node
           a == known[n]
<1>1. CASE a = None
  BY <1>1, FailKeeps DEF Connect
<1>2. CASE a # None
  <2>1. n \in Node /\ a \in Node /\ call[u].op \in {"CreateVolume", "DeleteVolume"}
    <3>1. n \in Node /\ call[u].op \in {"none", "CreateVolume", "DeleteVolume"}
      BY DEF Connect, IInv, TypeOK
    <3>2. a \in Node
      BY <1>2, <3>1 DEF IInv, TypeOK
    <3>3. call[u].op # "none"
      BY DEF Connect, IInv, Claimed
    <3> QED BY <3>1, <3>2, <3>3
  <2>2. AgentAt(a) \in Node /\ addr[AgentAt(a)] = a
    <3>1. \E m \in Node : addr[m] = a
      BY <2>1 DEF IInv, Addressed
    <3> QED BY <3>1 DEF AgentAt
  <2>3. moves = 0 => AgentAt(a) = n
    BY <1>2, <2>1, <2>2 DEF IInv, Addressed
  <2>4. call' = [call EXCEPT ![u] = Doing(call[u].op, "call", n, AgentAt(a))]
    BY <1>2 DEF Connect
  <2>5. /\ call' \in [Uid -> [op : {"none", "CreateVolume", "DeleteVolume"},
                              at : {"none", "lookup", "connect", "call"},
                              node : Node \cup {None}, agent : Node \cup {None}]]
        /\ \A w \in Uid : call'[w].at \in {"connect", "call"} => call'[w].node \in Node
        /\ \A w \in Uid \ {u} : call'[w] = call[w]
        /\ call'[u].op = call[u].op /\ call'[u].at = "call" /\ call'[u].node = n
        /\ call'[u].agent = AgentAt(a)
    <3>1. PICK o \in {"CreateVolume", "DeleteVolume"}, m \in Node, b \in Node :
            o = call[u].op /\ m = n /\ b = AgentAt(a)
      BY <2>1, <2>2
    <3>2. call' = [call EXCEPT ![u] = Doing(o, "call", m, b)]
      BY <2>4, <3>1
    <3>3. /\ call' \in [Uid -> [op : {"none", "CreateVolume", "DeleteVolume"},
                                at : {"none", "lookup", "connect", "call"},
                                node : Node \cup {None}, agent : Node \cup {None}]]
          /\ \A w \in Uid : call'[w].at \in {"connect", "call"} => call'[w].node \in Node
          /\ \A w \in Uid \ {u} : call'[w] = call[w]
          /\ call'[u].op = o /\ call'[u].at = "call"
          /\ call'[u].node = m /\ call'[u].agent = b
      BY <3>2 DEF IInv, TypeOK, Doing
    <3> QED BY <3>1, <3>3
  <2>6. /\ UNCHANGED <<class, claim, selected, shown, pv, dirs, pool, debris, spoilt, unheard,
                 addr, known, moves, losses>>
        /\ call[u].at = "connect"
    BY <1>2 DEF Connect
  <2>7. TypeOK'
    BY <2>5, <2>6 DEF IInv, TypeOK
  <2>8. Claimed'
    BY <2>2, <2>5, <2>6 DEF IInv, Claimed, Named
  <2>9. FromAnnotation' /\ Addressed' /\ Directories'
    BY <2>3, <2>5, <2>6 DEF IInv, FromAnnotation, Chosen, Addressed, Directories, Grouped
  <2> QED BY <2>7, <2>8, <2>9 DEF IInv
<1> QED BY <1>1, <1>2

-----------------------------------------------------------------------------
(* The agent's work, and the answer or its loss.                           *)
LEMMA CreateKeeps ==
  ASSUME IInv, NEW u \in Uid, CreateVolume(u)
  PROVE  IInv'
<1> USE PlacementAssumption DEF agents, ghosts, network
<1> DEFINE n == call[u].agent
<1>1. CASE ~Listable(u, n) /\ Fail(u) /\ UNCHANGED <<agents, unheard, losses>>
  BY <1>1, FailKeeps DEF CreateVolume
<1>2. CASE Made(u, n)
  <2>1. /\ call[u].op = "CreateVolume" /\ call[u].at = "call" /\ n \in Node
        /\ call[u].node \in Node /\ claim[u] \in {"pending", "dropped"} /\ pv[u] = None
        /\ moves = 0 => n = call[u].node
    BY DEF CreateVolume, At, IInv, TypeOK, Claimed, Addressed
  <2>2. /\ UNCHANGED debris
        /\ dirs' \in [Node -> SUBSET Uid] /\ pool' \subseteq Node
        /\ \A m \in Node : dirs[m] \subseteq dirs'[m]
        /\ \A m \in Node, w \in Uid : w \in dirs'[m] => w \in dirs[m] \/ (w = u /\ m = n)
        /\ u \in dirs'[n]
    <3>1. dirs' = [dirs EXCEPT ![n] = @ \cup {u}] /\ UNCHANGED debris
      BY <1>2 DEF Made
    <3>2. dirs' \in [Node -> SUBSET Uid] /\ pool' \subseteq Node
      BY <1>2, <2>1 DEF Made, IInv, TypeOK
    <3>3. \A m \in Node : dirs'[m] = IF m = n THEN dirs[m] \cup {u} ELSE dirs[m]
      BY <2>1, <3>1 DEF IInv, TypeOK
    <3> QED BY <2>1, <3>1, <3>2, <3>3
  <2>4. /\ call' = [call EXCEPT ![u] = Doing("none", "none", None, None)]
        /\ UNCHANGED <<class, selected, shown, spoilt, addr, known, moves>>
    BY DEF CreateVolume, Succeed, Fail, Idle
  <2>5. /\ call' \in [Uid -> [op : {"none", "CreateVolume", "DeleteVolume"},
                              at : {"none", "lookup", "connect", "call"},
                              node : Node \cup {None}, agent : Node \cup {None}]]
        /\ \A w \in Uid : call'[w].at \in {"connect", "call"} => call'[w].node \in Node
        /\ \A w \in Uid \ {u} : call'[w] = call[w]
        /\ call'[u].op = "none" /\ call'[u].at = "none" /\ call'[u].node = None
    BY <2>4, CallEdited
  <2>6. CASE /\ pv' = [pv EXCEPT ![u] = call[u].node]
             /\ claim' = [claim EXCEPT ![u] = IF claim[u] = "pending" THEN "bound" ELSE "released"]
             /\ UNCHANGED losses \/ Lose
             /\ UNCHANGED unheard
    <3>1. /\ claim' \in [Uid -> Claims] /\ pv' \in [Uid -> Node \cup {None}]
          /\ claim'[u] \in {"bound", "released"} /\ pv'[u] = call[u].node
          /\ claim'[u] = "bound" => claim[u] = "pending"
          /\ \A w \in Uid \ {u} : claim'[w] = claim[w] /\ pv'[w] = pv[w]
          /\ losses' \in 0 .. MaxLosses
      BY <2>1, <2>6 DEF IInv, TypeOK, Claims, Lose
    <3>2. TypeOK'
      BY <2>2, <2>4, <2>5, <2>6, <3>1 DEF IInv, TypeOK
    <3>3. Claimed'
      BY <2>1, <2>4, <2>5, <3>1 DEF IInv, Claimed, Named
    <3>4. FromAnnotation' /\ Addressed'
      BY <2>1, <2>4, <2>5, <3>1 DEF IInv, FromAnnotation, Chosen, Addressed
    <3>5. Directories'
      <4>1. SUFFICES ASSUME moves = 0, NEW w \in Uid
                     PROVE  /\ claim'[w] \in {"bound", "released"} => w \in dirs'[pv'[w]]
                            /\ \A m \in Node : w \in dirs'[m] => w \in unheard \/ pv'[w] = m
                            /\ claim'[w] = "gone" /\ w \in Grouped' =>
                                 w \notin dirs'[pv'[w]] \/ w \in spoilt
        BY <2>4, <2>6 DEF Directories
      <4>2. CASE w = u
        BY <2>1, <2>2, <3>1, <4>1, <4>2 DEF IInv, Directories
      <4>3. CASE w # u
        BY <2>2, <2>4, <3>1, <4>1, <4>3 DEF IInv, TypeOK, Claimed, Directories, Grouped
      <4> QED BY <4>2, <4>3
    <3> QED BY <3>2, <3>3, <3>4, <3>5 DEF IInv
  <2>7. CASE Fail(u) /\ unheard' = unheard \cup {u} /\ Lose
    <3>1. losses' \in 0 .. MaxLosses /\ UNCHANGED <<claim, pv>> /\ unheard' \subseteq Uid
      BY <2>7 DEF IInv, TypeOK, Fail, Lose
    <3>2. TypeOK'
      BY <2>2, <2>4, <2>5, <3>1 DEF IInv, TypeOK
    <3>3. Claimed'
      BY <2>4, <2>5, <3>1 DEF IInv, Claimed, Named
    <3>4. FromAnnotation' /\ Addressed'
      BY <2>4, <2>5, <3>1 DEF IInv, FromAnnotation, Chosen, Addressed
    <3>5. Directories'
      BY <2>1, <2>2, <2>4, <2>7, <3>1 DEF IInv, TypeOK, Claimed, Directories, Grouped
    <3> QED BY <3>2, <3>3, <3>4, <3>5 DEF IInv
  <2> QED BY <2>6, <2>7, <1>1 DEF CreateVolume, Succeed
<1> QED BY <1>1, <1>2 DEF CreateVolume

LEMMA DeleteKeeps ==
  ASSUME IInv, NEW u \in Uid, DeleteVolume(u)
  PROVE  IInv'
<1> USE PlacementAssumption DEF agents, ghosts, network
<1> DEFINE n == call[u].agent
<1>1. /\ call[u].op = "DeleteVolume" /\ call[u].at = "call" /\ n \in Node
      /\ claim[u] = "released" /\ pv[u] \in Node
      /\ moves = 0 => n = pv[u]
  BY DEF DeleteVolume, At, IInv, Claimed, Addressed
<1>2. CASE Fail(u) /\ UNCHANGED <<dirs, debris, spoilt, losses>>
  BY <1>2, FailKeeps DEF DeleteVolume
<1>3. CASE Succeed(u, "gone")
  <2>1. /\ call' = [call EXCEPT ![u] = Doing("none", "none", None, None)]
        /\ claim' = [claim EXCEPT ![u] = "gone"]
        /\ UNCHANGED <<class, selected, shown, pv, pool, unheard, addr, known, moves>>
    BY <1>3 DEF DeleteVolume, Succeed, Idle
  <2>2. /\ call' \in [Uid -> [op : {"none", "CreateVolume", "DeleteVolume"},
                              at : {"none", "lookup", "connect", "call"},
                              node : Node \cup {None}, agent : Node \cup {None}]]
        /\ \A w \in Uid : call'[w].at \in {"connect", "call"} => call'[w].node \in Node
        /\ \A w \in Uid \ {u} : call'[w] = call[w]
        /\ call'[u].op = "none" /\ call'[u].at = "none" /\ call'[u].node = None
    BY <2>1, CallEdited
  <2>3. /\ claim' \in [Uid -> Claims] /\ claim'[u] = "gone"
        /\ \A w \in Uid \ {u} : claim'[w] = claim[w]
    BY <2>1 DEF IInv, TypeOK, Claims
  <2>4. call[u].op # "none" /\ call'[u] # call[u]
    BY <1>1, <2>2
  <2>5. /\ dirs' \in [Node -> SUBSET Uid] /\ spoilt' \subseteq Uid /\ spoilt \subseteq spoilt'
        /\ debris' \subseteq Node /\ losses' \in 0 .. MaxLosses
        /\ \A m \in Node : dirs'[m] \subseteq dirs[m]
        /\ \A m \in Node, w \in Uid \ {u} : w \in dirs[m] => w \in dirs'[m]
        /\ u \in Grouped => u \notin dirs'[n] \/ u \in spoilt'
    <3>1. CASE u \notin Grouped /\ UNCHANGED <<dirs, debris, spoilt, losses>>
      BY <3>1 DEF IInv, TypeOK
    <3>2. CASE /\ dirs' = [dirs EXCEPT ![n] = @ \ {u}]
               /\ UNCHANGED <<debris, spoilt, losses>>
      BY <1>1, <3>2 DEF IInv, TypeOK
    <3>3. CASE /\ Lose /\ debris' \in {debris, debris \cup {n}}
               /\ spoilt' = spoilt \cup {u} /\ UNCHANGED dirs
      <4>1. losses' \in 0 .. MaxLosses
        BY <3>3 DEF IInv, TypeOK, Lose
      <4> QED BY <1>1, <3>3, <4>1 DEF IInv, TypeOK
    <3>4. CASE Fail(u)
      <4>1. UNCHANGED claim
        BY <3>4 DEF Fail
      <4> QED BY <1>1, <2>3, <4>1
    <3> QED BY <3>1, <3>2, <3>3, <3>4 DEF DeleteVolume
  <2>6. TypeOK'
    BY <2>1, <2>2, <2>3, <2>5 DEF IInv, TypeOK
  <2>7. Claimed'
    BY <1>1, <2>1, <2>2, <2>3 DEF IInv, Claimed, Named
  <2>8. FromAnnotation' /\ Addressed'
    BY <2>1, <2>2 DEF IInv, FromAnnotation, Chosen, Addressed
  <2>9. Directories'
    <3>1. SUFFICES ASSUME moves = 0, NEW w \in Uid
                   PROVE  /\ claim'[w] \in {"bound", "released"} => w \in dirs'[pv[w]]
                          /\ \A m \in Node : w \in dirs'[m] => w \in unheard \/ pv[w] = m
                          /\ claim'[w] = "gone" /\ w \in Grouped =>
                               w \notin dirs'[pv[w]] \/ w \in spoilt'
      BY <2>1 DEF Directories, Grouped
    <3>2. CASE w = u
      BY <1>1, <2>3, <2>5, <3>1, <3>2 DEF IInv, TypeOK, Directories
    <3>3. CASE w # u
      BY <2>3, <2>5, <3>1, <3>3 DEF IInv, TypeOK, Claimed, Directories
    <3> QED BY <3>2, <3>3
  <2> QED BY <2>6, <2>7, <2>8, <2>9 DEF IInv
<1> QED BY <1>2, <1>3 DEF DeleteVolume

-----------------------------------------------------------------------------
LEMMA StepKeeps == IInv /\ [Next]_vars => IInv'
<1> SUFFICES ASSUME IInv, [Next]_vars PROVE IInv'
  OBVIOUS
<1>1. CASE UNCHANGED vars
  <2> USE <1>1 DEF vars
  <2>1. TypeOK'
    BY DEF IInv, TypeOK
  <2>2. Claimed'
    BY DEF IInv, Claimed, Named
  <2>3. FromAnnotation' /\ Addressed'
    BY DEF IInv, FromAnnotation, Chosen, Addressed
  <2>4. Directories'
    BY DEF IInv, Directories, Grouped
  <2> QED BY <2>1, <2>2, <2>3, <2>4 DEF IInv
<1>2. CASE Next
  BY <1>2, ClaimsKeep, SyncKeeps, BeginsKeep, LookupKeeps, ConnectKeeps, CreateKeeps, DeleteKeeps
  DEF Next, Handler
<1> QED BY <1>1, <1>2

(* Every reachable state satisfies the inductive invariant.                *)
THEOREM Invariance == Spec => []IInv
<1>1. Init => IInv
  BY InitIInv
<1>2. IInv /\ [Next]_vars => IInv'
  BY StepKeeps
<1> QED BY <1>1, <1>2, PTL DEF Spec

(* The variables keep their types; a call that has a node to connect to    *)
(* has one that exists.                                                    *)
THEOREM TypeCorrect == Spec => []TypeOK
<1>1. IInv => TypeOK
  BY DEF IInv
<1> QED BY <1>1, Invariance, PTL

(* However stale the caches, a PV names a node that was chosen for a claim *)
(* of the name; and if its claim is bound, the claim's own, or one chosen  *)
(* for an earlier claim of the name, which has ended.                      *)
THEOREM OnlyNamesakesMisplace == Spec => []MisplacedByNamesake
<1>1. IInv => MisplacedByNamesake
  <2>1. SUFFICES ASSUME IInv, NEW u \in Uid, pv[u] # None
                 PROVE  \E w \in Uid : /\ selected[w] = pv[u]
                                       /\ \/ w = u \/ claim[u] # "bound"
                                          \/ claim[w] \in {"dropped", "released", "gone"}
    BY DEF MisplacedByNamesake
  <2>2. PICK w \in Uid : selected[w] = pv[u]
    BY <2>1 DEF IInv, FromAnnotation, Chosen
  <2>3. claim[w] # "none"
    BY <2>1, <2>2 DEF IInv, Claimed
  <2>4. CASE claim[u] = "bound" /\ w # u
    BY <2>1, <2>2, <2>3, <2>4 DEF IInv, TypeOK, Claims, Claimed, Named
  <2> QED BY <2>2, <2>4
<1> QED BY <1>1, Invariance, PTL

(* While no addresses have been exchanged, the node in the PV of a bound   *)
(* claim holds the directory of its volume.                                *)
THEOREM PVsLead == Spec => []PVLeadsToVolume
<1>1. IInv => PVLeadsToVolume
  BY PlacementAssumption DEF IInv, TypeOK, Directories, PVLeadsToVolume
<1> QED BY <1>1, Invariance, PTL

(* A claim with a group that is gone has left no directory, but for the    *)
(* reasons the invariant names: an answered deletion that was not done,    *)
(* addresses that were exchanged, a creation elsewhere that was not heard. *)
THEOREM NothingStays == Spec => []GoneLeavesNothing
<1>1. IInv => GoneLeavesNothing
  BY PlacementAssumption DEF IInv, TypeOK, Claimed, Directories, GoneLeavesNothing, Grouped
<1> QED BY <1>1, Invariance, PTL

=============================================================================
