---------------------------- MODULE ListingsProofs ----------------------------
(***************************************************************************)
(* Proofs about Listings, for any volumes, contents and nodes and any      *)
(* faults: what the listings answer, the connections they leave open, and  *)
(* what it takes to end the process.                                       *)
(***************************************************************************)
EXTENDS Listings, FiniteSetTheorems, TLAPS

Fresh == {"idle", "client", "make", "return", "list"}

(* What is known of a call c of kind k: its loop has been over what it has *)
(* listed but for what is left to do, and what it is through with was      *)
(* entered, or there was a reason to leave it out.                         *)
Looped(k, c) ==
  /\ c.todo \subseteq c.listed
  /\ c.at = "rpc" => c.item \in c.listed /\ Home[c.item] \in Node
  /\ c.at = "answered" => c.todo = {}
  /\ c.at = "idle" => c = Idle
  /\ c.at \in Fresh => c.todo = {} /\ c.listed = {} /\ c.entries = {}
  /\ k = "volumes" /\ c.at \in {"next", "rpc", "answered"} =>
       c.listed \ Ungrouped =
         c.entries \cup (c.todo \ Ungrouped) \cup (IF c.at = "rpc" THEN {c.item} ELSE {})

Copied(k, c) ==
  k = "snapshots" =>
    /\ c.listed \subseteq Content
    /\ c.at \in {"next", "rpc", "answered"} =>
         \A i \in c.listed : c.copy[i] = "ready" =>
           \/ i \in c.entries \cup c.todo
           \/ Omitted(i)
           \/ c.at = "rpc" /\ i = c.item

Cliented(c) == c.at = "return" => ClientSet = TRUE \/ <<"config", None>> \in had

Sound(k, c) == Looped(k, c) /\ Copied(k, c) /\ Cliented(c)

(* A node that the lister does not have is remembered.                     *)
Remembered == \A n \in Node : "node" \in trouble[n] => <<"node", n>> \in had

IInv ==
  /\ TypeOK /\ ConnectionsAccounted /\ Remembered
  /\ \A k \in Kind : Sound(k, call[k])

-----------------------------------------------------------------------------
(* The calls that wait for an agent.                                       *)
Waiting(n) == {k \in Kind : call[k].at = "rpc" /\ Home[call[k].item] = n}

LEMMA Kinds == IsFiniteSet(Kind) /\ Cardinality(Kind) \in Nat
<1>1. IsFiniteSet({}) /\ \A x : \A S : IsFiniteSet(S) => IsFiniteSet(S \cup {x})
  BY FS_EmptySet, FS_AddElement
<1>2. Kind = (({} \cup {"volumes"}) \cup {"get"}) \cup {"snapshots"}
  BY DEF Kind
<1>3. IsFiniteSet(Kind)
  BY <1>1, <1>2
<1> QED BY <1>3, FS_CardinalityType

LEMMA Counts ==
  ASSUME NEW S, S \subseteq Kind
  PROVE  Cardinality(S) \in Nat /\ Cardinality(S) <= Cardinality(Kind)
<1>1. IsFiniteSet(S) /\ Cardinality(S) <= Cardinality(Kind)
  BY Kinds, FS_Subset
<1> QED BY <1>1, FS_CardinalityType

(* A call that starts to wait, and one that ends.                          *)
LEMMA OneMore ==
  ASSUME NEW S, S \subseteq Kind, NEW k, k \notin S
  PROVE  Cardinality(S \cup {k}) = Cardinality(S) + 1
  BY Kinds, FS_Subset, FS_AddElement

LEMMA OneLess ==
  ASSUME NEW S, S \subseteq Kind, NEW k \in S
  PROVE  Cardinality(S \ {k}) = Cardinality(S) - 1
  BY Kinds, FS_Subset, FS_RemoveElement

-----------------------------------------------------------------------------
(* All but the calls.                                                      *)
Rest ==
  /\ running \in BOOLEAN /\ ClientSet \in BOOLEAN
  /\ failed \in [Node -> 0 .. MaxFailed]
  /\ bound \subseteq Volume
  /\ status \in [Content -> Status]
  /\ removed \subseteq Item /\ orphans \subseteq Content
  /\ trouble \in [Node -> SUBSET Trouble]
  /\ had \subseteq {"node", "config"} \X (Node \cup {None}) /\ faults \in 0 .. MaxFaults

(* What no step but the end of the process takes back.                     *)
Grows ==
  /\ orphans \subseteq orphans' /\ removed \subseteq removed' /\ had \subseteq had'
  /\ \A n \in Node : failed[n] > 0 => failed'[n] > 0
  /\ ClientSet = TRUE => ClientSet' = TRUE \/ <<"config", None>> \in had'

LEMMA Homes == \A i \in Item : Home[i] \in Node \/ Home[i] = None
  BY ListingsAssumption

LEMMA StaysCopied ==
  ASSUME Grows, NEW k, NEW c \in Call, Copied(k, c)
  PROVE  Copied(k, c)'
<1> SUFFICES ASSUME k = "snapshots" PROVE Copied(k, c)'
  BY DEF Copied
<1>1. c.listed \subseteq Content
  BY DEF Copied
<1>2. \A i \in c.listed : Omitted(i) => Omitted(i)'
  <2>1. \A i \in c.listed : Home[i] = None \/ (failed[Home[i]] > 0 => failed'[Home[i]] > 0)
    BY <1>1, Homes DEF Grows, Item
  <2> QED BY <2>1 DEF Grows, Omitted
<1> QED BY <1>1, <1>2 DEF Copied

LEMMA StaysSound ==
  ASSUME Grows, NEW k, NEW c \in Call, Looped(k, c), Copied(k, c), Cliented(c)'
  PROVE  Sound(k, c)'
<1>1. Looped(k, c)'
  BY DEF Looped
<1> QED BY <1>1, StaysCopied DEF Sound

LEMMA StaysRemembered ==
  ASSUME Remembered, trouble' = trouble, had \subseteq had'
  PROVE  Remembered'
  BY DEF Remembered

(* The connections of an agent are bounded by their account.               *)
LEMMA Typed ==
  ASSUME Rest', ConnectionsAccounted', call' \in [Kind -> Call],
         open' \in [Node -> Int]
  PROVE  TypeOK'
<1>1. MaxFailed \in Nat
  BY ListingsAssumption
<1>2. ASSUME NEW n \in Node PROVE open'[n] \in 0 .. MaxFailed + Cardinality(Kind)
  <2>1. open'[n] = failed'[n] + Cardinality(Waiting(n)')
    BY DEF ConnectionsAccounted, Waiting
  <2>2. failed'[n] \in 0 .. MaxFailed
    BY DEF Rest
  <2>3. Waiting(n)' \subseteq Kind
    BY DEF Waiting
  <2>4. Cardinality(Waiting(n)') \in Nat /\ Cardinality(Waiting(n)') <= Cardinality(Kind)
    BY <2>3, Counts
  <2> QED BY <1>1, <2>1, <2>2, <2>4, Kinds
<1>3. open' \in [Node -> 0 .. MaxFailed + Cardinality(Kind)]
  BY <1>2
<1> QED BY <1>3 DEF Rest, TypeOK

(* A step of one call.                                                     *)
LEMMA CallKeeps ==
  ASSUME IInv, NEW k \in Kind, NEW c \in Call, call' = [call EXCEPT ![k] = c],
         Grows, Rest', Sound(k, c)', Remembered', ConnectionsAccounted',
         open' \in [Node -> Int]
  PROVE  IInv'
<1>1. call' \in [Kind -> Call]
  BY DEF IInv, TypeOK
<1>2. ASSUME NEW l \in Kind PROVE Sound(l, call[l])'
  <2>1. CASE l = k
    BY <2>1 DEF IInv, TypeOK
  <2>2. CASE l # k
    <3>1. PICK d \in Call : d = call[l]
      BY DEF IInv, TypeOK
    <3>2. Sound(l, d)'
      <4>1. Looped(l, d) /\ Copied(l, d) /\ Cliented(d)
        BY <3>1 DEF IInv, Sound
      <4>2. Cliented(d)'
        BY <4>1 DEF Cliented, Grows
      <4> QED BY <4>1, <4>2, StaysSound
    <3>3. call'[l] = d
      BY <2>2, <3>1
    <3> QED BY <3>2, <3>3
  <2> QED BY <2>1, <2>2
<1>3. TypeOK'
  BY <1>1, Typed
<1> QED BY <1>2, <1>3 DEF IInv

(* One that neither begins nor ends to wait for an agent.                  *)
LEMMA SameCount ==
  ASSUME IInv, NEW k \in Kind, NEW c \in Call, call' = [call EXCEPT ![k] = c],
         call[k].at # "rpc", c.at # "rpc", UNCHANGED <<open, failed>>
  PROVE  ConnectionsAccounted' /\ open' \in [Node -> Int]
<1>1. ASSUME NEW n \in Node PROVE Waiting(n)' = Waiting(n)
  BY DEF Waiting, IInv, TypeOK
<1>2. open \in [Node -> Int]
  BY Kinds, ListingsAssumption DEF IInv, TypeOK
<1> QED BY <1>1, <1>2 DEF IInv, ConnectionsAccounted, Waiting

LEMMA LocalKeeps ==
  ASSUME IInv, NEW k \in Kind, NEW c \in Call, call' = [call EXCEPT ![k] = c],
         call[k].at # "rpc", c.at # "rpc", UNCHANGED <<open, failed>>,
         Grows, Rest', Sound(k, c)', Remembered'
  PROVE  IInv'
  BY CallKeeps, SameCount

-----------------------------------------------------------------------------
(* The end of the process: no call is left, and no connection.             *)
LEMMA PanicKeeps ==
  ASSUME IInv, Panic, UNCHANGED world
  PROVE  IInv'
<1> USE ListingsAssumption
<1>1. /\ running' = FALSE /\ ClientSet' = FALSE
      /\ \A n \in Node : open'[n] = 0 /\ failed'[n] = 0
      /\ open' \in [Node -> Int] /\ failed' \in [Node -> 0 .. MaxFailed]
      /\ UNCHANGED <<bound, status, removed, orphans, trouble, had, faults>>
  <2>1. open' = [n \in Node |-> 0] /\ failed' = [n \in Node |-> 0]
    BY DEF Panic
  <2>2. open' \in [Node -> Int] /\ failed' \in [Node -> 0 .. MaxFailed]
    BY <2>1
  <2>3. \A n \in Node : open'[n] = 0 /\ failed'[n] = 0
    BY <2>1
  <2> QED BY <2>2, <2>3 DEF Panic, world, objects
<1>2. Idle \in Call
  BY DEF Idle, Call, Status
<1>3. ASSUME NEW k \in Kind
      PROVE  /\ call'[k] \in Call /\ call'[k].at \in {"idle", "error"}
             /\ Sound(k, call[k])'
  <2>1. PICK c : c = IF call[k] = Idle THEN Idle
                     ELSE [Idle EXCEPT !.at = "error", !.asked = call[k].asked]
    OBVIOUS
  <2>2. call'[k] = c
    BY <2>1 DEF Panic
  <2>3. call[k] \in Call
    BY DEF IInv, TypeOK
  <2>4. /\ c \in Call /\ c.at \in {"idle", "error"} /\ c.listed = {} /\ c.todo = {}
        /\ c.entries = {} /\ \A i \in Content : c.copy[i] = "none"
        /\ c.at = "idle" => c = Idle
    <3>1. CASE call[k] = Idle
      BY <1>2, <2>1, <3>1 DEF Idle
    <3>2. CASE call[k] # Idle
      BY <1>2, <2>1, <2>3, <3>2 DEF Idle, Call, Status
    <3> QED BY <3>1, <3>2
  <2>5. Sound(k, c)'
    <3>1. Looped(k, c)' /\ Cliented(c)'
      BY <2>4 DEF Looped, Cliented
    <3>2. Copied(k, c)'
      BY <2>4 DEF Copied
    <3> QED BY <3>1, <3>2 DEF Sound
  <2> QED BY <2>2, <2>4, <2>5
<1>4. call' \in [Kind -> Call]
  <2>1. call' = [k \in Kind |-> call'[k]]
    BY DEF Panic
  <2> QED BY <1>3, <2>1
<1>5. ConnectionsAccounted'
  <2>1. \A n \in Node : Waiting(n)' = {}
    BY <1>3 DEF Waiting
  <2>2. Cardinality({}) = 0
    BY FS_EmptySet
  <2>3. \A n \in Node : open'[n] = failed'[n] + Cardinality(Waiting(n)')
    BY <1>1, <2>1, <2>2
  <2> QED BY <2>3 DEF ConnectionsAccounted, Waiting
<1>6. Rest'
  BY <1>1 DEF IInv, TypeOK, Rest
<1>7. TypeOK'
  BY <1>1, <1>4, <1>5, <1>6, Typed
<1> QED BY <1>1, <1>3, <1>5, <1>7, StaysRemembered DEF IInv

-----------------------------------------------------------------------------
Places == {"idle", "client", "make", "return", "list", "next", "rpc", "answered", "error"}

LEMMA Moved ==
  ASSUME NEW d \in Call, NEW place \in Places, NEW c, c = [d EXCEPT !.at = place]
  PROVE  /\ c \in Call /\ c.at = place /\ c.asked = d.asked /\ c.listed = d.listed
         /\ c.todo = d.todo /\ c.item = d.item /\ c.entries = d.entries /\ c.copy = d.copy
  BY DEF Call, Places

LEMMA RestKept ==
  ASSUME IInv, UNCHANGED <<running, ClientSet, failed, world>>
  PROVE  Rest' /\ Grows /\ Remembered'
<1>1. Rest' /\ Grows
  BY DEF world, objects, IInv, TypeOK, Rest, Grows
<1>2. Remembered'
  BY StaysRemembered DEF world, IInv
<1> QED BY <1>1, <1>2

(* A handler goes on, before its loop or after it.                         *)
LEMMA GoKeeps ==
  ASSUME IInv, NEW k \in Kind, NEW place, Go(k, place),
         \/ /\ call[k].at \in Fresh \ {"idle"}
            /\ place \in {"make", "return", "list", "error"}
         \/ call[k].at = "next" /\ call[k].todo = {} /\ place = "answered"
         \/ call[k].at = "next" /\ place = "error",
         place = "return" => ClientSet' = TRUE \/ <<"config", None>> \in had',
         UNCHANGED <<open, failed>>, Grows, Rest', Remembered'
  PROVE  IInv'
<1>1. PICK d \in Call : d = call[k]
  BY DEF IInv, TypeOK
<1>2. PICK c : c = [d EXCEPT !.at = place]
  OBVIOUS
<1>3. /\ c \in Call /\ c.at = place /\ c.asked = d.asked /\ c.listed = d.listed
      /\ c.todo = d.todo /\ c.item = d.item /\ c.entries = d.entries /\ c.copy = d.copy
  BY <1>1, <1>2, Moved DEF Places
<1>4. Looped(k, d) /\ Copied(k, d)
  BY <1>1 DEF IInv, Sound
<1>5. Looped(k, c) /\ Copied(k, c) /\ Cliented(c)'
  BY <1>1, <1>3, <1>4 DEF Looped, Copied, Cliented, Fresh
<1>6. call' = [call EXCEPT ![k] = c]
  BY <1>1, <1>2 DEF Go, Set
<1>7. Sound(k, c)'
  BY <1>3, <1>5, StaysSound
<1>8. d.at # "rpc" /\ c.at # "rpc"
  BY <1>1, <1>3 DEF Fresh
<1> QED BY <1>1, <1>3, <1>6, <1>7, <1>8, LocalKeeps

-----------------------------------------------------------------------------
(* A fault is counted, and its kind is remembered.                         *)
LEMMA Faulted ==
  ASSUME IInv, NEW f, NEW n \in Node \cup {None}, UNCHANGED <<had, faults>> \/ Fault(f, n)
  PROVE  /\ had \subseteq had' /\ faults' \in 0 .. MaxFaults
         /\ had' \subseteq {"node", "config"} \X (Node \cup {None})
<1>1. /\ had \subseteq {"node", "config"} \X (Node \cup {None})
      /\ faults \in 0 .. MaxFaults /\ MaxFaults \in Nat
  BY ListingsAssumption DEF IInv, TypeOK
<1>2. CASE UNCHANGED <<had, faults>>
  BY <1>1, <1>2
<1>3. CASE Fault(f, n)
  <2>1. /\ faults < MaxFaults /\ faults' = faults + 1
        /\ had' = had \/ (f \in {"node", "config"} /\ had' = had \cup {<<f, n>>})
    BY <1>3 DEF Fault
  <2> QED BY <1>1, <2>1
<1> QED BY <1>2, <1>3

(* The shared clientset, and a listing that fails or is over.              *)
LEMMA ClientKeeps ==
  ASSUME IInv, NEW k \in Kind, CheckClient(k) \/ MakeClient(k) \/ ReturnClient(k) \/ Done(k)
  PROVE  IInv'
<1>1. CASE CheckClient(k)
  BY <1>1, GoKeeps, RestKept DEF CheckClient, Fresh
<1>2. CASE MakeClient(k)
  <2>1. /\ call[k].at = "make" /\ UNCHANGED <<running, open, failed, objects, trouble>>
        /\ \/ ClientSet' = TRUE /\ Go(k, "return") /\ UNCHANGED <<had, faults>>
           \/ /\ ClientSet' \in {ClientSet, FALSE} /\ Go(k, "error")
              /\ had' = had \cup {<<"config", None>>}
        /\ UNCHANGED <<had, faults>> \/ Fault("config", None)
    BY <1>2 DEF MakeClient, Fault
  <2>2. Rest'
    <3>1. /\ had' \subseteq {"node", "config"} \X (Node \cup {None})
          /\ faults' \in 0 .. MaxFaults
      BY <2>1, Faulted
    <3> QED BY <2>1, <3>1 DEF objects, IInv, TypeOK, Rest
  <2>3. Grows
    BY <2>1 DEF objects, Grows
  <2>4. Remembered'
    <3>1. had \subseteq had'
      BY <2>1
    <3> QED BY <2>1, <3>1, StaysRemembered DEF IInv
  <2>5. PICK place \in {"return", "error"} :
          Go(k, place) /\ (place = "return" => ClientSet' = TRUE)
    BY <2>1
  <2> QED BY <2>1, <2>2, <2>3, <2>4, <2>5, GoKeeps DEF Fresh
<1>3. CASE ReturnClient(k)
  <2>1. CASE ClientSet
    BY <1>3, <2>1, GoKeeps, RestKept DEF ReturnClient, Fresh
  <2>2. CASE ~ClientSet
    BY <1>3, <2>2, PanicKeeps DEF ReturnClient
  <2> QED BY <2>1, <2>2
<1>4. CASE Done(k)
  BY <1>4, GoKeeps, RestKept DEF Done
<1> QED BY <1>1, <1>2, <1>3, <1>4

(* What the lister returns, and what is looped over.                       *)
LEMMA BeginKeeps ==
  ASSUME IInv, NEW k \in Kind, NEW items, items \subseteq Item, Begin(k, items),
         call[k].at = "list", k = "snapshots" => items \subseteq Content,
         UNCHANGED <<running, ClientSet, open, failed, objects, trouble>>, Rest', Grows
  PROVE  IInv'
<1>1. PICK d \in Call : d = call[k]
  BY DEF IInv, TypeOK
<1>2. PICK c : c = [d EXCEPT !.at = "next", !.listed = items, !.todo = items, !.copy = status]
  OBVIOUS
<1>3. /\ c.at = "next" /\ c.asked = d.asked /\ c.listed = items /\ c.todo = items
      /\ c.entries = d.entries /\ c.copy = status
  BY <1>2 DEF Call
<1>4. c \in Call
  BY <1>2 DEF Call, IInv, TypeOK
<1>5. Looped(k, d) /\ Copied(k, d) /\ d.at = "list"
  BY <1>1 DEF IInv, Sound
<1>6. d.entries = {}
  BY <1>5 DEF Looped, Fresh
<1>7. Looped(k, c) /\ Copied(k, c) /\ Cliented(c)'
  BY <1>3, <1>5, <1>6 DEF Looped, Copied, Cliented, Fresh
<1>8. call' = [call EXCEPT ![k] = c]
  BY <1>1, <1>2 DEF Begin, Set
<1>9. Sound(k, c)' /\ Remembered'
  BY <1>4, <1>7, StaysSound, StaysRemembered DEF Grows, IInv
<1> QED BY <1>1, <1>3, <1>4, <1>5, <1>8, <1>9, LocalKeeps

LEMMA ListKeeps ==
  ASSUME IInv, ListPVs \/ ControllerGetVolume \/ ListContents
  PROVE  IInv'
<1> USE DEF Kind
<1>1. ASSUME NEW f, UNCHANGED <<running, ClientSet, failed, objects, trouble>>,
             UNCHANGED <<had, faults>> \/ Fault(f, None)
      PROVE  Rest' /\ Grows /\ Remembered'
  <2>1. /\ had \subseteq had' /\ faults' \in 0 .. MaxFaults
        /\ had' \subseteq {"node", "config"} \X (Node \cup {None})
    BY <1>1, Faulted
  <2>2. Rest' /\ Grows
    BY <1>1, <2>1 DEF objects, IInv, TypeOK, Rest, Grows
  <2> QED BY <1>1, <2>1, <2>2, StaysRemembered DEF IInv
<1>2. CASE ListPVs
  <2>1. /\ call["volumes"].at = "list"
        /\ UNCHANGED <<running, ClientSet, open, failed, objects, trouble>>
        /\ Begin("volumes", bound) \/ Go("volumes", "error")
        /\ UNCHANGED <<had, faults>> \/ Fault("api", None)
    BY <1>2 DEF ListPVs
  <2>2. Rest' /\ Grows /\ Remembered'
    BY <1>1, <2>1
  <2>3. bound \subseteq Item
    BY DEF IInv, TypeOK, Item
  <2>4. CASE Begin("volumes", bound)
    BY <2>1, <2>2, <2>3, <2>4, BeginKeeps
  <2>5. CASE Go("volumes", "error")
    BY <2>1, <2>2, <2>5, GoKeeps DEF Fresh
  <2> QED BY <2>1, <2>4, <2>5
<1>3. CASE ListContents
  <2>1. PICK items \in SUBSET Content :
          /\ call["snapshots"].at = "list" /\ Begin("snapshots", items)
          /\ UNCHANGED <<running, ClientSet, open, failed, objects, trouble>>
          /\ UNCHANGED <<had, faults>> \/ Fault("api", None)
    BY <1>3 DEF ListContents
  <2>2. Rest' /\ Grows /\ items \subseteq Item
    BY <1>1, <2>1 DEF Item
  <2> QED BY <2>1, <2>2, BeginKeeps
<1>4. CASE ControllerGetVolume
  <2>1. PICK d \in Call : d = call["get"]
    BY DEF IInv, TypeOK
  <2>2. /\ d.at = "list" /\ UNCHANGED <<running, ClientSet, open, failed, world>>
        /\ \/ d.asked \in bound
              /\ Set("get", [d EXCEPT !.at = "answered", !.entries = {d.asked}])
           \/ Go("get", "error")
    BY <1>4, <2>1 DEF ControllerGetVolume
  <2>3. Rest' /\ Grows /\ Remembered'
    BY <2>2, RestKept
  <2>4. CASE Go("get", "error")
    BY <2>1, <2>2, <2>3, <2>4, GoKeeps DEF Fresh
  <2>5. CASE /\ d.asked \in bound
             /\ Set("get", [d EXCEPT !.at = "answered", !.entries = {d.asked}])
    <3>1. PICK c : c = [d EXCEPT !.at = "answered", !.entries = {d.asked}]
      OBVIOUS
    <3>2. /\ c \in Call /\ c.at = "answered" /\ c.listed = d.listed /\ c.todo = d.todo
      BY <2>5, <3>1 DEF Call, IInv, TypeOK, Item
    <3>3. Looped("get", d) /\ call' = [call EXCEPT !["get"] = c]
      BY <2>1, <2>5, <3>1 DEF IInv, Sound, Set
    <3>4. Looped("get", c) /\ Copied("get", c) /\ Cliented(c)'
      BY <2>2, <3>2, <3>3 DEF Looped, Copied, Cliented, Fresh
    <3>5. Sound("get", c)'
      BY <2>3, <3>2, <3>4, StaysSound
    <3> QED BY <2>1, <2>2, <2>3, <3>2, <3>3, <3>5, LocalKeeps
  <2> QED BY <2>2, <2>4, <2>5
<1> QED BY <1>2, <1>3, <1>4

-----------------------------------------------------------------------------
(* A connection is made for the next item, or none is.                     *)
LEMMA ConnectKeeps ==
  ASSUME IInv, NEW k \in Kind, NEW i \in call[k].todo, call[k].at = "next", Connect(k, i),
         k = "volumes" => i \notin Ungrouped, UNCHANGED world
  PROVE  IInv'
<1>1. PICK d \in Call : d = call[k]
  BY DEF IInv, TypeOK
<1>2. PICK c : c = [d EXCEPT !.at = "rpc", !.item = i, !.todo = d.todo \ {i}]
  OBVIOUS
<1>3. i \in Item /\ Home[i] \in Node
  BY <1>1, Homes DEF Call, Connect, Unreached
<1>4. /\ c.at = "rpc" /\ c.item = i /\ c.todo = d.todo \ {i} /\ c.listed = d.listed
      /\ c.asked = d.asked /\ c.entries = d.entries /\ c.copy = d.copy
  BY <1>2 DEF Call
<1>5. c \in Call
  BY <1>2, <1>3 DEF Call
<1>6. call' = [call EXCEPT ![k] = c] /\ open' = [open EXCEPT ![Home[i]] = @ + 1]
  BY <1>1, <1>2 DEF Connect, Set
<1>7. Rest' /\ Grows /\ Remembered'
  BY RestKept DEF Connect
<1>8. Sound(k, c)'
  <2>1. Looped(k, d) /\ Copied(k, d) /\ d.at = "next"
    BY <1>1 DEF IInv, Sound
  <2>2. Looped(k, c) /\ Cliented(c)'
    BY <1>1, <1>3, <1>4, <2>1 DEF Looped, Cliented, Fresh
  <2>3. Copied(k, c)
    BY <1>1, <1>4, <2>1 DEF Copied
  <2> QED BY <1>5, <1>7, <2>2, <2>3, StaysSound
<1>9. ConnectionsAccounted' /\ open' \in [Node -> Int]
  <2>1. open \in [Node -> Int]
    BY Kinds, ListingsAssumption DEF IInv, TypeOK
  <2>2. k \notin Waiting(Home[i]) /\ Waiting(Home[i])' = Waiting(Home[i]) \cup {k}
    BY <1>4, <1>6 DEF Waiting, IInv, TypeOK
  <2>3. \A n \in Node \ {Home[i]} : Waiting(n)' = Waiting(n)
    BY <1>4, <1>6 DEF Waiting, IInv, TypeOK
  <2>4. Cardinality(Waiting(Home[i])') = Cardinality(Waiting(Home[i])) + 1
    BY <2>2, OneMore DEF Waiting
  <2>5. \A n \in Node : open[n] = failed[n] + Cardinality(Waiting(n))
    BY DEF IInv, ConnectionsAccounted, Waiting
  <2>6. Cardinality(Waiting(Home[i])) \in Nat /\ failed[Home[i]] \in Int
    BY <1>3, Counts, ListingsAssumption DEF Waiting, IInv, TypeOK
  <2>7. failed' = failed
    BY DEF Connect
  <2>8. ASSUME NEW n \in Node PROVE open'[n] = failed'[n] + Cardinality(Waiting(n)')
    <3>1. CASE n = Home[i]
      BY <1>3, <1>6, <2>1, <2>4, <2>5, <2>6, <2>7, <3>1
    <3>2. CASE n # Home[i]
      BY <1>6, <2>1, <2>3, <2>5, <2>7, <3>2
    <3> QED BY <3>1, <3>2
  <2>9. open' \in [Node -> Int]
    BY <1>3, <1>6, <2>1
  <2>10. ConnectionsAccounted'
    BY <2>8 DEF ConnectionsAccounted, Waiting
  <2> QED BY <2>9, <2>10
<1> QED BY <1>5, <1>6, <1>7, <1>8, <1>9, CallKeeps

LEMMA PassOverKeeps ==
  ASSUME IInv, NEW k \in {"volumes", "snapshots"}, NEW i \in call[k].todo, call[k].at = "next",
         PassOver(k, i), k = "volumes" => i \in Ungrouped,
         k = "snapshots" => call[k].copy[i] # "ready" \/ Omitted(i), UNCHANGED world
  PROVE  IInv'
<1>1. k \in Kind
  BY DEF Kind
<1>2. PICK d \in Call : d = call[k]
  BY <1>1 DEF IInv, TypeOK
<1>3. Looped(k, d) /\ Copied(k, d) /\ d.at = "next" /\ i \in d.todo
  BY <1>1, <1>2 DEF IInv, Sound
<1>4. PICK c : c = [d EXCEPT !.todo = d.todo \ {i}]
  OBVIOUS
<1>5. /\ c \in Call /\ c.at = "next" /\ c.todo = d.todo \ {i} /\ c.listed = d.listed
      /\ c.asked = d.asked /\ c.entries = d.entries /\ c.copy = d.copy
  BY <1>3, <1>4 DEF Call
<1>6. call' = [call EXCEPT ![k] = c] /\ UNCHANGED <<running, ClientSet, open, failed>>
  BY <1>2, <1>4 DEF PassOver, Set
<1>7. Rest' /\ Grows /\ Remembered'
  BY <1>6, RestKept
<1>8. Looped(k, c) /\ Cliented(c)'
  BY <1>3, <1>5 DEF Looped, Cliented, Fresh
<1>9. Copied(k, c)
  BY <1>2, <1>3, <1>5 DEF Copied
<1>10. Sound(k, c)'
  BY <1>5, <1>7, <1>8, <1>9, StaysSound
<1> QED BY <1>1, <1>2, <1>3, <1>5, <1>6, <1>7, <1>10, LocalKeeps

(* A node that cannot be reached is a reason to leave a snapshot out.      *)
LEMMA UnreachedIsOmitted ==
  ASSUME IInv, NEW i \in Item, Unreached(i)
  PROVE  Omitted(i)
  BY Homes DEF IInv, Remembered, Unreached, Omitted

LEMMA NextItemKeeps ==
  ASSUME IInv, NextVolume \/ NextSnapshot
  PROVE  IInv'
<1> USE DEF Kind
<1>1. CASE NextVolume
  <2>1. PICK v \in call["volumes"].todo :
          /\ call["volumes"].at = "next" /\ UNCHANGED world
          /\ \/ v \in Ungrouped /\ PassOver("volumes", v)
             \/ v \notin Ungrouped /\ Connect("volumes", v)
             \/ Go("volumes", "error") /\ UNCHANGED <<running, ClientSet, open, failed>>
    BY <1>1 DEF NextVolume
  <2>2. CASE v \in Ungrouped /\ PassOver("volumes", v)
    BY <2>1, <2>2, PassOverKeeps
  <2>3. CASE v \notin Ungrouped /\ Connect("volumes", v)
    BY <2>1, <2>3, ConnectKeeps
  <2>4. CASE Go("volumes", "error") /\ UNCHANGED <<running, ClientSet, open, failed>>
    BY <2>1, <2>4, GoKeeps, RestKept
  <2> QED BY <2>1, <2>2, <2>3, <2>4
<1>2. CASE NextSnapshot
  <2>1. PICK i \in call["snapshots"].todo :
          /\ call["snapshots"].at = "next" /\ UNCHANGED world
          /\ \/ Panic
             \/ /\ PassOver("snapshots", i)
                /\ call["snapshots"].copy[i] # "ready" \/ i \in orphans \/ Unreached(i)
             \/ Connect("snapshots", i)
    BY <1>2 DEF NextSnapshot
  <2>2. i \in Item
    BY DEF IInv, TypeOK, Call
  <2>3. CASE Panic
    BY <2>1, <2>3, PanicKeeps
  <2>4. CASE /\ PassOver("snapshots", i)
             /\ call["snapshots"].copy[i] # "ready" \/ i \in orphans \/ Unreached(i)
    <3>1. call["snapshots"].copy[i] # "ready" \/ Omitted(i)
      BY <2>2, <2>4, UnreachedIsOmitted DEF Omitted
    <3> QED BY <2>1, <2>4, <3>1, PassOverKeeps
  <2>5. CASE Connect("snapshots", i)
    BY <2>1, <2>5, ConnectKeeps
  <2> QED BY <2>1, <2>3, <2>4, <2>5
<1> QED BY <1>1, <1>2

(* The agent does not answer, or it does.                                  *)
LEMMA GetVolumeKeeps ==
  ASSUME IInv, NEW k \in Kind, GetVolume(k)
  PROVE  IInv'
<1>1. PICK d \in Call : d = call[k]
  BY DEF IInv, TypeOK
<1>2. PICK i : i = d.item
  OBVIOUS
<1>3. Looped(k, d) /\ Copied(k, d) /\ d.at = "rpc" /\ UNCHANGED world
  BY <1>1 DEF IInv, Sound, GetVolume
<1>4. i \in d.listed /\ i \in Item /\ Home[i] \in Node
  BY <1>2, <1>3 DEF Looped, Call
<1> DEFINE n == Home[i]
<1>5. MaxFailed \in Nat /\ open \in [Node -> Int] /\ failed \in [Node -> 0 .. MaxFailed]
  BY Kinds, ListingsAssumption DEF IInv, TypeOK
<1>6. /\ k \in Waiting(n)
      /\ \A m \in Node : /\ open[m] = failed[m] + Cardinality(Waiting(m))
                         /\ Cardinality(Waiting(m)) \in Nat
  <2>1. \A m \in Node : Waiting(m) \subseteq Kind
    BY DEF Waiting
  <2>2. \A m \in Node : open[m] = failed[m] + Cardinality(Waiting(m))
    BY DEF IInv, ConnectionsAccounted, Waiting
  <2>3. k \in Waiting(n)
    BY <1>1, <1>2, <1>3 DEF Waiting
  <2> QED BY <2>1, <2>2, <2>3, Counts
<1>7. ASSUME NEW c, call' = [call EXCEPT ![k] = c], c.at # "rpc"
      PROVE  /\ Cardinality(Waiting(n)') = Cardinality(Waiting(n)) - 1
             /\ \A m \in Node \ {n} : Waiting(m)' = Waiting(m)
  <2>1. Waiting(n)' = Waiting(n) \ {k}
    BY <1>7 DEF Waiting, IInv, TypeOK
  <2>2. \A m \in Node \ {n} : Waiting(m)' = Waiting(m)
    BY <1>1, <1>2, <1>7 DEF Waiting, IInv, TypeOK
  <2>3. Waiting(n) \subseteq Kind
    BY DEF Waiting
  <2> QED BY <1>6, <2>1, <2>2, <2>3, OneLess
<1>8. CASE GetVolumeFails(k)
  <2>1. PICK place : place = IF k = "volumes" THEN "error" ELSE "next"
    OBVIOUS
  <2>2. PICK c : c = [d EXCEPT !.at = place]
    OBVIOUS
  <2>3. /\ c \in Call /\ c.at = place /\ c.asked = d.asked /\ c.listed = d.listed
        /\ c.todo = d.todo /\ c.entries = d.entries /\ c.copy = d.copy
    BY <2>1, <2>2, Moved DEF Places
  <2>4. /\ failed[n] < MaxFailed /\ failed' = [failed EXCEPT ![n] = @ + 1]
        /\ call' = [call EXCEPT ![k] = c] /\ UNCHANGED <<running, ClientSet, open>>
    BY <1>1, <1>2, <1>8, <2>1, <2>2 DEF GetVolumeFails, Unanswered, Go, Set
  <2>5. failed' \in [Node -> 0 .. MaxFailed] /\ failed'[n] = failed[n] + 1 /\ failed'[n] > 0
        /\ \A m \in Node \ {n} : failed'[m] = failed[m]
    BY <1>4, <1>5, <2>4
  <2>6. Rest'
    BY <1>3, <2>4, <2>5 DEF world, objects, IInv, TypeOK, Rest
  <2>7. Grows
    BY <1>3, <2>4, <2>5 DEF world, objects, Grows
  <2>8. Remembered'
    BY <1>3, StaysRemembered DEF world, IInv
  <2>9. Looped(k, c) /\ Cliented(c)'
    BY <1>3, <2>1, <2>3 DEF Looped, Cliented, Fresh
  <2>10. Copied(k, c)'
    <3>1. Copied(k, d)'
      BY <1>3, <2>7, StaysCopied
    <3>2. Omitted(i)'
      BY <2>5 DEF Omitted
    <3> QED BY <1>2, <1>3, <2>1, <2>3, <3>1, <3>2 DEF Copied
  <2>11. Looped(k, c)' /\ Sound(k, c)'
    BY <2>9, <2>10 DEF Sound, Looped
  <2>12. ConnectionsAccounted'
    <3>0. /\ Cardinality(Waiting(n)') = Cardinality(Waiting(n)) - 1
          /\ \A m \in Node \ {n} : Waiting(m)' = Waiting(m)
      BY <1>7, <2>1, <2>3, <2>4
    <3>1. ASSUME NEW m \in Node PROVE open'[m] = failed'[m] + Cardinality(Waiting(m)')
      <4>1. CASE m = n
        BY <1>4, <1>5, <1>6, <2>4, <2>5, <3>0, <4>1
      <4>2. CASE m # n
        BY <1>6, <2>4, <2>5, <3>0, <4>2
      <4> QED BY <4>1, <4>2
    <3> QED BY <3>1 DEF ConnectionsAccounted, Waiting
  <2> QED BY <1>5, <2>3, <2>4, <2>6, <2>7, <2>8, <2>11, <2>12, CallKeeps
<1>9. CASE GetVolumeAnswers(k) /\ ~Nil(call[k].item)
  <2>1. PICK c : c = [d EXCEPT !.at = "next", !.entries = d.entries \cup {i}]
    OBVIOUS
  <2>2. /\ c.at = "next" /\ c.asked = d.asked /\ c.listed = d.listed /\ c.todo = d.todo
        /\ c.entries = d.entries \cup {i} /\ c.copy = d.copy
    BY <2>1 DEF Call
  <2>3. c \in Call
    BY <1>4, <2>1 DEF Call
  <2>4. /\ open' = [open EXCEPT ![n] = @ - 1] /\ call' = [call EXCEPT ![k] = c]
        /\ UNCHANGED <<running, ClientSet, failed>>
    BY <1>1, <1>2, <1>9, <2>1 DEF GetVolumeAnswers, Set
  <2>5. Rest' /\ Grows /\ Remembered'
    BY <1>3, <2>4, RestKept
  <2>6. Looped(k, c) /\ Cliented(c)'
    BY <1>2, <1>3, <1>4, <2>2 DEF Looped, Cliented, Fresh
  <2>7. Copied(k, c)
    BY <1>2, <1>3, <2>2 DEF Copied
  <2>8. Sound(k, c)'
    BY <2>3, <2>5, <2>6, <2>7, StaysSound
  <2>9. ConnectionsAccounted'
    <3>0. /\ Cardinality(Waiting(n)') = Cardinality(Waiting(n)) - 1
          /\ \A m \in Node \ {n} : Waiting(m)' = Waiting(m)
      BY <1>7, <2>2, <2>4
    <3>1. ASSUME NEW m \in Node PROVE open'[m] = failed'[m] + Cardinality(Waiting(m)')
      <4>1. CASE m = n
        BY <1>4, <1>5, <1>6, <2>4, <3>0, <4>1
      <4>2. CASE m # n
        BY <1>5, <1>6, <2>4, <3>0, <4>2
      <4> QED BY <4>1, <4>2
    <3> QED BY <3>1 DEF ConnectionsAccounted, Waiting
  <2>10. open' \in [Node -> Int]
    BY <1>4, <1>5, <2>4
  <2> QED BY <2>3, <2>4, <2>5, <2>8, <2>9, <2>10, CallKeeps
<1>10. CASE GetVolumeAnswers(k) /\ Nil(call[k].item)
  BY <1>3, <1>10, PanicKeeps DEF GetVolumeAnswers
<1> QED BY <1>8, <1>9, <1>10 DEF GetVolume

-----------------------------------------------------------------------------
(* The callers.                                                            *)
LEMMA AskKeeps ==
  ASSUME IInv, NEW k \in Kind, Ask(k)
  PROVE  IInv'
<1>1. PICK a, place :
        /\ call[k].at = "idle" /\ place \in {"list", "client"}
        /\ a \in Item \cup {None}
        /\ call' = [call EXCEPT ![k] = [Idle EXCEPT !.at = place, !.asked = a]]
        /\ UNCHANGED <<running, ClientSet, open, failed, world>>
  BY ListingsAssumption DEF Ask, Set, Item
<1>2. PICK c : c = [Idle EXCEPT !.at = place, !.asked = a]
  OBVIOUS
<1>3. /\ c.at = place /\ c.asked = a /\ c.listed = {} /\ c.todo = {} /\ c.entries = {}
      /\ c.copy = [i \in Content |-> "none"]
  BY <1>2 DEF Idle
<1>4. c \in Call
  BY <1>1, <1>2 DEF Idle, Call, Status
<1>5. Rest' /\ Grows /\ Remembered'
  BY <1>1, RestKept
<1>6. Looped(k, c) /\ Copied(k, c) /\ Cliented(c)'
  BY <1>1, <1>3 DEF Looped, Copied, Cliented, Fresh
<1>7. Sound(k, c)'
  BY <1>4, <1>5, <1>6, StaysSound
<1> QED BY <1>1, <1>2, <1>3, <1>4, <1>5, <1>7, LocalKeeps

LEMMA AnswerKeeps ==
  ASSUME IInv, NEW k \in Kind, Answer(k)
  PROVE  IInv'
<1>1. PICK d \in Call : d = call[k]
  BY DEF IInv, TypeOK
<1>2. d.at \in {"answered", "error"}
  BY <1>1 DEF Answer
<1>3. /\ call' = [call EXCEPT ![k] = Idle]
      /\ UNCHANGED <<running, ClientSet, open, failed, bound, removed, orphans, trouble,
                     had, faults>>
  BY DEF Answer, Set
<1>4. status' \in [Content -> Status]
  BY DEF Answer, IInv, TypeOK, Status
<1>5. Rest' /\ Grows
  BY <1>3, <1>4 DEF IInv, TypeOK, Rest, Grows
<1>6. Remembered'
  BY <1>3, StaysRemembered DEF IInv
<1>7. /\ Idle \in Call /\ Idle.at = "idle" /\ Idle.listed = {} /\ Idle.todo = {}
      /\ Idle.entries = {} /\ \A i \in Content : Idle.copy[i] = "none"
  BY DEF Idle, Call, Status
<1>8. Sound(k, Idle)'
  <2>1. PICK c : c = Idle
    OBVIOUS
  <2>2. Looped(k, c) /\ Copied(k, c) /\ Cliented(c)'
    BY <1>7, <2>1 DEF Looped, Copied, Cliented, Fresh
  <2>3. Sound(k, c)'
    BY <1>5, <1>7, <2>1, <2>2, StaysSound
  <2> QED BY <2>1, <2>3
<1> QED BY <1>1, <1>2, <1>3, <1>5, <1>6, <1>7, <1>8, LocalKeeps

(* The cluster, and the process that is started again.                     *)
LEMMA WorldKeeps ==
  ASSUME IInv, UNCHANGED <<ClientSet, call, open, failed>>, Grows, Rest', Remembered'
  PROVE  IInv'
<1>1. ConnectionsAccounted' /\ call' \in [Kind -> Call]
  BY DEF IInv, ConnectionsAccounted, TypeOK
<1>2. open' \in [Node -> Int]
  BY Kinds, ListingsAssumption DEF IInv, TypeOK
<1>3. ASSUME NEW k \in Kind PROVE Sound(k, call[k])'
  <2>1. PICK d \in Call : d = call[k]
    BY DEF IInv, TypeOK
  <2>2. Looped(k, d) /\ Copied(k, d) /\ Cliented(d)
    BY <2>1 DEF IInv, Sound
  <2>3. Cliented(d)'
    BY <2>2 DEF Cliented, Grows
  <2>4. Sound(k, d)' /\ call'[k] = d
    BY <2>1, <2>2, <2>3, StaysSound
  <2> QED BY <2>4
<1>4. TypeOK'
  BY <1>1, <1>2, Typed
<1> QED BY <1>1, <1>3, <1>4 DEF IInv

LEMMA ClusterKeeps ==
  ASSUME IInv,
         \/ \E v \in Volume : PVBound(v) \/ VolumeDeleted(v)
         \/ \E c \in Content :
              ContentMade(c) \/ SnapshotCreated(c) \/ SnapshotDeleted(c) \/ SourceDeleted(c)
         \/ \E i \in Item : Lost(i)
         \/ \E n \in Node : Troubled(n) \/ \E t \in Trouble : Repaired(n, t)
         \/ Restart
  PROVE  IInv'
<1>1. /\ had \subseteq had' /\ faults' \in 0 .. MaxFaults
      /\ had' \subseteq {"node", "config"} \X (Node \cup {None})
  <2>1. \E f, n : n \in Node \cup {None} /\ (UNCHANGED <<had, faults>> \/ Fault(f, n))
    BY DEF PVBound, VolumeDeleted, ContentMade, SnapshotCreated, SnapshotDeleted,
           SourceDeleted, Lost, Troubled, Repaired, Restart, world
  <2> QED BY <2>1, Faulted
<1>2. UNCHANGED <<ClientSet, call, open, failed>>
  BY DEF PVBound, VolumeDeleted, ContentMade, SnapshotCreated, SnapshotDeleted,
         SourceDeleted, Lost, Troubled, Repaired, Restart, process
<1> SUFFICES Grows /\ Rest' /\ Remembered'
  BY <1>2, WorldKeeps
<1>3. CASE \/ \E v \in Volume : PVBound(v) \/ VolumeDeleted(v)
           \/ \E i \in Item : Lost(i)
  <2>1. /\ bound' \subseteq Volume /\ removed \subseteq removed' /\ removed' \subseteq Item
        /\ UNCHANGED <<running, ClientSet, failed, status, orphans, trouble>>
    BY <1>3 DEF PVBound, VolumeDeleted, Lost, process, IInv, TypeOK, Item
  <2>2. Grows /\ Rest'
    BY <1>1, <2>1 DEF Grows, Rest, IInv, TypeOK
  <2> QED BY <1>1, <2>1, <2>2, StaysRemembered DEF IInv
<1>4. ASSUME NEW c \in Content,
             ContentMade(c) \/ SnapshotCreated(c) \/ SnapshotDeleted(c) \/ SourceDeleted(c)
      PROVE  Grows /\ Rest' /\ Remembered'
  <2>1. /\ orphans \subseteq orphans' /\ orphans' \subseteq Content
        /\ removed \subseteq removed' /\ removed' \subseteq Item
        /\ UNCHANGED <<running, ClientSet, failed, bound, trouble>>
    BY <1>4 DEF ContentMade, SnapshotCreated, SnapshotDeleted, SourceDeleted, process,
                IInv, TypeOK, Item
  <2>2. status' \in [Content -> Status]
    BY <1>4 DEF ContentMade, SnapshotCreated, SnapshotDeleted, SourceDeleted,
                IInv, TypeOK, Status
  <2>3. Grows /\ Rest'
    BY <1>1, <2>1, <2>2 DEF Grows, Rest, IInv, TypeOK
  <2> QED BY <1>1, <2>1, <2>3, StaysRemembered DEF IInv
<1>5. CASE \/ \E n \in Node : Troubled(n) \/ \E t \in Trouble : Repaired(n, t)
           \/ Restart
  <2>1. /\ running' \in BOOLEAN /\ trouble' \in [Node -> SUBSET Trouble]
        /\ UNCHANGED <<ClientSet, failed, bound, status, removed, orphans>>
    <3>1. CASE \E n \in Node : Troubled(n)
      BY <3>1 DEF Troubled, process, objects, IInv, TypeOK
    <3>2. CASE \E n \in Node : \E t \in Trouble : Repaired(n, t)
      BY <3>2 DEF Repaired, process, objects, IInv, TypeOK
    <3>3. CASE Restart
      BY <3>3 DEF Restart, objects, world, IInv, TypeOK
    <3> QED BY <1>5, <3>1, <3>2, <3>3
  <2>2. Grows /\ Rest'
    BY <1>1, <2>1 DEF Grows, Rest, IInv, TypeOK
  <2>3. Remembered'
    <3> SUFFICES ASSUME NEW n \in Node, "node" \in trouble'[n]
                 PROVE  <<"node", n>> \in had'
      BY DEF Remembered
    <3>1. CASE "node" \in trouble[n]
      BY <1>1, <3>1 DEF IInv, Remembered
    <3>2. CASE "node" \notin trouble[n]
      <4>1. PICK m \in Node : Troubled(m)
        BY <1>5, <3>2 DEF Repaired, Restart, world, IInv, TypeOK
      <4>2. PICK t \in Trouble : Fault(t, m) /\ trouble' = [trouble EXCEPT ![m] = @ \cup {t}]
        BY <4>1 DEF Troubled
      <4>3. t = "node" /\ m = n
        BY <3>2, <4>2 DEF IInv, TypeOK
      <4> QED BY <4>2, <4>3 DEF Fault
    <3> QED BY <3>1, <3>2
  <2> QED BY <2>2, <2>3
<1> QED BY <1>3, <1>4, <1>5

LEMMA InitIInv == Init => IInv
<1> SUFFICES ASSUME Init PROVE IInv
  OBVIOUS
<1>1. /\ Idle \in Call /\ Idle.at = "idle" /\ Idle.listed = {} /\ Idle.todo = {}
      /\ Idle.entries = {} /\ \A i \in Content : Idle.copy[i] = "none"
  BY DEF Idle, Call, Status
<1>2. \A k \in Kind : call[k] = Idle
  BY DEF Init
<1>3. TypeOK
  <2>1. 0 \in 0 .. MaxFailed /\ 0 \in 0 .. MaxFaults /\ 0 \in 0 .. MaxFailed + Cardinality(Kind)
    BY Kinds, ListingsAssumption
  <2>2. call \in [Kind -> Call]
    BY <1>1 DEF Init
  <2>3. /\ open \in [Node -> 0 .. MaxFailed + Cardinality(Kind)]
        /\ failed \in [Node -> 0 .. MaxFailed]
    BY <2>1 DEF Init
  <2> QED BY <2>1, <2>2, <2>3 DEF Init, TypeOK, Status
<1>4. ConnectionsAccounted
  <2>1. \A n \in Node : Waiting(n) = {}
    BY <1>1, <1>2 DEF Waiting
  <2>2. Cardinality({}) = 0
    BY FS_EmptySet
  <2>3. \A n \in Node : open[n] = 0 /\ failed[n] = 0
    BY DEF Init
  <2>4. \A n \in Node : open[n] = failed[n] + Cardinality(Waiting(n))
    BY <2>1, <2>2, <2>3
  <2> QED BY <2>4 DEF ConnectionsAccounted, Waiting
<1>5. Remembered
  BY DEF Init, Remembered
<1>6. ASSUME NEW k \in Kind PROVE Sound(k, call[k])
  <2>1. PICK c : c = call[k]
    OBVIOUS
  <2>2. Looped(k, c) /\ Copied(k, c) /\ Cliented(c)
    BY <1>1, <1>2, <2>1 DEF Looped, Copied, Cliented, Fresh
  <2> QED BY <2>1, <2>2 DEF Sound
<1> QED BY <1>3, <1>4, <1>5, <1>6 DEF IInv

LEMMA NextKeeps == ASSUME IInv, [Next]_vars PROVE IInv'
<1>1. CASE \E k \in Kind : Ask(k) \/ Answer(k)
  BY <1>1, AskKeeps, AnswerKeeps
<1>2. CASE \E k \in Kind : Handler(k)
  BY <1>2, ClientKeeps, GetVolumeKeeps DEF Handler
<1>3. CASE ListPVs \/ ControllerGetVolume \/ ListContents \/ NextVolume \/ NextSnapshot
  BY <1>3, ListKeeps, NextItemKeeps
<1>4. CASE \/ \E v \in Volume : PVBound(v) \/ VolumeDeleted(v)
           \/ \E c \in Content :
                ContentMade(c) \/ SnapshotCreated(c) \/ SnapshotDeleted(c) \/ SourceDeleted(c)
           \/ \E i \in Item : Lost(i)
           \/ \E n \in Node : Troubled(n) \/ \E t \in Trouble : Repaired(n, t)
           \/ Restart
  BY <1>4, ClusterKeeps
<1>5. CASE UNCHANGED vars
  <2>1. UNCHANGED <<running, ClientSet, call, open, failed, world>>
    BY <1>5 DEF vars, world, objects
  <2> QED BY <2>1, RestKept, WorldKeeps
<1> QED BY <1>1, <1>2, <1>3, <1>4, <1>5 DEF Next, Server

-----------------------------------------------------------------------------
(* The invariant of the listings, for any cluster.                         *)
THEOREM Invariance == Spec => []IInv
<1>1. Init => IInv
  BY InitIInv
<1>2. IInv /\ [Next]_vars => IInv'
  BY NextKeeps
<1> QED BY <1>1, <1>2, PTL DEF Spec

(* The variables keep their types; no agent has more connections than      *)
(* calls failed or wait.                                                   *)
THEOREM TypeCorrect == Spec => []TypeOK
<1>1. IInv => TypeOK
  BY DEF IInv
<1> QED BY <1>1, Invariance, PTL

(* Only GetVolume that fails leaves its connection open.                   *)
THEOREM LeaksAreFailures == Spec => []ConnectionsAccounted
<1>1. IInv => ConnectionsAccounted
  BY DEF IInv
<1> QED BY <1>1, Invariance, PTL

(* An answer of ListVolumes leaves out no volume that the API server had,  *)
(* but one without a group; and one of ListSnapshots no ready snapshot,    *)
(* but when its source's PV was deleted or names no node, when its node    *)
(* was missing in the cache, or when a call to its agent failed.           *)
THEOREM AnswersWhole == Spec => []ListingsWhole
<1>1. IInv => ListingsWhole
  <2> SUFFICES ASSUME IInv PROVE ListingsWhole
    OBVIOUS
  <2>1. Sound("volumes", call["volumes"]) /\ Sound("snapshots", call["snapshots"])
    BY DEF IInv, Kind
  <2> QED BY <2>1 DEF ListingsWhole, Sound, Looped, Copied
<1> QED BY <1>1, Invariance, PTL

(* What ends the process in a listing is a content without readiness, one  *)
(* made by hand, a volume or snapshot that the agent asked does not list,  *)
(* or a clientset that could not be made; nothing else.                    *)
THEOREM PanicsAreNamed == Spec => PanicsNamed
<1> DEFINE Named ==
      running /\ ~running' =>
       \/ \E c \in Content : call["snapshots"].copy[c] = "bare"
       \/ \E c \in Preprovisioned : call["snapshots"].copy[c] = "ready"
       \/ \E k \in Kind : call[k].at = "rpc" /\ Nil(call[k].item)
       \/ <<"config", None>> \in had
<1>1. ASSUME IInv, [Next]_vars PROVE [Named]_vars
  <2> SUFFICES ASSUME running, ~running' PROVE Named
    OBVIOUS
  <2>1. \/ \E k \in Kind : ReturnClient(k) \/ GetVolume(k)
        \/ NextSnapshot
    BY <1>1 DEF Next, Server, Handler, vars, PVBound, VolumeDeleted, ContentMade,
                SnapshotCreated, SnapshotDeleted, SourceDeleted, Lost, Troubled, Repaired,
                Restart, Ask, Answer, CheckClient, MakeClient, Done, ListPVs,
                ControllerGetVolume, ListContents, NextVolume, Connect, PassOver, process
  <2>2. ASSUME NEW k \in Kind, ReturnClient(k) PROVE <<"config", None>> \in had
    BY <1>1, <2>2 DEF ReturnClient, IInv, Sound, Cliented
  <2>3. ASSUME NEW k \in Kind, GetVolume(k)
        PROVE  call[k].at = "rpc" /\ Nil(call[k].item)
    BY <2>3 DEF GetVolume, GetVolumeFails, GetVolumeAnswers
  <2>4. ASSUME NextSnapshot
        PROVE  \/ \E c \in Content : call["snapshots"].copy[c] = "bare"
               \/ \E c \in Preprovisioned : call["snapshots"].copy[c] = "ready"
    <3>1. PICK c \in call["snapshots"].todo :
            \/ call["snapshots"].copy[c] = "bare"
            \/ call["snapshots"].copy[c] = "ready" /\ c \in Preprovisioned
      BY <2>4 DEF NextSnapshot, PassOver, Connect
    <3>2. c \in Content
      BY <1>1 DEF IInv, Sound, Looped, Copied, Kind
    <3> QED BY <3>1, <3>2
  <2> QED BY <2>1, <2>2, <2>3, <2>4
<1> QED BY <1>1, Invariance, PTL DEF Spec, PanicsNamed

=============================================================================
