---------------------------- MODULE AgentRpcProofs ----------------------------
(***************************************************************************)
(* Proofs about AgentRpc, for any set of calls and any bounds: its types,  *)
(* who is told that an agent is unavailable, how often a volume is made,   *)
(* and that it implements CallOnce.                                        *)
(***************************************************************************)
EXTENDS AgentRpc, FiniteSetTheorems, TLAPS

(* What a handler's place says of its connection, stream and change.       *)
Phases ==
  \A c \in Call :
    /\ at[c] = "start" => chan[c] = "none"
    /\ at[c] \in {"connect", "list", "change"} => chan[c] \notin {"none", "closed"}
    /\ at[c] \in {"start", "connect"} => stream[c].is = "none"
    /\ at[c] \in {"start", "connect", "list"} => work[c] = "none"
    /\ at[c] = "list" /\ stream[c].is # "none" => stream[c].rpc = "ListVol"
    /\ at[c] = "change" /\ stream[c].is # "none" => stream[c].rpc = "CreateVol"
    /\ at[c] = "change" /\ stream[c].is = "none" => work[c] = "none"
    /\ told[c] = "done" => stream[c].is = "none"

(* What is on the way says what the agent did.                             *)
Streams ==
  /\ \A c \in Call :
       /\ stream[c].is # "none" => stream[c].rpc \in {"ListVol", "CreateVol"}
       /\ stream[c].is = "sent" /\ stream[c].rpc = "CreateVol" => work[c] = "none"
       /\ stream[c].is = "handled" /\ stream[c].rpc = "CreateVol" => work[c] = "begun"
       /\ stream[c].is = "replied" =>
            /\ stream[c].rpc = "ListVol" => stream[c].says \in {"absent", "there", "error"}
            /\ stream[c].rpc = "CreateVol" => stream[c].says \in {"ok", "error"}
            /\ stream[c].says = "ok" => work[c] = "done"
            /\ stream[c].says = "there" => volume = "there"
  /\ volume = "there" => \E c \in Call : work[c] = "done"

(* The sidecar makes one call at a time.                                   *)
Alone ==
  \A c, d \in Call : c # d => at[c] \in {"start", "end"} \/ at[d] \in {"start", "end"}

(* A connection that is not there has missed the agent.                    *)
Blamed ==
  \A c \in Call :
    /\ chan[c] = "connecting" /\ process = "down" => c \in lost
    /\ chan[c] = "failure" => c \in lost
    /\ stream[c].is = "broken" => c \in lost

(* As long as no deadline has passed, nothing is under way but the call    *)
(* that is made, and what it has been told is so.                          *)
Undisturbed ==
  deadlines = 0 =>
    /\ \A c \in Call : at[c] = "end" => stream[c].is = "none"
    /\ \A c \in Call : stream[c].is = "replied" /\ stream[c].says = "absent" =>
         volume = "absent" \/ c \in unlisted
    /\ \A c \in Call : at[c] = "change" /\ work[c] # "done" => volume = "absent" \/ c \in unlisted
    /\ \A c \in Call : work[c] = "done" => volume = "there"
    /\ \A c, d \in Call \ unlisted : work[c] = "done" /\ work[d] = "done" => c = d

IInv == TypeOK /\ Phases /\ Streams /\ Alone /\ Blamed /\ UnavailableBlamed /\ Undisturbed

-----------------------------------------------------------------------------
LEMMA InitIInv == Init => IInv
  BY AgentRpcAssumption
  DEF Init, IInv, TypeOK, Phases, Streams, Alone, Blamed, UnavailableBlamed, Undisturbed, Idle

(* The end of a call, whatever ends it.                                    *)
LEMMA EndsKeep ==
  ASSUME IInv, NEW c \in Call, NEW t, Ends(c, t),
         at[c] \in {"connect", "list", "change"},
         t \in {"done", "unavailable", "deadline", "error"},
         \/ stream' = [stream EXCEPT ![c] = Idle]
         \/ UNCHANGED stream /\ t # "done"
            /\ (stream[c].is = "none" \/ deadlines' # 0) /\ stream[c].is \notin {"replied"},
         t = "unavailable" => c \in lost,
         UNCHANGED <<agent, lost, unlisted>>,
         deadlines' \in 0 .. MaxDeadlines, deadlines' = 0 => deadlines = 0
  PROVE  IInv'
<1>1. TypeOK'
  BY DEF IInv, TypeOK, Ends, agent, Idle
<1>2. Phases' /\ Streams'
  BY DEF IInv, TypeOK, Phases, Streams, Ends, agent, Idle
<1>3. Alone' /\ Blamed' /\ UnavailableBlamed'
  BY DEF IInv, TypeOK, Phases, Alone, Blamed, UnavailableBlamed, Ends, agent, Idle
<1>4. Undisturbed'
  BY DEF IInv, TypeOK, Undisturbed, Ends, agent, Idle
<1> QED BY <1>1, <1>2, <1>3, <1>4 DEF IInv

-----------------------------------------------------------------------------
(* The controller's steps.                                                 *)
LEMMA DialKeeps ==
  ASSUME IInv, NEW c \in Call, Dial(c)
  PROVE  IInv'
<1>1. TypeOK' /\ Phases' /\ Streams'
  BY DEF IInv, TypeOK, Phases, Streams, Dial, agent
<1>2. Alone' /\ Blamed' /\ UnavailableBlamed' /\ Undisturbed'
  BY DEF IInv, TypeOK, Phases, Alone, Blamed, UnavailableBlamed, Undisturbed, Dial, agent
<1> QED BY <1>1, <1>2 DEF IInv

LEMMA ConnectKeeps ==
  ASSUME IInv, NEW c \in Call, Connect(c)
  PROVE  IInv'
<1>1. TypeOK' /\ Phases' /\ Streams'
  BY DEF IInv, TypeOK, Phases, Streams, Connect, Stands, agent
<1>2. Alone' /\ Blamed' /\ UnavailableBlamed' /\ Undisturbed'
  BY DEF IInv, TypeOK, Phases, Alone, Blamed, UnavailableBlamed, Undisturbed, Connect, Stands, agent
<1> QED BY <1>1, <1>2 DEF IInv

LEMMA InvokeKeeps ==
  ASSUME IInv, NEW c \in Call, Invoke(c)
  PROVE  IInv'
<1>1. CASE chan[c] = "failure"
  BY <1>1, EndsKeep DEF Invoke, IInv, TypeOK, Blamed, agent
<1>2. CASE chan[c] # "failure"
  <2>1. /\ at[c] \in {"list", "change"} /\ stream[c].is = "none" /\ chan[c] = "ready"
        /\ stream' = [stream EXCEPT ![c] = [rpc |-> Rpc(c), is |-> "sent", says |-> "none"]]
        /\ UNCHANGED <<at, told, chan, work, volume, process, downs, lost, unlisted, deadlines>>
    BY <1>2 DEF Invoke, Idle, agent
  <2>2. Rpc(c) = IF at[c] = "list" THEN "ListVol" ELSE "CreateVol"
    BY DEF Rpc
  <2>3. TypeOK' /\ Phases' /\ Streams'
    BY <2>1, <2>2 DEF IInv, TypeOK, Phases, Streams
  <2>4. Alone' /\ Blamed' /\ UnavailableBlamed' /\ Undisturbed'
    BY <2>1, <2>2 DEF IInv, TypeOK, Alone, Blamed, UnavailableBlamed, Undisturbed
  <2> QED BY <2>3, <2>4 DEF IInv
<1> QED BY <1>1, <1>2

LEMMA RepliedKeeps ==
  ASSUME IInv, NEW c \in Call, Replied(c)
  PROVE  IInv'
<1>1. at[c] \in {"list", "change"}
  BY DEF Replied, IInv, TypeOK, Phases
<1>2. CASE stream[c].says = "absent"
  <2>1. /\ at[c] = "list" /\ stream[c].is = "replied"
        /\ at' = [at EXCEPT ![c] = "change"]
        /\ stream' = [stream EXCEPT ![c] = Idle]
        /\ UNCHANGED <<told, chan, work, volume, process, downs, lost, unlisted, deadlines>>
    BY <1>1, <1>2 DEF Replied, Stands, agent, IInv, TypeOK, Phases, Streams
  <2>2. TypeOK' /\ Phases' /\ Streams'
    BY <2>1 DEF IInv, TypeOK, Phases, Streams, Idle
  <2>3. Alone' /\ Blamed' /\ UnavailableBlamed' /\ Undisturbed'
    BY <2>1, <1>2 DEF IInv, TypeOK, Phases, Alone, Blamed, UnavailableBlamed, Undisturbed, Idle
  <2> QED BY <2>2, <2>3 DEF IInv
<1>3. CASE stream[c].says # "absent"
  <2>1. PICK t \in {"error", "done"} : Ends(c, t)
    BY <1>3 DEF Replied
  <2> QED BY <1>1, <2>1, EndsKeep DEF Replied, IInv, TypeOK, agent
<1> QED BY <1>2, <1>3

LEMMA BrokenKeeps ==
  ASSUME IInv, NEW c \in Call, Broken(c)
  PROVE  IInv'
<1>1. at[c] \in {"connect", "list", "change"} /\ c \in lost /\ deadlines \in 0 .. MaxDeadlines
  BY DEF Broken, IInv, TypeOK, Phases, Blamed
<1>2. /\ Ends(c, "unavailable") /\ stream' = [stream EXCEPT ![c] = Idle]
      /\ UNCHANGED <<agent, lost, unlisted, deadlines>>
  BY DEF Broken
<1> QED BY <1>1, <1>2, EndsKeep

LEMMA DeadlineKeeps ==
  ASSUME IInv, NEW c \in Call, Deadline(c)
  PROVE  IInv'
<1>1. deadlines' \in 0 .. MaxDeadlines /\ deadlines' # 0
  BY AgentRpcAssumption DEF Deadline, IInv, TypeOK
<1>2. CASE stream[c].is \in {"sent", "handled"}
  <2>1. stream' = stream
    BY <1>2 DEF Deadline, IInv, TypeOK
  <2> QED BY <1>1, <1>2, <2>1, EndsKeep DEF Deadline
<1>3. CASE stream[c].is \notin {"sent", "handled"}
  <2>1. stream' = [stream EXCEPT ![c] = Idle]
    BY <1>3 DEF Deadline, IInv, TypeOK
  <2> QED BY <1>1, <2>1, EndsKeep DEF Deadline
<1> QED BY <1>2, <1>3

-----------------------------------------------------------------------------
(* The agent's steps.                                                      *)
LEMMA HandleKeeps ==
  ASSUME IInv, NEW c \in Call, Handle(c)
  PROVE  IInv'
<1>1. TypeOK'
  <2>1. stream' = [stream EXCEPT ![c] = [@ EXCEPT !.is = "handled"]]
    BY DEF Handle
  <2>2. stream' \in [Call -> [rpc : {"none", "ListVol", "CreateVol"},
                              is : {"none", "sent", "handled", "replied", "broken"},
                              says : {"none", "absent", "there", "ok", "error"}]]
    BY <2>1 DEF IInv, TypeOK
  <2>3. work' \in [Call -> {"none", "begun", "done", "dropped"}]
    BY DEF IInv, TypeOK, Handle
  <2> QED BY <2>2, <2>3 DEF IInv, TypeOK, Handle
<1>2. Phases' /\ Streams'
  BY DEF IInv, TypeOK, Phases, Streams, Handle
<1>3. Alone' /\ Blamed' /\ UnavailableBlamed' /\ Undisturbed'
  BY DEF IInv, TypeOK, Phases, Streams, Alone, Blamed, UnavailableBlamed, Undisturbed, Handle
<1> QED BY <1>1, <1>2, <1>3 DEF IInv

(* The answer to a ListVol.                                                *)
LEMMA ListedKeeps ==
  ASSUME IInv, NEW c \in Call, Finish(c), stream[c].rpc = "ListVol"
  PROVE  IInv'
<1>1. PICK a \in {"there", "absent", "error"} :
        /\ Says(c, a)
        /\ a = "there" => volume = "there"
        /\ a = "absent" => volume = "absent" \/ c \in unlisted'
  BY DEF Finish, IInv, TypeOK
<1>2. /\ UNCHANGED <<at, told, chan, work, volume, process, downs, lost, deadlines>>
      /\ stream[c].is = "handled"
      /\ unlisted' \in {unlisted, unlisted \cup {c}}
  BY DEF Finish
<1>3. TypeOK'
  <2>1. stream' = [stream EXCEPT ![c] =
                     IF at[c] = "end" THEN [rpc |-> "none", is |-> "none", says |-> "none"]
                     ELSE [rpc |-> stream[c].rpc, is |-> "replied", says |-> a]]
    BY <1>1 DEF Says, Idle
  <2> QED BY <1>2, <2>1 DEF IInv, TypeOK
<1>4. Phases' /\ Streams'
  BY <1>1, <1>2 DEF IInv, TypeOK, Phases, Streams, Says, Idle
<1>5. Alone' /\ Blamed' /\ UnavailableBlamed'
  BY <1>1, <1>2 DEF IInv, TypeOK, Alone, Blamed, UnavailableBlamed, Says, Idle
<1>6. Undisturbed'
  BY <1>1, <1>2 DEF IInv, TypeOK, Undisturbed, Says, Idle
<1> QED BY <1>3, <1>4, <1>5, <1>6 DEF IInv

(* And to a CreateVol.                                                     *)
LEMMA ChangedKeeps ==
  ASSUME IInv, NEW c \in Call, Finish(c), stream[c].rpc # "ListVol"
  PROVE  IInv'
<1>1. PICK a \in {"ok", "error"} :
        /\ Says(c, a)
        /\ work' = [work EXCEPT ![c] = IF a = "ok" THEN "done" ELSE "dropped"]
        /\ volume' = IF a = "ok" THEN "there" ELSE volume
  BY DEF Finish
<1>2. /\ UNCHANGED <<at, told, chan, process, downs, lost, unlisted, deadlines>>
      /\ stream[c].is = "handled" /\ stream[c].rpc = "CreateVol" /\ work[c] = "begun"
      /\ at[c] \in {"change", "end"}
  BY DEF Finish, IInv, TypeOK, Phases, Streams
<1>3. TypeOK'
  BY <1>1, <1>2 DEF IInv, TypeOK, Says, Idle
<1>4. Phases'
  BY <1>1, <1>2 DEF IInv, TypeOK, Phases, Says, Idle
<1>5. Streams'
  BY <1>1, <1>2 DEF IInv, TypeOK, Streams, Says, Idle
<1>6. Alone' /\ Blamed' /\ UnavailableBlamed'
  BY <1>1, <1>2 DEF IInv, TypeOK, Alone, Blamed, UnavailableBlamed, Says, Idle
<1>7. Undisturbed'
  BY <1>1, <1>2 DEF IInv, TypeOK, Phases, Streams, Alone, Undisturbed, Says, Idle
<1> QED BY <1>3, <1>4, <1>5, <1>6, <1>7 DEF IInv

-----------------------------------------------------------------------------
(* The channel's steps, and the process's.                                 *)
LEMMA ChannelKeeps ==
  ASSUME IInv, NEW c \in Call, Dialled(c) \/ Redialled(c)
  PROVE  IInv'
<1>1. TypeOK'
  <2>1. PICK s \in {"ready", "failure", "connecting"} : chan' = [chan EXCEPT ![c] = s]
    BY DEF Dialled, Redialled
  <2>2. UNCHANGED <<at, told, stream, agent, lost, unlisted, deadlines>>
    BY DEF Dialled, Redialled
  <2>3. at[c] # "end"
    BY DEF Dialled, Redialled, IInv, TypeOK
  <2>4. /\ chan' \in [Call -> {"none", "connecting", "ready", "failure", "closed"}]
        /\ \A d \in Call : at[d] = "end" => chan'[d] \in {"none", "closed"}
    BY <2>1, <2>3 DEF IInv, TypeOK
  <2> QED BY <2>2, <2>4 DEF IInv, TypeOK, agent
<1>2. Phases'
  BY DEF IInv, TypeOK, Phases, Dialled, Redialled, agent
<1>3. Streams'
  BY DEF IInv, TypeOK, Streams, Dialled, Redialled, agent
<1>4. Alone' /\ Undisturbed'
  BY DEF IInv, TypeOK, Alone, Undisturbed, Dialled, Redialled, agent
<1>5. Blamed' /\ UnavailableBlamed'
  BY DEF IInv, TypeOK, Blamed, UnavailableBlamed, Dialled, Redialled, agent
<1> QED BY <1>1, <1>2, <1>3, <1>4, <1>5 DEF IInv

LEMMA AgentDownKeeps ==
  ASSUME IInv, AgentDown
  PROVE  IInv'
<1>1. \A c \in Call :
        /\ stream[c].is = "none" \/ at[c] = "end" =>
             stream'[c] = [rpc |-> "none", is |-> "none", says |-> "none"]
        /\ stream[c].is # "none" /\ at[c] # "end" =>
             stream'[c] = [rpc |-> stream[c].rpc, is |-> "broken", says |-> "none"]
  BY DEF AgentDown, Idle
<1>2. /\ process' = "down" /\ downs' = downs + 1 /\ downs < MaxDowns
      /\ chan' = [c \in Call |-> IF chan[c] = "ready" THEN "connecting" ELSE chan[c]]
      /\ work' = [c \in Call |-> IF work[c] = "begun" THEN "dropped" ELSE work[c]]
      /\ lost' = lost \cup {c \in Call : chan[c] \notin {"none", "closed"}}
      /\ UNCHANGED <<at, told, volume, unlisted, deadlines>>
  BY DEF AgentDown
<1>3. TypeOK'
  <2>1. downs' \in 0 .. MaxDowns
    BY <1>2, AgentRpcAssumption DEF IInv, TypeOK
  <2>2. stream' \in [Call -> [rpc : {"none", "ListVol", "CreateVol"},
                              is : {"none", "sent", "handled", "replied", "broken"},
                              says : {"none", "absent", "there", "ok", "error"}]]
    <3>1. stream' = [c \in Call |-> stream'[c]]
      BY DEF AgentDown
    <3>2. \A c \in Call : stream[c].rpc \in {"none", "ListVol", "CreateVol"}
      BY DEF IInv, TypeOK
    <3> QED BY <1>1, <3>1, <3>2
  <2> QED BY <1>2, <2>1, <2>2 DEF IInv, TypeOK
<1>4. \A c \in Call :
        /\ stream[c].is = "none" \/ at[c] = "end" => stream'[c].is = "none"
        /\ stream[c].is # "none" /\ at[c] # "end" =>
             stream'[c].is = "broken" /\ stream'[c].rpc = stream[c].rpc
        /\ chan[c] = "ready" => chan'[c] = "connecting"
        /\ chan[c] # "ready" => chan'[c] = chan[c]
        /\ work[c] = "begun" => work'[c] = "dropped"
        /\ work[c] # "begun" => work'[c] = work[c]
        /\ chan[c] \notin {"none", "closed"} => c \in lost'
        /\ c \in lost => c \in lost'
  <2>1. \A c \in Call : stream[c].is = "none" \/ at[c] = "end" => stream'[c].is = "none"
    BY <1>1, <1>3 DEF TypeOK
  <2>2. \A c \in Call : stream[c].is # "none" /\ at[c] # "end" =>
          stream'[c].is = "broken" /\ stream'[c].rpc = stream[c].rpc
    BY <1>1, <1>3 DEF IInv, TypeOK
  <2> QED BY <1>2, <2>1, <2>2
<1>5. Phases'
  BY <1>2, <1>4 DEF IInv, Phases
<1>6. Streams'
  BY <1>2, <1>4 DEF IInv, Streams
<1>7. Alone' /\ UnavailableBlamed'
  BY <1>2 DEF IInv, TypeOK, Alone, UnavailableBlamed
<1>8. Blamed'
  <2>1. \A c \in Call : stream'[c].is = "broken" => at[c] \in {"list", "change"}
    BY <1>4 DEF IInv, TypeOK, Phases
  <2> QED BY <1>4, <2>1 DEF IInv, Phases, Blamed
<1>9. Undisturbed'
  BY <1>2, <1>4 DEF IInv, Undisturbed
<1> QED BY <1>3, <1>5, <1>6, <1>7, <1>8, <1>9 DEF IInv

LEMMA AgentUpKeeps ==
  ASSUME IInv, AgentUp
  PROVE  IInv'
  BY DEF IInv, TypeOK, Phases, Streams, Alone, Blamed, UnavailableBlamed, Undisturbed, AgentUp

LEMMA NextIInv ==
  ASSUME IInv, [Next]_vars
  PROVE  IInv'
<1>1. CASE UNCHANGED vars
  BY <1>1 DEF vars, IInv, TypeOK, Phases, Streams, Alone, Blamed, UnavailableBlamed, Undisturbed
<1>2. ASSUME NEW c \in Call, Client(c)
      PROVE  IInv'
  BY <1>2, DialKeeps, ConnectKeeps, InvokeKeeps, RepliedKeeps, BrokenKeeps DEF Client
<1>3. ASSUME NEW c \in Call, Deadline(c) \/ Handle(c)
      PROVE  IInv'
  BY <1>3, DeadlineKeeps, HandleKeeps
<1>4. ASSUME NEW c \in Call, Finish(c)
      PROVE  IInv'
  BY <1>4, ListedKeeps, ChangedKeeps
<1>5. ASSUME NEW c \in Call, Dialled(c) \/ Redialled(c)
      PROVE  IInv'
  BY <1>5, ChannelKeeps
<1> QED BY <1>1, <1>2, <1>3, <1>4, <1>5, AgentDownKeeps, AgentUpKeeps DEF Next

-----------------------------------------------------------------------------
(* Whatever connections break, agents restart and deadlines pass, in every *)
(* reachable state a call's place, connection, stream and change agree.    *)
THEOREM Invariance == Spec => []IInv
  BY InitIInv, NextIInv, PTL DEF Spec

(* The variables keep their types, and a call that has ended has closed    *)
(* its connection (the deferred Close of controller.go).                   *)
THEOREM TypeCorrect == Spec => []TypeOK
<1>1. IInv => TypeOK
  BY DEF IInv
<1> QED BY <1>1, Invariance, PTL

(* A call fails as unavailable only if the agent was down since the call   *)
(* made its connection, though connect (client/grpc.go:110) returns one    *)
(* that is not ready.                                                      *)
THEOREM OnlyTheLostFail == Spec => []UnavailableBlamed
<1>1. IInv => UnavailableBlamed
  BY DEF IInv
<1> QED BY <1>1, Invariance, PTL

(* As long as no deadline passes, of the calls for one volume that were    *)
(* shown what their group holds one makes it at most: GetVolume shows the  *)
(* others what it did.                                                     *)
THEOREM MadeAtMostOnce == Spec => []MadeOnce
<1>1. ASSUME IInv, deadlines = 0
      PROVE  ~(Cardinality({c \in Call \ unlisted : work[c] = "done"}) > 1)
  <2> DEFINE S == {c \in Call \ unlisted : work[c] = "done"}
  <2>1. CASE S = {}
    BY <2>1, FS_EmptySet
  <2>2. CASE S # {}
    <3>1. PICK c \in S : S = {c}
      BY <1>1, <2>2 DEF IInv, Undisturbed
    <3>2. Cardinality({c}) = 1
      BY FS_Singleton
    <3> QED BY <3>1, <3>2
  <2> QED BY <2>1, <2>2
<1>2. IInv => MadeOnce
  BY <1>1 DEF IInv, TypeOK, MadeOnce
<1> QED BY <1>2, Invariance, PTL

-----------------------------------------------------------------------------
(* The refinement.  What a call's caller was told stands for the outcome   *)
(* the abstract specification tells it.                                    *)
LEMMA OutcomeOf ==
  ASSUME IInv, NEW c \in Call
  PROVE  /\ told[c] = "waits" => Outcome[c] = "waits"
         /\ told[c] = "done" /\ work[c] = "none" => Outcome[c] = "needless"
         /\ told[c] = "done" /\ work[c] # "none" => Outcome[c] = "done"
         /\ told[c] \notin {"waits", "done"} => Outcome[c] = "failed"
  BY DEF Outcome

(* Steps that tell nobody anything keep every outcome.                     *)
LEMMA OutcomeKept ==
  ASSUME IInv, UNCHANGED told,
         \A c \in Call : told[c] = "done" => (work'[c] = "none" <=> work[c] = "none")
  PROVE  Outcome' = Outcome
  BY DEF Outcome

(* The end of a call tells its caller.                                     *)
LEMMA EndTells ==
  ASSUME IInv, NEW c \in Call, NEW t \in {"done", "unavailable", "deadline", "error"},
         Ends(c, t), at[c] # "end", UNCHANGED work,
         t = "done" => \/ work[c] = "done"
                       \/ work[c] = "none" /\ \E d \in Call : work[d] = "done"
  PROVE  Once!Tell(c)
<1> DEFINE o == IF t # "done" THEN "failed" ELSE IF work[c] = "none" THEN "needless" ELSE "done"
<1>1. told[c] = "waits" /\ Outcome[c] = "waits"
  BY OutcomeOf DEF IInv, TypeOK
<1>2. Outcome' = [Outcome EXCEPT ![c] = o]
  <2>1. /\ told' = [told EXCEPT ![c] = t] /\ told \in [Call -> {"waits", "done",
               "unavailable", "deadline", "error"}]
    BY DEF Ends, IInv, TypeOK
  <2>2. told'[c] = t /\ \A d \in Call \ {c} : told'[d] = told[d]
    BY <2>1
  <2> QED BY <2>2 DEF Outcome
<1>3. /\ o \in {"done", "needless", "failed"}
      /\ o = "done" => work[c] = "done"
      /\ o = "needless" => \E d \in Call \ {c} : work[d] = "done"
  OBVIOUS
<1> HIDE DEF o
<1> QED BY <1>1, <1>2, <1>3 DEF Once!Tell

LEMMA StepImplements ==
  ASSUME IInv, [Next]_vars
  PROVE  [Once!Next]_<<work, Outcome>>
<1>1. CASE UNCHANGED vars
  BY <1>1 DEF vars, Outcome
<1>2. ASSUME NEW c \in Call, Dial(c) \/ Connect(c) \/ Dialled(c) \/ Redialled(c)
      PROVE  UNCHANGED <<work, Outcome>>
  BY <1>2, OutcomeKept DEF Dial, Connect, Stands, Dialled, Redialled, agent
<1>3. ASSUME NEW c \in Call, Invoke(c)
      PROVE  Once!Tell(c) \/ UNCHANGED <<work, Outcome>>
  <2>1. CASE chan[c] = "failure"
    BY <1>3, <2>1, EndTells DEF Invoke, agent
  <2>2. CASE chan[c] # "failure"
    BY <1>3, <2>2, OutcomeKept DEF Invoke, agent
  <2> QED BY <2>1, <2>2
<1>4. ASSUME NEW c \in Call, Replied(c)
      PROVE  Once!Tell(c) \/ UNCHANGED <<work, Outcome>>
  <2>1. CASE stream[c].says = "absent"
    BY <1>4, <2>1, OutcomeKept DEF Replied, Stands, agent
  <2>2. CASE stream[c].says = "error"
    BY <1>4, <2>2, EndTells DEF Replied, agent
  <2>3. CASE stream[c].says \notin {"absent", "error"}
    <3>1. Ends(c, "done") /\ at[c] # "end" /\ UNCHANGED work
      BY <1>4, <2>3 DEF Replied, agent
    <3>2. at[c] \in {"list", "change"}
      BY <1>4 DEF Replied, IInv, TypeOK, Phases
    <3>3. \/ work[c] = "done"
          \/ work[c] = "none" /\ \E d \in Call : work[d] = "done"
      BY <1>4, <2>3, <3>2 DEF Replied, IInv, Phases, Streams
    <3> QED BY <3>1, <3>3, EndTells
  <2> QED BY <2>1, <2>2, <2>3
<1>5. ASSUME NEW c \in Call, Broken(c) \/ Deadline(c)
      PROVE  Once!Tell(c)
  BY <1>5, EndTells DEF Broken, Deadline, agent
<1>6. ASSUME NEW c \in Call, Handle(c)
      PROVE  Once!Begin(c) \/ UNCHANGED <<work, Outcome>>
  <2>1. told[c] # "done"
    BY <1>6 DEF Handle, IInv, Phases
  <2>2. CASE stream[c].rpc = "CreateVol"
    <3>1. work[c] = "none" /\ work' = [work EXCEPT ![c] = "begun"] /\ UNCHANGED told
      BY <1>6, <2>2 DEF Handle, IInv, Streams
    <3>2. Outcome' = Outcome
      BY <2>1, <3>1, OutcomeKept DEF IInv, TypeOK
    <3> QED BY <3>1, <3>2 DEF Once!Begin
  <2>3. CASE stream[c].rpc # "CreateVol"
    BY <1>6, <2>3, OutcomeKept DEF Handle
  <2> QED BY <2>2, <2>3
<1>7. ASSUME NEW c \in Call, Finish(c)
      PROVE  Once!End(c) \/ UNCHANGED <<work, Outcome>>
  <2>1. told[c] # "done" /\ UNCHANGED told
    BY <1>7 DEF Finish, IInv, Phases
  <2>2. CASE stream[c].rpc = "ListVol"
    BY <1>7, <2>1, <2>2, OutcomeKept DEF Finish
  <2>3. CASE stream[c].rpc # "ListVol"
    <3>1. /\ work[c] = "begun"
          /\ \E e \in {"done", "dropped"} : work' = [work EXCEPT ![c] = e]
      BY <1>7, <2>3 DEF Finish, IInv, Streams
    <3>2. Outcome' = Outcome
      BY <2>1, <3>1, OutcomeKept DEF IInv, TypeOK
    <3> QED BY <3>1, <3>2 DEF Once!End
  <2> QED BY <2>2, <2>3
<1>8. ASSUME AgentDown
      PROVE  Once!Fall
  <2>1. work' = [c \in Call |-> IF work[c] = "begun" THEN "dropped" ELSE work[c]] /\ UNCHANGED told
    BY <1>8 DEF AgentDown
  <2>2. \A c \in Call : work'[c] = "none" <=> work[c] = "none"
    BY <2>1
  <2>3. Outcome' = Outcome
    BY <2>1, <2>2, OutcomeKept
  <2> QED BY <2>1, <2>3 DEF Once!Fall
<1>9. ASSUME AgentUp
      PROVE  UNCHANGED <<work, Outcome>>
  BY <1>9, OutcomeKept DEF AgentUp
<1> QED
  BY <1>1, <1>2, <1>3, <1>4, <1>5, <1>6, <1>7, <1>8, <1>9 DEF Next, Client, Once!Next

(* Calls to make a volume implement what CallOnce promises of them: none   *)
(* makes it twice, whatever is lost, and what a caller is told is so.      *)
THEOREM Implements == Spec => ImplementsCallOnce
<1>1. Init => Once!Init
  BY DEF Init, Once!Init, Outcome
<1>2. IInv /\ [Next]_vars => [Once!Next]_<<work, Outcome>>
  BY StepImplements
<1> QED BY <1>1, <1>2, Invariance, PTL DEF Spec, ImplementsCallOnce, Once!Spec, Once!vars

=============================================================================
