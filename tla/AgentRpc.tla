-------------------------------- MODULE AgentRpc --------------------------------
(***************************************************************************)
(* A CSI call's calls to an agent: getNodeConn makes a connection for it   *)
(* (src/pkg/client/grpc.go), GetVolume lists over it and, unless what is   *)
(* to be done is done, a second call changes; the generated stubs and      *)
(* handlers of src/pkg/lib/vol_grpc.pb.go carry both.  grpc-go, whose      *)
(* channel it is, is external.  A call here is one to make one volume.     *)
(***************************************************************************)
EXTENDS FiniteSets, Naturals

CONSTANTS
  Call,         \* calls of one kind for one volume, of a sidecar that tries again
  MaxDowns,     \* bound on the agent's ends
  MaxDeadlines, \* bound on the callers' deadlines that pass
  MaxUnlisted   \* bound on the listings of a group that could not be opened

ASSUME AgentRpcAssumption == MaxDowns \in Nat /\ MaxDeadlines \in Nat /\ MaxUnlisted \in Nat

VARIABLES
  at,     \* where the controller's handler of each call is
  told,   \* what its caller was told
  chan,   \* its connection
  stream, \* of the stub's call under way, and what is left of it
  work,   \* the changes the agent's handlers have begun and done
  volume, \* whether it is there
  process, downs, \* the agent's, and how often it has ended
  lost,   \* auxiliary: the calls during whose connection the agent was down
  unlisted, \* auxiliary: those that were not shown the volume that was there
  deadlines

vars == <<at, told, chan, stream, work, volume, process, downs, lost, unlisted, deadlines>>

Idle == [rpc |-> "none", is |-> "none", says |-> "none"]

TypeOK ==
  /\ at \in [Call -> {"start", "connect", "list", "change", "end"}]
  /\ told \in [Call -> {"waits", "done", "unavailable", "deadline", "error"}]
  /\ chan \in [Call -> {"none", "connecting", "ready", "failure", "closed"}]
  /\ stream \in [Call -> [rpc : {"none", "ListVol", "CreateVol"},
                          is : {"none", "sent", "handled", "replied", "broken"},
                          says : {"none", "absent", "there", "ok", "error"}]]
  /\ work \in [Call -> {"none", "begun", "done", "dropped"}]
  /\ volume \in {"absent", "there"} /\ process \in {"down", "up"}
  /\ downs \in 0 .. MaxDowns /\ deadlines \in 0 .. MaxDeadlines
  /\ lost \subseteq Call /\ unlisted \subseteq Call
  /\ \A c \in Call : at[c] = "end" <=> told[c] # "waits"
  /\ \A c \in Call : at[c] = "end" => chan[c] \in {"none", "closed"}

Init ==
  /\ at = [c \in Call |-> "start"] /\ told = [c \in Call |-> "waits"]
  /\ chan = [c \in Call |-> "none"] /\ stream = [c \in Call |-> Idle]
  /\ work = [c \in Call |-> "none"]
  /\ volume = "absent"
  /\ process \in {"down", "up"} /\ downs = 0 /\ lost = {} /\ unlisted = {}
  /\ deadlines = 0

agent == <<work, volume, process, downs>>

-----------------------------------------------------------------------------
(* The controller's side.                                                  *)
Stands(c, place) == at' = [at EXCEPT ![c] = place] /\ UNCHANGED <<told, chan>>

(* The handler returns, and its deferred Close with it.                    *)
Ends(c, t) ==
  /\ at' = [at EXCEPT ![c] = "end"]
  /\ told' = [told EXCEPT ![c] = t]
  /\ chan' = [chan EXCEPT ![c] = IF @ = "none" THEN "none" ELSE "closed"]

Dial(c) ==
  /\ at[c] = "start" /\ \A d \in Call : at[d] \in {"start", "end"}
  /\ at' = [at EXCEPT ![c] = "connect"]
  /\ chan' = [chan EXCEPT ![c] = "connecting"]
  /\ lost' = IF process = "up" THEN lost ELSE lost \cup {c}
  /\ UNCHANGED <<told, stream, agent, unlisted, deadlines>>

ConnectFails(c) ==           \* a slip: a connection that is not ready is an error
  /\ at[c] = "connect"
  /\ IF chan[c] = "ready" THEN Stands(c, "list") ELSE Ends(c, "unavailable")
  /\ UNCHANGED <<stream, agent, lost, unlisted, deadlines>>

ConnectBlind(c) ==           \* a slip: the volume is made without a look for it
  /\ at[c] = "connect" /\ Stands(c, "change")
  /\ UNCHANGED <<stream, agent, lost, unlisted, deadlines>>

(* connect returns when the connection is ready or its timeout, which is   *)
(* 0, is over: it may be ready or not.                                     *)
Connect(c) ==
  /\ at[c] = "connect" /\ Stands(c, "list")
  /\ UNCHANGED <<stream, agent, lost, unlisted, deadlines>>

Rpc(c) == IF at[c] = "list" THEN "ListVol" ELSE "CreateVol"

InvokeAgain(c) ==            \* a slip: a call whose stream broke is made again
  /\ at[c] \in {"list", "change"}
  /\ stream[c].is \in {"none", "broken"} /\ chan[c] \in {"ready", "failure"}
  /\ IF chan[c] = "failure" THEN Ends(c, "unavailable") /\ UNCHANGED stream
     ELSE /\ stream' = [stream EXCEPT ![c] = [Idle EXCEPT !.rpc = Rpc(c), !.is = "sent"]]
          /\ UNCHANGED <<at, told, chan>>
  /\ UNCHANGED <<agent, lost, unlisted, deadlines>>

InvokeWaits(c) ==            \* a slip: the call option WaitForReady
  /\ at[c] \in {"list", "change"}
  /\ stream[c].is = "none" /\ chan[c] = "ready"
  /\ stream' = [stream EXCEPT ![c] = [Idle EXCEPT !.rpc = Rpc(c), !.is = "sent"]]
  /\ UNCHANGED <<at, told, chan, agent, lost, unlisted, deadlines>>

(* The stubs: Invoke waits for a connection that is being made, and fails  *)
(* at once over one that could not be.                                     *)
Invoke(c) ==
  /\ at[c] \in {"list", "change"}
  /\ stream[c].is = "none" /\ chan[c] \in {"ready", "failure"}
  /\ IF chan[c] = "failure" THEN Ends(c, "unavailable") /\ UNCHANGED stream
     ELSE /\ stream' = [stream EXCEPT ![c] = [Idle EXCEPT !.rpc = Rpc(c), !.is = "sent"]]
          /\ UNCHANGED <<at, told, chan>>
  /\ UNCHANGED <<agent, lost, unlisted, deadlines>>

Replied(c) ==
  /\ at[c] # "end" /\ stream[c].is = "replied"
  /\ stream' = [stream EXCEPT ![c] = Idle]
  /\ CASE stream[c].says = "absent" -> Stands(c, "change")
       [] stream[c].says = "error"  -> Ends(c, "error")
       [] OTHER                     -> Ends(c, "done")
  /\ UNCHANGED <<agent, lost, unlisted, deadlines>>

Broken(c) ==
  /\ at[c] # "end" /\ stream[c].is = "broken"
  /\ stream' = [stream EXCEPT ![c] = Idle]
  /\ Ends(c, "unavailable")
  /\ UNCHANGED <<agent, lost, unlisted, deadlines>>

(* The stream is reset; a handler the agent runs is not stopped by it.     *)
Deadline(c) ==
  /\ at[c] \in {"list", "change"} /\ deadlines < MaxDeadlines
  /\ deadlines' = deadlines + 1
  /\ Ends(c, "deadline")
  /\ stream' = [stream EXCEPT ![c] = IF @.is \in {"sent", "handled"} THEN @ ELSE Idle]
  /\ UNCHANGED <<agent, lost, unlisted>>

-----------------------------------------------------------------------------
(* The agent's side: the generated handlers over server.go.                *)
Handle(c) ==
  /\ stream[c].is = "sent" /\ process = "up"
  /\ stream' = [stream EXCEPT ![c].is = "handled"]
  /\ work' = IF stream[c].rpc = "CreateVol" THEN [work EXCEPT ![c] = "begun"] ELSE work
  /\ UNCHANGED <<at, told, chan, volume, process, downs, lost, unlisted, deadlines>>

Says(c, answer) ==
  stream' = [stream EXCEPT ![c] = IF at[c] = "end" THEN Idle
                                  ELSE [rpc |-> stream[c].rpc, is |-> "replied", says |-> answer]]

(* A group that cannot be opened is listed as empty, and no error.         *)
Finish(c) ==
  /\ stream[c].is = "handled"
  /\ \/ /\ stream[c].rpc = "ListVol"
        /\ \E a \in {volume, "error"} : Says(c, a)
        /\ UNCHANGED <<work, volume, unlisted>>
     \/ /\ stream[c].rpc = "ListVol" /\ volume = "there"
        /\ Cardinality(unlisted) < MaxUnlisted
        /\ Says(c, "absent") /\ unlisted' = unlisted \cup {c}
        /\ UNCHANGED <<work, volume>>
     \/ /\ stream[c].rpc # "ListVol"
        /\ Says(c, "ok") /\ volume' = "there" /\ work' = [work EXCEPT ![c] = "done"]
        /\ UNCHANGED unlisted
     \/ /\ stream[c].rpc # "ListVol"
        /\ Says(c, "error") /\ work' = [work EXCEPT ![c] = "dropped"]
        /\ UNCHANGED <<volume, unlisted>>
  /\ UNCHANGED <<at, told, chan, process, downs, lost, deadlines>>

-----------------------------------------------------------------------------
(* grpc-go's channel, and the agent's process.                             *)
Dialled(c) ==
  /\ chan[c] = "connecting"
  /\ chan' = [chan EXCEPT ![c] = IF process = "up" THEN "ready" ELSE "failure"]
  /\ UNCHANGED <<at, told, stream, agent, lost, unlisted, deadlines>>

Redialled(c) ==
  /\ chan[c] = "failure" /\ process = "up"
  /\ chan' = [chan EXCEPT ![c] = "connecting"]
  /\ UNCHANGED <<at, told, stream, agent, lost, unlisted, deadlines>>

AgentDown ==
  /\ process = "up" /\ downs < MaxDowns
  /\ process' = "down" /\ downs' = downs + 1
  /\ chan' = [c \in Call |-> IF chan[c] = "ready" THEN "connecting" ELSE chan[c]]
  /\ stream' = [c \in Call |-> IF stream[c].is = "none" \/ at[c] = "end" THEN Idle
                              ELSE [rpc |-> stream[c].rpc, is |-> "broken", says |-> "none"]]
  /\ work' = [c \in Call |-> IF work[c] = "begun" THEN "dropped" ELSE work[c]]
  /\ lost' = lost \cup {c \in Call : chan[c] \notin {"none", "closed"}}
  /\ UNCHANGED <<at, told, volume, unlisted, deadlines>>

AgentUp == process = "down" /\ process' = "up" /\ UNCHANGED <<at, told, chan, stream, work, volume, downs, lost, unlisted, deadlines>>

-----------------------------------------------------------------------------
Client(c) == Dial(c) \/ Connect(c) \/ Invoke(c) \/ Replied(c) \/ Broken(c)

Next ==
  \/ \E c \in Call : \/ Client(c) \/ Deadline(c) \/ Handle(c) \/ Finish(c)
                     \/ Dialled(c) \/ Redialled(c)
  \/ AgentDown \/ AgentUp

Spec == Init /\ [][Next]_vars

(* Goroutines run, and a connection attempt comes to an end.               *)
FairSpec ==
  /\ Spec
  /\ \A c \in Call : /\ WF_vars(Client(c)) /\ WF_vars(Handle(c)) /\ WF_vars(Finish(c))
                     /\ WF_vars(Dialled(c))

-----------------------------------------------------------------------------
(* A caller is told the agent is unavailable only if it was down since the *)
(* connection was made, however soon connect gave up waiting for it.       *)
UnavailableBlamed ==
  \A c \in Call : told[c] = "unavailable" => c \in lost

(* Every call ends, without a deadline too: connect's timeout is not       *)
(* needed for that.                                                        *)
CallsEnd == \A c \in Call : at[c] = "start" ~> at[c] = "end"

(* Of the calls for a volume that were not shown an empty list over it,    *)
(* two make it only if a deadline passed: otherwise each sees what the one *)
(* before it did, whatever connections broke.                              *)
MadeOnce ==
  Cardinality({c \in Call \ unlisted : work[c] = "done"}) > 1 => deadlines > 0

Outcome == [c \in Call |->
              CASE told[c] = "waits" -> "waits"
                [] told[c] = "done"  -> IF work[c] = "none" THEN "needless" ELSE "done"
                [] OTHER             -> "failed"]

Once == INSTANCE CallOnce WITH change <- work, told <- Outcome

(* Each call begins its change at most once, is told done when it is, and  *)
(* that there is no need when another has made the volume.                 *)
ImplementsCallOnce == Once!Spec
=============================================================================
