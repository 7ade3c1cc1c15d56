---------------------------- MODULE VolumeRegistry ----------------------------
(***************************************************************************)
(* What the volume server of pkg/server promises the code that calls it,   *)
(* while no two calls change one name at a time: a register of volumes and *)
(* their sizes in which a call takes effect at one instant between its     *)
(* invocation and its answer.  An agent that dies answers nothing; the     *)
(* only volume that may vanish with it is one it was expanding.            *)
(***************************************************************************)
CONSTANTS Vol, Size, Req, None

VARIABLES
  reg,    \* the size of each volume, None for a name that is not taken
  calls,  \* the state of each call
  want,   \* its arguments
  seen    \* the size a copy or an expansion found its volume to have

rvars == <<reg, calls, want, seen>>

RegInit ==
  /\ reg \in [Vol -> Size \cup {None}]
  /\ calls = [r \in Req |-> "idle"]
  /\ want = [r \in Req |-> [op |-> None, vol |-> None, src |-> None, size |-> None]]
  /\ seen = [r \in Req |-> None]

(* What a call may ask for.                                                *)
Calls ==
       {[op |-> "create", vol |-> v, src |-> None, size |-> z] : v \in Vol, z \in Size}
  \cup {[op |-> o, vol |-> v, src |-> s, size |-> None] :
          o \in {"clone", "snapshot"}, v \in Vol, s \in Vol}
  \cup {[op |-> "expand", vol |-> v, src |-> None, size |-> z] : v \in Vol, z \in Size}
  \cup {[op |-> "remove", vol |-> v, src |-> None, size |-> None] : v \in Vol}
  \cup {[op |-> "list", vol |-> None, src |-> None, size |-> None]}

Invoke(r) ==
  /\ calls[r] = "idle"
  /\ calls' = [calls EXCEPT ![r] = "open"]
  /\ \E a \in Calls : want' = [want EXCEPT ![r] = a]
  /\ UNCHANGED <<reg, seen>>

Answer(r, a) == calls[r] = "open" /\ calls' = [calls EXCEPT ![r] = a]

(* A copy looks at its source, an expansion at its volume.                 *)
Look(r) ==
  LET v == IF want[r].op = "expand" THEN want[r].vol ELSE want[r].src IN
  /\ calls[r] = "open"
  /\ want[r].op \in {"clone", "snapshot", "expand"}
  /\ seen[r] = None
  /\ reg[v] # None
  /\ seen' = [seen EXCEPT ![r] = reg[v]]
  /\ UNCHANGED <<reg, calls, want>>

Created(r) ==
  /\ Answer(r, "ok")
  /\ want[r].op = "create"
  /\ reg[want[r].vol] = None
  /\ reg' = [reg EXCEPT ![want[r].vol] = want[r].size]
  /\ UNCHANGED <<want, seen>>

Copied(r) ==
  /\ Answer(r, "ok")
  /\ want[r].op \in {"clone", "snapshot"}
  /\ seen[r] # None
  /\ reg[want[r].vol] = None
  /\ reg' = [reg EXCEPT ![want[r].vol] = seen[r]]
  /\ UNCHANGED <<want, seen>>

Expanded(r) ==
  /\ Answer(r, "ok")
  /\ want[r].op = "expand"
  /\ seen[r] # None
  /\ reg[want[r].vol] # None
  /\ reg' = [reg EXCEPT ![want[r].vol] = want[r].size]
  /\ UNCHANGED <<want, seen>>

(* A removal takes effect first and is answered later.                     *)
Removed(r) ==
  /\ calls[r] = "open"
  /\ want[r].op = "remove"
  /\ reg' = [reg EXCEPT ![want[r].vol] = None]
  /\ UNCHANGED <<calls, want, seen>>

RemoveAnswered(r) ==
  /\ Answer(r, "ok")
  /\ want[r].op = "remove"
  /\ reg[want[r].vol] = None
  /\ UNCHANGED <<reg, want, seen>>

Listed(r) ==
  /\ Answer(r, "ok")
  /\ want[r].op = "list"
  /\ UNCHANGED <<reg, want, seen>>

(* A refused call has changed nothing.                                     *)
Refused(r) ==
  /\ Answer(r, "err")
  /\ UNCHANGED <<reg, want, seen>>

AgentDies ==
  /\ calls' = [r \in Req |-> IF calls[r] = "open" THEN "dead" ELSE calls[r]]
  /\ \E lost \in SUBSET {want[r].vol : r \in {q \in Req : /\ calls[q] = "open"
                                                          /\ want[q].op = "expand"
                                                          /\ seen[q] # None}} :
       reg' = [v \in Vol |-> IF v \in lost THEN None ELSE reg[v]]
  /\ UNCHANGED <<want, seen>>

RegNext ==
  \/ \E r \in Req :
       \/ Invoke(r) \/ Look(r)
       \/ Created(r) \/ Copied(r) \/ Expanded(r)
       \/ Removed(r) \/ RemoveAnswered(r)
       \/ Listed(r) \/ Refused(r)
  \/ AgentDies

RegSpec == RegInit /\ [][RegNext]_rvars

=============================================================================
