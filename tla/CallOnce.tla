-------------------------------- MODULE CallOnce --------------------------------
(***************************************************************************)
(* What the calls that make a volume promise their callers: the change of  *)
(* each is begun at most once, one that is said to be done is done, one    *)
(* that is said to have been needless was another's.  One that is said to  *)
(* have failed may be done, and may still come to be done.                 *)
(***************************************************************************)
CONSTANT Call

VARIABLES change, told

vars == <<change, told>>

Init ==
  /\ change = [c \in Call |-> "none"]
  /\ told = [c \in Call |-> "waits"]

Begin(c) ==
  /\ change[c] = "none"
  /\ change' = [change EXCEPT ![c] = "begun"] /\ UNCHANGED told

End(c) ==
  /\ change[c] = "begun"
  /\ \E e \in {"done", "dropped"} : change' = [change EXCEPT ![c] = e]
  /\ UNCHANGED told

(* The server falls, with all it has begun.                                *)
Fall ==
  /\ change' = [c \in Call |-> IF change[c] = "begun" THEN "dropped" ELSE change[c]]
  /\ UNCHANGED told

Tell(c) ==
  /\ told[c] = "waits"
  /\ \E t \in {"done", "needless", "failed"} :
       /\ t = "done" => change[c] = "done"
       /\ t = "needless" => \E d \in Call \ {c} : change[d] = "done"
       /\ told' = [told EXCEPT ![c] = t]
  /\ UNCHANGED change

Next == Fall \/ \E c \in Call : Begin(c) \/ End(c) \/ Tell(c)

Spec == Init /\ [][Next]_vars
=============================================================================
