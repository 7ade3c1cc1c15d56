------------------------- MODULE VolumeServerHistory -------------------------
(***************************************************************************)
(* VolumeServer with what an observer remembers of each call: what was     *)
(* there all the time the call was looking.  It states what an answered    *)
(* copy and an answered listing hold, and relates the server to            *)
(* VolumeRegistry, what its callers rely on.                               *)
(***************************************************************************)
EXTENDS VolumeServerInvariant

VARIABLE kept  \* a copy's source files, or a listing's volumes, that stayed

hvars == <<dir, mp, data, meta, text, pc, arg, got, fd, todo, found, faults, kept>>

(* ExpandVol takes the metadata away and puts it back: in between, its     *)
(* volume is the one it has read.                                          *)
MidExpand(r, v) ==
  arg[r].op = "expand" /\ arg[r].vol = v /\ pc[r] \in {"open", "write"}

RegSize(v) ==
  IF \E r \in Req : MidExpand(r, v) THEN got[CHOOSE r \in Req : MidExpand(r, v)]
  ELSE IF Parsable(v) THEN text[meta[v]].obj.size
  ELSE None

Seen(r) ==
  CASE arg[r].op \in Copies -> data[arg[r].src]
    [] arg[r].op = "list" -> {v \in Vol : RegSize(v) # None}
    [] OTHER -> {}

(* filepath.Walk reaches a file that is gone, and stops: the files it had  *)
(* not reached are passed over too.                                        *)
WalkStops(r) ==
  /\ pc[r] = "copy" /\ pc'[r] = "copy"
  /\ \E f \in todo[r] \ todo'[r] : todo[r] \ todo'[r] # {f}

Observe ==
  kept' = [r \in Req |-> IF pc[r] = "idle" THEN Seen(r)'
                         ELSE IF WalkStops(r) THEN {}
                         ELSE IF Active(r) THEN kept[r] \cap Seen(r)'
                         ELSE kept[r]]

HInit == Init /\ kept = [r \in Req |-> {}]
HNext == Next /\ Observe
HSpec == HInit /\ [][HNext]_hvars

(* "copy data to dest mountpoint" (hostpath_commands.go:165, 264): when    *)
(* CloneVol or CreateSnapshot succeeds, every file that was in the source  *)
(* from the call to its answer is in the copy, whatever else pods wrote    *)
(* and deleted, unless the walk met a file that was deleted before it.     *)
CopyIsComplete ==
  [][\A r \in Req :
       arg[r].op \in Copies /\ pc[r] = "write" /\ pc'[r] = "ok"
         => kept[r] \subseteq data'[arg[r].vol]]_hvars

(* ListVol that succeeds shows every volume that existed from the call to  *)
(* its answer, those being expanded too: the controller takes a name that  *)
(* is not listed for one to create, or one already deleted.                *)
ListNeverOmits ==
  \A r \in Req : arg[r].op = "list" /\ pc[r] = "ok" => kept[r] \subseteq found[r]

Registry == INSTANCE VolumeRegistry WITH
  reg   <- [v \in Vol |-> RegSize(v)],
  calls <- [r \in Req |-> IF Active(r) THEN "open" ELSE pc[r]],
  want  <- arg,
  seen  <- got

(* The many steps of the handlers of pkg/server amount to a register of    *)
(* volumes: nothing half-made or half-expanded is ever seen as a volume,   *)
(* and a volume goes only by its removal or by a crash within its          *)
(* expansion.                                                              *)
ImplementsRegistry == Registry!RegSpec

-----------------------------------------------------------------------------
(* The inductive invariant of the history.                                 *)

(* What a listing, or a copy, still owes of what has stayed, is ahead.     *)
ListKeeps(r) ==
  arg[r].op = "list" =>
    /\ pc[r] = "getmeta" => kept[r] \subseteq todo[r] \cup found[r]
    /\ pc[r] = "ok" => kept[r] \subseteq found[r]

CopyKeeps(r) ==
  arg[r].op \in Copies =>
    /\ pc[r] = "copy" => kept[r] \subseteq todo[r] \cup data[arg[r].vol]
    /\ pc[r] \in {"open", "write"} => kept[r] \subseteq data[arg[r].vol]

Remembered == \A r \in Req : ListKeeps(r) /\ CopyKeeps(r)

HInv == IInv /\ Serial /\ Remembered

=============================================================================
