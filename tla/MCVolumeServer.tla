--------------------------- MODULE MCVolumeServer ---------------------------
(* Instances of VolumeServer, with its inductive invariant, for TLC.       *)
EXTENDS VolumeServerInvariant, TLC

(* Two sizes whose texts have different lengths: as 9Gi and 10Gi have.     *)
MCTextLen == [z \in Size |-> z]

Symmetry == Permutations(Vol) \cup Permutations(Req) \cup Permutations(File)

=============================================================================
