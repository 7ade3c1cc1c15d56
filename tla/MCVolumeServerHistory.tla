------------------------ MODULE MCVolumeServerHistory ------------------------
(* Instances of VolumeServerHistory for TLC.                               *)
EXTENDS VolumeServerHistory, TLC

MCTextLen == [z \in Size |-> z]
Symmetry == Permutations(Vol) \cup Permutations(Req) \cup Permutations(File)

=============================================================================
