------------------------------ MODULE MCTarFs -------------------------------
(* TarFs with an archive of an empty file and two copies of one name. *)
EXTENDS TarFs, TLC

MCArchive == <<[name |-> "empty", size |-> 0], [name |-> "bmp", size |-> 3],
               [name |-> "bmp", size |-> 1]>>
MCOffsets == {-1, 4}
Symmetry == Permutations(Threads)
=============================================================================
