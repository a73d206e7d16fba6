---------------------------- MODULE MCRemoteFs ----------------------------
(***************************************************************************)
(* Small instances of RemoteFs: calls of one kind are interchangeable.     *)
(***************************************************************************)
EXTENDS RemoteFs

Symmetry == Permutations(Reads) \union Permutations(Writes) \union Permutations(Stats)
            \union Permutations(Streams) \union Permutations(Dirs)
            \union Permutations(Renames)
=============================================================================
