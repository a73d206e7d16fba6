--------------------------- MODULE MCSshChannels ---------------------------
(***************************************************************************)
(* Small instances of SshChannels: ids are model values, and ids of one    *)
(* kind are interchangeable.                                               *)
(***************************************************************************)
EXTENDS SshChannels

Symmetry == Permutations(Ptys) \union Permutations(Shorts) \union Permutations(Longs)
=============================================================================
