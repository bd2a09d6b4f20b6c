-------------------------- MODULE MCWorkspaceLease --------------------------
(***************************************************************************)
(* Model-checking instances of WorkspaceLease.                             *)
(***************************************************************************)
EXTENDS WorkspaceLease, TLC

(* Requests of a kind differ by name only, and so do the parts.            *)
LeaseSymmetry ==
    Permutations(Pushers) \union Permutations(Importers)
      \union Permutations(Guarded) \union Permutations(Readers)
      \union Permutations(Parts)
=============================================================================
