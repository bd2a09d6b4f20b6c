--------------------------- MODULE MCSyncProtocol ---------------------------
(***************************************************************************)
(* Model-checking instances of SyncProtocol.                               *)
(***************************************************************************)
EXTENDS SyncProtocol, TLC

(* Devices and server slots are interchangeable; edits are not.            *)
SyncSymmetry == Permutations(Devices) \union Permutations(Slots)
=============================================================================
