------------------------- MODULE MCReceiptAllocation -------------------------
(***************************************************************************)
(* Model-checking instances of ReceiptAllocation: target 1 is a lesson     *)
(* charged by itself, target 2 a package cycle, target 3 a cycle with      *)
(* opening progress only, target 4 a family cycle.                         *)
(***************************************************************************)
EXTENDS ReceiptAllocation

CONSTANTS ann, bob, smiths

OwnedByAll ==
    [t \in Targets |-> IF t = 4 THEN smiths ELSE IF t = 3 THEN bob ELSE ann]
=============================================================================
