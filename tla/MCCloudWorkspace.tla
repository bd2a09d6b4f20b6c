-------------------------- MODULE MCCloudWorkspace --------------------------
(***************************************************************************)
(* Model-checking instances of CloudWorkspace.                             *)
(***************************************************************************)
EXTENDS CloudWorkspace, TLC

CONSTANTS t1, l1, i1, i2, p1, file, other

OneFile == {file}
OneForeign == {other}

(* One browser tab that may run a workflow and a link beside it.           *)
OneWindow == [t \in {t1, l1} |-> "window"]

(* importIds are interchangeable, and so are the places of the tab.        *)
CloudSymmetry == Permutations(Imports) \union Permutations(Tabs)
=============================================================================
