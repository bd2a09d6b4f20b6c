---------------------------- MODULE LessonLedger ----------------------------
(***************************************************************************)
(* What package billing promises: a lesson is charged only while it is     *)
(* held, to each student at most once, and giving a lesson back takes all  *)
(* its charges with it.  PackageBilling implements it.                     *)
(***************************************************************************)
CONSTANTS Lessons, Students, Packages

VARIABLES
    held,       \* lessons that count as given
    charges     \* <<lesson, student, package>>

ledger == <<held, charges>>

ChargesOf(l) == {c \in charges : c[1] = l}

Init == held = {} /\ charges = {}

Hold(l) ==
    /\ l \notin held
    /\ held' = held \union {l}
    /\ UNCHANGED charges

Charge(l, s) ==
    /\ l \in held
    /\ \A c \in ChargesOf(l) : c[2] # s
    /\ \E c \in charges' : /\ c[1] = l /\ c[2] = s /\ c[3] \in Packages
                           /\ charges' = charges \union {c}
    /\ UNCHANGED held

Discharge(l) ==
    /\ l \in held
    /\ charges' = charges \ ChargesOf(l)
    /\ UNCHANGED held

GiveBack(l) ==
    /\ l \in held /\ ChargesOf(l) = {}
    /\ held' = held \ {l}
    /\ UNCHANGED charges

Next == \E l \in Lessons :
            Hold(l) \/ Discharge(l) \/ GiveBack(l) \/ \E s \in Students : Charge(l, s)

Spec == Init /\ [][Next]_ledger
=============================================================================
