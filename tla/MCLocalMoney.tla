---------------------------- MODULE MCLocalMoney ----------------------------
(* A small instance of LocalMoney: two students, two tabs.                 *)
EXTENDS LocalMoney

CONSTANTS a, b, t1, t2

NoFamily == [members |-> {}, counting |-> "shared_occurrence", primary |-> Nobody,
             price |-> 0]
FamilyAccount(counting) ==
    [members |-> {a, b}, counting |-> counting, primary |-> a, price |-> 3]

Setup(basis, payer, modeA, modeB, opening, family, done, receipts, tabs, commands) ==
    [members |-> {a, b}, basis |-> basis, payer |-> payer, price |-> 2,
     mode |-> [s \in Students |-> IF s = a THEN modeA ELSE modeB],
     opening |-> opening, size |-> 2, packagePrice |-> 3, family |-> family,
     done |-> done, receipts |-> receipts, tabs |-> tabs, commands |-> commands]

Quota == FamilyAccount("per_member_quota")
Shared == FamilyAccount("shared_occurrence")

(* One tab and a longer history.                                           *)
Alone ==
    {Setup("per_student", Nobody, "package", "per_session", 1, NoFamily, <<>>, <<>>, {t1}, 3),
     Setup("total_session", a, "per_session", "none", 0, NoFamily, <<1>>,
           <<>>, {t1}, 3),
     Setup("total_session", a, "package", "package", 2, NoFamily, <<>>,
           <<Receipt(b, 1, TRUE)>>, {t1}, 2),
     Setup("per_student", Nobody, "package", "package", 1, Quota, <<1>>,
           <<Receipt(Family, 4, TRUE)>>, {t1}, 3)}

(* Two tabs at once.                                                       *)
Together ==
    {Setup("per_student", Nobody, "package", "per_session", 1, NoFamily, <<1>>,
           <<Receipt(a, 4, TRUE)>>, Tabs, 2),
     Setup("per_student", Nobody, "package", "per_session", 1, Shared, <<1>>,
           <<Receipt(Family, 1, TRUE)>>, Tabs, 2)}

MCSetups == Alone \union Together

(* Tabs are alike; a setup with one tab open always opens the same one.    *)
Symmetric == Permutations(Tabs)
=============================================================================
