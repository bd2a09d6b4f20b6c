----------------------------- MODULE MCLocalRows -----------------------------
(* Small instances of LocalRows.                                           *)
EXTENDS LocalRows, TLC

CONSTANTS e1, i1, k1, s1, s2, s3, x1, x2, c1, c2, c3, a1, a2, r1, t1, t2

Form(members, payer, slot) ==
    [members |-> members, payer |-> payer,
     expected |-> Max({1, Cardinality(members)}), slot |-> slot]

MCSessionForms == {Form({s1, s2}, s2, 1), Form({s2}, s2, 2)}

MCDesks == {{e1}, {i1}, {k1}, {c3, a2}, {s3, x2}, {s2, x1}, {a1, r1}}

MCAppointmentForms ==
    [client : {c1, c2, c3}, due : {{"device", "workspace"}}, edits : {FALSE}]
    \union {[client |-> c1, due |-> {}, edits |-> TRUE],
            [client |-> c1, due |-> {"device"}, edits |-> FALSE]}

(* The tabs are alike.                                                     *)
TabSymmetry == Permutations(Tabs)
=============================================================================
