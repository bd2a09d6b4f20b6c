--------------------------- MODULE MCSozan1Import ---------------------------
(* Sozan1Import on exports of one student, a group and a shadow session.   *)
EXTENDS Sozan1Import

(* One student's course: two lessons given before the program was used are *)
(* counted by a shadow session, three were recorded and have the last      *)
(* places of a package of five.  Half of the receipt is allotted, to a     *)
(* lesson and in two shares to the package, so that a retry passes the     *)
(* trigger.                                                                *)
MCPlain ==
    [students |-> {"anna"}, configured |-> {},
     sessions |-> {[id |-> "piano", student |-> "anna", basis |-> "total_session", timed |-> TRUE],
                   [id |-> "shadow", student |-> "anna", basis |-> "total_session", timed |-> FALSE]},
     occurrences |-> {[id |-> "l0", session |-> "shadow", date |-> "mon", status |-> "completed"],
                      [id |-> "m0", session |-> "shadow", date |-> "tue", status |-> "completed"],
                      [id |-> "l1", session |-> "piano", date |-> "mon", status |-> "completed"],
                      [id |-> "l2", session |-> "piano", date |-> "tue", status |-> "completed"],
                      [id |-> "l3", session |-> "piano", date |-> "wed", status |-> "completed"]},
     openings |-> {[cycle |-> "c", session |-> "shadow", done |-> 2]},
     billing |-> {[student |-> "anna", mode |-> "per_session", size |-> 8]},
     cycles |-> {[id |-> "c", student |-> "anna", number |-> 1, size |-> 5, status |-> "due"]},
     places |-> {[cycle |-> "c", occurrence |-> "l0", pos |-> 1],
                 [cycle |-> "c", occurrence |-> "m0", pos |-> 2],
                 [cycle |-> "c", occurrence |-> "l1", pos |-> 3],
                 [cycle |-> "c", occurrence |-> "l2", pos |-> 4],
                 [cycle |-> "c", occurrence |-> "l3", pos |-> 5]},
     receipts |-> {[id |-> "r", student |-> "anna", amount |-> 8, deleted |-> FALSE]},
     payments |-> {},
     allotments |-> {[id |-> "a1", receipt |-> "r", occurrence |-> "l1", amount |-> 1]},
     packages |-> {[id |-> "p1", receipt |-> "r", cycle |-> "c", amount |-> 1],
                   [id |-> "p2", receipt |-> "r", cycle |-> "c", amount |-> 2]},
     entries |-> {[id |-> "rent", amount |-> 1, deleted |-> FALSE]},
     balance |-> 7]

(* The same a week later: the student's plan was set by hand, the balance  *)
(* and an expense are new, and a lesson was called off.                    *)
MCNewer ==
    [MCPlain EXCEPT !.configured = {"anna"}, !.balance = 9,
                    !.occurrences = @ \union {[id |-> "l4", session |-> "piano", date |-> "thu",
                                                status |-> "cancelled"]},
                    !.entries = @ \union {[id |-> "books", amount |-> 1, deleted |-> FALSE]}]

(* The same with the lesson's own payment, before and after its reversal,  *)
(* and without a balance.                                                  *)
MCPaid ==
    [MCPlain EXCEPT !.payments = {[id |-> "pay", occurrence |-> "l1", amount |-> 1,
                                   deleted |-> FALSE]},
                    !.packages = {}, !.balance = NoBalance]
MCReversed ==
    [MCPaid EXCEPT !.payments = {[id |-> "pay", occurrence |-> "l1", amount |-> 1,
                                  deleted |-> TRUE]}]

(* A group of two, one row of the session for each, who paid together.     *)
MCGroup ==
    [students |-> {"anna", "bert"}, configured |-> {},
     sessions |-> {[id |-> "choir", student |-> s, basis |-> "total_session", timed |-> TRUE] :
                     s \in {"anna", "bert"}},
     occurrences |-> {[id |-> "g1", session |-> "choir", date |-> "mon", status |-> "completed"]},
     openings |-> {}, billing |-> {}, cycles |-> {}, places |-> {}, receipts |-> {},
     payments |-> {[id |-> "both", occurrence |-> "g1", amount |-> 2, deleted |-> FALSE]},
     allotments |-> {}, packages |-> {}, entries |-> {}, balance |-> NoBalance]

MCFiles == [plain |-> MCPlain, newer |-> MCNewer, paid |-> MCPaid, reversed |-> MCReversed,
            group |-> MCGroup]
=============================================================================
