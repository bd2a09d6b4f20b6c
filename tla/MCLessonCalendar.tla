-------------------------- MODULE MCLessonCalendar --------------------------
(* Small instances of LessonCalendar and the forecast over it.             *)
EXTENDS MonthlyForecast

CONSTANTS x1, a, b

MCWeekday == [x \in Sessions |-> 1]

NoFamily == [members |-> {}, counting |-> "shared_occurrence", primary |-> Nobody,
             price |-> 0]
FamilyOf(counting) == [members |-> {a, b}, counting |-> counting, primary |-> a,
                       price |-> 5]

Setup(commands, east, basis, payer, modes, opening, price, family, rows) ==
    [commands |-> commands, east |-> east, members |-> [x \in Sessions |-> {a, b}],
     basis |-> [x \in Sessions |-> basis],
     payer |-> [x \in Sessions |-> payer],
     mode |-> [s \in Students |-> modes[IF s = a THEN 1 ELSE 2]],
     price |-> [x \in Sessions |-> price],
     expected |-> [x \in Sessions |-> 2], cut |-> 10,
     opening |-> opening, size |-> 2, packagePrice |-> 4,
     family |-> family, rows |-> rows]

Mixed == <<"package", "per_session">>
Both == <<"package", "package">>

Known(status) == <<Row(x1, 1, 0, status, {})>>

MCSetups ==
    {Setup(3, TRUE, "per_student", Nobody, Both, 1, 0, NoFamily, <<>>),
     Setup(3, FALSE, "total_session", a, Mixed, 0, 0, NoFamily, Known("scheduled")),
     Setup(2, TRUE, "per_student", Nobody, Mixed, 1, 10, NoFamily, Known("cancelled")),
     Setup(2, TRUE, "per_student", Nobody, Both, 1, 0, FamilyOf("per_member_quota"), <<>>),
     Setup(3, FALSE, "total_session", Nobody, Both, 0, 0, FamilyOf("shared_occurrence"),
           Known("missed")),
     Setup(2, FALSE, "total_session", b, Mixed, 0, 10, NoFamily, Known("scheduled"))}
=============================================================================
