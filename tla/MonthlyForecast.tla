-------------------------- MODULE MonthlyForecast --------------------------
(***************************************************************************)
(* The money side of the monthly forecast (modules/reports/                *)
(* monthly-forecast.ts, currentDuePence of insights.ts), computed from the *)
(* rows and package cycles of LessonCalendar as the device holds them.     *)
(*                                                                         *)
(* The forecast walks the lessons from today to the end of the month,      *)
(* values each, and plays the packages forward to see which fill.  The     *)
(* real packages are filled by LessonCalendar's commands, with other code: *)
(* the properties compare the two, lesson by lesson.                       *)
(*                                                                         *)
(* Abstractions: plans and the family account apply from the first day;    *)
(* prices do not change, so a lesson's snapshot is its session's price;    *)
(* expenses, trends, work minutes and the confidence score are left out.   *)
(***************************************************************************)
EXTENDS LessonCalendar

(* setup.family: members, counting and primary as in the billing account,  *)
(* members = {} when there is none.                                        *)
Family == setup.family
IsFamily(s) == s \in Family.members

Rounded(n, d) == (2 * n + d) \div (2 * d)

-----------------------------------------------------------------------------
(* Lessons still to come: the day's regular ones that have no row or a     *)
(* scheduled one, unless moved away, and those moved to the day.           *)
Lesson(d, x, r) == [date |-> d, session |-> x, row |-> r]

RegularSlots(rows, d) ==
    {Lesson(d, x, 0) : x \in {y \in Sessions : /\ Weekday[y] = d % WeekLength
                                               /\ RowsOf(rows, y, d) = {}}}
    \union
    {Lesson(d, rows[r].session, r) :
       r \in {q \in DOMAIN rows : /\ rows[q].date = d
                                  /\ Weekday[rows[q].session] = d % WeekLength
                                  /\ rows[q].to \in {0, d}
                                  /\ rows[q].status = "scheduled"}}

MovedSlots(rows, d) ==
    {Lesson(d, rows[r].session, r) :
       r \in {q \in DOMAIN rows : /\ rows[q].to = d /\ rows[q].date # d
                                  /\ rows[q].status = "scheduled"}}

(* Mutated form of FutureSlots: the day's own lessons are over.            *)
LaterSlots(rows) ==
    UNION {RegularSlots(rows, d) \union MovedSlots(rows, d) : d \in (today + 1)..LastDay}

FutureSlots(rows) ==
    UNION {RegularSlots(rows, d) \union MovedSlots(rows, d) : d \in today..LastDay}

(* A lesson with a row has the students the row names, and a row that is   *)
(* not completed names none.                                               *)
Participants(rows, slot) ==
    IF slot.row = 0 THEN Members(slot.session) ELSE rows[slot.row].present

-----------------------------------------------------------------------------
(* What a lesson is worth.                                                 *)
DirectExpected(x) ==
    LET gross == setup.price[x] *
                 (IF setup.basis[x] = "per_student" THEN setup.expected[x] ELSE 1)
    IN  gross - (gross * setup.cut) \div 100

PackageShare == Rounded(setup.packagePrice, setup.size)

FamilyShare(who) ==
    IF Family.counting = "shared_occurrence"
    THEN Rounded(Family.price, setup.size)
    ELSE Rounded(Family.price * Cardinality(who \intersect Family.members),
                 setup.size * Cardinality(Family.members))

ExpectedEarned(x, who) ==
    IF DirectExpected(x) > 0 THEN DirectExpected(x)
    ELSE IF who \intersect Family.members # {} THEN FamilyShare(who)
    ELSE IF setup.basis[x] = "total_session"
    THEN IF setup.payer[x] # Nobody /\ setup.mode[setup.payer[x]] = "package"
         THEN PackageShare ELSE 0
    ELSE PackageShare * Cardinality({s \in who : setup.mode[s] = "package"})

(* completedSessionFinancials: what was earned, from who was there.        *)
Earned(row) ==
    LET gross == setup.price[row.session] *
                 (IF setup.basis[row.session] = "per_student"
                  THEN Cardinality(row.present) ELSE 1)
    IN  gross - (gross * setup.cut) \div 100

ActualEarned(rows) ==
    MapThenSumSet(
        LAMBDA r : LET derived == ExpectedEarned(rows[r].session, rows[r].present)
                   IN  IF derived > 0 THEN derived ELSE Earned(rows[r]),
        {r \in DOMAIN rows : rows[r].status = "completed" /\ Effective(rows[r]) <= today})

ProjectedEarned(rows) ==
    MapThenSumSet(LAMBDA slot : ExpectedEarned(slot.session, Participants(rows, slot)),
                  FutureSlots(rows))

MonthEarned(rows) == ActualEarned(rows) + ProjectedEarned(rows)

-----------------------------------------------------------------------------
(* Packages played forward.                                                *)
Full(c) == c.opening + c.count >= setup.size

Completed(cs) == {k \in DOMAIN cs : Full(cs[k])}

(* Mutated form of PackageState: the opening progress is forgotten.        *)
PackageStateWithoutOpening(cs) ==
    LET open == OpenCycles(cs) IN
    [progress |-> IF open = {} THEN 0 ELSE cs[Max(open)].count,
     sequence |-> IF open = {} THEN Len(cs) + 1 ELSE Max(open),
     completed |-> Completed(cs)]

PackageState(cs) ==
    LET open == OpenCycles(cs) IN
    [progress |-> IF open = {} THEN 0
                  ELSE cs[Max(open)].opening + cs[Max(open)].count,
     sequence |-> IF open = {} THEN Len(cs) + 1 ELSE Max(open),
     completed |-> Completed(cs)]

Advanced(p) ==
    IF p.progress + 1 < setup.size THEN [p EXCEPT !.progress = @ + 1]
    ELSE [progress |-> 0, sequence |-> p.sequence + 1,
          completed |-> p.completed \union {p.sequence}]

PackageStudents(rows, slot) ==
    LET x == slot.session IN
    {s \in IF setup.basis[x] = "total_session" /\ setup.payer[x] \in Members(x)
           THEN {setup.payer[x]} ELSE Participants(rows, slot) :
       setup.mode[s] = "package"}

(* The packages after the slots; their order does not matter to the sums.  *)
PackagesAfter(rows, cycles) ==
    FoldLeft(LAMBDA acc, slot :
               [s \in Students |-> IF s \in PackageStudents(rows, slot)
                                   THEN Advanced(acc[s]) ELSE acc[s]],
             [s \in Students |-> PackageState(cycles[s])],
             SetToSeq(FutureSlots(rows)))

Required ==
    IF Family.counting = "shared_occurrence" THEN {Family.primary} ELSE Family.members

(* Package numbers that every required member has completed, given each    *)
(* student's completed packages.                                           *)
FamilyCompleted(completed) ==
    IF Family.members = {} THEN {}
    ELSE {n \in UNION {completed[s] : s \in Required} :
            \A s \in Required : n \in completed[s]}

(* What a lesson charges the students outside the set exempt.              *)
SessionCharges(x, who, exempt) ==
    setup.price[x] *
    (IF setup.basis[x] = "per_student"
     THEN Cardinality({s \in who \ exempt : setup.mode[s] = "per_session"})
     ELSE IF /\ setup.payer[x] \notin exempt \union {Nobody}
             /\ setup.mode[setup.payer[x]] = "per_session"
     THEN 1 ELSE 0)

(* What filled packages charge: each student outside the family for their  *)
(* own in filled, the family for those that became complete since before.  *)
PackageCharges(filled, before, after) ==
    setup.packagePrice
        * MapThenSumSet(LAMBDA s : Cardinality(filled[s]), Students \ Family.members)
    + Family.price * Cardinality(FamilyCompleted(after) \ FamilyCompleted(before))

ProjectedNewDue(rows, cycles) ==
    LET later == PackagesAfter(rows, cycles)
        before == [s \in Students |-> Completed(cycles[s])]
        after == [s \in Students |-> later[s].completed]
    IN
    MapThenSumSet(
        LAMBDA slot : SessionCharges(slot.session, Participants(rows, slot), Family.members),
        FutureSlots(rows))
    + PackageCharges([s \in Students |-> after[s] \ before[s]], before, after)

(* What is owed by now, before any payment: lessons, filled packages, and  *)
(* the family's packages once every required member has filled them.       *)
Charged(rows, cycles) ==
    LET filled == [s \in Students |-> Completed(cycles[s])] IN
    MapThenSumSet(LAMBDA r : SessionCharges(rows[r].session, rows[r].present, {}),
                  {r \in DOMAIN rows : rows[r].status = "completed"})
    + PackageCharges(filled, [s \in Students |-> {}], filled)

MonthDue(rows, cycles) == Charged(rows, cycles) + ProjectedNewDue(rows, cycles)

-----------------------------------------------------------------------------
(* Properties.                                                             *)

(* A lesson that today's screen offers was just recorded as row o, and no  *)
(* write has overrun another tab's.                                        *)
RecordedToday(e, o) ==
    /\ made' = made + 1 /\ ~crossed
    /\ StatusOf(device.rows, e) = "scheduled"
    /\ o \in DOMAIN device'.rows /\ device'.rows[o].status = "completed"
    /\ IF e[2] = 0 THEN o \notin DOMAIN device.rows /\ Slot(device'.rows[o]) = <<e[1], today>>
       ELSE o = e[2]

(* The forecast had its students: the lesson had no row, or is billed to a *)
(* payer who is a member of the session; and all of them came.             *)
AsPlanned(e, o) ==
    /\ device'.rows[o].present = Members(e[1])
    /\ e[2] = 0 \/ (setup.basis[e[1]] = "total_session" /\ setup.payer[e[1]] \in Members(e[1]))

(* Recording a lesson that the Today screen offers, with everybody there,  *)
(* charges what the forecast said it would: what is owed plus what is      *)
(* forecast to become due stays what it was, across lessons, packages that *)
(* fill and the next ones that open, and the family's.                     *)
DueAsForecast ==
    [][ \A e \in Entries(device.rows, today) : \A o \in DOMAIN device'.rows :
          /\ RecordedToday(e, o) /\ AsPlanned(e, o)
          /\ \A s \in Students : Cardinality(OpenCycles(device.cycles[s])) <= 1
          => MonthDue(device'.rows, device'.cycles)
               = MonthDue(device.rows, device.cycles) ]_vars

(* Recording such a lesson does not change the forecast of the month's     *)
(* earnings either: it leaves the lessons to come and is counted once, at  *)
(* the same value, among those given - and whoever came, if the lesson has *)
(* a price of its own.                                                     *)
EarnedAsForecast ==
    [][ \A e \in Entries(device.rows, today) : \A o \in DOMAIN device'.rows :
          /\ RecordedToday(e, o) /\ (AsPlanned(e, o) \/ DirectExpected(e[1]) > 0)
          => MonthEarned(device'.rows) = MonthEarned(device.rows) ]_vars
=============================================================================
