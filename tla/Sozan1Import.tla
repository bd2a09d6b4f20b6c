--------------------------- MODULE Sozan1Import ---------------------------
(***************************************************************************)
(* The migration from the old program (server/migration): an export is     *)
(* normalised, translated row by row under ids computed from the old ones, *)
(* inserted in batches, marked as completed and then compared with the     *)
(* file; a mismatch takes the mark away again.  A request may die or fail  *)
(* anywhere; the user may then send the same file again, or a newer one,   *)
(* and in between edits what has arrived, as any synchronised workspace.   *)
(*                                                                         *)
(* The code cuts the statements into batches of 50.  Where the cuts fall   *)
(* depends on the file, so here every row is a batch of its own, and the   *)
(* rows of a table come in any order.  One request works at a time, under  *)
(* the lease of WorkspaceLease.  Expenses stand for other income too;      *)
(* texts, dates, cash checks and the activity list are left out.           *)
(***************************************************************************)
EXTENDS Integers, FiniteSets, FiniteSetsExt, Folds, Functions, Sequences, TLC

CONSTANTS
    Files,          \* exports the user has, by name
    Nobody,
    NoBalance,      \* the export has no opening balance
    Amounts,        \* what a reconciliation may find outstanding on a debt
    MaxRequests, MaxFailures, MaxEdits

(* An export: sets of rows, each with the old program's fields.  Amounts   *)
(* are read as whole pence.                                                *)
ASSUME ImportAssumption ==
    /\ \A n \in DOMAIN Files : LET f == Files[n] IN
         /\ \A t \in {"payments", "allotments", "packages"} :
              IsFiniteSet(f[t]) /\ \A x \in f[t] : x.amount \in Int
         /\ \A t \in {"occurrences", "cycles", "receipts", "payments", "entries"} :
              \A x, y \in f[t] : x.id = y.id => x = y
         /\ \A x, y \in f.sessions : x.id = y.id => x.basis = y.basis /\ x.timed = y.timed
         /\ \A x, y \in f.openings : x.cycle = y.cycle => x = y
         /\ \A x, y \in f.billing : x.student = y.student => x = y
         /\ \A b \in f.billing : b.mode \in {"package", "per_session"}
         /\ \A c \in f.cycles : c.size \in 1..100
         /\ \A x \in f.occurrences : \E y \in f.sessions : y.id = x.session
         /\ \A x \in f.payments : \E y \in f.occurrences : y.id = x.occurrence
         /\ \A x \in f.places : /\ \E y \in f.occurrences : y.id = x.occurrence
                              /\ \E c \in f.cycles : c.id = x.cycle
         /\ \A x \in f.allotments \union f.packages : \E r \in f.receipts : r.id = x.receipt
    /\ Amounts \subseteq Nat \ {0}
    /\ MaxRequests \in Nat /\ MaxFailures \in Nat /\ MaxEdits \in Nat

VARIABLES
    rows,       \* every table: from row ids to rows
    balance,    \* setting finance.opening_balance_pence
    marks,      \* settings migration.sozan1.*: started, completed, failed
    req,        \* the request at work
    requests, failures, edits,
    tried,      \* history: files of which a request was let in
    last,       \* history: the latest of them
    own,        \* history: rows as the user left them
    reallotted, \* history: receipts whose allocations the user's work changed
    unchecked   \* history: a request died between its mark and its verdict

counts == <<requests, failures, edits>>
history == <<tried, last, own, reallotted, unchecked>>
vars == <<rows, balance, marks, req, counts, history>>

Idle == [pc |-> "idle"]

Init ==
    /\ rows = << >> /\ balance = 0 /\ marks = {} /\ req = Idle
    /\ requests = 0 /\ failures = 0 /\ edits = 0
    /\ tried = {} /\ last = Nobody /\ own = << >> /\ reallotted = {}
    /\ unchecked = FALSE

-----------------------------------------------------------------------------
(* What a file says.                                                       *)

ById(S, n) == CHOOSE x \in S : x.id = n
Total(S) == SumFunction([x \in S |-> x.amount])
Capped(n, most) == IF n > most THEN most ELSE n
Sole(P) == IF Cardinality(P) = 1 THEN CHOOSE s \in P : TRUE ELSE Nobody

(* The old program recorded lessons given before it was used as lessons of *)
(* a shadow session; they become the opening progress of the package.      *)
Shadows(f) == {o.session : o \in f.openings}
RealSessions(f) == {x \in f.sessions : x.id \notin Shadows(f)}
RealLessons(f) == {x \in f.occurrences : x.session \notin Shadows(f)}
RealLessonIds(f) == {x.id : x \in RealLessons(f)}

(* A session of a group has a row for each student.                        *)
Participants(f, session) ==
    {x.student : x \in {y \in f.sessions : y.id = session}} \intersect f.students

Payer(basis, P) == IF basis = "total_session" THEN Sole(P) ELSE Nobody

(* The plan after normalisation: a row nobody ever set means a package.    *)
DefaultSize == 8

Plan(f, s) ==
    LET given == {b \in f.billing : b.student = s}
        b == CHOOSE x \in given : TRUE
    IN  IF given = {} \/ (b.mode # "package" /\ s \notin f.configured)
        THEN [mode |-> "package", size |-> DefaultSize]
        ELSE IF b.mode = "package" /\ b.size < 1 THEN [mode |-> "package", size |-> DefaultSize]
        ELSE [mode |-> b.mode, size |-> IF b.mode = "package" THEN Capped(b.size, 100) ELSE 0]

-----------------------------------------------------------------------------
(* The rows a file becomes, table by table.  An id is the kind and the old *)
(* id, so that the same old row always gets the same id.                   *)

StudentRows(f) == [id \in {<<"student", s>> : s \in f.students} |-> [active |-> TRUE]]

SessionRows(f) ==
    [id \in {<<"session", x.id>> : x \in RealSessions(f)} |->
       LET x == ById(f.sessions, id[2]) IN
       [schedule |-> IF x.timed THEN "confirmed" ELSE "pending", active |-> TRUE, basis |-> x.basis,
        payer |-> Payer(x.basis, Participants(f, x.id))]]

MemberRows(f) ==
    [id \in {<<"member", x.id, x.student>> :
               x \in {y \in RealSessions(f) : y.student \in f.students}} |-> [member |-> TRUE]]

LessonRows(f) ==
    [id \in {<<"lesson", n>> : n \in RealLessonIds(f)} |->
       LET x == ById(f.occurrences, id[2])
           basis == ById(f.sessions, x.session).basis
       IN  [session |-> x.session, date |-> x.date, status |-> x.status, basis |-> basis,
            payer |-> IF x.status = "completed"
                      THEN Payer(basis, Participants(f, x.session)) ELSE Nobody]]

AttendanceRows(f) ==
    LET given == {x \in RealLessons(f) : x.status = "completed"} IN
    [id \in UNION {{<<"attendance", x.id, s>> : s \in Participants(f, x.session)} : x \in given}
       |-> [attended |-> TRUE]]

PlanRows(f) == [id \in {<<"plan", s>> : s \in f.students} |-> Plan(f, id[2])]

(* Mutated form of Opening: shadow lessons are dropped, not counted.       *)
OpeningForgotten(f, c) == 0

Opening(f, c) ==
    LET o == {x \in f.openings : x.cycle = c.id} IN
    IF o = {} THEN 0 ELSE Capped((CHOOSE x \in o : TRUE).done, c.size)

RealPlaces(f) == {p \in f.places : p.occurrence \in RealLessonIds(f)}

CycleRows(f) ==
    [id \in {<<"cycle", c.id>> : c \in {x \in f.cycles : x.student \in f.students}} |->
       LET c == ById(f.cycles, id[2]) IN
       [student |-> c.student, number |-> c.number, limit |-> c.size,
        opening |-> Opening(f, c),
        locked |-> Opening(f, c) > 0 /\ \E p \in RealPlaces(f) : p.cycle = c.id,
        status |-> IF c.status \in {"due", "paid"} THEN c.status ELSE "open"]]

PlaceRows(f) ==
    [id \in {<<"place", p.cycle, p.occurrence>> : p \in RealPlaces(f)} |->
       [pos |-> (CHOOSE p \in f.places : <<p.cycle, p.occurrence>> = <<id[2], id[3]>>).pos]]

ReceiptRows(f) ==
    [id \in {<<"receipt", r.id>> :
               r \in {x \in f.receipts : x.student \in f.students /\ x.amount > 0}} |->
       LET r == ById(f.receipts, id[2]) IN
       [payer |-> r.student, amount |-> r.amount, deleted |-> r.deleted]]

(* A payment for a lesson is a receipt of its student, of nobody in a group.*)
PaymentPayer(f, p) == Sole(Participants(f, ById(f.occurrences, p.occurrence).session))

PaidLessons(f) == {p \in f.payments : p.occurrence \in RealLessonIds(f) /\ p.amount > 0}

PaymentRows(f) ==
    [id \in {<<"payment", p.id>> : p \in PaidLessons(f)} |->
       LET p == ById(f.payments, id[2]) IN
       [payer |-> PaymentPayer(f, p), amount |-> p.amount, deleted |-> p.deleted]]

(* What the file allots to lessons and packages.  A lesson's charge is its *)
(* student's: a share of a student who does not take part is left out.     *)
(* That a payment was reversed is not asked.                               *)
ReceiptShares(f) ==
    {[from |-> <<"allotment", x.id>>, receipt |-> <<"receipt", x.receipt>>, amount |-> x.amount,
      target |-> <<"lesson", x.occurrence, ById(f.receipts, x.receipt).student>>] :
       x \in {y \in f.allotments :
               /\ y.occurrence \in RealLessonIds(f) /\ y.amount > 0
               /\ ById(f.receipts, y.receipt).student
                    \in Participants(f, ById(f.occurrences, y.occurrence).session)}}

PackageShares(f) ==
    {[from |-> <<"package", x.id>>, receipt |-> <<"receipt", x.receipt>>, amount |-> x.amount,
      target |-> <<"cycle", x.cycle>>] :
       x \in {y \in f.packages : y.amount > 0 /\ \E c \in f.cycles : c.id = y.cycle}}

PaymentShares(f) ==
    {[from |-> <<"payment", p.id>>, receipt |-> <<"payment", p.id>>, amount |-> p.amount,
      target |-> <<"lesson", p.occurrence, PaymentPayer(f, p)>>] :
       p \in {x \in PaidLessons(f) : PaymentPayer(f, x) # Nobody}}

Shares(f) == ReceiptShares(f) \union PackageShares(f) \union PaymentShares(f)

(* Mutated form of Merged: a second share of the same target is lost.      *)
FirstOnly(S) == (CHOOSE x \in S : TRUE).amount

(* Shares of one receipt for one target become one allocation.             *)
Merged(S) == Total(S)

AllocationRows(f) ==
    [id \in {<<"allocation", x.receipt, x.target>> : x \in Shares(f)} |->
       [amount |-> Merged({x \in Shares(f) : <<x.receipt, x.target>> = <<id[2], id[3]>>})]]

EntryRows(f) ==
    [id \in {<<"entry", e.id>> : e \in {x \in f.entries : x.amount > 0}} |->
       LET e == ById(f.entries, id[2]) IN
       [amount |-> e.amount, deleted |-> e.deleted, note |-> "exported"]]

(* The tables in the order of their statements.                            *)
Tables(f) ==
    << StudentRows(f), SessionRows(f), MemberRows(f), LessonRows(f), AttendanceRows(f),
       PlanRows(f), CycleRows(f), PlaceRows(f), ReceiptRows(f), PaymentRows(f),
       AllocationRows(f), EntryRows(f) >>

(* Computed once for each file.                                            *)
Filed == [n \in DOMAIN Files |-> Tables(Files[n])]

-----------------------------------------------------------------------------
(* A request.                                                              *)

Kind(ids, k) == {id \in ids : id[1] = k}

(* A first request wants an empty workspace, a repeated one does not ask.  *)
TargetReady ==
    /\ "completed" \notin marks
    /\ \/ "started" \in marks
       \/ \A id \in DOMAIN rows :
            id[1] \notin {"student", "session", "lesson", "receipt", "payment", "entry"}

Begin(n) ==
    /\ req = Idle /\ requests < MaxRequests /\ TargetReady
    /\ marks' = marks \union {"started"}
    /\ req' = [pc |-> "insert", file |-> n, table |-> 1, left |-> DOMAIN Filed[n][1]]
    /\ requests' = requests + 1
    /\ tried' = tried \union {n} /\ last' = n
    /\ UNCHANGED <<rows, balance, failures, edits, own, reallotted, unchecked>>

(* The trigger of the allocations, which comes before IGNORE is asked: a   *)
(* row that is already there is held against the receipt a second time.    *)
AllottedIn(t, receipt) ==
    LET ids == {id \in Kind(DOMAIN t, "allocation") : id[2] = receipt}
    IN  SumFunction([id \in ids |-> t[id].amount])

Allotted(receipt) == AllottedIn(rows, receipt)

TriggerAccepts(id, row) ==
    id[1] = "allocation" =>
       /\ id[2] \in DOMAIN rows /\ ~rows[id[2]].deleted
       /\ Allotted(id[2]) + row.amount <= rows[id[2]].amount

(* Another row holds the place: the day of the session, the number among   *)
(* the student's packages, the position in the package.                    *)
TakenIn(t, id, row) ==
    \E x \in Kind(DOMAIN t, id[1]) : x # id /\
       \/ id[1] = "lesson" /\ t[x].session = row.session /\ t[x].date = row.date
       \/ id[1] = "cycle" /\ t[x].student = row.student /\ t[x].number = row.number
       \/ id[1] = "place" /\ x[2] = id[2] /\ t[x].pos = row.pos

Taken(id, row) == TakenIn(rows, id, row)

(* The rows a row refers to, which OR IGNORE does not forgive.             *)
Parents(id, row) ==
    CASE id[1] = "member" -> {<<"session", id[2]>>, <<"student", id[3]>>}
      [] id[1] = "lesson" -> {<<"session", row.session>>}
      [] id[1] = "attendance" -> {<<"lesson", id[2]>>, <<"student", id[3]>>}
      [] id[1] = "plan" -> {<<"student", id[2]>>}
      [] id[1] = "cycle" -> {<<"student", row.student>>}
      [] id[1] = "place" -> {<<"cycle", id[2]>>, <<"lesson", id[3]>>}
      [] OTHER -> {}

Accepted(id, row) ==
    /\ TriggerAccepts(id, row)
    /\ id \in DOMAIN rows \/ Taken(id, row) \/ Parents(id, row) \subseteq DOMAIN rows

(* Table t with the rows of u, whatever there was under their ids.         *)
Over(t, u) == u @@ t
Written(t, id, row) == [x \in DOMAIN t \union {id} |-> IF x = id THEN row ELSE t[x]]

(* Mutated form of Stored: the row of the file replaces the one there.     *)
Replaced(id, row) == IF Taken(id, row) THEN rows ELSE Written(rows, id, row)

(* INSERT OR IGNORE: a row that is there stays, one whose place another    *)
(* row has is left out.                                                    *)
Stored(id, row) == IF id \in DOMAIN rows \/ Taken(id, row) THEN rows ELSE Written(rows, id, row)

Insert(id) ==
    LET row == Filed[req.file][req.table][id] IN
    /\ Accepted(id, row)
    /\ rows' = Stored(id, row)
    /\ req' = [req EXCEPT !.left = @ \ {id}]
    /\ UNCHANGED <<balance, marks, counts, history>>

Aborted(id) ==
    /\ ~Accepted(id, Filed[req.file][req.table][id])
    /\ req' = Idle
    /\ UNCHANGED <<rows, balance, marks, counts, history>>

NextTable ==
    /\ req.pc = "insert" /\ req.left = {} /\ req.table < 12
    /\ req' = [req EXCEPT !.table = @ + 1,
                          !.left = DOMAIN Filed[req.file][req.table + 1]]
    /\ UNCHANGED <<rows, balance, marks, counts, history>>

(* Settings are overwritten by every request.                              *)
Settings ==
    /\ req.pc = "insert" /\ req.left = {} /\ req.table = 12
    /\ balance' = IF Files[req.file].balance = NoBalance THEN balance ELSE Files[req.file].balance
    /\ req' = [pc |-> "mark", file |-> req.file]
    /\ UNCHANGED <<rows, marks, counts, history>>

MarkCompleted ==
    /\ req.pc = "mark"
    /\ marks' = marks \union {"completed"}
    /\ req' = [req EXCEPT !.pc = "check"]
    /\ UNCHANGED <<rows, balance, counts, history>>

(* The reconciliation: rows of the file against rows of the workspace, and *)
(* the sums of the money that counts.                                      *)
SumActive(S) == Total({x \in S : ~x.deleted})

Expected(f) ==
    [students |-> Cardinality(f.students), sessions |-> Cardinality(RealSessions(f)),
     lessons |-> Cardinality(RealLessons(f)), cycles |-> Cardinality(f.cycles),
     received |-> SumActive(f.payments) + SumActive(f.receipts),
     entries |-> SumActive(f.entries),
     balance |-> IF f.balance = NoBalance THEN 0 ELSE f.balance]

Live(r, ids) == MapThenSumSet(LAMBDA id : r[id].amount, {id \in ids : ~r[id].deleted})

Counted(r, b) ==
    LET Of(k) == Kind(DOMAIN r, k) IN
    [students |-> Cardinality(Of("student")), sessions |-> Cardinality(Of("session")),
     lessons |-> Cardinality(Of("lesson")), cycles |-> Cardinality(Of("cycle")),
     received |-> Live(r, Of("receipt") \union Of("payment")), entries |-> Live(r, Of("entry")),
     balance |-> b]

Actual == Counted(rows, balance)

Check ==
    /\ req.pc = "check"
    /\ req' = IF Actual = Expected(Files[req.file]) THEN Idle ELSE [req EXCEPT !.pc = "unverify"]
    /\ UNCHANGED <<rows, balance, marks, counts, history>>

Unverify ==
    /\ req.pc = "unverify"
    /\ marks' = (marks \ {"completed"}) \union {"failed"}
    /\ req' = Idle
    /\ UNCHANGED <<rows, balance, counts, history>>

(* A statement fails, or the worker is gone.                               *)
Fail ==
    /\ req # Idle /\ failures < MaxFailures
    /\ req' = Idle
    /\ failures' = failures + 1
    /\ unchecked' = (unchecked \/ req.pc \in {"check", "unverify"})
    /\ UNCHANGED <<rows, balance, marks, requests, edits, tried, last, own, reallotted>>

-----------------------------------------------------------------------------
(* The user between two requests.  Whatever a handler does, it leaves the  *)
(* tables as t.                                                            *)
Leave(t) ==
    /\ rows' = t
    /\ own' = [id \in {x \in DOMAIN t : x \in DOMAIN own \/ x \notin DOMAIN rows
                                          \/ rows[x] # t[x]} |-> t[id]]
    /\ reallotted' = reallotted \union
          {id[2] : id \in {x \in Kind(DOMAIN rows \union DOMAIN t, "allocation") :
             x \notin DOMAIN rows \/ x \notin DOMAIN t \/ rows[x] # t[x]}}
    /\ edits' = edits + 1
    /\ UNCHANGED <<balance, marks, req, requests, failures, tried, last, unchecked>>

(* An expense of the day, a new note on one that arrived, one withdrawn.   *)
Spend ==
    /\ <<"entry", "typed">> \notin DOMAIN rows
    /\ Leave(Written(rows, <<"entry", "typed">>, [amount |-> 1, deleted |-> FALSE, note |-> "typed"]))
Annotate(id) ==
    ~rows[id].deleted /\ rows[id].note # "typed" /\ Leave([rows EXCEPT ![id].note = "typed"])
Withdraw(id) == ~rows[id].deleted /\ Leave([rows EXCEPT ![id].deleted = TRUE])

(* The lessons held in a package, and whether it is through.               *)
Places(t, c) == {p \in Kind(DOMAIN t, "place") : p[2] = c[2]}
Held(t, c) ==
    {p \in Places(t, c) : <<"lesson", p[3]>> \in DOMAIN t /\ t[<<"lesson", p[3]>>].status = "completed"}
Through(t, c) == t[c].opening + Cardinality(Held(t, c)) >= t[c].limit

(* What student s owes for: packages that are through, and, paying by the  *)
(* lesson, those attended or paid for.                                     *)
Debts(t, s) ==
    {c \in Kind(DOMAIN t, "cycle") : t[c].student = s /\ t[c].status # "open"}
    \union {<<"lesson", l[2], s>> : l \in {x \in Kind(DOMAIN t, "lesson") :
       /\ <<"plan", s>> \in DOMAIN t /\ t[<<"plan", s>>].mode = "per_session"
       /\ t[x].status = "completed"
       /\ \/ t[x].basis = "total_session" /\ t[x].payer = s
          \/ /\ t[x].basis = "per_student" /\ <<"attendance", x[2], s>> \in DOMAIN t
             /\ t[<<"attendance", x[2], s>>].attended}}

(* The hook after every edit of lessons, sessions and students: what the   *)
(* receipts have left goes to what is owed, and the packages take their    *)
(* status from it.  How much goes where is ReceiptAllocation's question.   *)
Receipts(t) == Kind(DOMAIN t, "receipt") \union Kind(DOMAIN t, "payment")

Collected(t) ==
    LET open == UNION {{<<"allocation", r, d>> : d \in Debts(t, t[r].payer)} :
                         r \in {x \in Receipts(t) : ~t[x].deleted /\ t[x].payer # Nobody}} \ DOMAIN t
        more == UNION {[K -> [amount : Amounts]] : K \in SUBSET open}
    IN  {u \in {Over(t, new) : new \in more} : \A r \in Receipts(t) :
           AllottedIn(u, r) # AllottedIn(t, r) => AllottedIn(u, r) <= t[r].amount}

Normalised(t, paid) ==
    [id \in DOMAIN t |->
       IF id[1] # "cycle" THEN t[id]
       ELSE [t[id] EXCEPT !.status = IF ~Through(t, id) THEN "open"
                                     ELSE IF id \in paid THEN "paid" ELSE "due"]]

Settle(t) ==
    \E u \in Collected(t) : \E paid \in SUBSET {c \in Kind(DOMAIN t, "cycle") : Through(t, c)} :
       Leave(Normalised(u, paid))

(* A completed lesson is reopened: its places and attendance go, the other *)
(* lessons of its packages move up, the receipts of its students are freed.*)
Without(t, S) == [id \in DOMAIN t \ S |-> t[id]]

MovedUp(t, c) ==
    [p \in Places(t, c) |->
       [t[p] EXCEPT !.pos = t[c].opening
                            + Cardinality({q \in Places(t, c) : t[q].pos <= t[p].pos})]]

Reopen(l) ==
    LET places == {p \in Kind(DOMAIN rows, "place") : p[3] = l[2]}
        attendance == {a \in Kind(DOMAIN rows, "attendance") : a[2] = l[2]}
        C == {<<"cycle", p[2]>> : p \in places}
        students == {rows[c].student : c \in C} \union {a[3] : a \in {x \in attendance : rows[x].attended}}
        freed == {a \in Kind(DOMAIN rows, "allocation") : rows[a[2]].payer \in students}
        rest == Without(rows, places \union attendance \union freed)
        moved == UNION {{<<p, MovedUp(rest, c)[p]>> : p \in Places(rest, c)} : c \in C}
        cycle(c) == [rows[c] EXCEPT !.locked = TRUE,
                       !.status = IF rows[c].opening + Cardinality(Places(rest, c)) >= rows[c].limit
                                  THEN "due" ELSE "open"]
    IN  /\ rows[l].status = "completed"
        /\ Settle(Over(Over(rest, [p \in {m[1] : m \in moved} |->
                                     (CHOOSE m \in moved : m[1] = p)[2]]),
                       [id \in C \union {l} |->
                          IF id = l THEN [rows[l] EXCEPT !.status = "scheduled", !.payer = Nobody]
                          ELSE cycle(id)]))

(* A student is archived: sessions held for them alone end, the others go  *)
(* on without them.                                                        *)
Archive(s) ==
    LET mine == {x \in Kind(DOMAIN rows, "session") :
                   rows[x].active /\ <<"member", x[2], s>> \in DOMAIN rows}
        alone == {x \in mine : \A m \in Kind(DOMAIN rows, "member") : m[2] = x[2] => m[3] = s}
    IN  /\ rows[<<"student", s>>].active
        /\ Settle(Over(Without(rows, {<<"member", x[2], s>> : x \in mine \ alone}),
                       [id \in mine \union {<<"student", s>>} |->
                          IF id \notin mine \/ id \in alone THEN [rows[id] EXCEPT !.active = FALSE]
                          ELSE [rows[id] EXCEPT !.payer = IF @ = s THEN Nobody ELSE @]]))

(* A lesson of session x is completed on a day with P attending: it has a  *)
(* row already or gets one, and each student charged a place in their open *)
(* package or a new one.  A completion that a damaged package refuses is   *)
(* left out, and one new package and lesson are as many as there are.      *)
Days == UNION {{o.date : o \in Files[n].occurrences} : n \in DOMAIN Files}
Typed == "typed"
Top(S) == CHOOSE n \in S : \A m \in S : m <= n

Charged(x, P) ==
    IF rows[x].basis = "total_session" /\ <<"member", x[2], rows[x].payer>> \in DOMAIN rows
    THEN {rows[x].payer} ELSE P

Numbers(s) == {rows[c].number : c \in {y \in Kind(DOMAIN rows, "cycle") : rows[y].student = s}}
OpenPackages(s) ==
    {c \in Kind(DOMAIN rows, "cycle") : rows[c].student = s /\ rows[c].status = "open"}
PackageOf(s) ==
    IF OpenPackages(s) = {} THEN <<"cycle", Typed>>
    ELSE CHOOSE c \in OpenPackages(s) : \A d \in OpenPackages(s) : rows[d].number <= rows[c].number
PackageRow(s) ==
    IF OpenPackages(s) # {} THEN rows[PackageOf(s)]
    ELSE [student |-> s, number |-> Top(Numbers(s) \union {0}) + 1,
          limit |-> rows[<<"plan", s>>].size, opening |-> 0, locked |-> FALSE, status |-> "open"]

Completed(x, day, P) ==
    LET members == {m[3] : m \in {y \in Kind(DOMAIN rows, "member") : y[2] = x[2]}}
        there == {l \in Kind(DOMAIN rows, "lesson") : rows[l].session = x[2] /\ rows[l].date = day}
        l == IF there = {} THEN <<"lesson", Typed>> ELSE CHOOSE y \in there : TRUE
        absent == {a \in Kind(DOMAIN rows, "attendance") : a[2] = l[2]}
        packed == {s \in Charged(x, P) :
                     /\ <<"plan", s>> \in DOMAIN rows /\ rows[<<"plan", s>>].mode = "package"
                     /\ ~\E p \in Kind(DOMAIN rows, "place") :
                           p[3] = l[2] /\ rows[<<"cycle", p[2]>>].student = s}
        place(s) == <<"place", PackageOf(s)[2], l[2]>>
        pos(s) == PackageRow(s).opening + Cardinality(Held(rows, PackageOf(s))) + 1
        cycle(s) == [PackageRow(s) EXCEPT !.locked = TRUE,
                       !.status = IF pos(s) = PackageRow(s).limit THEN "due" ELSE @]
        written == [id \in {l} \union {<<"attendance", l[2], s>> : s \in members} |->
                      IF id = l
                      THEN [session |-> x[2], date |-> day, status |-> "completed",
                            basis |-> rows[x].basis, payer |-> rows[x].payer]
                      ELSE [attended |-> id[3] \in P]]
    IN  IF /\ rows[x].active /\ P # {} /\ P \subseteq members
           /\ there = {} => l \notin DOMAIN rows
           /\ there # {} => rows[l].status \in {"scheduled", "missed"}
           /\ \A s \in packed :
                /\ pos(s) <= PackageRow(s).limit
                /\ pos(s) \notin {rows[p].pos : p \in Places(rows, PackageOf(s))}
                /\ Held(rows, PackageOf(s)) = Places(rows, PackageOf(s))
                /\ OpenPackages(s) = {} => PackageOf(s) \notin DOMAIN rows
           /\ \A s, r \in packed : PackageOf(s) = PackageOf(r) => s = r
        THEN {Over(Over(Over(Without(rows, absent), written),
                        [id \in {PackageOf(s) : s \in packed} |->
                           cycle(CHOOSE s \in packed : PackageOf(s) = id)]),
                   [id \in {place(s) : s \in packed} |->
                      [pos |-> pos(CHOOSE s \in packed : place(s) = id)]])}
        ELSE {}

Complete(x, day, P) == \E t \in Completed(x, day, P) : Settle(t)

Edit ==
    /\ req = Idle /\ "completed" \notin marks /\ edits < MaxEdits
    /\ \/ Spend
       \/ \E id \in Kind(DOMAIN rows, "entry") : Annotate(id) \/ Withdraw(id)
       \/ \E l \in Kind(DOMAIN rows, "lesson") : Reopen(l)
       \/ \E id \in Kind(DOMAIN rows, "student") : Archive(id[2])
       \/ \E x \in Kind(DOMAIN rows, "session"), day \in Days,
             P \in SUBSET {id[2] : id \in Kind(DOMAIN rows, "student")} : Complete(x, day, P)

Next ==
    \/ \E n \in DOMAIN Files : Begin(n)
    \/ req.pc = "insert" /\ \E id \in req.left : Insert(id) \/ Aborted(id)
    \/ NextTable \/ Settings \/ MarkCompleted \/ Check \/ Unverify \/ Fail
    \/ Edit

Spec == Init /\ [][Next]_vars

-----------------------------------------------------------------------------
(* Properties.                                                             *)

Finished == req = Idle /\ "completed" \in marks

Whole(f) == UNION {{<<id, Tables(f)[i][id]>> : id \in DOMAIN Tables(f)[i]} : i \in DOMAIN Tables(f)}

(* When every request brought the same file and one of them came to its    *)
(* end, the workspace holds what a single undisturbed request would have   *)
(* left, however often the others died on the way, together with what the  *)
(* user made of it in between: every row the user wrote is as it was left, *)
(* and every other row is the file's (INSERT OR IGNORE under ids computed  *)
(* from the old ones).  A row of the file is missing only where another    *)
(* holds its day, number or position.  One that a handler deleted in       *)
(* between (a reopened lesson's places and attendance, an archived         *)
(* student's membership, an allocation) is a row of the file again: the    *)
(* import does not know that it was deleted.                               *)
ResumesAsOnce ==
    Finished /\ tried = {last} =>
       LET f == Files[last] IN
       /\ \A x \in Whole(f) : x[1] \in DOMAIN rows \/ Taken(x[1], x[2])
       /\ \A id \in DOMAIN rows \ DOMAIN own : <<id, rows[id]>> \in Whole(f)
       /\ \A id \in DOMAIN own : id \in DOMAIN rows /\ rows[id] = own[id]
       /\ f.balance # NoBalance => balance = f.balance

(* An import that stands as completed has every penny of its file: the sums*)
(* of what was received and spent agree, whatever the requests before it   *)
(* brought and the user did in between, and a receipt of a single file is  *)
(* allotted exactly what that file allots of it, unless work on lessons or *)
(* students between two requests reallotted it.  Only a request that died  *)
(* between its mark and its verdict leaves an unproven import standing.    *)
ToThePenny ==
    Finished /\ ~unchecked =>
       LET f == Files[last] IN
       /\ Actual.received = Expected(f).received /\ Actual.entries = Expected(f).entries
       /\ tried = {last} => \A r \in {x.receipt : x \in Shares(f)} \ reallotted :
            Allotted(r) = Total({x \in Shares(f) : x.receipt = r})

(* A package continues where the old program left it: the places of its    *)
(* lessons follow the opening progress without a gap and within its size,  *)
(* although the shadow lessons that held the first places did not come     *)
(* along.  Not claimed of packages that lessons completed or reopened      *)
(* between two requests changed: into those a retry puts the places of the *)
(* file wherever they are free.                                            *)
PackagesCarryOn ==
    Finished /\ tried = {last} =>
       \A c \in Kind(DOMAIN rows, "cycle") \ DOMAIN own :
         LET P == Places(rows, c)
             opening == rows[c].opening
             top == opening + Cardinality(P)
         IN  P \intersect DOMAIN own = {} =>
               /\ {rows[p].pos : p \in P} = (opening + 1)..top
               /\ top <= rows[c].limit
=============================================================================
