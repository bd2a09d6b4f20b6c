------------------------- MODULE Sozan1ImportProofs -------------------------
(***************************************************************************)
(* Proofs about Sozan1Import, for any exports and any number of requests,  *)
(* failures and edits in between: an import that stands as completed left  *)
(* what one undisturbed request leaves, and its sums were compared.        *)
(***************************************************************************)
EXTENDS Sozan1Import, FiniteSetTheorems, TLAPS

(* The kind of the ids in each table.                                      *)
KindOf == << "student", "session", "member", "lesson", "attendance", "plan", "cycle", "place",
             "receipt", "payment", "allocation", "entry" >>

Table(n, i) == Tables(Files[n])[i]

(* A row the user has not touched is a row of a file that was let in, and  *)
(* the others are as the user left them.                                   *)
RowsInv ==
    /\ tried \subseteq DOMAIN Files
    /\ \A id \in DOMAIN rows :
          \/ id \in DOMAIN own
          \/ \E n \in tried : \E i \in 1 .. 12 :
                id \in DOMAIN Table(n, i) /\ rows[id] = Table(n, i)[id]
    /\ \A id \in DOMAIN own : id \in DOMAIN rows /\ rows[id] = own[id]

(* Row id of table i of file n is there, or its place is taken; and the    *)
(* tables up to number i are.                                              *)
There(t, n, i, id) == id \in DOMAIN t \/ TakenIn(t, id, Table(n, i)[id])
Arrived(t, n, i) == \A j \in 1 .. i : \A id \in DOMAIN Table(n, j) : There(t, n, j, id)

BalanceSet(n) == Files[n].balance # NoBalance => balance = Files[n].balance

(* How far the request at work has come.                                   *)
RequestInv ==
    \/ req = Idle
    \/ /\ req.file = last /\ last \in tried
       /\ \/ /\ DOMAIN req = {"pc", "file", "table", "left"} /\ req.pc = "insert"
             /\ "completed" \notin marks
             /\ req.table \in 1 .. 12 /\ req.left \subseteq DOMAIN Table(last, req.table)
             /\ Arrived(rows, last, req.table - 1)
             /\ \A id \in DOMAIN Table(last, req.table) \ req.left : There(rows, last, req.table, id)
          \/ /\ DOMAIN req = {"pc", "file"} /\ req.pc \in {"mark", "check", "unverify"}
             /\ req.pc = "mark" => "completed" \notin marks
             /\ Arrived(rows, last, 12) /\ BalanceSet(last)

CompletedInv == "completed" \in marks => Arrived(rows, last, 12) /\ BalanceSet(last)

(* An import that stands as completed was compared with its file, to the   *)
(* number of rows, to the penny and the opening balance, unless a request  *)
(* died between its mark and its verdict.                                  *)
CompletedIsChecked == Finished /\ ~unchecked => Actual = Expected(Files[last])

ImportInv == RowsInv /\ RequestInv /\ CompletedInv /\ CompletedIsChecked

-----------------------------------------------------------------------------
(* Every id of a table starts with its kind.                                *)
LEMMA TableKinds ==
    ASSUME NEW n, NEW i \in 1 .. 12, NEW id \in DOMAIN Table(n, i)
    PROVE  id[1] = KindOf[i]
  <1> DEFINE f == Files[n]
  <1>1. \A x \in DOMAIN StudentRows(f) : x[1] = "student"
    BY DEF StudentRows
  <1>2. \A x \in DOMAIN SessionRows(f) : x[1] = "session"
    BY DEF SessionRows
  <1>3. \A x \in DOMAIN MemberRows(f) : x[1] = "member"
    BY DEF MemberRows
  <1>4. \A x \in DOMAIN LessonRows(f) : x[1] = "lesson"
    BY DEF LessonRows
  <1>5. \A x \in DOMAIN AttendanceRows(f) : x[1] = "attendance"
    BY DEF AttendanceRows
  <1>6. \A x \in DOMAIN PlanRows(f) : x[1] = "plan"
    BY DEF PlanRows
  <1>7. \A x \in DOMAIN CycleRows(f) : x[1] = "cycle"
    BY DEF CycleRows
  <1>8. \A x \in DOMAIN PlaceRows(f) : x[1] = "place"
    BY DEF PlaceRows
  <1>9. \A x \in DOMAIN ReceiptRows(f) : x[1] = "receipt"
    BY DEF ReceiptRows
  <1>10. \A x \in DOMAIN PaymentRows(f) : x[1] = "payment"
    BY DEF PaymentRows
  <1>11. \A x \in DOMAIN AllocationRows(f) : x[1] = "allocation"
    BY DEF AllocationRows
  <1>12. \A x \in DOMAIN EntryRows(f) : x[1] = "entry"
    BY DEF EntryRows
  <1> HIDE DEF f
  <1>13. Table(n, i) = << StudentRows(f), SessionRows(f), MemberRows(f), LessonRows(f),
                          AttendanceRows(f), PlanRows(f), CycleRows(f), PlaceRows(f),
                          ReceiptRows(f), PaymentRows(f), AllocationRows(f), EntryRows(f) >>[i]
    BY DEF Table, Tables, f
  <1>14. i \in {1, 2, 3, 4, 5, 6, 7, 8, 9, 10, 11, 12}
    OBVIOUS
  <1> QED
    BY <1>1, <1>2, <1>3, <1>4, <1>5, <1>6, <1>7, <1>8, <1>9, <1>10, <1>11, <1>12, <1>13, <1>14
       DEF KindOf

-----------------------------------------------------------------------------
(* The steps                                                               *)

(* The tables a request reads are those of its file.                       *)
LEMMA FiledIs ==
    ASSUME NEW n \in DOMAIN Files
    PROVE  \A i : Filed[n][i] = Table(n, i)
  BY DEF Filed, Table

(* A row that is there stays there while rows are only added.              *)
LEMMA StaysThere ==
    ASSUME NEW t, NEW u, \A x \in DOMAIN t : x \in DOMAIN u /\ u[x] = t[x]
    PROVE  /\ \A n, i, id : There(t, n, i, id) => There(u, n, i, id)
           /\ \A n, i : Arrived(t, n, i) => Arrived(u, n, i)
  <1>1. ASSUME NEW id, NEW row, TakenIn(t, id, row)
        PROVE  TakenIn(u, id, row)
    <2>1. PICK x \in Kind(DOMAIN t, id[1]) : x # id /\
             \/ id[1] = "lesson" /\ t[x].session = row.session /\ t[x].date = row.date
             \/ id[1] = "cycle" /\ t[x].student = row.student /\ t[x].number = row.number
             \/ id[1] = "place" /\ x[2] = id[2] /\ t[x].pos = row.pos
      BY <1>1 DEF TakenIn
    <2>2. x \in Kind(DOMAIN u, id[1]) /\ u[x] = t[x]
      BY <2>1 DEF Kind
    <2> QED
      BY <2>1, <2>2 DEF TakenIn
  <1>2. ASSUME NEW n, NEW i, NEW id, There(t, n, i, id)
        PROVE  There(u, n, i, id)
    BY <1>1, <1>2 DEF There
  <1>3. ASSUME NEW n, NEW i, Arrived(t, n, i)
        PROVE  Arrived(u, n, i)
    BY <1>2, <1>3 DEF Arrived
  <1> QED
    BY <1>2, <1>3

(* What a step that leaves the workspace alone keeps.                      *)
LEMMA Framed ==
    ASSUME rows' = rows, balance' = balance
    PROVE  /\ \A n : BalanceSet(n)' = BalanceSet(n)
           /\ Actual' = Actual
           /\ RowsInv /\ own' = own /\ tried' = tried => RowsInv'
  <1>1. \A n : BalanceSet(n)' = BalanceSet(n)
    BY DEF BalanceSet
  <1>2. Actual' = Actual
    BY DEF Actual
  <1>3. RowsInv /\ own' = own /\ tried' = tried => RowsInv'
    BY DEF RowsInv, Table
  <1> QED
    BY <1>1, <1>2, <1>3

(* A request that is let in is at its first table, with nothing done.      *)
LEMMA BeginKeeps ==
    ASSUME ImportInv, NEW n \in DOMAIN Files, Begin(n)
    PROVE  ImportInv'
  <1>1. /\ UNCHANGED <<rows, balance, own>> /\ tried' = tried \union {n} /\ last' = n
        /\ "completed" \notin marks'
        /\ req' = [pc |-> "insert", file |-> n, table |-> 1, left |-> DOMAIN Table(n, 1)]
    BY FiledIs DEF Begin, TargetReady
  <1>2. RowsInv'
    BY <1>1, Framed DEF ImportInv, RowsInv
  <1>3. /\ req'.file = n /\ req'.pc = "insert" /\ req'.table = 1 /\ req'.left = DOMAIN Table(n, 1)
        /\ DOMAIN req' = {"pc", "file", "table", "left"}
    BY <1>1
  <1>4. RequestInv'
    <2>1. DOMAIN Table(n, 1)' = DOMAIN Table(n, 1)
      BY DEF Table
    <2>2. Arrived(rows', n, 0)
      BY DEF Arrived
    <2> QED
      BY <1>1, <1>3, <2>1, <2>2 DEF RequestInv, Table
  <1> QED
    BY <1>1, <1>2, <1>4 DEF ImportInv, CompletedInv, CompletedIsChecked, Finished

(* A row is added, or was there and stays, or its place is taken.          *)
LEMMA InsertKeeps ==
    ASSUME ImportInv, req.pc = "insert", NEW id \in req.left, Insert(id)
    PROVE  ImportInv'
  <1> USE DEF ImportInv
  <1> DEFINE row == Table(last, req.table)[id]
  <1>1. /\ req # Idle /\ req.file = last /\ last \in tried /\ req.table \in 1 .. 12
        /\ req.left \subseteq DOMAIN Table(last, req.table) /\ "completed" \notin marks
        /\ DOMAIN req = {"pc", "file", "table", "left"} /\ Arrived(rows, last, req.table - 1)
        /\ \A x \in DOMAIN Table(last, req.table) \ req.left : There(rows, last, req.table, x)
        /\ last \in DOMAIN Files
    BY DEF RequestInv, RowsInv, Idle
  <1>2. /\ rows' = Stored(id, row)
        /\ req' = [req EXCEPT !.left = @ \ {id}]
        /\ UNCHANGED <<balance, marks, tried, last, own>>
    BY <1>1, FiledIs DEF Insert, history
  <1>3. /\ DOMAIN req' = {"pc", "file", "table", "left"} /\ req'.pc = "insert" /\ req'.file = last
        /\ req'.table = req.table /\ req'.left = req.left \ {id}
    BY <1>1, <1>2
  <1>4. /\ \A x \in DOMAIN rows : x \in DOMAIN rows' /\ rows'[x] = rows[x]
        /\ \A x \in DOMAIN rows' : x \in DOMAIN rows \/ (x = id /\ rows'[id] = row)
        /\ id \in DOMAIN rows' \/ Taken(id, row)
    <2> DEFINE W == Written(rows, id, row)
    <2>1. /\ DOMAIN W = DOMAIN rows \union {id} /\ W[id] = row
          /\ \A x \in DOMAIN rows : x # id => W[x] = rows[x]
      BY DEF Written
    <2>2. rows' = IF id \in DOMAIN rows \/ Taken(id, row) THEN rows ELSE W
      BY <1>2 DEF Stored
    <2> HIDE DEF W, row
    <2> QED
      BY <2>1, <2>2
  <1>5. RowsInv'
    <2>1. ASSUME NEW x \in DOMAIN rows', x \notin DOMAIN own
          PROVE  \E n \in tried : \E i \in 1 .. 12 :
                    x \in DOMAIN Table(n, i) /\ rows'[x] = Table(n, i)[x]
      <3>1. CASE x \in DOMAIN rows
        BY <1>4, <2>1, <3>1 DEF RowsInv
      <3>2. CASE x \notin DOMAIN rows
        BY <1>1, <1>4, <2>1, <3>2
      <3> QED
        BY <3>1, <3>2
    <2>2. \A x \in DOMAIN own : x \in DOMAIN rows' /\ rows'[x] = own[x]
      BY <1>4 DEF RowsInv
    <2> QED
      BY <1>2, <2>1, <2>2 DEF RowsInv, Table
  <1>6. RequestInv'
    <2>1. Arrived(rows', last, req.table - 1)
      BY <1>1, <1>4, StaysThere
    <2>2. ASSUME NEW x \in DOMAIN Table(last, req.table) \ (req.left \ {id})
          PROVE  There(rows', last, req.table, x)
      <3>1. CASE x # id
        <4>1. There(rows, last, req.table, x)
          BY <1>1, <2>2, <3>1
        <4> QED
          BY <1>4, <4>1, StaysThere
      <3>2. CASE x = id
        <4>1. There(rows, last, req.table, id) \/ id \in DOMAIN rows'
          BY <1>4 DEF There, Taken
        <4>2. CASE id \in DOMAIN rows'
          BY <3>2, <4>2 DEF There
        <4>3. CASE There(rows, last, req.table, id)
          BY <1>4, <3>2, <4>3, StaysThere
        <4> QED
          BY <4>1, <4>2, <4>3
      <3> QED
        BY <3>1, <3>2
    <2> HIDE DEF row
    <2> QED
      BY <1>1, <1>2, <1>3, <2>1, <2>2 DEF RequestInv, Table
  <1> QED
    BY <1>1, <1>2, <1>5, <1>6 DEF CompletedInv, CompletedIsChecked, Finished

(* A table with nothing left is there.                                     *)
LEMMA NextTableKeeps ==
    ASSUME ImportInv, NextTable
    PROVE  ImportInv'
  <1> USE DEF ImportInv
  <1>1. /\ req # Idle /\ req.file = last /\ last \in tried /\ req.table \in 1 .. 11
        /\ req.left = {} /\ "completed" \notin marks
        /\ DOMAIN req = {"pc", "file", "table", "left"} /\ Arrived(rows, last, req.table - 1)
        /\ \A id \in DOMAIN Table(last, req.table) : There(rows, last, req.table, id)
        /\ last \in DOMAIN Files
    BY DEF RequestInv, RowsInv, Idle, NextTable
  <1>2. /\ UNCHANGED <<rows, balance, marks, tried, last, own>>
        /\ req' = [req EXCEPT !.table = @ + 1, !.left = DOMAIN Table(last, req.table + 1)]
    BY <1>1, FiledIs DEF NextTable, history
  <1>3. /\ DOMAIN req' = {"pc", "file", "table", "left"} /\ req'.pc = "insert" /\ req'.file = last
        /\ req'.table = req.table + 1 /\ req'.left = DOMAIN Table(last, req.table + 1)
    BY <1>1, <1>2 DEF NextTable
  <1>4. Arrived(rows, last, req.table)
    BY <1>1 DEF Arrived
  <1>5. RequestInv'
    <2>1. req'.table - 1 = req.table /\ req'.table \in 1 .. 12
      BY <1>1, <1>3
    <2> QED
      BY <1>1, <1>2, <1>3, <1>4, <2>1 DEF RequestInv, Table
  <1> QED
    BY <1>1, <1>2, <1>5, Framed DEF CompletedInv, CompletedIsChecked, Finished

(* The steps after the last table.                                         *)
LEMMA VerdictKeeps ==
    ASSUME ImportInv, Settings \/ MarkCompleted \/ Check \/ Unverify
    PROVE  ImportInv'
  <1> USE DEF ImportInv
  <1>1. req # Idle /\ req.file = last /\ last \in tried
    BY DEF RequestInv, Idle, Settings, MarkCompleted, Check, Unverify
  <1>2. UNCHANGED <<rows, tried, last, own, unchecked>> /\ RowsInv'
    <2>1. UNCHANGED <<rows, tried, last, own, unchecked>>
      BY DEF Settings, MarkCompleted, Check, Unverify, history
    <2> QED
      BY <2>1 DEF RowsInv, Table
  <1>3. Arrived(rows, last, 12) /\ Arrived(rows', last, 12)
    <2>1. Arrived(rows, last, 12)
      <3>1. CASE Settings
        <4>1. Arrived(rows, last, 11) /\ \A id \in DOMAIN Table(last, 12) : There(rows, last, 12, id)
          BY <3>1 DEF RequestInv, Idle, Settings
        <4> QED
          BY <4>1 DEF Arrived
      <3>2. CASE MarkCompleted \/ Check \/ Unverify
        BY <3>2 DEF RequestInv, Idle, MarkCompleted, Check, Unverify
      <3> QED
        BY <3>1, <3>2
    <2> QED
      BY <1>2, <2>1
  <1>4. CASE Settings
    <2>1. /\ DOMAIN req' = {"pc", "file"} /\ req'.pc = "mark" /\ req'.file = last
          /\ marks' = marks /\ "completed" \notin marks
      BY <1>1, <1>4 DEF Settings, RequestInv, Idle
    <2>2. BalanceSet(last)'
      BY <1>1, <1>2, <1>4 DEF Settings, BalanceSet
    <2> QED
      BY <1>1, <1>2, <1>3, <2>1, <2>2 DEF RequestInv, CompletedInv, CompletedIsChecked, Finished
  <1>5. CASE MarkCompleted
    <2>1. /\ DOMAIN req' = {"pc", "file"} /\ req'.pc = "check" /\ req'.file = last
          /\ balance' = balance
      BY <1>1, <1>5 DEF MarkCompleted, RequestInv, Idle
    <2>2. BalanceSet(last)'
      BY <1>1, <1>2, <1>5, <2>1 DEF MarkCompleted, RequestInv, Idle, BalanceSet
    <2>3. req' # Idle
      BY <2>1 DEF Idle
    <2> QED
      BY <1>1, <1>2, <1>3, <2>1, <2>2, <2>3 DEF RequestInv, CompletedInv, CompletedIsChecked, Finished
  <1>6. CASE Check
    <2>1. /\ \/ req' = Idle /\ Actual = Expected(Files[last])
             \/ /\ req' # Idle
                /\ DOMAIN req' = {"pc", "file"} /\ req'.pc = "unverify" /\ req'.file = last
          /\ balance' = balance /\ marks' = marks
      BY <1>1, <1>6 DEF Check, RequestInv, Idle
    <2>2. BalanceSet(last) /\ BalanceSet(last)'
      BY <1>1, <1>2, <1>6, <2>1 DEF Check, RequestInv, Idle, BalanceSet
    <2>3. Actual' = Actual
      BY <1>2, <2>1, Framed
    <2>4. Expected(Files[last])' = Expected(Files[last])
      BY <1>2
    <2>5. CompletedIsChecked'
      BY <2>1, <2>3, <2>4 DEF CompletedIsChecked, Finished
    <2> QED
      BY <1>1, <1>2, <1>3, <2>1, <2>2, <2>5 DEF RequestInv, CompletedInv
  <1>7. CASE Unverify
    BY <1>1, <1>2, <1>7 DEF Unverify, RequestInv, CompletedInv, CompletedIsChecked, Finished
  <1> QED
    BY <1>4, <1>5, <1>6, <1>7

(* A request that ends before its verdict.                                 *)
LEMMA EndKeeps ==
    ASSUME ImportInv, Fail \/ (req.pc = "insert" /\ \E id \in req.left : Aborted(id))
    PROVE  ImportInv'
  <1> USE DEF ImportInv
  <1>1. req' = Idle /\ UNCHANGED <<rows, balance, marks, tried, last, own>>
    BY DEF Fail, Aborted, history
  <1>2. "completed" \in marks => unchecked'
    <2>1. ASSUME "completed" \in marks
          PROVE  req.pc # "insert" /\ (req = Idle \/ req.pc \in {"check", "unverify"})
      BY <2>1 DEF RequestInv, Idle
    <2> QED
      BY <2>1 DEF Fail
  <1> QED
    BY <1>1, <1>2, Framed DEF RequestInv, CompletedInv, CompletedIsChecked, Finished

(* Whatever the user does, some tables are left, and no import stands as   *)
(* completed.                                                              *)
LEMMA EditLeaves ==
    ASSUME Edit
    PROVE  req = Idle /\ "completed" \notin marks /\ \E t : Leave(t)
  <1>1. \A t : Settle(t) => \E u : Leave(u)
    BY DEF Settle
  <1>2. Spend => \E t : Leave(t)
    BY DEF Spend
  <1>3. \A id : Annotate(id) \/ Withdraw(id) => \E t : Leave(t)
    BY DEF Annotate, Withdraw
  <1>4. \A l : Reopen(l) => \E t : Settle(t)
    BY DEF Reopen
  <1>5. \A s : Archive(s) => \E t : Settle(t)
    BY DEF Archive
  <1>6. \A x, day, P : Complete(x, day, P) => \E t : Settle(t)
    BY DEF Complete
  <1> QED
    BY <1>1, <1>2, <1>3, <1>4, <1>5, <1>6 DEF Edit

LEMMA EditKeeps ==
    ASSUME ImportInv, Edit
    PROVE  ImportInv'
  <1> USE DEF ImportInv
  <1>1. PICK t : Leave(t)
    BY EditLeaves
  <1>2. /\ req = Idle /\ "completed" \notin marks /\ rows' = t
        /\ own' = [id \in {x \in DOMAIN t : x \in DOMAIN own \/ x \notin DOMAIN rows
                                              \/ rows[x] # t[x]} |-> t[id]]
        /\ req' = req /\ marks' = marks /\ tried' = tried
    BY <1>1, EditLeaves DEF Leave
  <1>3. RowsInv'
    <2>1. ASSUME NEW x \in DOMAIN rows', x \notin DOMAIN own'
          PROVE  \E n \in tried : \E i \in 1 .. 12 :
                    x \in DOMAIN Table(n, i) /\ rows'[x] = Table(n, i)[x]
      <3>1. x \in DOMAIN rows /\ rows[x] = rows'[x] /\ x \notin DOMAIN own
        BY <1>2, <2>1
      <3> QED
        BY <3>1 DEF RowsInv
    <2>2. \A x \in DOMAIN own' : x \in DOMAIN rows' /\ rows'[x] = own'[x]
      BY <1>2
    <2> QED
      BY <1>2, <2>1, <2>2 DEF RowsInv, Table
  <1> QED
    BY <1>2, <1>3 DEF RequestInv, CompletedInv, CompletedIsChecked, Finished

(* Every step keeps the invariant, and it holds initially.                 *)
LEMMA ImportStep == ImportInv /\ [Next]_vars => ImportInv'
  <1> SUFFICES ASSUME ImportInv, [Next]_vars
               PROVE  ImportInv'
    OBVIOUS
  <1>1. CASE UNCHANGED vars
    <2>1. UNCHANGED <<rows, balance, marks, req, tried, last, own, unchecked>>
      BY <1>1 DEF vars, history
    <2>2. RowsInv' /\ Actual' = Actual
      BY <2>1, Framed DEF ImportInv
    <2> QED
      BY <2>1, <2>2 DEF ImportInv, RequestInv, CompletedInv, CompletedIsChecked, Finished,
                        BalanceSet, Table
  <1>2. ASSUME NEW n \in DOMAIN Files, Begin(n)
        PROVE  ImportInv'
    BY <1>2, BeginKeeps
  <1>3. ASSUME req.pc = "insert", NEW id \in req.left, Insert(id) \/ Aborted(id)
        PROVE  ImportInv'
    BY <1>3, InsertKeeps, EndKeeps
  <1>4. CASE NextTable
    BY <1>4, NextTableKeeps
  <1>5. CASE Settings \/ MarkCompleted \/ Check \/ Unverify
    BY <1>5, VerdictKeeps
  <1>6. CASE Fail
    BY <1>6, EndKeeps
  <1>7. CASE Edit
    BY <1>7, EditKeeps
  <1> QED
    BY <1>1, <1>2, <1>3, <1>4, <1>5, <1>6, <1>7 DEF Next

(* Nothing was brought yet.                                               *)
LEMMA ImportInit == Init => ImportInv
  BY DEF Init, ImportInv, RowsInv, RequestInv, CompletedInv, CompletedIsChecked, Finished

(* Rows come from files that were let in or from the user, a request has   *)
(* all tables before its own behind it, and an import is marked as         *)
(* completed only with every row of its file in place.                     *)
THEOREM ImportInvariant == Spec => []ImportInv
  BY ImportInit, ImportStep, PTL DEF Spec

(* However often an import was cut off, repeated and edited in between, in *)
(* one that stands as completed every row is the file's or as the user left*)
(* it, and no row of the file is missing unless another has its day,       *)
(* number or position (importSozan1: INSERT OR IGNORE under ids computed   *)
(* from the old ones).                                                     *)
THEOREM ResumesAsOnceHolds == Spec => []ResumesAsOnce
  <1>1. ImportInv => ResumesAsOnce
    <2> SUFFICES ASSUME ImportInv, Finished, tried = {last}
                 PROVE  /\ \A x \in Whole(Files[last]) : x[1] \in DOMAIN rows \/ Taken(x[1], x[2])
                        /\ \A id \in DOMAIN rows \ DOMAIN own : <<id, rows[id]>> \in Whole(Files[last])
                        /\ \A id \in DOMAIN own : id \in DOMAIN rows /\ rows[id] = own[id]
                        /\ Files[last].balance # NoBalance => balance = Files[last].balance
      BY DEF ResumesAsOnce
    <2>1. Arrived(rows, last, 12) /\ BalanceSet(last) /\ RowsInv
      BY DEF ImportInv, CompletedInv, Finished
    <2>2. DOMAIN Tables(Files[last]) = 1 .. 12
      BY DEF Tables
    <2>3. \A x : x \in Whole(Files[last]) <=>
             \E i \in 1 .. 12 : \E id \in DOMAIN Table(last, i) : x = <<id, Table(last, i)[id]>>
      BY <2>2 DEF Whole, Table
    <2>4. ASSUME NEW id \in DOMAIN rows, id \notin DOMAIN own
          PROVE  <<id, rows[id]>> \in Whole(Files[last])
      <3>1. PICK i \in 1 .. 12 : id \in DOMAIN Table(last, i) /\ rows[id] = Table(last, i)[id]
        BY <2>1, <2>4 DEF RowsInv
      <3> QED
        BY <2>3, <3>1
    <2>5. ASSUME NEW x \in Whole(Files[last])
          PROVE  x[1] \in DOMAIN rows \/ Taken(x[1], x[2])
      <3> PICK i \in 1 .. 12 : \E id \in DOMAIN Table(last, i) : x = <<id, Table(last, i)[id]>>
        BY <2>3
      <3>1. PICK id \in DOMAIN Table(last, i) : x = <<id, Table(last, i)[id]>>
        OBVIOUS
      <3> QED
        BY <2>1, <3>1 DEF Arrived, There, Taken
    <2> QED
      BY <2>1, <2>4, <2>5 DEF RowsInv, BalanceSet
  <1> QED
    BY <1>1, ImportInvariant, PTL

(* An import that stands as completed agrees with its file in the number   *)
(* of its rows, in what was received and spent to the penny and in the     *)
(* opening balance, whatever came before it, unless a request died between *)
(* its mark and its verdict (reconcileSozan1Migration).                    *)
THEOREM CompletedMeansChecked == Spec => []CompletedIsChecked
  <1>1. ImportInv => CompletedIsChecked
    BY DEF ImportInv
  <1> QED
    BY <1>1, ImportInvariant, PTL

-----------------------------------------------------------------------------
(* The money                                                               *)

Plus(a, b) == a + b
INSTANCE FoldTheorems WITH Step <- Plus

(* The totals of the model are these sums.                                 *)
LEMMA TotalIs == \A S : Total(S) = Sum([x \in S |-> x.amount], S)
  BY DEF Total, SumFunction, Sum

(* Allocations the user's work wrote are of receipts it reallotted, and    *)
(* every request brings a file there is.                                   *)
HistoryInv ==
    /\ tried \subseteq DOMAIN Files
    /\ \A id \in DOMAIN own : id[1] = "allocation" => id[2] \in reallotted

LEMMA HistoryStep == HistoryInv /\ [Next]_vars => HistoryInv'
  <1> SUFFICES ASSUME HistoryInv, [Next]_vars
               PROVE  HistoryInv'
    OBVIOUS
  <1>1. ASSUME NEW n \in DOMAIN Files, Begin(n)
        PROVE  HistoryInv'
    BY <1>1 DEF Begin, HistoryInv
  <1>2. ASSUME NEW t, Leave(t)
        PROVE  HistoryInv'
    <2> DEFINE changed == {x \in Kind(DOMAIN rows \union DOMAIN t, "allocation") :
                             x \notin DOMAIN rows \/ x \notin DOMAIN t \/ rows[x] # t[x]}
    <2>1. /\ \A id \in DOMAIN own' : id \in DOMAIN t
               /\ (id \in DOMAIN own \/ id \notin DOMAIN rows \/ rows[id] # t[id])
          /\ reallotted' = reallotted \union {id[2] : id \in changed} /\ tried' = tried
      BY <1>2 DEF Leave
    <2>2. ASSUME NEW id \in DOMAIN own', id[1] = "allocation"
          PROVE  id[2] \in reallotted'
      <3>1. CASE id \in DOMAIN own
        BY <2>1, <2>2, <3>1 DEF HistoryInv
      <3>2. CASE id \notin DOMAIN own
        <4>1. id \in changed
          BY <2>1, <2>2, <3>2 DEF Kind
        <4> QED
          BY <2>1, <4>1
      <3> QED
        BY <3>1, <3>2
    <2> QED
      BY <2>1, <2>2 DEF HistoryInv
  <1>3. CASE UNCHANGED <<tried, own, reallotted>>
    BY <1>3 DEF HistoryInv
  <1>4. CASE Edit
    BY <1>2, <1>4, EditLeaves
  <1>6. ASSUME NEW id, Insert(id) \/ Aborted(id)
        PROVE  UNCHANGED <<tried, own, reallotted>>
    BY <1>6 DEF Insert, Aborted, history
  <1>7. NextTable \/ Settings \/ MarkCompleted \/ Check \/ Unverify \/ Fail \/ UNCHANGED vars
           => UNCHANGED <<tried, own, reallotted>>
    BY DEF NextTable, Settings, MarkCompleted, Check, Unverify, Fail, vars, history
  <1> QED
    BY <1>1, <1>3, <1>4, <1>6, <1>7 DEF Next

(* A file has finitely many shares, each of some pence.                    *)
LEMMA SharesAreMoney ==
    ASSUME NEW n \in DOMAIN Files
    PROVE  IsFiniteSet(Shares(Files[n])) /\ \A x \in Shares(Files[n]) : x.amount \in Nat
  <1> DEFINE f == Files[n]
  <1>1. /\ IsFiniteSet(f.payments) /\ IsFiniteSet(f.allotments) /\ IsFiniteSet(f.packages)
        /\ \A x \in f.payments \union f.allotments \union f.packages : x.amount \in Int
    BY ImportAssumption
  <1> HIDE DEF f
  <1>2. /\ IsFiniteSet(ReceiptShares(f))
        /\ \A x \in ReceiptShares(f) : x.amount \in Nat
    <2> DEFINE A == {y \in f.allotments :
               /\ y.occurrence \in RealLessonIds(f) /\ y.amount > 0
               /\ ById(f.receipts, y.receipt).student
                    \in Participants(f, ById(f.occurrences, y.occurrence).session)}
               share(x) == [from |-> <<"allotment", x.id>>, receipt |-> <<"receipt", x.receipt>>,
                 amount |-> x.amount,
                 target |-> <<"lesson", x.occurrence, ById(f.receipts, x.receipt).student>>]
               s == [x \in A |-> share(x)]
    <2>1. IsFiniteSet(A) /\ \A x \in A : x.amount \in Nat
      BY <1>1, FS_Subset
    <2>2. ReceiptShares(f) = {share(x) : x \in A}
      BY DEF ReceiptShares
    <2>3. \A x \in A : share(x).amount = x.amount
      OBVIOUS
    <2> HIDE DEF A, share
    <2>4. {s[x] : x \in A} = {share(x) : x \in A}
      OBVIOUS
    <2>5. IsFiniteSet({s[x] : x \in A})
      <3> HIDE DEF s
      <3> QED
        BY <2>1, ImageIsFinite
    <2> QED
      BY <2>1, <2>2, <2>3, <2>4, <2>5
  <1>3. /\ IsFiniteSet(PackageShares(f))
        /\ \A x \in PackageShares(f) : x.amount \in Nat
    <2> DEFINE A == {y \in f.packages : y.amount > 0 /\ \E c \in f.cycles : c.id = y.cycle}
               share(x) == [from |-> <<"package", x.id>>, receipt |-> <<"receipt", x.receipt>>,
                 amount |-> x.amount, target |-> <<"cycle", x.cycle>>]
               s == [x \in A |-> share(x)]
    <2>1. IsFiniteSet(A) /\ \A x \in A : x.amount \in Nat
      BY <1>1, FS_Subset
    <2>2. PackageShares(f) = {share(x) : x \in A}
      BY DEF PackageShares
    <2>3. \A x \in A : share(x).amount = x.amount
      OBVIOUS
    <2> HIDE DEF A, share
    <2>4. {s[x] : x \in A} = {share(x) : x \in A}
      OBVIOUS
    <2>5. IsFiniteSet({s[x] : x \in A})
      <3> HIDE DEF s
      <3> QED
        BY <2>1, ImageIsFinite
    <2> QED
      BY <2>1, <2>2, <2>3, <2>4, <2>5
  <1>4. /\ IsFiniteSet(PaymentShares(f))
        /\ \A x \in PaymentShares(f) : x.amount \in Nat
    <2> DEFINE A == {p \in PaidLessons(f) : PaymentPayer(f, p) # Nobody}
               share(p) == [from |-> <<"payment", p.id>>, receipt |-> <<"payment", p.id>>,
                 amount |-> p.amount, target |-> <<"lesson", p.occurrence, PaymentPayer(f, p)>>]
               s == [x \in A |-> share(x)]
    <2>1. A \in SUBSET f.payments /\ \A x \in A : x.amount > 0
      BY DEF PaidLessons
    <2>2. IsFiniteSet(A) /\ \A x \in A : x.amount \in Nat
      <3> HIDE DEF A
      <3> QED
        BY <1>1, <2>1, FS_Subset
    <2>3. PaymentShares(f) = {share(x) : x \in A}
      BY DEF PaymentShares
    <2>4. \A x \in A : share(x).amount = x.amount
      OBVIOUS
    <2> HIDE DEF A, share
    <2>5. {s[x] : x \in A} = {share(x) : x \in A}
      OBVIOUS
    <2>6. IsFiniteSet({s[x] : x \in A})
      <3> HIDE DEF s
      <3> QED
        BY <2>2, ImageIsFinite
    <2> QED
      BY <2>2, <2>3, <2>4, <2>5, <2>6
  <1>5. IsFiniteSet(ReceiptShares(f) \union PackageShares(f) \union PaymentShares(f))
    BY <1>2, <1>3, <1>4, FS_Union
  <1> QED
    BY <1>2, <1>3, <1>4, <1>5 DEF Shares, f

(* The allocations of a receipt nobody reallotted, in a workspace a single *)
(* file filled, are that file's.                                           *)
LEMMA AllocationsAreFiled ==
    ASSUME ImportInv, HistoryInv, Finished, tried = {last}, NEW r, r \notin reallotted
    PROVE  /\ {id \in Kind(DOMAIN rows, "allocation") : id[2] = r}
                = {id \in DOMAIN AllocationRows(Files[last]) : id[2] = r}
           /\ \A id \in DOMAIN AllocationRows(Files[last]) : id[2] = r =>
                 rows[id] = AllocationRows(Files[last])[id]
  <1>1. Arrived(rows, last, 12) /\ RowsInv
    BY DEF ImportInv, CompletedInv, Finished
  <1>2. Table(last, 11) = AllocationRows(Files[last]) /\ KindOf[11] = "allocation"
    BY DEF Table, Tables, KindOf
  <1>3. ASSUME NEW id \in DOMAIN rows, id[1] = "allocation", id[2] = r
        PROVE  id \in DOMAIN Table(last, 11) /\ rows[id] = Table(last, 11)[id]
    <2>1. id \notin DOMAIN own
      BY <1>3 DEF HistoryInv
    <2>2. PICK i \in 1 .. 12 : id \in DOMAIN Table(last, i) /\ rows[id] = Table(last, i)[id]
      BY <1>1, <2>1 DEF RowsInv
    <2>3. KindOf[i] = "allocation"
      BY <1>3, <2>2, TableKinds
    <2>4. i = 11
      <3>1. i \in {1, 2, 3, 4, 5, 6, 7, 8, 9, 10, 11, 12}
        OBVIOUS
      <3> QED
        BY <2>3, <3>1 DEF KindOf
    <2> QED
      BY <2>2, <2>4
  <1>4. ASSUME NEW id \in DOMAIN Table(last, 11)
        PROVE  id \in DOMAIN rows /\ id[1] = "allocation"
    <2>1. id[1] = "allocation"
      BY <1>2, TableKinds
    <2>2. There(rows, last, 11, id)
      BY <1>1 DEF Arrived
    <2> QED
      BY <2>1, <2>2 DEF There, TakenIn
  <1> QED
    BY <1>2, <1>3, <1>4 DEF Kind

(* The shares of a receipt, merged target by target, add up to what they   *)
(* were.                                                                   *)
LEMMA AllottedAsFiled ==
    ASSUME ImportInv, HistoryInv, Finished, tried = {last}, NEW r, r \notin reallotted
    PROVE  Allotted(r) = Total({x \in Shares(Files[last]) : x.receipt = r})
  <1> DEFINE All == Shares(Files[last])
             Mine == {x \in All : x.receipt = r}
             ids == {id \in Kind(DOMAIN rows, "allocation") : id[2] = r}
             money == [x \in Mine |-> x.amount]
             held == [id \in ids |-> rows[id].amount]
             key == [x \in Mine |-> <<"allocation", x.receipt, x.target>>]
             Under(id) == {x \in Mine : key[x] = id}
  <1>1. IsFiniteSet(All) /\ \A x \in All : x.amount \in Nat
    <2>1. last \in DOMAIN Files
      BY DEF HistoryInv
    <2> QED
      BY <2>1, SharesAreMoney
  <1>2. /\ DOMAIN AllocationRows(Files[last]) = {<<"allocation", x.receipt, x.target>> : x \in All}
        /\ \A id \in DOMAIN AllocationRows(Files[last]) : AllocationRows(Files[last])[id].amount =
             Total({x \in All : <<x.receipt, x.target>> = <<id[2], id[3]>>})
    BY DEF AllocationRows, Merged
  <1> HIDE DEF All
  <1>3. /\ ids = {<<"allocation", x.receipt, x.target>> : x \in Mine}
        /\ \A id \in ids : rows[id].amount =
             Total({x \in All : <<x.receipt, x.target>> = <<id[2], id[3]>>})
    <2>1. ids = {id \in DOMAIN AllocationRows(Files[last]) : id[2] = r}
      BY AllocationsAreFiled
    <2>2. \A id \in ids : rows[id] = AllocationRows(Files[last])[id]
      BY <2>1, AllocationsAreFiled
    <2> QED
      BY <1>2, <2>1, <2>2
  <1>4. IsFiniteSet(Mine) /\ \A x \in Mine : money[x] \in Nat
    BY <1>1, FS_Subset
  <1>5. ids = {key[x] : x \in Mine}
    BY <1>3
  <1>6. IsFiniteSet(ids) /\ \A x \in Mine : key[x] \in ids
    <2>1. IsFiniteSet({key[x] : x \in Mine})
      <3> HIDE DEF key, Mine
      <3> QED
        BY <1>4, ImageIsFinite
    <2> QED
      BY <1>5, <2>1
  <1>7. ASSUME NEW id \in ids
        PROVE  held[id] = Sum(money, Under(id))
    <2>1. PICK y \in Mine : id = <<"allocation", y.receipt, y.target>>
      BY <1>3
    <2>2. {x \in All : <<x.receipt, x.target>> = <<id[2], id[3]>>} = Under(id)
      BY <2>1
    <2>3. held[id] = Total(Under(id))
      BY <1>3, <2>2
    <2> DEFINE part == [x \in Under(id) |-> x.amount]
    <2>4. Total(Under(id)) = Sum(part, Under(id))
      BY TotalIs
    <2>5. IsFiniteSet(Under(id)) /\ \A x \in Under(id) : part[x] = money[x]
      BY <1>4, FS_Subset
    <2> HIDE DEF part, money, Under
    <2>6. Sum(part, Under(id)) = Sum(money, Under(id))
      BY <2>5, SumEqual
    <2> QED
      BY <2>3, <2>4, <2>6
  <1>8. Sum(held, ids) = Sum(money, Mine)
    <2> DEFINE group == [id \in ids |-> Under(id)]
    <2>1. \A id \in ids : \A x : x \in group[id] <=> x \in Mine /\ key[x] = id
      OBVIOUS
    <2>2. \A id \in ids : held[id] = Sum(money, group[id])
      BY <1>7
    <2> HIDE DEF held, ids, money, Mine, key, Under, group
    <2> QED
      BY <1>4, <1>6, <2>1, <2>2, SumByGroup
  <1>9. Allotted(r) = Sum(held, ids)
    <2>1. DOMAIN held = ids
      OBVIOUS
    <2> HIDE DEF held
    <2>2. SumFunction(held) = Sum(held, ids)
      BY <2>1 DEF SumFunction, Sum
    <2> QED
      BY <2>2 DEF Allotted, AllottedIn, held
  <1>10. Total(Mine) = Sum(money, Mine)
    BY TotalIs
  <1> QED
    BY <1>8, <1>9, <1>10 DEF All

(* An import that stands as completed received and spent, to the penny,    *)
(* what its file says, and allots of every receipt of a single file that   *)
(* no work in between reallotted what the file allots, however the shares  *)
(* were merged (importSozan1, reconcileSozan1Migration).                   *)
THEOREM ToThePennyHolds == Spec => []ToThePenny
  <1>1. ImportInv /\ HistoryInv => ToThePenny
    <2> SUFFICES ASSUME ImportInv, HistoryInv, Finished, ~unchecked
                 PROVE  /\ Actual.received = Expected(Files[last]).received
                        /\ Actual.entries = Expected(Files[last]).entries
                        /\ tried = {last} => \A r \in {x.receipt : x \in Shares(Files[last])} \ reallotted :
                             Allotted(r) = Total({x \in Shares(Files[last]) : x.receipt = r})
      BY DEF ToThePenny
    <2>1. Actual = Expected(Files[last])
      BY DEF ImportInv, CompletedIsChecked
    <2> QED
      BY <2>1, AllottedAsFiled
  <1>2. Init => HistoryInv
    BY DEF Init, HistoryInv
  <1> QED
    BY <1>1, <1>2, HistoryStep, ImportInvariant, PTL DEF Spec

=============================================================================
