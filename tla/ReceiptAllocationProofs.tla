------------------------ MODULE ReceiptAllocationProofs ------------------------
(***************************************************************************)
(* Proofs about ReceiptAllocation for any receipts, targets, students,     *)
(* families, amounts, prices and dates, and any number of mutations and of *)
(* dead workers: no receipt is overspent and no obligation overpaid,       *)
(* tutoring mutations are not refused, the states of cycles and the credit *)
(* of students are right when the mutations sent have ended, and after a   *)
(* correction the payer's money lies where oldest-first allocation puts it.*)
(***************************************************************************)
EXTENDS ReceiptAllocationInvariants, FiniteSetTheorems, WellFoundedInduction, TLAPS

-----------------------------------------------------------------------------
(* Mutations and tasks.                                                    *)

(* A mutation is known by its op.                                          *)
LEMMA MutationByOp ==
    ASSUME NEW m \in AllMutations
    PROVE  /\ m.op \in {"create"} \union Corrections \union Tutoring
           /\ m.op = "create" => m \in CreateMutations
           /\ m.op = "update" => m \in UpdateMutations
           /\ m.op = "delete" => m \in DeleteMutations
           /\ m.op = "restore" => m \in RestoreMutations
           /\ m.op = "complete" => m \in CompleteMutations
           /\ m.op = "reopen" => m \in ReopenMutations
           /\ m.op = "configure" => m \in ConfigureMutations
  <1>1. CASE m \in CreateMutations
    BY <1>1 DEF CreateMutations
  <1>2. CASE m \in UpdateMutations
    BY <1>2 DEF UpdateMutations, Corrections
  <1>3. CASE m \in DeleteMutations
    BY <1>3 DEF DeleteMutations, Corrections
  <1>4. CASE m \in RestoreMutations
    BY <1>4 DEF RestoreMutations, Corrections
  <1>5. CASE m \in CompleteMutations
    BY <1>5 DEF CompleteMutations, Tutoring
  <1>6. CASE m \in ReopenMutations
    BY <1>6 DEF ReopenMutations, Tutoring
  <1>7. CASE m \in ConfigureMutations
    BY <1>7 DEF ConfigureMutations, Tutoring
  <1> QED
    BY <1>1, <1>2, <1>3, <1>4, <1>5, <1>6, <1>7 DEF AllMutations

(* No mutation is the one that stands for none.                            *)
LEMMA NoMutationIsNone ==
    NoMutation.op = "none" /\ \A m \in AllMutations : m.op # "none" /\ m # NoMutation
  <1>1. NoMutation.op = "none"
    BY DEF NoMutation
  <1>2. \A m \in AllMutations : m.op # "none"
    BY MutationByOp DEF Corrections, Tutoring
  <1> QED
    BY <1>1, <1>2

(* The first task, and the others.                                         *)
LEMMA HeadAndTail ==
    ASSUME NEW S, NEW q \in Seq(S), q # <<>>
    PROVE  /\ Tail(q) \in Seq(S) /\ q[1] \in S /\ 1 \in 1..Len(q)
           /\ ToSet(q) = {q[1]} \union ToSet(Tail(q))
           /\ Len(Tail(q)) = Len(q) - 1
           /\ \A i \in 1..Len(Tail(q)) : Tail(q)[i] = q[i + 1] /\ i + 1 \in 1..Len(q)
  <1>1. /\ Tail(q) \in Seq(S) /\ q[1] \in S /\ 1 \in 1..Len(q)
        /\ Len(Tail(q)) = Len(q) - 1
        /\ \A i \in 1..Len(Tail(q)) : Tail(q)[i] = q[i + 1] /\ i + 1 \in 1..Len(q)
    OBVIOUS
  <1>2. DOMAIN q = 1..Len(q) /\ DOMAIN Tail(q) = 1..Len(Tail(q)) /\ Len(q) \in Nat
    OBVIOUS
  <1>3. \A i \in 1..Len(q) : i = 1 \/ (i - 1 \in 1..Len(Tail(q)) /\ Tail(q)[i - 1] = q[i])
    BY <1>1, <1>2
  <1>4. ToSet(q) \in SUBSET ({q[1]} \union ToSet(Tail(q)))
    BY <1>2, <1>3 DEF ToSet
  <1>5. {q[1]} \union ToSet(Tail(q)) \in SUBSET ToSet(q)
    BY <1>1, <1>2 DEF ToSet
  <1> QED
    BY <1>1, <1>4, <1>5

(* What is left of an orderly handler is orderly.                          *)
LEMMA OrderlyTail ==
    ASSUME NEW m, NEW S, NEW q \in Seq(S), q # <<>>, Orderly(m, q)
    PROVE  /\ Orderly(m, Tail(q))
           /\ q[1][1] \notin Statements =>
                \A x \in ToSet(q) : x[1] \notin Statements
           /\ q[1][1] \notin Statements /\ m.op # "update" =>
                \A x \in ToSet(Tail(q)) : x[1] # "rebuild"
  <1>1. /\ Len(q) \in Nat /\ 1 \in 1..Len(q) /\ DOMAIN q = 1..Len(q)
        /\ DOMAIN Tail(q) = 1..Len(Tail(q)) /\ Len(Tail(q)) = Len(q) - 1
        /\ \A i \in 1..Len(Tail(q)) : Tail(q)[i] = q[i + 1] /\ i + 1 \in 1..Len(q)
    BY HeadAndTail
  <1>2. Orderly(m, Tail(q))
    BY <1>1 DEF Orderly
  <1>3. \A i \in 1..Len(q) : i = 1 \/ 1 < i
    OBVIOUS
  <1>4. q[1][1] \notin Statements => \A i \in 1..Len(q) : q[i][1] \notin Statements
    BY <1>1, <1>3 DEF Orderly
  <1>5. q[1][1] \notin Statements /\ m.op # "update" =>
          \A i \in 1..Len(Tail(q)) : Tail(q)[i][1] # "rebuild"
    <2> SUFFICES ASSUME q[1][1] \notin Statements, m.op # "update",
                        NEW i \in 1..Len(Tail(q)), Tail(q)[i][1] = "rebuild"
                 PROVE  FALSE
      OBVIOUS
    <2>1. q[i + 1][1] = "rebuild" /\ i + 1 \in 1..Len(q) /\ 1 < i + 1
      BY <1>1
    <2> QED
      BY <2>1, <1>1 DEF Orderly
  <1> QED
    BY <1>1, <1>2, <1>4, <1>5 DEF ToSet

(* Two sequences, one after the other.                                     *)
LEMMA Joined ==
    ASSUME NEW S, NEW s \in Seq(S), NEW r \in Seq(S)
    PROVE  /\ s \o r \in Seq(S)
           /\ ToSet(s \o r) = ToSet(s) \union ToSet(r)
           /\ Len(s \o r) = Len(s) + Len(r)
           /\ \A i \in 1..Len(s) : (s \o r)[i] = s[i] /\ i \in 1..Len(s \o r)
           /\ \A i \in 1..Len(s \o r) : i \notin 1..Len(s) =>
                i - Len(s) \in 1..Len(r) /\ (s \o r)[i] = r[i - Len(s)]
  <1>1. /\ s \o r \in Seq(S) /\ Len(s) \in Nat /\ Len(r) \in Nat
        /\ DOMAIN s = 1..Len(s) /\ DOMAIN r = 1..Len(r)
        /\ DOMAIN (s \o r) = 1..Len(s \o r)
        /\ Len(s \o r) = Len(s) + Len(r)
        /\ \A i \in 1..Len(s) : (s \o r)[i] = s[i] /\ i \in 1..Len(s \o r)
        /\ \A i \in 1..Len(s \o r) : i \notin 1..Len(s) =>
             i - Len(s) \in 1..Len(r) /\ (s \o r)[i] = r[i - Len(s)]
    OBVIOUS
  <1>2. \A j \in 1..Len(r) : /\ j + Len(s) \in 1..Len(s \o r)
                             /\ j + Len(s) \notin 1..Len(s)
                             /\ (j + Len(s)) - Len(s) = j
    BY <1>1
  <1>3. ToSet(s \o r) \in SUBSET (ToSet(s) \union ToSet(r))
    BY <1>1 DEF ToSet
  <1>4. ToSet(s) \in SUBSET ToSet(s \o r)
    BY <1>1 DEF ToSet
  <1>5. ToSet(r) \in SUBSET ToSet(s \o r)
    <2> SUFFICES ASSUME NEW j \in 1..Len(r) PROVE r[j] \in ToSet(s \o r)
      BY <1>1 DEF ToSet
    <2>1. (s \o r)[j + Len(s)] = r[j] /\ j + Len(s) \in 1..Len(s \o r)
      BY <1>1, <1>2
    <2> QED
      BY <2>1, <1>1 DEF ToSet
  <1> QED
    BY <1>1, <1>3, <1>4, <1>5

(* Two lists of tasks make one.                                            *)
LEMMA JoinedTasks ==
    ASSUME NEW s \in Seq(AllTasks), NEW r \in Seq(AllTasks)
    PROVE  s \o r \in Seq(AllTasks) /\ ToSet(s \o r) = ToSet(s) \union ToSet(r)
  BY Joined

(* Statements and then what is not one: an orderly handler.                *)
LEMMA OrderlyJoined ==
    ASSUME NEW m, NEW S, NEW s \in Seq(S), NEW r \in Seq(S),
           \A x \in ToSet(s) : x[1] \in Statements,
           \A i \in 1..Len(r) :
             /\ r[i][1] \notin Statements
             /\ r[i][1] = "rebuild" /\ m.op # "update" => i = 1
    PROVE  Orderly(m, s \o r)
  <1> DEFINE q == s \o r
  <1>1. /\ Len(s) \in Nat /\ Len(r) \in Nat
        /\ \A i \in 1..Len(s) : s[i][1] \in Statements
    BY DEF ToSet
  <1>2. /\ Len(q) = Len(s) + Len(r)
        /\ \A i \in 1..Len(s) : q[i] = s[i]
        /\ \A i \in 1..Len(q) : i \notin 1..Len(s) =>
             i - Len(s) \in 1..Len(r) /\ q[i] = r[i - Len(s)]
    BY Joined
  <1> HIDE DEF q
  <1> SUFFICES ASSUME NEW i \in 1..Len(q), NEW j \in 1..Len(q), i < j
               PROVE  /\ q[j][1] \in Statements => q[i][1] \in Statements
                      /\ q[j][1] = "rebuild" /\ m.op # "update" => q[i][1] \in Statements
    BY DEF Orderly, q
  <1>3. CASE i \in 1..Len(s)
    BY <1>1, <1>2, <1>3
  <1>4. CASE i \notin 1..Len(s)
    <2>1. j \notin 1..Len(s)
      BY <1>1, <1>2, <1>4
    <2>2. /\ i - Len(s) \in 1..Len(r) /\ j - Len(s) \in 1..Len(r)
          /\ q[j] = r[j - Len(s)] /\ j - Len(s) # 1
      BY <1>1, <1>2, <1>4, <2>1
    <2> QED
      BY <2>2
  <1> QED
    BY <1>3, <1>4

(* Short handlers.                                                         *)
LEMMA Short ==
    ASSUME NEW S, NEW a \in S, NEW b \in S
    PROVE  /\ <<a>> \in Seq(S) /\ ToSet(<<a>>) = {a} /\ Len(<<a>>) = 1
           /\ <<a, b>> \in Seq(S) /\ ToSet(<<a, b>>) = {a, b} /\ Len(<<a, b>>) = 2
  <1>1. /\ DOMAIN <<a>> = 1..1 /\ DOMAIN <<a, b>> = 1..2
    OBVIOUS
  <1>2. 1..1 = {1} /\ 1..2 = {1, 2}
    OBVIOUS
  <1>3. ToSet(<<a>>) = {a}
    BY <1>1, <1>2 DEF ToSet
  <1>4. ToSet(<<a, b>>) = {a, b}
    BY <1>1, <1>2 DEF ToSet
  <1> QED
    BY <1>3, <1>4

(* A handler of three tasks.                                               *)
LEMMA ShortThree ==
    ASSUME NEW a \in AllTasks, NEW b \in AllTasks, NEW c \in AllTasks
    PROVE  <<a, b, c>> \in Seq(AllTasks) /\ ToSet(<<a, b, c>>) = {a, b, c}
  <1>1. DOMAIN <<a, b, c>> = 1..3 /\ 1..3 = {1, 2, 3}
    OBVIOUS
  <1>2. ToSet(<<a, b, c>>) = {a, b, c}
    BY <1>1 DEF ToSet
  <1> QED
    BY <1>2

(* Handlers of two tasks and of one.                                       *)
LEMMA ShortTwo ==
    ASSUME NEW a \in AllTasks, NEW b \in AllTasks
    PROVE  /\ <<a, b>> \in Seq(AllTasks) /\ ToSet(<<a, b>>) = {a, b}
           /\ <<a>> \in Seq(AllTasks) /\ ToSet(<<a>>) = {a}
  BY Short

(* No task at all.                                                         *)
LEMMA NoTask == /\ \A S : <<>> \in Seq(S)
                /\ ToSet(<<>>) = {} /\ Len(<<>>) = 0
                /\ \A m : Orderly(m, <<>>)
  <1>1. Len(<<>>) = 0 /\ DOMAIN <<>> = {} /\ 1..0 = {}
    OBVIOUS
  <1> QED
    BY <1>1 DEF ToSet, Orderly

(* The tasks of refreshing a payer.                                        *)
LEMMA RefreshTasks ==
    ASSUME NEW p \in Payers
    PROVE  /\ Refresh(p) \in Seq(AllTasks) /\ Len(Refresh(p)) \in {1, 2}
           /\ \A i \in 1..Len(Refresh(p)) :
                /\ Refresh(p)[i][1] \notin Statements
                /\ Refresh(p)[i][1] = "rebuild" => i = 1
           /\ \A x \in ToSet(Refresh(p)) :
                \/ x = <<"rebuild", p>> /\ p \in Students
                \/ x = <<"normalize", p>>
           /\ p \in Students => <<"rebuild", p>> \in ToSet(Refresh(p))
           /\ p \in Students => Refresh(p) = RebuildTasks(p)
  <1> DEFINE a == <<"rebuild", p>>
             b == <<"normalize", p>>
  <1>1. a \in AllTasks /\ b \in AllTasks
    BY DEF AllTasks, Kinds
  <1>2. /\ a[1] = "rebuild" /\ b[1] = "normalize"
        /\ a[1] \notin Statements /\ b[1] \notin Statements
    BY DEF Statements
  <1>3. Refresh(p) = IF p \in Students THEN <<a, b>> ELSE <<b>>
    BY DEF Refresh, RebuildTasks
  <1>4. /\ <<a, b>>[1] = a /\ <<a, b>>[2] = b /\ <<b>>[1] = b
        /\ 1..1 = {1} /\ 1..2 = {1, 2}
    OBVIOUS
  <1> HIDE DEF a, b
  <1>5. /\ <<a, b>> \in Seq(AllTasks) /\ ToSet(<<a, b>>) = {a, b} /\ Len(<<a, b>>) = 2
        /\ <<b>> \in Seq(AllTasks) /\ ToSet(<<b>>) = {b} /\ Len(<<b>>) = 1
    BY <1>1, Short
  <1>6. p \in Students => Refresh(p) = RebuildTasks(p)
    BY DEF Refresh
  <1>7. /\ Refresh(p) \in Seq(AllTasks) /\ Len(Refresh(p)) \in {1, 2}
        /\ \A x \in ToSet(Refresh(p)) : (x = a /\ p \in Students) \/ x = b
        /\ p \in Students => a \in ToSet(Refresh(p))
    BY <1>3, <1>5
  <1>8. \A i \in 1..Len(Refresh(p)) :
          /\ Refresh(p)[i][1] \notin Statements
          /\ Refresh(p)[i][1] = "rebuild" => i = 1
    BY <1>2, <1>3, <1>4, <1>5
  <1> QED
    BY <1>6, <1>7, <1>8 DEF a, b

(* Pairs that a handler cannot have.                                       *)
LEMMA PairedJoined ==
    ASSUME NEW S, NEW s \in Seq(S), NEW r \in Seq(S), Paired(s),
           \A x \in ToSet(r) : x[1] \notin {"link", "unlink"}
    PROVE  Paired(s \o r)
  <1> DEFINE q == s \o r
  <1>1. /\ Len(s) \in Nat /\ Len(r) \in Nat /\ Len(q) = Len(s) + Len(r)
        /\ \A i \in 1..Len(s) : q[i] = s[i]
        /\ \A i \in 1..Len(q) : i \notin 1..Len(s) =>
             i - Len(s) \in 1..Len(r) /\ q[i] = r[i - Len(s)]
        /\ \A i \in 1..Len(r) : r[i][1] \notin {"link", "unlink"}
    BY Joined DEF ToSet
  <1> HIDE DEF q
  <1> SUFFICES ASSUME NEW i \in 1..Len(q), NEW j \in 1..Len(q), i < j,
                      q[j][1] \in {"link", "unlink"}
               PROVE  q[i][1] \notin {"markDue", "open"}
    BY DEF Paired, q
  <1>2. j \in 1..Len(s)
    BY <1>1
  <1>3. i \in 1..Len(s)
    BY <1>1, <1>2
  <1> QED
    BY <1>1, <1>2, <1>3 DEF Paired

(* A handler that links and unlinks nothing.                               *)
LEMMA PairedAlone ==
    ASSUME NEW S, NEW q \in Seq(S), \A x \in ToSet(q) : x[1] \notin {"link", "unlink"}
    PROVE  Paired(q)
  BY DEF Paired, ToSet

(* Two of three.                                                           *)
LEMMA TwoOf ==
    ASSUME NEW a, NEW b, NEW c
    PROVE  /\ \A i, j \in 1..Len(<<a>>) : ~(i < j)
           /\ \A i, j \in 1..Len(<<a, b>>) : i < j =>
                <<a, b>>[i] = a /\ <<a, b>>[j] = b
           /\ \A i, j \in 1..Len(<<a, b, c>>) : i < j =>
                \/ <<a, b, c>>[i] = a /\ <<a, b, c>>[j] = b
                \/ <<a, b, c>>[i] = a /\ <<a, b, c>>[j] = c
                \/ <<a, b, c>>[i] = b /\ <<a, b, c>>[j] = c
  OBVIOUS

(* Statements that are tasks.                                              *)
LEMMA TaskTypes ==
    /\ \A k \in Statements, x \in Receipts \union Targets :
         <<k, x>> \in AllTasks /\ <<k, x>>[1] = k
    /\ \A p \in Payers : <<"normalize", p>> \in AllTasks /\ <<"rebuild", p>> \in AllTasks
    /\ "rebuild" \notin Statements /\ "normalize" \notin Statements
    /\ Students \in SUBSET Payers
  BY DEF AllTasks, Kinds, Statements, Payers

(* The tasks of receipt.create.                                            *)
LEMMA CreateTasksOK ==
    ASSUME NEW m \in CreateMutations PROVE TasksOK(m)
  <1> DEFINE a == <<"insert", m.receipt>>
             b == <<"normalize", m.payer>>
  <1>1. /\ m.op = "create" /\ m.receipt \in Receipts /\ m.payer \in Payers
        /\ Tasks(m) = <<a, b>> /\ <<a, b>> = <<a>> \o <<b>>
    BY DEF CreateMutations, Tasks, CreateTasks
  <1>2. /\ a \in AllTasks /\ b \in AllTasks /\ a[1] = "insert" /\ b[1] = "normalize"
        /\ "insert" \in Statements /\ "normalize" \notin Statements
        /\ TaskOf(m, a) /\ TaskOf(m, b)
    BY <1>1 DEF AllTasks, Kinds, Statements, TaskOf
  <1> HIDE DEF a, b
  <1>3. /\ <<a>> \in Seq(AllTasks) /\ ToSet(<<a>>) = {a}
        /\ <<b>> \in Seq(AllTasks) /\ Len(<<b>>) = 1 /\ <<b>>[1] = b
        /\ ToSet(<<a, b>>) = {a, b} /\ <<a, b>> \in Seq(AllTasks)
    BY <1>2, Short
  <1>4. \A i \in 1..Len(<<b>>) : <<b>>[i] = b
    BY <1>3
  <1>5. Orderly(m, <<a>> \o <<b>>)
    BY <1>1, <1>2, <1>3, <1>4, OrderlyJoined
  <1>6. Ahead(m, <<a, b>>)
    BY <1>1 DEF Ahead, Corrections
  <1>7. Paired(<<a, b>>)
    BY <1>2, <1>3, PairedAlone
  <1>8. Alone(m, <<a, b>>)
    BY <1>2, TwoOf DEF Alone
  <1> QED
    BY <1>1, <1>2, <1>3, <1>5, <1>6, <1>7, <1>8 DEF TasksOK

(* The tasks of receipt.delete and of receipt.restore.                     *)
LEMMA DeleteTasksOK ==
    ASSUME NEW m \in DeleteMutations \union RestoreMutations,
           receipts[m.receipt].payer \in Payers
    PROVE  TasksOK(m)
  <1> DEFINE p == receipts[m.receipt].payer
             a == <<m.op, m.receipt>>
             r == Refresh(p)
  <1>1. /\ m.op \in {"delete", "restore"} /\ m.receipt \in Receipts /\ p \in Payers
        /\ Tasks(m) = <<a>> \o r
    BY DEF DeleteMutations, RestoreMutations, Tasks, DeleteTasks, RestoreTasks
  <1>2. /\ a \in AllTasks /\ a[1] = m.op /\ a[2] = m.receipt
        /\ {"delete", "restore"} \in SUBSET Statements
        /\ TaskOf(m, a)
    BY <1>1 DEF AllTasks, Kinds, Statements, TaskOf
  <1> HIDE DEF a, r
  <1>3. /\ r \in Seq(AllTasks)
        /\ \A i \in 1..Len(r) : r[i][1] \notin Statements /\ (r[i][1] = "rebuild" => i = 1)
        /\ \A x \in ToSet(r) : (x = <<"rebuild", p>> /\ p \in Students) \/ x = <<"normalize", p>>
        /\ p \in Students => <<"rebuild", p>> \in ToSet(r)
    BY <1>1, RefreshTasks DEF r
  <1> HIDE DEF p
  <1>4. <<a>> \in Seq(AllTasks) /\ ToSet(<<a>>) = {a}
    BY <1>2, Short
  <1>5. Orderly(m, <<a>> \o r)
    BY <1>1, <1>2, <1>3, <1>4, OrderlyJoined
  <1>6. <<a>> \o r \in Seq(AllTasks) /\ ToSet(<<a>> \o r) = {a} \union ToSet(r)
    BY <1>3, <1>4, JoinedTasks
  <1>7. \A x \in ToSet(r) : TaskOf(m, x)
    BY <1>1, <1>3 DEF TaskOf, Corrections
  <1>8. \A q \in Students : <<"rebuild", q>> \in ToSet(<<a>> \o r) => q = p
    BY <1>1, <1>2, <1>3, <1>6
  <1>9. Ahead(m, <<a>> \o r)
    BY <1>1, <1>3, <1>6, <1>8 DEF Ahead, p
  <1>10. \A x \in ToSet(<<a>> \o r) : x[1] \notin {"link", "unlink"}
    BY <1>1, <1>2, <1>3, <1>6
  <1>11. Paired(<<a>> \o r)
    BY <1>6, <1>10, PairedAlone
  <1> QED
    BY <1>1, <1>2, <1>5, <1>6, <1>7, <1>9, <1>11 DEF TasksOK, Alone

(* The tasks of receipt.update.                                            *)
LEMMA UpdateTasksOK ==
    ASSUME NEW m \in UpdateMutations, receipts[m.receipt].payer \in Payers
    PROVE  TasksOK(m)
  <1> DEFINE p == receipts[m.receipt].payer
             a == <<"change", m.receipt>>
             r == Refresh(p)
             s == Refresh(m.payer)
  <1>1. /\ m.op = "update" /\ m.receipt \in Receipts /\ p \in Payers
        /\ m.payer \in Students /\ m.payer \in Payers
    BY DEF UpdateMutations, Payers
  <1>2. Tasks(m) = (<<a>> \o r) \o s
    BY <1>1, RefreshTasks DEF Tasks, UpdateTasks
  <1>3. /\ a \in AllTasks /\ a[1] \in Statements /\ TaskOf(m, a) /\ a[1] = "change"
    BY <1>1 DEF AllTasks, Kinds, Statements, TaskOf
  <1>4. /\ r \in Seq(AllTasks) /\ s \in Seq(AllTasks)
        /\ \A i \in 1..Len(r) : r[i][1] \notin Statements
        /\ \A i \in 1..Len(s) : s[i][1] \notin Statements
        /\ \A x \in ToSet(r) : (x = <<"rebuild", p>> /\ p \in Students) \/ x = <<"normalize", p>>
        /\ \A x \in ToSet(s) : x = <<"rebuild", m.payer>> \/ x = <<"normalize", m.payer>>
        /\ p \in Students => <<"rebuild", p>> \in ToSet(r)
        /\ <<"rebuild", m.payer>> \in ToSet(s)
    BY <1>1, RefreshTasks
  <1> HIDE DEF a, r, s, p
  <1>5. /\ <<a>> \in Seq(AllTasks) /\ ToSet(<<a>>) = {a}
    BY <1>3, Short
  <1>6. (<<a>> \o r) \o s = <<a>> \o (r \o s)
    BY <1>4, <1>5
  <1>7. /\ r \o s \in Seq(AllTasks) /\ ToSet(r \o s) = ToSet(r) \union ToSet(s)
        /\ \A i \in 1..Len(r \o s) : (r \o s)[i][1] \notin Statements
    <2>1. /\ r \o s \in Seq(AllTasks) /\ ToSet(r \o s) = ToSet(r) \union ToSet(s)
          /\ \A i \in 1..Len(r) : (r \o s)[i] = r[i]
          /\ \A i \in 1..Len(r \o s) : i \notin 1..Len(r) =>
               i - Len(r) \in 1..Len(s) /\ (r \o s)[i] = s[i - Len(r)]
      BY <1>4, Joined
    <2> QED
      BY <2>1, <1>4
  <1> DEFINE u == r \o s
  <1>71. /\ u \in Seq(AllTasks) /\ ToSet(u) = ToSet(r) \union ToSet(s)
         /\ \A i \in 1..Len(u) : u[i][1] \notin Statements
    BY <1>7
  <1> HIDE DEF u
  <1>8. Orderly(m, <<a>> \o u)
    BY <1>1, <1>3, <1>5, <1>71, OrderlyJoined
  <1>81. <<a>> \o u \in Seq(AllTasks) /\ ToSet(<<a>> \o u) = ToSet(<<a>>) \union ToSet(u)
    BY <1>5, <1>71, JoinedTasks
  <1>9. ToSet(<<a>> \o u) = {a} \union ToSet(r) \union ToSet(s)
    BY <1>5, <1>71, <1>81
  <1>10. \A x \in ToSet(r) \union ToSet(s) : TaskOf(m, x)
    BY <1>1, <1>4 DEF TaskOf, Corrections
  <1>11. Ahead(m, <<a>> \o u)
    BY <1>1, <1>4, <1>9 DEF Ahead, p
  <1>12. \A x \in ToSet(<<a>> \o u) : x[1] \notin {"link", "unlink"}
    BY <1>3, <1>4, <1>9
  <1>13. Paired(<<a>> \o u)
    BY <1>81, <1>12, PairedAlone
  <1> QED
    BY <1>1, <1>2, <1>3, <1>6, <1>8, <1>81, <1>9, <1>10, <1>11, <1>13 DEF TasksOK, Alone, u

(* The tasks of a correction of the opening progress.                      *)
LEMMA ConfigureTasksOK ==
    ASSUME NEW m \in ConfigureMutations PROVE TasksOK(m)
  <1> DEFINE p == Owner[m.target]
             a == <<"opening", m.target>>
             r == Refresh(p)
  <1>1. /\ m.op = "configure" /\ m.target \in OpeningCycles /\ p \in Students /\ p \in Payers
        /\ m.target \in Targets
    BY AllocationAssumption DEF ConfigureMutations, Payers
  <1>2. Tasks(m) = <<a>> \o r
    BY <1>1, RefreshTasks DEF Tasks, ConfigureTasks
  <1>3. /\ a \in AllTasks /\ a[1] \in Statements /\ TaskOf(m, a) /\ a[1] = "opening"
    BY <1>1 DEF AllTasks, Kinds, Statements, TaskOf
  <1> HIDE DEF a, r
  <1>4. /\ r \in Seq(AllTasks)
        /\ \A i \in 1..Len(r) : r[i][1] \notin Statements /\ (r[i][1] = "rebuild" => i = 1)
        /\ \A x \in ToSet(r) : (x = <<"rebuild", p>> /\ p \in Students) \/ x = <<"normalize", p>>
        /\ p \in Students => <<"rebuild", p>> \in ToSet(r)
    BY <1>1, RefreshTasks DEF r
  <1>5. <<a>> \in Seq(AllTasks) /\ ToSet(<<a>>) = {a}
    BY <1>3, Short
  <1>6. Orderly(m, <<a>> \o r)
    BY <1>1, <1>3, <1>4, <1>5, OrderlyJoined
  <1>7. <<a>> \o r \in Seq(AllTasks) /\ ToSet(<<a>> \o r) = {a} \union ToSet(r)
    BY <1>4, <1>5, JoinedTasks
  <1>8. \A x \in ToSet(r) : TaskOf(m, x)
    BY <1>1, <1>4 DEF TaskOf
  <1>9. Ahead(m, <<a>> \o r)
    BY <1>1, <1>4, <1>7 DEF Ahead, Corrections
  <1>10. \A x \in ToSet(<<a>> \o r) : x[1] \notin {"link", "unlink"}
    BY <1>3, <1>4, <1>7
  <1>11. Paired(<<a>> \o r)
    BY <1>7, <1>10, PairedAlone
  <1> QED
    BY <1>1, <1>2, <1>3, <1>6, <1>7, <1>8, <1>9, <1>11 DEF TasksOK, Alone

(* The tasks of completing a lesson.                                       *)
LEMMA CompleteTasksOK ==
    ASSUME NEW m \in CompleteMutations PROVE TasksOK(m)
  <1> DEFINE t == m.target
             a == <<"attend", t>>
             b == <<"link", t>>
             c == IF Owner[t] \in Students THEN <<"markDue", t>> ELSE <<"normalize", Owner[t]>>
  <1>1. m.op = "complete" /\ t \in Targets /\ Owner[t] \in Payers
    BY AllocationAssumption DEF CompleteMutations
  <1>2. /\ a \in AllTasks /\ b \in AllTasks
        /\ a[1] = "attend" /\ b[1] = "link" /\ a[1] \in Statements /\ b[1] \in Statements
        /\ TaskOf(m, a) /\ (t \in Cycles => TaskOf(m, b))
    BY <1>1 DEF AllTasks, Kinds, Statements, TaskOf
  <1>3. /\ c \in AllTasks /\ c[1] \in {"markDue", "normalize"}
        /\ c[1] = "markDue" => Owner[t] \in Students /\ c = <<"markDue", t>>
        /\ Owner[t] \in Students => c = <<"markDue", t>>
        /\ t \in Cycles => TaskOf(m, c)
    BY <1>1 DEF AllTasks, Kinds, Statements, TaskOf
  <1>4. CASE t \notin Cycles
    <2>1. Tasks(m) = <<a>>
      BY <1>1, <1>4 DEF Tasks, CompleteTasks
    <2> HIDE DEF a, b, c
    <2>2. <<a>> \in Seq(AllTasks) /\ ToSet(<<a>>) = {a}
      BY <1>2, Short
    <2>3. Orderly(m, <<a>>) /\ Paired(<<a>>)
      BY TwoOf DEF Orderly, Paired
    <2>4. Ahead(m, <<a>>)
      BY <1>1, <1>2, <2>2 DEF Ahead, Corrections
    <2> QED
      BY <1>1, <1>2, <2>1, <2>2, <2>3, <2>4 DEF TasksOK, Alone
  <1>5. CASE t \in Cycles
    <2>1. Tasks(m) = <<a, b, c>>
      BY <1>1, <1>5 DEF Tasks, CompleteTasks
    <2>10. a # b /\ b = <<"link", t>>
      BY <1>2
    <2> HIDE DEF a, b, c
    <2>2. <<a, b, c>> \in Seq(AllTasks) /\ ToSet(<<a, b, c>>) = {a, b, c}
      BY <1>2, <1>3, ShortThree
    <2> DEFINE q == <<a, b, c>>
    <2>20. \A i, j \in 1..Len(q) : i < j => q[i][1] \in Statements
      BY <1>2, TwoOf
    <2>21. \A i, j \in 1..Len(q) : i < j => q[i] = a \/ q[j] = c
      BY TwoOf
    <2> HIDE DEF q
    <2>3. Orderly(m, q)
      BY <2>20 DEF Orderly
    <2>30. Paired(q)
      BY <2>21, <1>2, <1>3 DEF Paired
    <2>4. Ahead(m, q)
      <3>1. \A u \in Cycles : Owner[u] \in Students =>
              /\ <<"link", u>> \in ToSet(q) => <<"markDue", u>> \in ToSet(q)
              /\ <<"markDue", u>> \in ToSet(q) => <<"link", u>> \in ToSet(q) \/ u \in full
        <4> SUFFICES ASSUME NEW u \in Cycles, Owner[u] \in Students
                     PROVE /\ <<"link", u>> \in ToSet(q) => <<"markDue", u>> \in ToSet(q)
                           /\ <<"markDue", u>> \in ToSet(q) => <<"link", u>> \in ToSet(q)
          OBVIOUS
        <4>1. <<"link", u>> \in ToSet(q) => u = t
          BY <2>2, <1>2, <1>3, <2>10 DEF q
        <4>2. <<"markDue", u>> \in ToSet(q) => u = t
          BY <2>2, <1>2, <1>3, <2>10 DEF q
        <4> QED
          BY <4>1, <4>2, <2>2, <2>10, <1>3 DEF q
      <3> QED
        BY <1>1, <3>1 DEF Ahead, Corrections
    <2> QED
      BY <1>1, <1>2, <1>3, <1>5, <2>1, <2>2, <2>3, <2>30, <2>4 DEF TasksOK, Alone, q
  <1> QED
    BY <1>4, <1>5

(* The students to rebuild after reopening.                                *)
LEMMA RebuiltTasks ==
    ASSUME NEW t \in Targets
    PROVE  /\ Rebuilt(t) \in Seq(AllTasks)
           /\ \A i \in 1..Len(Rebuilt(t)) :
                Rebuilt(t)[i][1] \notin Statements /\ (Rebuilt(t)[i][1] = "rebuild" => i = 1)
           /\ \A x \in ToSet(Rebuilt(t)) :
                \/ x = <<"rebuild", Owner[t]>> /\ Owner[t] \in Students
                \/ x = <<"normalize", Owner[t]>>
           /\ Owner[t] \in Students /\ t \notin AbsentPayer =>
                <<"rebuild", Owner[t]>> \in ToSet(Rebuilt(t))
  <1>1. Owner[t] \in Payers
    BY AllocationAssumption
  <1>2. CASE t \in AbsentPayer
    <2>1. Rebuilt(t) = <<>> /\ <<>> \in Seq(AllTasks) /\ Len(<<>>) = 0 /\ 1..0 = {}
      BY <1>2 DEF Rebuilt
    <2> QED
      BY <1>2, <2>1, NoTask
  <1>3. CASE t \notin AbsentPayer
    <2>1. Rebuilt(t) = Refresh(Owner[t])
      BY <1>3 DEF Rebuilt
    <2> QED
      BY <1>1, <2>1, RefreshTasks
  <1> QED
    BY <1>2, <1>3

(* The statements of reopening.                                            *)
ReopenStatements(m) ==
    IF m.target \notin full THEN <<<<"reset", m.target>>>>
    ELSE IF Owner[m.target] \in Students
    THEN <<<<"unlink", m.target>>, <<"open", m.target>>, <<"reset", m.target>>>>
    ELSE <<<<"unlink", m.target>>, <<"reset", m.target>>>>

(* The statements with which a lesson is reopened.                         *)
LEMMA ReopenStatementsOK ==
    ASSUME NEW m \in ReopenMutations, full \in SUBSET Cycles, NEW s, s = ReopenStatements(m)
    PROVE  /\ s \in Seq(AllTasks) /\ Paired(s)
           /\ \A x \in ToSet(s) :
                /\ x[1] \in Statements /\ TaskOf(m, x) /\ x[2] = m.target
                /\ x = <<"unlink", m.target>> \/ x = <<"open", m.target>>
                     \/ x = <<"reset", m.target>>
           /\ Owner[m.target] \in Students =>
                (<<"unlink", m.target>> \in ToSet(s) <=> <<"open", m.target>> \in ToSet(s))
  <1> DEFINE t == m.target
             a == <<"unlink", t>>
             b == <<"open", t>>
             c == <<"reset", t>>
  <1>1. m.op = "reopen" /\ t \in Targets /\ (t \in full => t \in Cycles)
    BY DEF ReopenMutations
  <1>2. /\ a \in AllTasks /\ b \in AllTasks /\ c \in AllTasks
        /\ a[1] = "unlink" /\ b[1] = "open" /\ c[1] = "reset"
        /\ a[1] \in Statements /\ b[1] \in Statements /\ c[1] \in Statements
        /\ a[2] = t /\ b[2] = t /\ c[2] = t
    BY <1>1 DEF AllTasks, Kinds, Statements
  <1>3. /\ TaskOf(m, c)
        /\ t \in full => TaskOf(m, a)
        /\ t \in full /\ Owner[t] \in Students => TaskOf(m, b)
    BY <1>1 DEF TaskOf
  <1>4. s = IF t \notin full THEN <<c>> ELSE IF Owner[t] \in Students THEN <<a, b, c>>
            ELSE <<a, c>>
    BY DEF ReopenStatements
  <1> HIDE DEF a, b, c
  <1>50. /\ <<c>> \in Seq(AllTasks) /\ ToSet(<<c>>) = {c}
         /\ <<a, c>> \in Seq(AllTasks) /\ ToSet(<<a, c>>) = {a, c}
    BY <1>2, ShortTwo
  <1>51. <<a, b, c>> \in Seq(AllTasks) /\ ToSet(<<a, b, c>>) = {a, b, c}
    BY <1>2, ShortThree
  <1>5. /\ <<c>> \in Seq(AllTasks) /\ ToSet(<<c>>) = {c}
        /\ <<a, c>> \in Seq(AllTasks) /\ ToSet(<<a, c>>) = {a, c}
        /\ <<a, b, c>> \in Seq(AllTasks) /\ ToSet(<<a, b, c>>) = {a, b, c}
    BY <1>50, <1>51
  <1>6. Paired(<<c>>)
    BY TwoOf DEF Paired
  <1>7. Paired(<<a, c>>)
    BY <1>2, TwoOf DEF Paired
  <1>8. Paired(<<a, b, c>>)
    <2> DEFINE q == <<a, b, c>>
    <2>1. \A i, j \in 1..Len(q) : i < j => q[j] = b \/ q[j] = c
      BY TwoOf
    <2> HIDE DEF q
    <2>2. Paired(q)
      BY <2>1, <1>2 DEF Paired
    <2> QED
      BY <2>2 DEF q
  <1>9. \A x \in ToSet(s) :
          /\ x[1] \in Statements /\ TaskOf(m, x) /\ x[2] = t /\ (x = a \/ x = b \/ x = c)
    BY <1>2, <1>3, <1>4, <1>5
  <1>10. a # c /\ b # c
    BY <1>2
  <1>11. Owner[t] \in Students => (a \in ToSet(s) <=> b \in ToSet(s))
    BY <1>4, <1>5, <1>10
  <1> QED
    BY <1>4, <1>5, <1>6, <1>7, <1>8, <1>9, <1>11 DEF a, b, c

(* The tasks of reopening a lesson.                                        *)
LEMMA ReopenTasksOK ==
    ASSUME NEW m \in ReopenMutations, full \in SUBSET Cycles PROVE TasksOK(m)
  <1> DEFINE t == m.target
             s == ReopenStatements(m)
             r == Rebuilt(t)
  <1>1. m.op = "reopen" /\ t \in Targets
    BY DEF ReopenMutations
  <1>2. CASE t \notin lesson
    <2>1. Tasks(m) = <<>>
      BY <1>1, <1>2 DEF Tasks, ReopenTasks
    <2>2. Paired(<<>>)
      BY NoTask, PairedAlone
    <2>3. Ahead(m, <<>>)
      BY <1>1, NoTask DEF Ahead, Left, Corrections
    <2> QED
      BY <1>1, <2>1, <2>2, <2>3, NoTask DEF TasksOK, Alone
  <1>3. CASE t \in lesson
    <2>1. Tasks(m) = s \o r
      BY <1>1, <1>3 DEF Tasks, ReopenTasks, ReopenStatements
    <2>2. /\ s \in Seq(AllTasks) /\ Paired(s)
          /\ \A x \in ToSet(s) :
                /\ x[1] \in Statements /\ TaskOf(m, x)
                /\ x = <<"unlink", t>> \/ x = <<"open", t>> \/ x = <<"reset", t>>
          /\ Owner[t] \in Students =>
               (<<"unlink", t>> \in ToSet(s) <=> <<"open", t>> \in ToSet(s))
      BY ReopenStatementsOK
    <2>3. /\ r \in Seq(AllTasks)
          /\ \A i \in 1..Len(r) : r[i][1] \notin Statements /\ (r[i][1] = "rebuild" => i = 1)
          /\ \A x \in ToSet(r) : \/ x = <<"rebuild", Owner[t]>> /\ Owner[t] \in Students
                                 \/ x = <<"normalize", Owner[t]>>
          /\ Owner[t] \in Students /\ t \notin AbsentPayer =>
               <<"rebuild", Owner[t]>> \in ToSet(r)
      BY <1>1, RebuiltTasks
    <2> HIDE DEF s, r
    <2>4. Orderly(m, s \o r)
      BY <2>2, <2>3, OrderlyJoined
    <2>5. s \o r \in Seq(AllTasks) /\ ToSet(s \o r) = ToSet(s) \union ToSet(r)
      BY <2>2, <2>3, JoinedTasks
    <2>6. \A x \in ToSet(r) : x[1] \notin {"link", "unlink"}
      BY <2>3
    <2>7. Paired(s \o r)
      BY <2>2, <2>3, <2>6, PairedJoined
    <2>8. Owner[t] \in Payers
      BY <1>1, AllocationAssumption
    <2>9. \A x \in ToSet(r) : TaskOf(m, x)
      BY <1>1, <2>3, <2>8 DEF TaskOf
    <2>10. \A u \in Cycles : Owner[u] \in Students =>
             (<<"unlink", u>> \in ToSet(s \o r) <=> <<"open", u>> \in ToSet(s \o r))
      <3> SUFFICES ASSUME NEW u \in Cycles, Owner[u] \in Students
                   PROVE  <<"unlink", u>> \in ToSet(s \o r) <=> <<"open", u>> \in ToSet(s \o r)
        OBVIOUS
      <3>1. <<"unlink", u>> \notin ToSet(r) /\ <<"open", u>> \notin ToSet(r)
        BY <2>3
      <3>2. <<"unlink", u>> \in ToSet(s) \/ <<"open", u>> \in ToSet(s) => u = t
        BY <2>2
      <3> QED
        BY <3>1, <3>2, <2>2, <2>5
    <2>11. Ahead(m, s \o r)
      BY <1>1, <2>3, <2>5, <2>10 DEF Ahead, Corrections
    <2> QED
      BY <1>1, <2>1, <2>2, <2>4, <2>5, <2>7, <2>9, <2>11 DEF TasksOK, Alone
  <1> QED
    BY <1>2, <1>3

(* The tasks of every mutation of an existing receipt are in order.        *)
THEOREM TasksAreOK ==
    ASSUME TypeOK, NEW m \in AllMutations,
           m.op \in Corrections => receipts[m.receipt].payer \in Payers
    PROVE  TasksOK(m)
  <1>1. full \in SUBSET Cycles
    BY DEF TypeOK
  <1>2. CASE m.op = "create"
    BY <1>2, MutationByOp, CreateTasksOK
  <1>3. CASE m.op = "update"
    BY <1>3, MutationByOp, UpdateTasksOK DEF Corrections
  <1>4. CASE m.op = "delete" \/ m.op = "restore"
    <2>1. m \in DeleteMutations \union RestoreMutations /\ m.op \in Corrections
      BY <1>4, MutationByOp DEF Corrections
    <2> QED
      BY <2>1, DeleteTasksOK
  <1>5. CASE m.op = "complete"
    BY <1>5, MutationByOp, CompleteTasksOK
  <1>6. CASE m.op = "reopen"
    BY <1>1, <1>6, MutationByOp, ReopenTasksOK
  <1>7. CASE m.op = "configure"
    BY <1>7, MutationByOp, ConfigureTasksOK
  <1> QED
    BY <1>2, <1>3, <1>4, <1>5, <1>6, <1>7, MutationByOp DEF Corrections, Tutoring

-----------------------------------------------------------------------------
(* What receipts and targets hold.                                         *)

(* What the receipts of L, with the allocations a, hold for a target.      *)
Paid(a, t, L) == Sum([r \in Receipts |-> a[r][t]], L)
LiveIn(rs) == {r \in Receipts : rs[r].state = "live"}

Allocations == [Receipts -> [Targets -> Nat]]

(* Totals as sums over the rows,                                           *)
LEMMA Views ==
    /\ \A t : Allocated(t) = Paid(alloc, t, LiveIn(receipts))
    /\ \A t : Outstanding(t) = price[t] - Allocated(t)
    /\ \A r : Spent(r) = SumFunction(alloc[r])
    /\ \A r : Live(r) <=> receipts[r].state = "live"
    /\ \A p : ReceiptsOf(p) = {r \in Receipts : receipts[r].state = "live" /\ receipts[r].payer = p}
  BY DEF Allocated, Paid, LiveIn, Live, Sum, Outstanding, Spent, ReceiptsOf

(* ... and over the rows of the next state.                                *)
LEMMA NextViews ==
    /\ \A t : Allocated(t)' = Paid(alloc', t, LiveIn(receipts'))
    /\ \A t : Outstanding(t)' = price'[t] - Allocated(t)'
    /\ \A r : Spent(r)' = SumFunction(alloc'[r])
    /\ \A r : Live(r)' <=> receipts'[r].state = "live"
    /\ \A p : ReceiptsOf(p)' =
                {r \in Receipts : receipts'[r].state = "live" /\ receipts'[r].payer = p}
  BY DEF Allocated, Paid, LiveIn, Live, Sum, Outstanding, Spent, ReceiptsOf

(* What a receipt has spent.                                               *)
LEMMA RowSum ==
    ASSUME NEW f \in [Targets -> Nat]
    PROVE  /\ SumFunction(f) = Sum(f, Targets) /\ SumFunction(f) \in Nat
           /\ \A t \in Targets : f[t] <= SumFunction(f)
           /\ (\A t \in Targets : f[t] = 0) => SumFunction(f) = 0
  <1>1. IsFiniteSet(Targets)
    BY AllocationAssumption
  <1>2. SumFunction(f) = Sum(f, Targets)
    BY DEF SumFunction, FoldFunction, Sum, SumFunctionOnSet
  <1>3. Sum(f, Targets) \in Nat
    BY <1>1, SumIsNat
  <1>4. \A t \in Targets : f[t] <= Sum(f, Targets)
    BY <1>1, SumMember
  <1>5. (\A t \in Targets : f[t] = 0) => Sum(f, Targets) = 0
    BY <1>1, SumZero
  <1> QED
    BY <1>2, <1>3, <1>4, <1>5

(* One more allocation.                                                    *)
LEMMA RowChange ==
    ASSUME NEW f \in [Targets -> Nat], NEW g \in [Targets -> Nat], NEW t \in Targets,
           \A u \in Targets \ {t} : g[u] = f[u]
    PROVE  SumFunction(g) = SumFunction(f) - f[t] + g[t]
  <1>1. IsFiniteSet(Targets)
    BY AllocationAssumption
  <1>2. Sum(g, Targets) = Sum(f, Targets) - f[t] + g[t]
    BY <1>1, SumChange
  <1> QED
    BY <1>2, RowSum

(* What is paid for a target.                                              *)
LEMMA ColumnSum ==
    ASSUME NEW a \in Allocations, NEW t \in Targets, NEW L \in SUBSET Receipts
    PROVE  /\ Paid(a, t, L) \in Nat
           /\ \A r \in L : a[r][t] <= Paid(a, t, L)
           /\ (\A r \in L : a[r][t] = 0) => Paid(a, t, L) = 0
  <1> DEFINE f == [r \in Receipts |-> a[r][t]]
  <1>1. IsFiniteSet(L)
    BY AllocationAssumption, FS_Subset
  <1>2. \A r \in L : f[r] \in Nat /\ f[r] = a[r][t]
    BY DEF Allocations
  <1> HIDE DEF f
  <1>3. Sum(f, L) \in Nat
    BY <1>1, <1>2, SumIsNat
  <1>4. \A r \in L : f[r] <= Sum(f, L)
    BY <1>1, <1>2, SumMember
  <1>5. (\A r \in L : f[r] = 0) => Sum(f, L) = 0
    BY <1>1, SumZero
  <1> QED
    BY <1>2, <1>3, <1>4, <1>5 DEF f, Paid

(* The same, when every receipt holds the same.                            *)
LEMMA ColumnSame ==
    ASSUME NEW a \in Allocations, NEW b \in Allocations, NEW t \in Targets,
           NEW L \in SUBSET Receipts, NEW M \in SUBSET Receipts,
           \A r \in Receipts : (IF r \in M THEN b[r][t] ELSE 0)
                             = (IF r \in L THEN a[r][t] ELSE 0)
    PROVE  Paid(b, t, M) = Paid(a, t, L)
  <1> DEFINE f == [r \in Receipts |-> a[r][t]]
             g == [r \in Receipts |-> b[r][t]]
             h == [r \in Receipts |-> IF r \in L THEN f[r] ELSE 0]
             k == [r \in Receipts |-> IF r \in M THEN g[r] ELSE 0]
  <1>1. IsFiniteSet(Receipts)
    BY AllocationAssumption
  <1>2. \A r \in Receipts : f[r] \in Nat /\ g[r] \in Nat
    BY DEF Allocations
  <1>3. h = k
    OBVIOUS
  <1> HIDE DEF f, g
  <1>4. Sum(f, L) = Sum(h, Receipts)
    BY <1>1, <1>2, SumOnly
  <1>5. Sum(g, M) = Sum(k, Receipts)
    BY <1>1, <1>2, SumOnly
  <1> QED
    BY <1>3, <1>4, <1>5 DEF f, g, Paid

(* Less, when every receipt holds no more.                                 *)
LEMMA ColumnLess ==
    ASSUME NEW a \in Allocations, NEW t \in Targets,
           NEW L \in SUBSET Receipts, NEW M \in SUBSET L
    PROVE  Paid(a, t, M) <= Paid(a, t, L)
  <1> DEFINE f == [r \in Receipts |-> a[r][t]]
  <1>1. IsFiniteSet(L)
    BY AllocationAssumption, FS_Subset
  <1>2. \A r \in L : f[r] \in Nat
    BY DEF Allocations
  <1> HIDE DEF f
  <1>3. Sum(f, M) <= Sum(f, L)
    BY <1>1, <1>2, SumPart
  <1> QED
    BY <1>3 DEF f, Paid

(* One allocation more.                                                    *)
LEMMA ColumnChange ==
    ASSUME NEW a \in Allocations, NEW b \in Allocations, NEW t \in Targets,
           NEW L \in SUBSET Receipts, NEW r \in L,
           \A s \in Receipts \ {r} : b[s][t] = a[s][t]
    PROVE  Paid(b, t, L) = Paid(a, t, L) - a[r][t] + b[r][t]
  <1> DEFINE f == [s \in Receipts |-> a[s][t]]
             g == [s \in Receipts |-> b[s][t]]
  <1>1. IsFiniteSet(L)
    BY AllocationAssumption, FS_Subset
  <1>2. \A s \in L : f[s] \in Nat /\ g[s] \in Nat
    BY DEF Allocations
  <1>3. \A s \in L \ {r} : f[s] = g[s]
    OBVIOUS
  <1>4. f[r] = a[r][t] /\ g[r] = b[r][t]
    OBVIOUS
  <1> HIDE DEF f, g
  <1>5. Sum(g, L) = Sum(f, L) - f[r] + g[r]
    BY <1>1, <1>2, <1>3, SumChange
  <1> QED
    BY <1>4, <1>5 DEF f, g, Paid

(* Types, one by one.                                                      *)
LEMMA TypeFacts ==
    ASSUME TypeOK
    PROVE  /\ run.mutation \in AllMutations \union {NoMutation} /\ run.todo \in Seq(AllTasks)
           /\ run.queue \in SUBSET Receipts /\ run.step \in {"collect", "list", "allocate"}
           /\ run.cycles \in SUBSET Cycles /\ run.students \in SUBSET Students
           /\ run.left \in Nat /\ run.ahead \in SUBSET Targets
           /\ alloc \in Allocations
           /\ \A r \in Receipts :
                /\ receipts[r].state \in {"none", "live", "deleted"}
                /\ receipts[r].payer \in Payers \union {NoPayer}
                /\ receipts[r].amount \in Nat /\ receipts[r].at \in Nat
                /\ alloc[r] \in [Targets -> Nat]
                /\ \A t \in Targets : alloc[r][t] \in Nat
                /\ Spent(r) \in Nat /\ \A t \in Targets : alloc[r][t] <= Spent(r)
           /\ \A t \in Targets : price[t] \in Nat /\ Allocated(t) \in Nat /\ Outstanding(t) \in Int
           /\ \A t \in Targets : Owner[t] \in Payers
           /\ Cycles \in SUBSET Targets
  <1>1. /\ run.mutation \in AllMutations \union {NoMutation} /\ run.todo \in Seq(AllTasks)
        /\ run.queue \in SUBSET Receipts /\ run.step \in {"collect", "list", "allocate"}
        /\ run.cycles \in SUBSET Cycles /\ run.students \in SUBSET Students
        /\ run.left \in Nat /\ run.ahead \in SUBSET Targets
    BY DEF TypeOK, Runs
  <1>2. alloc \in Allocations
    BY DEF TypeOK, Allocations
  <1>3. \A r \in Receipts : alloc[r] \in [Targets -> Nat] /\ \A t \in Targets : alloc[r][t] \in Nat
    BY DEF TypeOK
  <1>4. \A r \in Receipts :
          /\ receipts[r].state \in {"none", "live", "deleted"}
          /\ receipts[r].payer \in Payers \union {NoPayer}
          /\ receipts[r].amount \in Nat /\ receipts[r].at \in Nat
    BY DEF TypeOK, Rows
  <1>5. \A r \in Receipts : Spent(r) \in Nat /\ \A t \in Targets : alloc[r][t] <= Spent(r)
    BY <1>3, RowSum, Views
  <1>6. LiveIn(receipts) \in SUBSET Receipts
    BY DEF LiveIn
  <1>7. \A t \in Targets : Allocated(t) \in Nat
    BY <1>2, <1>6, ColumnSum, Views
  <1>8. \A t \in Targets : price[t] \in Nat /\ Outstanding(t) \in Int
    BY <1>7, Views DEF TypeOK
  <1> QED
    BY <1>1, <1>2, <1>3, <1>4, <1>5, <1>7, <1>8, AllocationAssumption

(* No handler is at work.                                                  *)
LEMMA IdleFacts ==
    /\ Idle.mutation = NoMutation /\ Idle.todo = <<>> /\ Idle.queue = {}
    /\ Idle.step = "collect" /\ Idle.cycles = {} /\ Idle.students = {}
    /\ Idle.left = 0 /\ Idle.ahead = {} /\ Idle \in Runs
  <1>1. /\ Idle.mutation = NoMutation /\ Idle.todo = <<>> /\ Idle.queue = {}
        /\ Idle.step = "collect" /\ Idle.cycles = {} /\ Idle.students = {}
        /\ Idle.left = 0 /\ Idle.ahead = {}
    BY DEF Idle
  <1>2. Idle \in Runs
    BY NoTask DEF Idle, Runs
  <1> QED
    BY <1>1, <1>2

(* How the handler moves on.                                               *)
LEMMA RunDone ==
    ASSUME NEW r \in Runs, NEW c, r.todo # <<>>, c = [r EXCEPT !.todo = Tail(@)]
    PROVE  /\ c \in Runs /\ c.mutation = r.mutation /\ c.todo = Tail(r.todo)
           /\ c.queue = r.queue /\ c.step = r.step /\ c.cycles = r.cycles
           /\ c.students = r.students /\ c.left = r.left /\ c.ahead = r.ahead
  <1>1. r.todo \in Seq(AllTasks)
    BY DEF Runs
  <1>2. Tail(r.todo) \in Seq(AllTasks)
    BY <1>1, HeadAndTail
  <1> QED
    BY <1>2 DEF Runs

(* The next task is done, receipts are to be collected.                    *)
LEMMA RunCollect ==
    ASSUME NEW r \in Runs, NEW c, r.todo # <<>>, NEW Q \in SUBSET Receipts,
           c = [r EXCEPT !.todo = Tail(@), !.queue = Q]
    PROVE  /\ c \in Runs /\ c.mutation = r.mutation /\ c.todo = Tail(r.todo)
           /\ c.queue = Q /\ c.step = r.step /\ c.cycles = r.cycles
           /\ c.students = r.students /\ c.left = r.left /\ c.ahead = r.ahead
  <1>1. r.todo \in Seq(AllTasks)
    BY DEF Runs
  <1>2. Tail(r.todo) \in Seq(AllTasks)
    BY <1>1, HeadAndTail
  <1> QED
    BY <1>2 DEF Runs

(* On to the next receipt.                                                 *)
LEMMA RunCollected ==
    ASSUME NEW r \in Runs, NEW c, NEW x,
           c = [r EXCEPT !.queue = @ \ {x}, !.step = "collect", !.left = 0, !.ahead = {}]
    PROVE  /\ c \in Runs /\ c.mutation = r.mutation /\ c.todo = r.todo
           /\ c.queue = r.queue \ {x} /\ c.step = "collect" /\ c.cycles = r.cycles
           /\ c.students = r.students /\ c.left = 0 /\ c.ahead = {}
  BY DEF Runs

(* The obligations of the receipt's payer are listed.                      *)
LEMMA RunAllocate ==
    ASSUME NEW r \in Runs, NEW c, NEW A \in SUBSET Targets,
           c = [r EXCEPT !.step = "allocate", !.ahead = A]
    PROVE  /\ c \in Runs /\ c.mutation = r.mutation /\ c.todo = r.todo
           /\ c.queue = r.queue /\ c.step = "allocate" /\ c.cycles = r.cycles
           /\ c.students = r.students /\ c.left = r.left /\ c.ahead = A
  BY DEF Runs

(* The next task is done, cycles are to be brought up to date.             *)
LEMMA RunNormalize ==
    ASSUME NEW r \in Runs, NEW c, r.todo # <<>>, NEW C \in SUBSET Cycles,
           c = [r EXCEPT !.todo = Tail(@), !.cycles = C]
    PROVE  /\ c \in Runs /\ c.mutation = r.mutation /\ c.todo = Tail(r.todo)
           /\ c.queue = r.queue /\ c.step = r.step /\ c.cycles = C
           /\ c.students = r.students /\ c.left = r.left /\ c.ahead = r.ahead
  <1>1. r.todo \in Seq(AllTasks)
    BY DEF Runs
  <1>2. Tail(r.todo) \in Seq(AllTasks)
    BY <1>1, HeadAndTail
  <1> QED
    BY <1>2 DEF Runs

(* One of these cycles is.                                                 *)
LEMMA RunNormalized ==
    ASSUME NEW r \in Runs, NEW c, NEW x, c = [r EXCEPT !.cycles = @ \ {x}]
    PROVE  /\ c \in Runs /\ c.mutation = r.mutation /\ c.todo = r.todo
           /\ c.queue = r.queue /\ c.step = r.step /\ c.cycles = r.cycles \ {x}
           /\ c.students = r.students /\ c.left = r.left /\ c.ahead = r.ahead
  BY DEF Runs

(* The oldest receipt is one of them.                                      *)
LEMMA OldestIsIn ==
    ASSUME TypeOK, NEW S \in SUBSET Receipts, S # {}
    PROVE  /\ Oldest(S) \in S
           /\ \A s \in S \ {Oldest(S)} : Earlier(Oldest(S), s)
  <1>1. Receipts \in SUBSET Nat /\ IsFiniteSet(Receipts)
    BY AllocationAssumption
  <1>2. \A r \in Receipts : receipts[r].at \in Nat /\ r \in Nat
    BY <1>1, TypeFacts
  <1> DEFINE G == {s \in SUBSET Receipts :
                      s # {} => \E r \in s : \A x \in s \ {r} : Earlier(r, x)}
  <1>3. ASSUME NEW s \in SUBSET Receipts, \A x \in s : s \ {x} \in G PROVE s \in G
    <2> SUFFICES ASSUME s # {} PROVE \E r \in s : \A x \in s \ {r} : Earlier(r, x)
      OBVIOUS
    <2>1. PICK y \in s : TRUE
      OBVIOUS
    <2>2. CASE s \ {y} = {}
      BY <2>2
    <2>3. CASE s \ {y} # {}
      <3>1. PICK r \in s \ {y} : \A x \in (s \ {y}) \ {r} : Earlier(r, x)
        BY <1>3, <2>3
      <3>2. CASE Earlier(r, y)
        BY <3>1, <3>2
      <3>3. CASE ~Earlier(r, y)
        <4>1. Earlier(y, r)
          BY <1>2, <3>1, <3>3 DEF Earlier
        <4>2. \A x \in (s \ {y}) \ {r} : Earlier(y, x)
          BY <1>2, <3>1, <4>1 DEF Earlier
        <4> QED
          BY <4>1, <4>2
      <3> QED
        BY <3>2, <3>3
    <2> QED
      BY <2>2, <2>3
  <1> HIDE DEF G
  <1>4. S \in G
    BY <1>1, <1>3, OneByOne
  <1>5. \E r \in S : \A s \in S \ {r} : Earlier(r, s)
    BY <1>4 DEF G
  <1> QED
    BY <1>5 DEF Oldest

(* The least obligation is one of them.                                    *)
LEMMA LeastIsIn ==
    ASSUME NEW S \in SUBSET Nat, S # {}
    PROVE  Min(S) \in S /\ \A x \in S : Min(S) <= x
  <1>1. \E m \in S : \A k \in S : m <= k
    BY LeastNatural
  <1> QED
    BY <1>1 DEF Min

(* The smaller of two numbers.                                             *)
LEMMA MinOfTwo ==
    ASSUME NEW a \in Int, NEW b \in Int
    PROVE  Min({a, b}) = IF a <= b THEN a ELSE b
  <1> DEFINE c == IF a <= b THEN a ELSE b
  <1>1. c \in {a, b} /\ \A y \in {a, b} : c <= y
    OBVIOUS
  <1>2. \A x \in {a, b} : (\A y \in {a, b} : x <= y) => x = c
    OBVIOUS
  <1> HIDE DEF c
  <1>3. Min({a, b}) = c
    BY <1>1, <1>2 DEF Min
  <1> QED
    BY <1>3 DEF c

-----------------------------------------------------------------------------
(* What each step does.                                                    *)

(* Between two receipts nothing is left over.                              *)
LEMMA NoQueue ==
    ASSUME QueueOK, run.queue = {}
    PROVE  run.step = "collect" /\ run.ahead = {}
  BY DEF QueueOK

(* The task at the head.                                                   *)
LEMMA AtHead ==
    ASSUME Base, NEW k, At(k)
    PROVE  /\ run.queue = {} /\ run.cycles = {} /\ run.todo # <<>>
           /\ run.step = "collect" /\ run.ahead = {}
           /\ run # Idle /\ run.mutation \in AllMutations
           /\ <<k, Arg>> \in ToSet(run.todo) /\ TaskOf(run.mutation, <<k, Arg>>)
           /\ Tail(run.todo) \in Seq(AllTasks)
           /\ ToSet(run.todo) = {<<k, Arg>>} \union ToSet(Tail(run.todo))
           /\ \A i \in 1..Len(Tail(run.todo)) :
                Tail(run.todo)[i] = run.todo[i + 1] /\ i + 1 \in 1..Len(run.todo)
           /\ 1 \in 1..Len(run.todo) /\ run.todo[1] = <<k, Arg>>
           /\ k # "normalize" => run.students = Hooked(run.mutation)
           /\ k \in Statements => Left(run.todo)
           /\ last = Ended(NoMutation, "done")
  <1>1. /\ run.queue = {} /\ run.cycles = {} /\ run.todo # <<>> /\ run.todo[1][1] = k
    BY DEF At
  <1>2. /\ run.todo \in Seq(AllTasks) /\ run.mutation \in AllMutations \union {NoMutation}
    BY TypeFacts DEF Base
  <1>3. /\ Tail(run.todo) \in Seq(AllTasks) /\ run.todo[1] \in AllTasks
        /\ ToSet(run.todo) = {run.todo[1]} \union ToSet(Tail(run.todo))
        /\ 1 \in 1..Len(run.todo)
        /\ \A i \in 1..Len(Tail(run.todo)) :
             Tail(run.todo)[i] = run.todo[i + 1] /\ i + 1 \in 1..Len(run.todo)
    BY <1>1, <1>2, HeadAndTail
  <1>4. run.todo[1] = <<k, Arg>>
    <2> DEFINE x == run.todo[1]
    <2>1. x \in AllTasks
      BY <1>3
    <2>2. x = <<x[1], x[2]>>
      BY <2>1 DEF AllTasks
    <2> QED
      BY <2>2, <1>1 DEF Arg
  <1>5. run # Idle
    BY <1>1, IdleFacts
  <1>6. run.mutation \in AllMutations
    BY <1>2, <1>5 DEF Base, TodoOK
  <1>7. <<k, Arg>> \in ToSet(run.todo) /\ TaskOf(run.mutation, <<k, Arg>>)
    BY <1>3, <1>4 DEF Base, TodoOK
  <1>8. k # "normalize" => run.students = Hooked(run.mutation)
    <2> SUFFICES ASSUME k # "normalize" PROVE run.students = Hooked(run.mutation)
      OBVIOUS
    <2>1. <<k, Arg>>[1] # "normalize"
      OBVIOUS
    <2>2. \E x \in ToSet(run.todo) : x[1] # "normalize"
      BY <1>7, <2>1
    <2> QED
      BY <2>2 DEF Base, TodoOK
  <1>9. k \in Statements => Left(run.todo)
    <2>1. <<k, Arg>>[1] = k
      OBVIOUS
    <2> QED
      BY <1>7, <2>1 DEF Left
  <1>10. run.step = "collect" /\ run.ahead = {} /\ last = Ended(NoMutation, "done")
    BY <1>1, <1>5, NoQueue DEF Base, TodoOK
  <1> QED
    BY <1>1, <1>3, <1>4, <1>5, <1>6, <1>7, <1>8, <1>9, <1>10

(* Whose task each kind is.                                                *)
LEMMA HeadOf ==
    ASSUME NEW m, NEW k, NEW x, TaskOf(m, <<k, x>>)
    PROVE  /\ k \in {"insert", "change", "delete", "restore"} =>
                x \in Receipts /\ x = m.receipt
           /\ k = "insert" => m.op = "create"
           /\ k = "change" => m.op = "update"
           /\ k = "delete" => m.op = "delete"
           /\ k = "restore" => m.op = "restore"
           /\ k \in {"attend", "link", "markDue"} =>
                m.op = "complete" /\ x \in Targets /\ x = m.target
           /\ k \in {"link", "markDue"} => x \in Cycles
           /\ k = "markDue" => Owner[x] \in Students
           /\ k \in {"unlink", "open", "reset"} =>
                m.op = "reopen" /\ x \in Targets /\ x = m.target
           /\ k \in {"unlink", "open"} => x \in Cycles
           /\ k = "open" => Owner[x] \in Students
           /\ k = "opening" => m.op = "configure" /\ x \in OpeningCycles /\ x = m.target
           /\ k = "rebuild" => /\ x \in Students
                               /\ \/ m.op \in Corrections
                                  \/ m.op \in {"reopen", "configure"} /\ x = Owner[m.target]
           /\ k = "normalize" => x \in Payers
  <1>1. <<k, x>>[1] = k /\ <<k, x>>[2] = x
    OBVIOUS
  <1> QED
    BY <1>1 DEF TaskOf

(* The handler goes on with the tasks q, ...                               *)
Goes(q, Q, st, C, S, l, A) ==
    /\ run' \in Runs /\ run'.mutation = run.mutation /\ run'.todo = q
    /\ run'.queue = Q /\ run'.step = st /\ run'.cycles = C
    /\ run'.students = S /\ run'.left = l /\ run'.ahead = A

(* A task that is done,                                                    *)
LEMMA GoesDone ==
    ASSUME Base, NEW k, At(k), Done
    PROVE  Goes(Tail(run.todo), {}, "collect", {}, run.students, run.left, {})
  <1>1. /\ run \in Runs /\ run.queue = {} /\ run.cycles = {} /\ run.todo # <<>>
        /\ run.step = "collect" /\ run.ahead = {}
    BY AtHead DEF Base, TypeOK
  <1>2. run' = [run EXCEPT !.todo = Tail(@)]
    BY DEF Done
  <1>3. /\ run' \in Runs /\ run'.mutation = run.mutation /\ run'.todo = Tail(run.todo)
        /\ run'.queue = run.queue /\ run'.step = run.step /\ run'.cycles = run.cycles
        /\ run'.students = run.students /\ run'.left = run.left /\ run'.ahead = run.ahead
    BY <1>1, <1>2, RunDone
  <1> QED
    BY <1>1, <1>3 DEF Goes

(* ... and one that is followed by a collection.                           *)
LEMMA GoesCollecting ==
    ASSUME Base, NEW k, At(k), NEW Q \in SUBSET Receipts, DoneCollecting(Q)
    PROVE  Goes(Tail(run.todo), Q, "collect", {}, run.students, run.left, {})
  <1>1. /\ run \in Runs /\ run.queue = {} /\ run.cycles = {} /\ run.todo # <<>>
        /\ run.step = "collect" /\ run.ahead = {}
    BY AtHead DEF Base, TypeOK
  <1>2. run' = [run EXCEPT !.todo = Tail(@), !.queue = Q]
    BY DEF DoneCollecting
  <1>3. /\ run' \in Runs /\ run'.mutation = run.mutation /\ run'.todo = Tail(run.todo)
        /\ run'.queue = Q /\ run'.step = run.step /\ run'.cycles = run.cycles
        /\ run'.students = run.students /\ run'.left = run.left /\ run'.ahead = run.ahead
    BY <1>1, <1>2, RunCollect
  <1> QED
    BY <1>1, <1>3 DEF Goes

(* The receipt that is being collected.                                    *)
LEMMA AtReceipt ==
    ASSUME Base, NEW st, Collecting(st)
    PROVE  /\ Receipt \in run.queue /\ Receipt \in Receipts /\ run.queue # {}
           /\ run.cycles = {} /\ run.step = st
           /\ run # Idle /\ run.mutation \in AllMutations
           /\ last = Ended(NoMutation, "done")
           /\ receipts[Receipt].state # "none" /\ receipts[Receipt].payer \in Payers
           /\ Spent(Receipt) <= receipts[Receipt].amount
           /\ ~Left(run.todo)
           /\ run.mutation.op # "update" => \A p \in Students : ~Pending(p)
  <1>1. run.cycles = {} /\ run.queue # {} /\ run.step = st
    BY DEF Collecting
  <1>2. run.queue \in SUBSET Receipts /\ run.mutation \in AllMutations \union {NoMutation}
    BY TypeFacts DEF Base
  <1>3. Receipt \in run.queue
    BY <1>1, <1>2, OldestIsIn DEF Base, Receipt
  <1>4. Receipt \in Receipts
    BY <1>2, <1>3
  <1>5. run # Idle
    BY <1>1, IdleFacts
  <1>6. run.mutation \in AllMutations /\ last = Ended(NoMutation, "done")
    BY <1>2, <1>5 DEF Base, TodoOK
  <1>7. receipts[Receipt].state # "none"
    BY <1>3 DEF Base, QueueOK
  <1>8. receipts[Receipt].payer \in Payers /\ Spent(Receipt) <= receipts[Receipt].amount
    BY <1>4, <1>7 DEF Base, RowsOK
  <1>9. /\ ~Left(run.todo)
        /\ run.mutation.op # "update" => \A p \in Students : ~Pending(p)
    BY <1>1 DEF Base, TodoOK
  <1> QED
    BY <1>1, <1>3, <1>4, <1>5, <1>6, <1>7, <1>8, <1>9

(* What is left of a receipt is never negative.                            *)
LEMMA RemainingIsNat ==
    ASSUME Base, NEW r \in Receipts, Spent(r) <= receipts[r].amount
    PROVE  /\ Remaining(r) \in Nat /\ ~(Remaining(r) < 0)
           /\ Live(r) => Remaining(r) + Spent(r) = receipts[r].amount
           /\ ~Live(r) => Remaining(r) = receipts[r].amount
  <1>1. Spent(r) \in Nat /\ receipts[r].amount \in Nat
    BY TypeFacts DEF Base
  <1> QED
    BY <1>1 DEF Remaining

(* The two ways of collecting.                                             *)
LEMMA CollectCases ==
    ASSUME Base, Collect
    PROVE  /\ \/ /\ Remaining(Receipt) = 0
                 /\ Goes(run.todo, run.queue \ {Receipt}, "collect", {}, run.students, 0, {})
              \/ /\ Goes(run.todo, run.queue, "list", run'.cycles, run.students,
                         Remaining(Receipt), {})
                 /\ \A c \in run'.cycles : Owner[c] \in Families
           /\ UNCHANGED <<receipts, alloc, tutoring, last, unfinished, mutations, crashes, history>>
           /\ Collecting("collect")
  <1>1. Collecting("collect")
    BY DEF Collect
  <1>2. /\ Receipt \in Receipts /\ run.cycles = {} /\ run.step = "collect"
        /\ receipts[Receipt].payer \in Payers
        /\ Spent(Receipt) <= receipts[Receipt].amount /\ run \in Runs
    BY <1>1, AtReceipt DEF Base, TypeOK
  <1>3. Remaining(Receipt) \in Nat /\ ~(Remaining(Receipt) < 0)
    BY <1>2, RemainingIsNat
  <1>4. run.ahead = {}
    BY <1>2 DEF Base, QueueOK
  <1>5. CASE Remaining(Receipt) = 0
    <2>1. run' = [run EXCEPT !.queue = @ \ {Receipt}, !.step = "collect", !.left = 0, !.ahead = {}]
      BY <1>3, <1>5 DEF Collect, Collected
    <2>11. /\ run' \in Runs /\ run'.mutation = run.mutation /\ run'.todo = run.todo
           /\ run'.queue = run.queue \ {Receipt} /\ run'.step = "collect"
           /\ run'.cycles = run.cycles /\ run'.students = run.students
           /\ run'.left = 0 /\ run'.ahead = {}
      BY <2>1, <1>2, RunCollected
    <2>2. Goes(run.todo, run.queue \ {Receipt}, "collect", {}, run.students, 0, {})
      BY <2>11, <1>2 DEF Goes
    <2> QED
      BY <2>2, <1>1, <1>3, <1>5 DEF Collect
  <1>6. CASE Remaining(Receipt) # 0
    <2> DEFINE C == IF receipts[Receipt].payer \in Families
                    THEN CyclesOf(receipts[Receipt].payer) ELSE {}
               l == Remaining(Receipt)
    <2>1. run' = [run EXCEPT !.step = "list", !.left = l, !.cycles = C]
      BY <1>3, <1>6 DEF Collect
    <2>2. C \in SUBSET Cycles /\ \A c \in C : Owner[c] \in Families
      BY DEF CyclesOf
    <2>3. l \in Nat
      BY <1>3
    <2> HIDE DEF C, l
    <2>40. run \in Runs
      BY <1>2
    <2>41. /\ run' \in Runs /\ run'.mutation = run.mutation /\ run'.todo = run.todo
           /\ run'.queue = run.queue /\ run'.step = "list" /\ run'.cycles = C
           /\ run'.students = run.students /\ run'.left = l /\ run'.ahead = run.ahead
      BY <2>1, <2>2, <2>3, <2>40 DEF Runs
    <2>4. Goes(run.todo, run.queue, "list", C, run.students, l, run.ahead) /\ run'.cycles = C
      BY <2>41 DEF Goes
    <2>5. Goes(run.todo, run.queue, "list", run'.cycles, run.students, l, {})
          /\ \A c \in run'.cycles : Owner[c] \in Families
      BY <2>2, <2>4, <1>4
    <2> QED
      BY <2>5, <1>1, <1>3, <1>6 DEF Collect, l
  <1> QED
    BY <1>5, <1>6

(* The ways of allocating.                                                 *)
Pays(t) ==
    /\ t \in run.ahead /\ Outstanding(t) > 0 /\ \A u \in Lacking : t <= u
    /\ run.left > 0
    /\ Share(t) \in Nat \ {0} /\ Share(t) <= run.left /\ Share(t) <= Outstanding(t)
    /\ Share(t) = run.left \/ Share(t) = Outstanding(t)
    /\ Goes(run.todo, run.queue, "allocate", {}, run.students, run.left - Share(t),
            {u \in run.ahead : u > t})

(* One allocation is written.                                              *)
Writes(r, t, x) == alloc' = [alloc EXCEPT ![r][t] = x]

(* An obligation is paid, or the receipt is done with, or refused.         *)
LEMMA AllocateCases ==
    ASSUME Base, Allocate
    PROVE  /\ \/ /\ run.left = 0 \/ Lacking = {}
                 /\ Goes(run.todo, run.queue \ {Receipt}, "collect", {}, run.students, 0, {})
                 /\ UNCHANGED <<alloc, last>>
              \/ \E t \in Targets :
                   /\ t \in run.ahead /\ Outstanding(t) > 0 /\ run.left > 0
                   /\ \/ alloc[Receipt][t] = Share(t) /\ Pays(t) /\ UNCHANGED <<alloc, last>>
                      \/ /\ alloc[Receipt][t] = 0 /\ Live(Receipt) /\ Pays(t)
                         /\ Writes(Receipt, t, Share(t)) /\ UNCHANGED last
                      \/ /\ alloc[Receipt][t] > 0 \/ ~Live(Receipt)
                         /\ Refuse /\ UNCHANGED alloc
           /\ UNCHANGED <<receipts, tutoring, unfinished, mutations, crashes, history>>
           /\ Collecting("allocate")
  <1>1. Collecting("allocate")
    BY DEF Allocate
  <1>2. /\ Receipt \in Receipts /\ run.cycles = {} /\ run.step = "allocate" /\ run \in Runs
    BY <1>1, AtReceipt DEF Base, TypeOK
  <1>3. /\ run.left \in Nat /\ run.ahead \in SUBSET Targets
        /\ Targets \in SUBSET Nat
    BY TypeFacts, AllocationAssumption DEF Base
  <1>4. UNCHANGED <<receipts, tutoring, unfinished, mutations, crashes, history>>
    BY DEF Allocate
  <1>5. CASE run.left = 0 \/ Lacking = {}
    <2>1. Collected /\ UNCHANGED <<alloc, last>>
      BY <1>5 DEF Allocate
    <2>2. run' = [run EXCEPT !.queue = @ \ {Receipt}, !.step = "collect", !.left = 0, !.ahead = {}]
      BY <2>1 DEF Collected
    <2>21. /\ run' \in Runs /\ run'.mutation = run.mutation /\ run'.todo = run.todo
           /\ run'.queue = run.queue \ {Receipt} /\ run'.step = "collect"
           /\ run'.cycles = run.cycles /\ run'.students = run.students
           /\ run'.left = 0 /\ run'.ahead = {}
      BY <2>2, <1>2, RunCollected
    <2>3. Goes(run.todo, run.queue \ {Receipt}, "collect", {}, run.students, 0, {})
      BY <2>21, <1>2 DEF Goes
    <2> QED
      BY <2>1, <2>3, <1>1, <1>4, <1>5
  <1>6. CASE ~(run.left = 0 \/ Lacking = {})
    <2> DEFINE t == Min(Lacking)
               r == Receipt
    <2>1. AllocateTo(r, t)
      BY <1>6 DEF Allocate
    <2>2. Lacking \in SUBSET Nat /\ Lacking # {}
      BY <1>3, <1>6 DEF Lacking
    <2>3. t \in Lacking /\ \A u \in Lacking : t <= u
      BY <2>2, LeastIsIn
    <2>4. t \in run.ahead /\ Outstanding(t) > 0 /\ t \in Targets
      BY <2>3, <1>3 DEF Lacking
    <2>50. \A u \in Targets : Outstanding(u) \in Int
      BY TypeFacts DEF Base
    <2>51. Outstanding(t) \in Int
      BY <2>4, <2>50
    <2>5. run.left > 0 /\ run.left \in Nat /\ Outstanding(t) \in Int
      BY <2>51, <1>3, <1>6
    <2>6. Share(t) = IF run.left <= Outstanding(t) THEN run.left ELSE Outstanding(t)
      BY <2>5, MinOfTwo DEF Share
    <2>7. /\ Share(t) \in Nat \ {0} /\ Share(t) <= run.left /\ Share(t) <= Outstanding(t)
          /\ Share(t) = run.left \/ Share(t) = Outstanding(t)
          /\ run.left - Share(t) \in Nat
      BY <2>4, <2>5, <2>6
    <2>8. Live(r) => Spent(r) + Share(t) <= receipts[r].amount
      <3>1. Spent(r) \in Nat /\ receipts[r].amount \in Nat
        BY <1>2, TypeFacts DEF Base
      <3>2. Live(r) => run.left + Spent(r) <= receipts[r].amount
        BY <1>2 DEF Base, QueueOK
      <3> QED
        BY <3>1, <3>2, <2>5, <2>7
    <2> HIDE DEF t, r
    <2> DEFINE go == run' = [run EXCEPT !.left = @ - Share(t), !.ahead = {u \in @ : u > t}]
    <2>9. go => Pays(t)
      <3> SUFFICES ASSUME go PROVE Pays(t)
        OBVIOUS
      <3>1. Goes(run.todo, run.queue, "allocate", {}, run.students, run.left - Share(t),
                 {u \in run.ahead : u > t})
        <4>1. run \in Runs /\ run.left - Share(t) \in Nat
          BY <2>7, <1>2
        <4>2. /\ run' \in Runs /\ run'.mutation = run.mutation /\ run'.todo = run.todo
              /\ run'.queue = run.queue /\ run'.step = run.step
              /\ run'.cycles = run.cycles /\ run'.students = run.students
              /\ run'.left = run.left - Share(t) /\ run'.ahead = {u \in run.ahead : u > t}
          BY <4>1 DEF Runs
        <4> QED
          BY <4>2, <1>2 DEF Goes
      <3> QED
        BY <3>1, <2>3, <2>4, <2>5, <2>7 DEF Pays
    <2>10. alloc[r][t] \in Nat
      BY <1>2, <2>4, TypeFacts DEF Base, r
    <2>11. \/ alloc[r][t] = Share(t) /\ go /\ UNCHANGED <<alloc, last>>
           \/ /\ alloc[r][t] = 0 /\ Live(r) /\ go
              /\ alloc' = [alloc EXCEPT ![r][t] = Share(t)] /\ UNCHANGED last
           \/ /\ alloc[r][t] > 0 \/ ~Live(r)
              /\ Refuse /\ UNCHANGED alloc
      <3>1. CASE alloc[r][t] = Share(t)
        BY <2>1, <3>1 DEF AllocateTo
      <3>2. CASE alloc[r][t] # Share(t) /\ (alloc[r][t] > 0 \/ ~Live(r))
        BY <2>1, <3>2 DEF AllocateTo
      <3>3. CASE alloc[r][t] # Share(t) /\ ~(alloc[r][t] > 0 \/ ~Live(r))
        <4>1. alloc[r][t] = 0
          BY <2>10, <3>3
        <4>2. ~(Spent(r) + Share(t) > receipts[r].amount)
          <5>1. Spent(r) \in Nat /\ receipts[r].amount \in Nat
            BY <1>2, TypeFacts DEF Base, r
          <5> QED
            BY <5>1, <2>7, <2>8, <3>3
        <4> QED
          BY <2>1, <3>3, <4>1, <4>2 DEF AllocateTo
      <3> QED
        BY <3>1, <3>2, <3>3
    <2> HIDE DEF go
    <2> QED
      BY <2>4, <2>5, <2>9, <2>11, <1>1, <1>4 DEF r, Writes
  <1> QED
    BY <1>5, <1>6

-----------------------------------------------------------------------------
(* What each step does to the money.                                       *)

(* Rows that stay as they are.                                             *)
LEMMA MoneySame ==
    ASSUME UNCHANGED <<receipts, alloc>>
    PROVE  /\ \A r : Spent(r)' = Spent(r) /\ (Live(r)' <=> Live(r))
           /\ \A t : Allocated(t)' = Allocated(t)
           /\ \A p : ReceiptsOf(p)' = ReceiptsOf(p)
           /\ \A t : price'[t] = price[t] => Outstanding(t)' = Outstanding(t)
           /\ run'.queue = run.queue => Receipt' = Receipt
  <1>1. run'.queue = run.queue => Receipt' = Receipt
    BY DEF Receipt, Oldest, Earlier
  <1> QED
    BY <1>1, Views, NextViews

(* One allocation is written.                                              *)
LEMMA OneWritten ==
    ASSUME alloc \in Allocations, NEW r \in Receipts, NEW t \in Targets, NEW x \in Nat,
           Writes(r, t, x)
    PROVE  /\ alloc' \in Allocations
           /\ \A s \in Receipts \ {r} : alloc'[s] = alloc[s]
           /\ \A u \in Targets \ {t} : \A s \in Receipts : alloc'[s][u] = alloc[s][u]
           /\ alloc'[r][t] = x
  BY DEF Allocations, Writes

(* A receipt pays for a target.                                            *)
LEMMA MoneyPaid ==
    ASSUME TypeOK, NEW r \in Receipts, NEW t \in Targets, NEW x \in Nat,
           Live(r), alloc[r][t] = 0, alloc' \in Allocations,
           \A s \in Receipts \ {r} : alloc'[s] = alloc[s],
           \A u \in Targets \ {t} : \A s \in Receipts : alloc'[s][u] = alloc[s][u],
           alloc'[r][t] = x, UNCHANGED <<receipts, price>>
    PROVE  /\ alloc' \in Allocations
           /\ \A s \in Receipts : Live(s)' <=> Live(s)
           /\ \A s \in Receipts \ {r} : alloc'[s] = alloc[s] /\ Spent(s)' = Spent(s)
           /\ \A u \in Targets \ {t} : \A s \in Receipts : alloc'[s][u] = alloc[s][u]
           /\ alloc'[r][t] = x
           /\ Spent(r)' = Spent(r) + x
           /\ \A u \in Targets \ {t} : Allocated(u)' = Allocated(u)
           /\ \A u \in Targets \ {t} : Outstanding(u)' = Outstanding(u)
           /\ Allocated(t)' = Allocated(t) + x
           /\ Outstanding(t)' = Outstanding(t) - x
           /\ \A p : ReceiptsOf(p)' = ReceiptsOf(p)
           /\ run'.queue = run.queue => Receipt' = Receipt
  <1>1. /\ alloc \in Allocations /\ \A s \in Receipts : alloc[s] \in [Targets -> Nat]
        /\ \A u \in Targets : price[u] \in Nat /\ Allocated(u) \in Nat
        /\ \A s \in Receipts : Spent(s) \in Nat
    BY TypeFacts
  <1>2. alloc' \in Allocations
    OBVIOUS
  <1>3. /\ \A s \in Receipts \ {r} : alloc'[s] = alloc[s]
        /\ \A u \in Targets \ {t} : \A s \in Receipts : alloc'[s][u] = alloc[s][u]
        /\ alloc'[r][t] = x /\ alloc'[r] \in [Targets -> Nat]
    BY DEF Allocations
  <1>4. SumFunction(alloc'[r]) = SumFunction(alloc[r]) - alloc[r][t] + alloc'[r][t]
    BY <1>1, <1>3, RowChange
  <1>5. Spent(r)' = Spent(r) + x
    BY <1>1, <1>3, <1>4, Views, NextViews
  <1>6. \A s \in Receipts \ {r} : Spent(s)' = Spent(s)
    BY <1>3, Views, NextViews
  <1> DEFINE L == LiveIn(receipts)
  <1>7. L \in SUBSET Receipts /\ LiveIn(receipts') = L /\ r \in L
    BY Views DEF LiveIn
  <1> HIDE DEF L
  <1>8. Paid(alloc', t, L) = Paid(alloc, t, L) - alloc[r][t] + alloc'[r][t]
    <2>1. \A s \in Receipts \ {r} : alloc'[s][t] = alloc[s][t]
      BY <1>3
    <2>2. alloc \in Allocations
      BY <1>1
    <2> QED
      BY <2>1, <2>2, <1>2, <1>7, ColumnChange
  <1>9. \A u \in Targets \ {t} : Paid(alloc', u, L) = Paid(alloc, u, L)
    <2> TAKE u \in Targets \ {t}
    <2>1. \A s \in Receipts : (IF s \in L THEN alloc'[s][u] ELSE 0)
                            = (IF s \in L THEN alloc[s][u] ELSE 0)
      BY <1>3
    <2>2. alloc \in Allocations
      BY <1>1
    <2> QED
      BY <2>1, <2>2, <1>2, <1>7, ColumnSame
  <1>10. /\ \A u : Allocated(u) = Paid(alloc, u, L) /\ Allocated(u)' = Paid(alloc', u, L)
         /\ \A u : Outstanding(u) = price[u] - Allocated(u)
         /\ \A u : Outstanding(u)' = price[u] - Allocated(u)'
    BY <1>7, Views, NextViews DEF L
  <1>11. Allocated(t)' = Allocated(t) + x
    <2>1. /\ Allocated(t) = Paid(alloc, t, L) /\ Allocated(t)' = Paid(alloc', t, L)
          /\ Allocated(t) \in Nat /\ alloc'[r][t] = x /\ alloc[r][t] = 0
      BY <1>1, <1>3, <1>10
    <2> QED
      BY <2>1, <1>8
  <1>12. \A u \in Targets \ {t} : Allocated(u)' = Allocated(u)
    BY <1>9, <1>10
  <1>13. Outstanding(t)' = Outstanding(t) - x
    <2>1. price[t] \in Nat /\ Allocated(t) \in Nat
      BY <1>1
    <2> QED
      BY <2>1, <1>10, <1>11
  <1>14. \A u \in Targets \ {t} : Outstanding(u)' = Outstanding(u)
    BY <1>10, <1>12
  <1>15. /\ \A s \in Receipts : Live(s)' <=> Live(s)
         /\ \A p : ReceiptsOf(p)' = ReceiptsOf(p)
    BY Views, NextViews
  <1>16. run'.queue = run.queue => Receipt' = Receipt
    BY DEF Receipt, Oldest, Earlier
  <1> QED
    BY <1>2, <1>3, <1>5, <1>6, <1>11, <1>12, <1>13, <1>14, <1>15, <1>16

(* Only one receipt changes.                                               *)
LEMMA MoneyOfOne ==
    ASSUME TypeOK, alloc' \in Allocations, NEW r \in Receipts,
           \A s \in Receipts \ {r} : receipts'[s] = receipts[s] /\ alloc'[s] = alloc[s]
    PROVE  /\ \A s \in Receipts \ {r} : Spent(s)' = Spent(s) /\ (Live(s)' <=> Live(s))
           /\ \A t \in Targets : alloc[r][t] = 0 /\ alloc'[r][t] = 0 =>
                Allocated(t)' = Allocated(t)
           /\ \A t \in Targets : alloc'[r][t] = 0 \/ ~Live(r)' => Allocated(t)' <= Allocated(t)
           /\ \A t \in Targets : Allocated(t)' \in Nat
  <1> DEFINE L == LiveIn(receipts)
             M == LiveIn(receipts')
  <1>1. alloc \in Allocations
    BY TypeFacts
  <1>2. /\ L \in SUBSET Receipts /\ M \in SUBSET Receipts
        /\ \A s \in Receipts \ {r} : s \in M <=> s \in L
        /\ L \ {r} \in SUBSET L /\ r \in M <=> Live(r)'
    BY NextViews DEF LiveIn
  <1>3. /\ \A u : Allocated(u) = Paid(alloc, u, L) /\ Allocated(u)' = Paid(alloc', u, M)
    BY Views, NextViews
  <1>4. \A s \in Receipts \ {r} : Spent(s)' = Spent(s) /\ (Live(s)' <=> Live(s))
    BY Views, NextViews
  <1> HIDE DEF L, M
  <1>5. ASSUME NEW t \in Targets, alloc[r][t] = 0, alloc'[r][t] = 0
        PROVE  Allocated(t)' = Allocated(t)
    <2>1. \A s \in Receipts : (IF s \in M THEN alloc'[s][t] ELSE 0)
                            = (IF s \in L THEN alloc[s][t] ELSE 0)
      BY <1>2, <1>5
    <2>2. Paid(alloc', t, M) = Paid(alloc, t, L)
      BY <2>1, <1>1, <1>2, ColumnSame
    <2> QED
      BY <2>2, <1>3
  <1>6. ASSUME NEW t \in Targets, alloc'[r][t] = 0 \/ ~Live(r)'
        PROVE  Allocated(t)' <= Allocated(t)
    <2> DEFINE K == L \ {r}
    <2>1. \A s \in Receipts : (IF s \in M THEN alloc'[s][t] ELSE 0)
                            = (IF s \in K THEN alloc[s][t] ELSE 0)
      BY <1>2, <1>6
    <2>2. K \in SUBSET L /\ K \in SUBSET Receipts
      BY <1>2
    <2> HIDE DEF K
    <2>3. Paid(alloc', t, M) = Paid(alloc, t, K)
      BY <2>1, <2>2, <1>1, <1>2, ColumnSame
    <2>4. Paid(alloc, t, K) <= Paid(alloc, t, L)
      BY <2>2, <1>1, <1>2, ColumnLess
    <2> QED
      BY <2>3, <2>4, <1>3
  <1>7. \A t \in Targets : Allocated(t)' \in Nat
    BY <1>2, <1>3, ColumnSum
  <1> QED
    BY <1>4, <1>5, <1>6, <1>7

(* The allocations of a student are released.                              *)
LEMMA MoneyWiped ==
    ASSUME Base, NEW p \in Payers, alloc' = Wiped(p), UNCHANGED <<receipts, price>>
    PROVE  /\ alloc' \in Allocations
           /\ \A s \in Receipts : Live(s)' <=> Live(s)
           /\ \A q : ReceiptsOf(q)' = ReceiptsOf(q)
           /\ \A s \in Receipts : receipts[s].payer # p =>
                alloc'[s] = alloc[s] /\ Spent(s)' = Spent(s)
           /\ \A s \in Receipts : receipts[s].payer = p =>
                Spent(s)' = 0 /\ \A t \in Targets : alloc'[s][t] = 0
           /\ \A t \in Targets : Owner[t] # p =>
                /\ \A s \in Receipts : alloc'[s][t] = alloc[s][t]
                /\ Outstanding(t)' = Outstanding(t) /\ Allocated(t)' = Allocated(t)
           /\ \A t \in Targets : Owner[t] = p => \A s \in Receipts : alloc'[s][t] = 0
  <1>1. alloc \in Allocations /\ \A s \in Receipts : alloc[s] \in [Targets -> Nat]
    BY TypeFacts DEF Base
  <1>2. alloc' \in Allocations
    BY <1>1 DEF Allocations, Wiped, Nothing
  <1>3. \A s \in Receipts : alloc'[s] = IF receipts[s].payer = p THEN Nothing ELSE alloc[s]
    BY DEF Wiped
  <1>4. \A t \in Targets : Nothing[t] = 0
    BY DEF Nothing
  <1>5. \A s \in Receipts, t \in Targets : alloc[s][t] # 0 => Owner[t] = receipts[s].payer
    <2> SUFFICES ASSUME NEW s \in Receipts, NEW t \in Targets, alloc[s][t] # 0
                 PROVE  Owner[t] = receipts[s].payer
      OBVIOUS
    <2>1. alloc[s][t] \in Nat
      BY <1>1
    <2> QED
      BY <2>1 DEF Base, RowsOK
  <1>6. \A t \in Targets : Owner[t] # p => \A s \in Receipts : alloc'[s][t] = alloc[s][t]
    BY <1>3, <1>4, <1>5
  <1>7. \A t \in Targets : Owner[t] = p => \A s \in Receipts : alloc'[s][t] = 0
    BY <1>3, <1>4, <1>5
  <1>8. \A s \in Receipts : Live(s)' <=> Live(s)
    BY Views, NextViews
  <1> DEFINE L == LiveIn(receipts)
  <1>9. L \in SUBSET Receipts /\ LiveIn(receipts') = L
    BY DEF LiveIn
  <1>10. /\ \A u : Allocated(u) = Paid(alloc, u, L) /\ Allocated(u)' = Paid(alloc', u, L)
    BY <1>9, Views, NextViews
  <1> HIDE DEF L
  <1>11. ASSUME NEW t \in Targets, Owner[t] # p
         PROVE  Allocated(t)' = Allocated(t) /\ Outstanding(t)' = Outstanding(t)
    <2>1. \A s \in Receipts : (IF s \in L THEN alloc'[s][t] ELSE 0)
                            = (IF s \in L THEN alloc[s][t] ELSE 0)
      BY <1>6, <1>11
    <2>2. Paid(alloc', t, L) = Paid(alloc, t, L)
      BY <2>1, <1>1, <1>2, <1>9, ColumnSame
    <2>3. Allocated(t)' = Allocated(t)
      BY <2>2, <1>10
    <2> QED
      BY <2>3, Views, NextViews
  <1>12. \A s \in Receipts : receipts[s].payer # p =>
           alloc'[s] = alloc[s] /\ Spent(s)' = Spent(s)
    BY <1>3, Views, NextViews
  <1>13. ASSUME NEW s \in Receipts, receipts[s].payer = p
         PROVE  Spent(s)' = 0 /\ \A t \in Targets : alloc'[s][t] = 0
    <2>1. \A t \in Targets : alloc'[s][t] = 0
      BY <1>3, <1>4, <1>13
    <2>2. alloc'[s] \in [Targets -> Nat]
      BY <1>2 DEF Allocations
    <2>3. SumFunction(alloc'[s]) = 0
      BY <2>1, <2>2, RowSum
    <2> QED
      BY <2>1, <2>3, NextViews
  <1>14. \A q : ReceiptsOf(q)' = ReceiptsOf(q)
    BY Views, NextViews
  <1> QED
    BY <1>2, <1>6, <1>7, <1>8, <1>11, <1>12, <1>13, <1>14

(* A mutation is sent, for the first time or again.                        *)
LEMMA Sent ==
    ASSUME Base, New \/ SendAgain
    PROVE  \E m \in AllMutations :
             /\ Start(m) /\ mutations' \in Nat
             /\ m.op \in Corrections => receipts[m.receipt].state # "none"
  <1>1. CASE SendAgain
    <2>1. PICK m \in unfinished : Start(m)
      BY <1>1 DEF SendAgain
    <2>2. m \in AllMutations /\ mutations' \in Nat
      BY <1>1, <2>1 DEF SendAgain, Base, TypeOK
    <2>3. m.op \in Corrections => receipts[m.receipt].state # "none"
      BY <2>1 DEF Base, RowsOK
    <2> QED
      BY <2>1, <2>2, <2>3
  <1>2. CASE New
    <2>0. mutations' \in Nat
      BY <1>2 DEF New, Base, TypeOK
    <2>1. PICK m \in Creates \union Updates \union Deletes \union Restores
                \union Completes \union Reopens \union Configures : Start(m)
      BY <1>2 DEF New
    <2>2. CASE m \in Creates
      <3>1. m \in CreateMutations
        BY <2>2 DEF Creates, CreateMutations
      <3>2. m \in AllMutations /\ m.op = "create"
        BY <3>1 DEF AllMutations, CreateMutations
      <3> QED
        BY <2>0, <2>1, <3>2 DEF Corrections
    <2>3. CASE m \in Updates
      <3>1. m \in UpdateMutations /\ receipts[m.receipt].state = "live"
        BY <2>3 DEF Updates, UpdateMutations, Live
      <3>2. m \in AllMutations
        BY <3>1 DEF AllMutations
      <3> QED
        BY <2>0, <2>1, <3>1, <3>2
    <2>4. CASE m \in Deletes
      <3>1. m \in DeleteMutations /\ receipts[m.receipt].state = "live"
        BY <2>4 DEF Deletes, DeleteMutations, Live
      <3>2. m \in AllMutations
        BY <3>1 DEF AllMutations
      <3> QED
        BY <2>0, <2>1, <3>1, <3>2
    <2>5. CASE m \in Restores
      <3>1. m \in RestoreMutations /\ receipts[m.receipt].state = "deleted"
        BY <2>5 DEF Restores, RestoreMutations
      <3>2. m \in AllMutations
        BY <3>1 DEF AllMutations
      <3> QED
        BY <2>0, <2>1, <3>1, <3>2
    <2>6. CASE m \in Completes
      <3>1. m \in CompleteMutations
        BY <2>6, AllocationAssumption DEF Completes, CompleteMutations
      <3>2. m \in AllMutations /\ m.op = "complete"
        BY <3>1 DEF AllMutations, CompleteMutations
      <3> QED
        BY <2>0, <2>1, <3>2 DEF Corrections
    <2>7. CASE m \in Reopens
      <3>1. m \in ReopenMutations
        BY <2>7 DEF Reopens, ReopenMutations, Base, TypeOK
      <3>2. m \in AllMutations /\ m.op = "reopen"
        BY <3>1 DEF AllMutations, ReopenMutations
      <3> QED
        BY <2>0, <2>1, <3>2 DEF Corrections
    <2>8. CASE m \in Configures
      <3>0. PICK t \in OpeningCycles :
              m = [op |-> "configure", target |-> t, full |-> t \notin full]
        BY <2>8 DEF Configures
      <3> DEFINE b == t \notin full
      <3>01. b \in BOOLEAN /\ m = [op |-> "configure", target |-> t, full |-> b]
        BY <3>0
      <3> HIDE DEF b
      <3>1. m \in ConfigureMutations
        BY <3>01 DEF ConfigureMutations
      <3>2. m \in AllMutations /\ m.op = "configure"
        BY <3>1 DEF AllMutations, ConfigureMutations
      <3> QED
        BY <2>0, <2>1, <3>2 DEF Corrections
    <2> QED
      BY <2>2, <2>3, <2>4, <2>5, <2>6, <2>7, <2>8
  <1> QED
    BY <1>1, <1>2

(* It is refused at once, or its handler begins.                           *)
Begins(m) ==
    /\ run' \in Runs /\ run'.mutation = m /\ run'.todo = Tasks(m) /\ run'.queue = {}
    /\ run'.step = "collect" /\ run'.cycles = {} /\ run'.students = Hooked(m)
    /\ run'.left = 0 /\ run'.ahead = {}
    /\ TasksOK(m)
    /\ last' = Ended(NoMutation, "done")

(* A mutation is refused at once, or its handler begins.                   *)
LEMMA StartCases ==
    ASSUME Base, NEW m \in AllMutations, Start(m),
           m.op \in Corrections => receipts[m.receipt].state # "none"
    PROVE  /\ run = Idle
           /\ \/ m.op = "update" /\ run' = Idle /\ last' = Ended(m, "refused")
              \/ Begins(m)
           /\ unfinished' = unfinished \ {m}
           /\ UNCHANGED <<receipts, alloc, tutoring, crashes, history>>
  <1>1. /\ run = Idle /\ unfinished' = unfinished \ {m}
        /\ UNCHANGED <<receipts, alloc, tutoring, crashes, history>>
    BY DEF Start
  <1>2. CASE m.op = "update" /\ receipts[m.receipt].state = "deleted"
    BY <1>1, <1>2 DEF Start
  <1>3. CASE ~(m.op = "update" /\ receipts[m.receipt].state = "deleted")
    <2>1. /\ run' = [Idle EXCEPT !.mutation = m, !.todo = Tasks(m), !.students = Hooked(m)]
          /\ last' = Ended(NoMutation, "done")
      BY <1>3 DEF Start
    <2>2. m.op \in Corrections => receipts[m.receipt].payer \in Payers
      <3> SUFFICES ASSUME m.op \in Corrections PROVE receipts[m.receipt].payer \in Payers
        OBVIOUS
      <3>1. m.receipt \in Receipts
        BY MutationByOp DEF Corrections, UpdateMutations, DeleteMutations, RestoreMutations
      <3> QED
        BY <3>1 DEF Base, RowsOK
    <2>3. TasksOK(m)
      BY <2>2, TasksAreOK DEF Base
    <2>4. Tasks(m) \in Seq(AllTasks) /\ Hooked(m) \in SUBSET Students
      BY <2>3 DEF TasksOK, Hooked
    <2>5. /\ run' \in Runs /\ run'.mutation = m /\ run'.todo = Tasks(m) /\ run'.queue = {}
          /\ run'.step = "collect" /\ run'.cycles = {} /\ run'.students = Hooked(m)
          /\ run'.left = 0 /\ run'.ahead = {}
      BY <2>1, <2>4 DEF Idle, Runs
    <2>6. Begins(m)
      BY <2>1, <2>3, <2>5 DEF Begins
    <2> QED
      BY <1>1, <2>6
  <1> QED
    BY <1>2, <1>3

(* A receipt is recorded.                                                  *)
LEMMA InsertCases ==
    ASSUME Base, Insert
    PROVE  /\ At("insert") /\ Arg \in Receipts /\ run.mutation \in CreateMutations
           /\ run.mutation.op = "create" /\ Arg = run.mutation.receipt
           /\ \/ /\ receipts[Arg].state = "none"
                 /\ receipts' = [receipts EXCEPT ![Arg] = Received(run.mutation)]
                 /\ Goes(Tail(run.todo), {Arg}, "collect", {}, run.students, run.left, {})
                 /\ UNCHANGED last
              \/ /\ receipts[Arg].state # "none" /\ UNCHANGED receipts
                 /\ Goes(Tail(run.todo), {Arg}, "collect", {}, run.students, run.left, {})
                 /\ UNCHANGED last
              \/ receipts[Arg].state # "none" /\ UNCHANGED receipts /\ Refuse
           /\ UNCHANGED <<alloc, tutoring, unfinished, mutations, crashes, history>>
  <1>1. At("insert")
    BY DEF Insert
  <1>2. /\ TaskOf(run.mutation, <<"insert", Arg>>) /\ run.mutation \in AllMutations
    BY <1>1, AtHead
  <1>3. /\ Arg \in Receipts /\ run.mutation.op = "create" /\ Arg = run.mutation.receipt
    BY <1>2, HeadOf
  <1>4. run.mutation \in CreateMutations
    BY <1>2, <1>3, MutationByOp
  <1>5. DoneCollecting({Arg}) =>
          Goes(Tail(run.todo), {Arg}, "collect", {}, run.students, run.left, {})
    BY <1>1, <1>3, GoesCollecting
  <1>6. /\ receipts' = IF receipts[Arg].state = "none"
                       THEN [receipts EXCEPT ![Arg] = Received(run.mutation)] ELSE receipts
        /\ \/ DoneCollecting({Arg}) /\ UNCHANGED last
           \/ receipts[Arg].state # "none" /\ Refuse
        /\ UNCHANGED <<alloc, tutoring, unfinished, mutations, crashes, history>>
    BY DEF Insert
  <1> QED
    BY <1>1, <1>3, <1>4, <1>5, <1>6

(* One row is written.                                                     *)
LEMMA OneRow ==
    ASSUME NEW rs \in [Receipts -> Rows], NEW r \in Receipts, NEW new \in Rows,
           NEW b, b = [rs EXCEPT ![r] = new]
    PROVE  /\ b \in [Receipts -> Rows] /\ b[r] = new
           /\ \A s \in Receipts \ {r} : b[s] = rs[s]
  OBVIOUS

(* A receipt is deleted or restored.                                       *)
LEMMA OneState ==
    ASSUME NEW c \in Rows, NEW s \in {"live", "deleted"}, NEW d, d = [c EXCEPT !.state = s]
    PROVE  d \in Rows /\ d.state = s /\ d.payer = c.payer /\ d.amount = c.amount /\ d.at = c.at
  BY DEF Rows

(* A receipt is written.                                                   *)
LEMMA ReceivedRow ==
    ASSUME NEW m \in CreateMutations \union UpdateMutations
    PROVE  /\ Received(m) \in Rows /\ Received(m).state = "live"
           /\ Received(m).payer = m.payer /\ Received(m).amount = m.amount
           /\ Received(m).at = m.at /\ m.payer \in Payers /\ m.amount \in Nat \ {0}
  <1>1. m.payer \in Payers /\ m.amount \in Nat \ {0} /\ m.at \in Nat
    BY AllocationAssumption DEF CreateMutations, UpdateMutations, Payers
  <1> QED
    BY <1>1 DEF Received, Rows

(* A receipt is changed.                                                   *)
LEMMA ChangeCases ==
    ASSUME Base, Change
    PROVE  /\ At("change") /\ Arg \in Receipts /\ run.mutation \in UpdateMutations
           /\ run.mutation.op = "update" /\ Arg = run.mutation.receipt
           /\ receipts[Arg].payer \in Payers /\ receipts[Arg].state # "none"
           /\ receipts' \in [Receipts -> Rows] /\ receipts'[Arg] = Received(run.mutation)
           /\ \A s \in Receipts \ {Arg} : receipts'[s] = receipts[s] /\ alloc'[s] = alloc[s]
           /\ alloc' \in Allocations /\ \A t \in Targets : alloc'[Arg][t] = 0
           /\ Goes(Tail(run.todo), {}, "collect", {}, run.students, run.left, {})
           /\ UNCHANGED <<tutoring, last, unfinished, mutations, crashes, history>>
  <1>1. At("change")
    BY DEF Change
  <1>2. /\ TaskOf(run.mutation, <<"change", Arg>>) /\ run.mutation \in AllMutations
    BY <1>1, AtHead
  <1>3. /\ Arg \in Receipts /\ run.mutation.op = "update" /\ Arg = run.mutation.receipt
    BY <1>2, HeadOf
  <1>4. run.mutation \in UpdateMutations
    BY <1>2, <1>3, MutationByOp
  <1>5. /\ receipts \in [Receipts -> Rows] /\ Received(run.mutation) \in Rows
        /\ alloc \in [Receipts -> [Targets -> Nat]]
    BY <1>4, ReceivedRow DEF Base, TypeOK
  <1>6. receipts' = [receipts EXCEPT ![Arg] = Received(run.mutation)]
    BY DEF Change
  <1>7. /\ receipts' \in [Receipts -> Rows] /\ receipts'[Arg] = Received(run.mutation)
        /\ \A s \in Receipts \ {Arg} : receipts'[s] = receipts[s]
    BY <1>3, <1>5, <1>6, OneRow
  <1>8. /\ alloc' \in Allocations /\ \A t \in Targets : alloc'[Arg][t] = 0
        /\ \A s \in Receipts \ {Arg} : alloc'[s] = alloc[s]
    <2>1. alloc' = [alloc EXCEPT ![Arg] = Nothing]
      BY DEF Change
    <2>2. Nothing \in [Targets -> Nat] /\ \A t \in Targets : Nothing[t] = 0
      BY DEF Nothing
    <2> QED
      BY <2>1, <2>2, <1>3, <1>5 DEF Allocations
  <1>9. receipts[Arg].state # "none" /\ receipts[Arg].payer \in Payers
    BY <1>3 DEF Base, RowsOK, Corrections
  <1>10. Goes(Tail(run.todo), {}, "collect", {}, run.students, run.left, {})
    BY <1>1, GoesDone DEF Change
  <1>11. UNCHANGED <<tutoring, last, unfinished, mutations, crashes, history>>
    BY DEF Change, Same
  <1> QED
    BY <1>1, <1>3, <1>4, <1>7, <1>8, <1>9, <1>10, <1>11

(* A receipt is deleted or restored.                                       *)
LEMMA DeleteCases ==
    ASSUME Base, Delete \/ Restore
    PROVE  /\ Arg \in Receipts /\ Arg = run.mutation.receipt
           /\ \/ At("delete") /\ run.mutation.op = "delete" /\ receipts'[Arg].state = "deleted"
                 /\ UNCHANGED history
              \/ /\ At("restore") /\ run.mutation.op = "restore"
                 /\ receipts'[Arg].state = "live"
                 /\ revived' = revived \union {receipts[Arg].payer}
                 /\ UNCHANGED <<behind, halfway>>
           /\ receipts[Arg].payer \in Payers /\ receipts[Arg].state # "none"
           /\ receipts' \in [Receipts -> Rows] /\ receipts'[Arg].payer = receipts[Arg].payer
           /\ receipts'[Arg].amount = receipts[Arg].amount
           /\ receipts'[Arg].at = receipts[Arg].at
           /\ \A s \in Receipts \ {Arg} : receipts'[s] = receipts[s]
           /\ Goes(Tail(run.todo), {}, "collect", {}, run.students, run.left, {})
           /\ UNCHANGED <<alloc, tutoring, last, unfinished, mutations, crashes>>
  <1> DEFINE k == IF Delete THEN "delete" ELSE "restore"
             s == IF Delete THEN "deleted" ELSE "live"
  <1>1. At(k) /\ k \in {"delete", "restore"} /\ s \in {"live", "deleted"}
    BY DEF Delete, Restore
  <1>2. /\ receipts' = [receipts EXCEPT ![Arg].state = s] /\ Done
        /\ UNCHANGED <<alloc, tutoring, last, unfinished, mutations, crashes>>
    BY DEF Delete, Restore, Same
  <1>3. /\ k = "delete" => s = "deleted" /\ UNCHANGED history
        /\ k = "restore" => /\ s = "live" /\ UNCHANGED <<behind, halfway>>
                            /\ revived' = revived \union {receipts[Arg].payer}
    BY DEF Delete, Restore
  <1> HIDE DEF k, s
  <1>4. /\ TaskOf(run.mutation, <<k, Arg>>) /\ run.mutation \in AllMutations
    BY <1>1, AtHead
  <1>5. /\ Arg \in Receipts /\ run.mutation.op = k /\ Arg = run.mutation.receipt
    BY <1>1, <1>4, HeadOf
  <1>6. receipts \in [Receipts -> Rows]
    BY DEF Base, TypeOK
  <1>7. /\ receipts' \in [Receipts -> Rows] /\ receipts'[Arg].state = s
        /\ receipts'[Arg].payer = receipts[Arg].payer
        /\ receipts'[Arg].amount = receipts[Arg].amount
        /\ receipts'[Arg].at = receipts[Arg].at
        /\ \A q \in Receipts \ {Arg} : receipts'[q] = receipts[q]
    <2>1. s \in {"live", "deleted"} /\ Arg \in Receipts
      BY <1>1, <1>5
    <2>2. receipts' = [receipts EXCEPT ![Arg].state = s]
      BY <1>2
    <2> DEFINE d == [receipts[Arg] EXCEPT !.state = s]
    <2>3. receipts[Arg] \in Rows
      BY <2>1, <1>6
    <2>4. /\ d \in Rows /\ d.state = s /\ d.payer = receipts[Arg].payer
          /\ d.amount = receipts[Arg].amount /\ d.at = receipts[Arg].at
      BY <2>1, <2>3, OneState
    <2>5. receipts' = [receipts EXCEPT ![Arg] = d]
      BY <2>2
    <2> HIDE DEF d
    <2>6. /\ receipts' \in [Receipts -> Rows] /\ receipts'[Arg] = d
          /\ \A q \in Receipts \ {Arg} : receipts'[q] = receipts[q]
      BY <2>1, <2>4, <2>5, <1>6, OneRow
    <2> QED
      BY <2>4, <2>6
  <1>8. receipts[Arg].state # "none" /\ receipts[Arg].payer \in Payers
    <2>1. run.mutation.op \in Corrections
      BY <1>1, <1>5 DEF Corrections
    <2> QED
      BY <2>1, <1>5 DEF Base, RowsOK
  <1>9. Goes(Tail(run.todo), {}, "collect", {}, run.students, run.left, {})
    BY <1>1, <1>2, GoesDone
  <1> QED
    BY <1>1, <1>2, <1>3, <1>5, <1>7, <1>8, <1>9

(* A student's allocations are rebuilt, or collected once more.            *)
LEMMA RebuildCases ==
    ASSUME Base, Rebuild
    PROVE  /\ At("rebuild") /\ Arg \in Students /\ Arg \in Payers
           /\ run.mutation.op \in Corrections \union {"reopen", "configure"}
           /\ alloc' = Wiped(Arg) /\ behind' = behind \ {Arg}
           /\ Goes(Tail(run.todo), ReceiptsOf(Arg), "collect", {}, run.students, run.left, {})
           /\ UNCHANGED <<receipts, tutoring, last, unfinished, mutations, crashes,
                          revived, halfway>>
  <1>1. At("rebuild")
    BY DEF Rebuild
  <1>2. TaskOf(run.mutation, <<"rebuild", Arg>>)
    BY <1>1, AtHead
  <1>3. /\ Arg \in Students
        /\ run.mutation.op \in Corrections \union {"reopen", "configure"}
    BY <1>2, HeadOf
  <1>4. ReceiptsOf(Arg) \in SUBSET Receipts
    BY DEF ReceiptsOf
  <1>5. Goes(Tail(run.todo), ReceiptsOf(Arg), "collect", {}, run.students, run.left, {})
    BY <1>1, <1>4, GoesCollecting DEF Rebuild
  <1>6. /\ alloc' = Wiped(Arg) /\ behind' = behind \ {Arg}
        /\ UNCHANGED <<receipts, tutoring, last, unfinished, mutations, crashes,
                       revived, halfway>>
    BY DEF Rebuild, Same
  <1> QED
    BY <1>1, <1>3, <1>5, <1>6 DEF Payers

(* The hook goes on to the next student.                                   *)
LEMMA ReconcileCases ==
    ASSUME Base, Reconcile
    PROVE  \E p \in run.students :
             /\ p \in Students /\ run.todo = <<>> /\ run.queue = {} /\ run.cycles = {}
             /\ run # Idle /\ run.mutation \in AllMutations
             /\ run.mutation.op \in {"complete", "reopen"}
             /\ Goes(<<<<"normalize", p>>>>, ReceiptsOf(p), "collect", {},
                     run.students \ {p}, run.left, {})
             /\ last = Ended(NoMutation, "done")
             /\ UNCHANGED <<receipts, alloc, tutoring, last, unfinished, mutations, crashes,
                            history>>
  <1>1. PICK p \in run.students :
          run' = [run EXCEPT !.students = @ \ {p}, !.queue = ReceiptsOf(p),
                             !.todo = <<<<"normalize", p>>>>]
    BY DEF Reconcile
  <1>2. /\ p \in Students /\ run \in Runs /\ ReceiptsOf(p) \in SUBSET Receipts
        /\ run.mutation \in AllMutations \union {NoMutation}
    BY TypeFacts DEF Base, TypeOK, ReceiptsOf
  <1>3. run.queue = {} /\ run.cycles = {} /\ run.todo = <<>>
    BY DEF Reconcile
  <1>4. run.step = "collect" /\ run.ahead = {}
    BY <1>3, NoQueue DEF Base
  <1>5. run # Idle
    BY <1>1, IdleFacts
  <1>6. run.mutation \in AllMutations /\ last = Ended(NoMutation, "done")
    BY <1>2, <1>5 DEF Base, TodoOK
  <1>7. run.mutation.op \in {"complete", "reopen"}
    <2>1. p \in Hooked(run.mutation)
      BY DEF Base, TodoOK
    <2> QED
      BY <2>1 DEF Hooked
  <1>8. Goes(<<<<"normalize", p>>>>, ReceiptsOf(p), "collect", {},
             run.students \ {p}, run.left, {})
    <2>1. <<"normalize", p>> \in AllTasks
      BY <1>2, TaskTypes DEF Payers
    <2>2. <<<<"normalize", p>>>> \in Seq(AllTasks)
      BY <2>1, ShortTwo
    <2>3. run \in Runs /\ ReceiptsOf(p) \in SUBSET Receipts
      BY <1>2
    <2> DEFINE q == <<<<"normalize", p>>>>
               Q == ReceiptsOf(p)
    <2>4. q \in Seq(AllTasks) /\ Q \in SUBSET Receipts
          /\ run' = [run EXCEPT !.students = @ \ {p}, !.queue = Q, !.todo = q]
      BY <2>2, <2>3, <1>1
    <2> HIDE DEF q, Q
    <2>5. Goes(q, Q, run.step, run.cycles, run.students \ {p}, run.left, run.ahead)
      BY <2>3, <2>4 DEF Runs, Goes
    <2> QED
      BY <2>5, <1>3, <1>4 DEF q, Q
  <1>9. UNCHANGED <<receipts, alloc, tutoring, last, unfinished, mutations, crashes, history>>
    BY DEF Reconcile, Same
  <1> QED
    BY <1>2, <1>3, <1>5, <1>6, <1>7, <1>8, <1>9

(* The obligations that are open are listed.                               *)
LEMMA ListCases ==
    ASSUME Base, List
    PROVE  /\ Collecting("list")
           /\ Goes(run.todo, run.queue, "allocate", {}, run.students, run.left,
                   OwedBy(receipts[Receipt].payer))
           /\ UNCHANGED <<receipts, alloc, tutoring, last, unfinished, mutations, crashes,
                          history>>
  <1>1. Collecting("list")
    BY DEF List
  <1>2. /\ run \in Runs /\ run.cycles = {}
        /\ OwedBy(receipts[Receipt].payer) \in SUBSET Targets
    BY <1>1, AtReceipt DEF Base, TypeOK, OwedBy
  <1>20. run \in Runs
    BY <1>2
  <1> DEFINE A == OwedBy(receipts[Receipt].payer)
  <1>21. run' = [run EXCEPT !.step = "allocate", !.ahead = A]
    BY DEF List
  <1>22. A \in SUBSET Targets
    BY <1>2
  <1> HIDE DEF A
  <1>23. /\ run' \in Runs /\ run'.mutation = run.mutation /\ run'.todo = run.todo
         /\ run'.queue = run.queue /\ run'.step = "allocate" /\ run'.cycles = run.cycles
         /\ run'.students = run.students /\ run'.left = run.left /\ run'.ahead = A
    BY <1>20, <1>21, <1>22 DEF Runs
  <1>24. Goes(run.todo, run.queue, "allocate", {}, run.students, run.left, A)
    BY <1>2, <1>23 DEF Goes
  <1>3. Goes(run.todo, run.queue, "allocate", {}, run.students, run.left,
             OwedBy(receipts[Receipt].payer))
    BY <1>24 DEF A
  <1> QED
    BY <1>1, <1>3 DEF List, Same

(* The states of cycles.                                                   *)
LEMMA NormalizeCases ==
    ASSUME Base, Normalize
    PROVE  /\ At("normalize") /\ Arg \in Payers
           /\ Goes(Tail(run.todo), {}, "collect", CyclesOf(Arg), run.students, run.left, {})
           /\ UNCHANGED <<receipts, alloc, tutoring, last, unfinished, mutations, crashes,
                          history>>
  <1>1. At("normalize")
    BY DEF Normalize
  <1>2. TaskOf(run.mutation, <<"normalize", Arg>>)
    BY <1>1, AtHead
  <1>3. Arg \in Payers
    BY <1>2, HeadOf
  <1>4. /\ run \in Runs /\ run.todo # <<>> /\ run.queue = {} /\ run.step = "collect"
        /\ run.ahead = {} /\ CyclesOf(Arg) \in SUBSET Cycles
    BY <1>1, AtHead DEF Base, TypeOK, CyclesOf
  <1> DEFINE C == CyclesOf(Arg)
  <1>41. run' = [run EXCEPT !.todo = Tail(@), !.cycles = C] /\ C \in SUBSET Cycles
    BY <1>4 DEF Normalize
  <1> HIDE DEF C
  <1>42. /\ run' \in Runs /\ run'.mutation = run.mutation /\ run'.todo = Tail(run.todo)
         /\ run'.queue = run.queue /\ run'.step = run.step /\ run'.cycles = C
         /\ run'.students = run.students /\ run'.left = run.left /\ run'.ahead = run.ahead
    BY <1>4, <1>41, RunNormalize
  <1>43. Goes(Tail(run.todo), {}, "collect", C, run.students, run.left, {})
    BY <1>4, <1>42 DEF Goes
  <1>5. Goes(Tail(run.todo), {}, "collect", CyclesOf(Arg), run.students, run.left, {})
    BY <1>43 DEF C
  <1> QED
    BY <1>1, <1>3, <1>5 DEF Normalize, Same

(* The status of one cycle is written.                                     *)
LEMMA NormalizeCycleCases ==
    ASSUME Base, NormalizeCycle
    PROVE  \E c \in Cycles :
             /\ c \in run.cycles /\ run.cycles # {} /\ run # Idle
             /\ status' = [status EXCEPT ![c] = Truth(c)]
             /\ Goes(run.todo, run.queue, run.step, run.cycles \ {c}, run.students,
                     run.left, run.ahead)
             /\ run.step # "allocate" /\ run.ahead = {}
             /\ UNCHANGED <<receipts, alloc, lesson, full, price, last, unfinished,
                            mutations, crashes, history>>
  <1> DEFINE c == Min(run.cycles)
  <1>1. /\ run.cycles # {} /\ status' = [status EXCEPT ![c] = Truth(c)]
        /\ run' = [run EXCEPT !.cycles = @ \ {c}]
        /\ UNCHANGED <<receipts, alloc, lesson, full, price, last, unfinished,
                       mutations, crashes, history>>
    BY DEF NormalizeCycle, Same
  <1>2. run.cycles \in SUBSET Cycles /\ Cycles \in SUBSET Nat /\ run \in Runs
    BY TypeFacts, AllocationAssumption DEF Base, TypeOK
  <1>3. c \in run.cycles
    BY <1>1, <1>2, LeastIsIn
  <1>4. run # Idle
    BY <1>1, IdleFacts
  <1>5. run.step # "allocate" /\ run.ahead = {}
    <2>1. run.queue = {} => run.step = "collect"
      BY DEF Base, QueueOK
    <2>2. run.queue # {} => run.step = "list"
      BY <1>1 DEF Base, QueueOK
    <2> QED
      BY <2>1, <2>2 DEF Base, QueueOK
  <1> HIDE DEF c
  <1>6. Goes(run.todo, run.queue, run.step, run.cycles \ {c}, run.students, run.left, run.ahead)
    BY <1>1, <1>2, RunNormalized DEF Goes
  <1> QED
    BY <1>1, <1>2, <1>3, <1>4, <1>5, <1>6

(* The statements of tutoring.                                             *)
Attends ==
    /\ At("attend") /\ run.mutation.op = "complete" /\ Arg \in Targets
    /\ Arg = run.mutation.target
    /\ lesson' = lesson \union {Arg}
    /\ price' \in [Targets -> Nat] /\ \A t \in Targets \ {Arg} : price'[t] = price[t]
    /\ Arg \in lesson => price' = price
    /\ Arg \in Cycles => price'[Arg] = CyclePrice
    /\ UNCHANGED <<full, status, halfway>>
Links ==
    /\ At("link") /\ run.mutation.op = "complete" /\ Arg \in Cycles
    /\ Arg = run.mutation.target
    /\ full' = full \union {Arg}
    /\ UNCHANGED <<lesson, status, price, halfway>>
MarksDue ==
    /\ At("markDue") /\ run.mutation.op = "complete" /\ Arg \in Cycles
    /\ Arg = run.mutation.target /\ Owner[Arg] \in Students
    /\ status' = [status EXCEPT ![Arg] = IF @ = "open" THEN "due" ELSE @]
    /\ UNCHANGED <<lesson, full, price, halfway>>
Unlinks ==
    /\ At("unlink") /\ run.mutation.op = "reopen" /\ Arg \in Cycles
    /\ Arg = run.mutation.target
    /\ full' = full \ {Arg}
    /\ UNCHANGED <<lesson, status, price, halfway>>
Opens ==
    /\ At("open") /\ run.mutation.op = "reopen" /\ Arg \in Cycles
    /\ Arg = run.mutation.target /\ Owner[Arg] \in Students
    /\ status' = [status EXCEPT ![Arg] = "open"]
    /\ UNCHANGED <<lesson, full, price, halfway>>
Resets ==
    /\ At("reset") /\ run.mutation.op = "reopen" /\ Arg \in Targets
    /\ Arg = run.mutation.target
    /\ lesson' = lesson \ {Arg}
    /\ halfway' = IF Arg \in AbsentPayer THEN halfway \union {Owner[Arg]} ELSE halfway
    /\ UNCHANGED <<full, status, price>>
SetsOpening ==
    /\ At("opening") /\ run.mutation.op = "configure" /\ Arg \in Cycles
    /\ Arg = run.mutation.target /\ Owner[Arg] \in Students
    /\ \/ UNCHANGED <<full, status>>
       \/ full' = full \union {Arg} /\ status' = [status EXCEPT ![Arg] = "due"]
       \/ full' = full \ {Arg} /\ status' = [status EXCEPT ![Arg] = "open"]
    /\ UNCHANGED <<lesson, price, halfway>>

(* One of the tutoring statements.                                         *)
LEMMA TeachCases ==
    ASSUME Base, Teach
    PROVE  /\ Attends \/ Links \/ MarksDue \/ Unlinks \/ Opens \/ Resets \/ SetsOpening
           /\ Goes(Tail(run.todo), {}, "collect", {}, run.students, run.left, {})
           /\ UNCHANGED <<receipts, alloc, revived, behind, last, unfinished,
                          mutations, crashes>>
  <1>1. Done /\ UNCHANGED <<receipts, alloc, revived, behind, last, unfinished, mutations, crashes>>
    BY DEF Teach, Same
  <1> DEFINE G == Goes(Tail(run.todo), {}, "collect", {}, run.students, run.left, {})
  <1>2. \A k : At(k) => G /\ TaskOf(run.mutation, <<k, Arg>>) /\ run.mutation \in AllMutations
    BY <1>1, GoesDone, AtHead
  <1>3. \A k : At(k) =>
          /\ k \in {"attend", "link", "markDue"} =>
               run.mutation.op = "complete" /\ Arg \in Targets /\ Arg = run.mutation.target
          /\ k \in {"link", "markDue", "unlink", "open"} => Arg \in Cycles
          /\ k \in {"markDue", "open"} => Owner[Arg] \in Students
          /\ k \in {"unlink", "open", "reset"} =>
               run.mutation.op = "reopen" /\ Arg \in Targets /\ Arg = run.mutation.target
          /\ k = "opening" =>
               /\ run.mutation.op = "configure" /\ Arg \in OpeningCycles
               /\ Arg = run.mutation.target
    BY <1>2, HeadOf
  <1> HIDE DEF G
  <1>4. ASSUME At("attend"), lesson' = lesson \union {Arg},
               price' = IF Arg \in lesson THEN price
                        ELSE [price EXCEPT ![Arg] = run.mutation.price],
               UNCHANGED <<full, status, halfway>>
        PROVE  Attends
    <2>1. run.mutation.op = "complete" /\ Arg \in Targets /\ Arg = run.mutation.target
      BY <1>3, <1>4
    <2>2. run.mutation \in CompleteMutations
      BY <1>2, <1>4, <2>1, MutationByOp
    <2>3. /\ run.mutation.price \in Nat
          /\ Arg \in Cycles => run.mutation.price = CyclePrice
      BY <2>1, <2>2, AllocationAssumption DEF CompleteMutations
    <2>4. price \in [Targets -> Nat] /\ \A t \in Cycles : price[t] = CyclePrice
      BY DEF Base, TypeOK, RowsOK
    <2>5. /\ price' \in [Targets -> Nat] /\ \A t \in Targets \ {Arg} : price'[t] = price[t]
          /\ Arg \in Cycles => price'[Arg] = CyclePrice
      BY <1>4, <2>1, <2>3, <2>4
    <2> QED
      BY <1>4, <2>1, <2>5 DEF Attends
  <1>5. ASSUME At("opening"),
               IF run.mutation.full = (Arg \in full)
               THEN UNCHANGED <<full, status>>
               ELSE /\ full' = IF run.mutation.full THEN full \union {Arg} ELSE full \ {Arg}
                    /\ status' = [status EXCEPT ![Arg] =
                                    IF run.mutation.full THEN "due" ELSE "open"],
               UNCHANGED <<lesson, price, halfway>>
        PROVE  SetsOpening
    <2>1. /\ run.mutation.op = "configure" /\ Arg \in OpeningCycles /\ Arg = run.mutation.target
      BY <1>3, <1>5
    <2>2. Owner[Arg] \in Students /\ Arg \in Cycles
      BY <2>1, AllocationAssumption
    <2>3. \/ UNCHANGED <<full, status>>
          \/ full' = full \union {Arg} /\ status' = [status EXCEPT ![Arg] = "due"]
          \/ full' = full \ {Arg} /\ status' = [status EXCEPT ![Arg] = "open"]
      BY <1>5
    <2> QED
      BY <1>5, <2>1, <2>2, <2>3 DEF SetsOpening
  <1>6. CASE At("attend") /\ lesson' = lesson \union {Arg}
             /\ price' = (IF Arg \in lesson THEN price
                          ELSE [price EXCEPT ![Arg] = run.mutation.price])
             /\ UNCHANGED <<full, status, halfway>>
    BY <1>1, <1>2, <1>4, <1>6 DEF G
  <1>7. CASE At("link") /\ full' = full \union {Arg} /\ UNCHANGED <<lesson, status, price, halfway>>
    BY <1>1, <1>2, <1>3, <1>7 DEF G, Links
  <1>8. CASE At("markDue")
             /\ status' = [status EXCEPT ![Arg] = IF @ = "open" THEN "due" ELSE @]
             /\ UNCHANGED <<lesson, full, price, halfway>>
    BY <1>1, <1>2, <1>3, <1>8 DEF G, MarksDue
  <1>9. CASE At("unlink") /\ full' = full \ {Arg} /\ UNCHANGED <<lesson, status, price, halfway>>
    BY <1>1, <1>2, <1>3, <1>9 DEF G, Unlinks
  <1>10. CASE At("open") /\ status' = [status EXCEPT ![Arg] = "open"]
              /\ UNCHANGED <<lesson, full, price, halfway>>
    BY <1>1, <1>2, <1>3, <1>10 DEF G, Opens
  <1>11. CASE At("reset") /\ lesson' = lesson \ {Arg}
              /\ halfway' = (IF Arg \in AbsentPayer THEN halfway \union {Owner[Arg]} ELSE halfway)
              /\ UNCHANGED <<full, status, price>>
    BY <1>1, <1>2, <1>3, <1>11 DEF G, Resets
  <1>12. CASE /\ At("opening")
              /\ IF run.mutation.full = (Arg \in full)
                 THEN UNCHANGED <<full, status>>
                 ELSE /\ full' = IF run.mutation.full THEN full \union {Arg} ELSE full \ {Arg}
                      /\ status' = [status EXCEPT ![Arg] =
                                      IF run.mutation.full THEN "due" ELSE "open"]
              /\ UNCHANGED <<lesson, price, halfway>>
    BY <1>1, <1>2, <1>5, <1>12 DEF G
  <1> QED
    BY <1>6, <1>7, <1>8, <1>9, <1>10, <1>11, <1>12 DEF Teach

(* The handler ends, or its worker dies.                                   *)
LEMMA FinishCases ==
    ASSUME Base, Finish
    PROVE  /\ run.mutation \in AllMutations /\ run # Idle /\ run' = Idle
           /\ last' = Ended(run.mutation, "done")
           /\ run.todo = <<>> /\ run.queue = {} /\ run.cycles = {} /\ run.students = {}
           /\ \A p : ~Pending(p)
           /\ UNCHANGED <<receipts, alloc, tutoring, unfinished, mutations, crashes, history>>
  <1>1. /\ run.mutation # NoMutation /\ run' = Idle /\ last' = Ended(run.mutation, "done")
        /\ run.todo = <<>> /\ run.queue = {} /\ run.cycles = {} /\ run.students = {}
        /\ UNCHANGED <<receipts, alloc, tutoring, unfinished, mutations, crashes, history>>
    BY DEF Finish
  <1>2. run.mutation \in AllMutations
    BY <1>1, TypeFacts DEF Base
  <1>3. \A p : ~Pending(p)
    BY <1>1, NoTask DEF Pending
  <1> QED
    BY <1>1, <1>2, <1>3, IdleFacts

(* The handler is cut short.                                               *)
LEMMA DiesCases ==
    ASSUME Base, WorkerDies
    PROVE  /\ run.mutation \in AllMutations /\ run # Idle /\ run' = Idle
           /\ crashes' = crashes + 1 /\ unfinished' = unfinished \union {run.mutation}
           /\ IF run.mutation.op = "reopen"
              THEN halfway' = halfway \union ToRebuild /\ UNCHANGED behind
              ELSE behind' = behind \union ToRebuild /\ UNCHANGED halfway
           /\ ToRebuild = {p \in Students : Pending(p)}
           /\ last = Ended(NoMutation, "done")
           /\ UNCHANGED <<receipts, alloc, tutoring, last, mutations, revived>>
  <1>1. run.mutation.op \in CrashOps /\ run' = Idle
    BY DEF WorkerDies
  <1>2. run.mutation # NoMutation
    BY <1>1, AllocationAssumption, NoMutationIsNone
  <1>3. run.mutation \in AllMutations
    BY <1>2, TypeFacts DEF Base
  <1>4. run # Idle
    BY <1>2, IdleFacts
  <1>5. last = Ended(NoMutation, "done")
    BY <1>4 DEF Base, TodoOK
  <1>6. ToRebuild = {p \in Students : Pending(p)}
    BY DEF ToRebuild, Pending
  <1> QED
    BY <1>1, <1>3, <1>4, <1>5, <1>6 DEF WorkerDies

(* The mutation is refused.                                                *)
LEMMA RefuseCases ==
    ASSUME Base, Refuse, run.mutation \in AllMutations
    PROVE  run' = Idle /\ run' \in Runs /\ last' = Ended(run.mutation, "refused")
           /\ run'.mutation = NoMutation /\ run'.todo = <<>> /\ run'.queue = {}
           /\ run'.step = "collect" /\ run'.cycles = {} /\ run'.students = {}
           /\ run'.left = 0 /\ run'.ahead = {}
  BY IdleFacts DEF Refuse

(* The types of what ended last.                                           *)
LEMMA EndedType ==
    ASSUME NEW m \in AllMutations \union {NoMutation}, NEW h \in {"done", "refused"}
    PROVE  /\ Ended(m, h) \in [mutation : AllMutations \union {NoMutation},
                               how : {"done", "refused"}]
           /\ Ended(m, h).mutation = m /\ Ended(m, h).how = h
  BY DEF Ended

(* Every step keeps the types.                                             *)
LEMMA TypeStep ==
    ASSUME Base, Next
    PROVE  TypeOK'
  <1>0. /\ TypeOK /\ run \in Runs /\ receipts \in [Receipts -> Rows]
        /\ alloc \in [Receipts -> [Targets -> Nat]]
        /\ \A m \in AllMutations \union {NoMutation}, h \in {"done", "refused"} :
             Ended(m, h) \in [mutation : AllMutations \union {NoMutation}, how : {"done", "refused"}]
        /\ Idle \in Runs /\ Students \in SUBSET Payers
    BY EndedType, IdleFacts, TaskTypes DEF Base, TypeOK
  <1>1. CASE New \/ SendAgain
    <2>1. PICK m \in AllMutations :
             /\ Start(m) /\ mutations' \in Nat
             /\ m.op \in Corrections => receipts[m.receipt].state # "none"
      BY <1>1, Sent
    <2>2. /\ (run' = Idle /\ last' = Ended(m, "refused")) \/ Begins(m)
          /\ unfinished' = unfinished \ {m}
          /\ UNCHANGED <<receipts, alloc, tutoring, crashes, history>>
      BY <2>1, StartCases
    <2>3. run' \in Runs
      BY <2>2, <1>0 DEF Begins
    <2>4. last' \in [mutation : AllMutations \union {NoMutation}, how : {"done", "refused"}]
      BY <2>2, <1>0 DEF Begins
    <2> QED
      BY <2>1, <2>2, <2>3, <2>4 DEF TypeOK, tutoring, history, Base
  <1>2. CASE Insert
    <2>1. /\ Arg \in Receipts /\ run.mutation \in CreateMutations
          /\ run.mutation \in AllMutations
          /\ receipts' = [receipts EXCEPT ![Arg] = Received(run.mutation)] \/ UNCHANGED receipts
          /\ \/ Goes(Tail(run.todo), {Arg}, "collect", {}, run.students, run.left, {})
                /\ UNCHANGED last
             \/ Refuse
          /\ UNCHANGED <<alloc, tutoring, unfinished, mutations, crashes, history>>
      BY <1>2, InsertCases DEF AllMutations
    <2>2. Received(run.mutation) \in Rows
      BY <2>1, ReceivedRow
    <2>3. receipts' \in [Receipts -> Rows]
      BY <2>1, <2>2, <1>0
    <2>4. run' \in Runs
      BY <2>1, <1>0 DEF Goes, Refuse
    <2>5. last' \in [mutation : AllMutations \union {NoMutation}, how : {"done", "refused"}]
      BY <2>1, <1>0 DEF Refuse, TypeOK
    <2> QED
      BY <2>1, <2>3, <2>4, <2>5 DEF TypeOK, tutoring, history, Base
  <1>3. CASE Change
    <2>1. /\ receipts' \in [Receipts -> Rows] /\ alloc' \in Allocations
          /\ Goes(Tail(run.todo), {}, "collect", {}, run.students, run.left, {})
          /\ UNCHANGED <<tutoring, last, unfinished, mutations, crashes, history>>
      BY <1>3, ChangeCases
    <2> QED
      BY <2>1 DEF TypeOK, tutoring, history, Base, Goes, Allocations
  <1>4. CASE Delete \/ Restore
    <2>1. /\ receipts' \in [Receipts -> Rows] /\ receipts[Arg].payer \in Payers
          /\ Goes(Tail(run.todo), {}, "collect", {}, run.students, run.left, {})
          /\ UNCHANGED <<alloc, tutoring, last, unfinished, mutations, crashes, behind, halfway>>
          /\ revived' = revived \/ revived' = revived \union {receipts[Arg].payer}
      BY <1>4, DeleteCases DEF history
    <2>2. revived' \in SUBSET Payers
      BY <2>1 DEF Base, TypeOK
    <2> QED
      BY <2>1, <2>2 DEF TypeOK, tutoring, history, Base, Goes
  <1>5. CASE Rebuild
    <2>1. /\ alloc' = Wiped(Arg) /\ behind' = behind \ {Arg} /\ Arg \in Payers
          /\ Goes(Tail(run.todo), ReceiptsOf(Arg), "collect", {}, run.students, run.left, {})
          /\ UNCHANGED <<receipts, tutoring, last, unfinished, mutations, crashes,
                         revived, halfway>>
      BY <1>5, RebuildCases
    <2>2. alloc' \in [Receipts -> [Targets -> Nat]]
      BY <2>1, <1>0 DEF Wiped, Nothing
    <2> QED
      BY <2>1, <2>2 DEF TypeOK, tutoring, Base, Goes
  <1>6. CASE Reconcile
    BY <1>6, ReconcileCases DEF TypeOK, tutoring, history, Base, Goes
  <1>7. CASE Collect
    <2>1. run' \in Runs
      BY <1>7, CollectCases DEF Goes
    <2> QED
      BY <2>1, <1>7, CollectCases DEF TypeOK, tutoring, history, Base
  <1>8. CASE List
    BY <1>8, ListCases DEF TypeOK, tutoring, history, Base, Goes
  <1>9. CASE Allocate
    <2>1. /\ run.mutation \in AllMutations /\ Receipt \in Receipts
      BY <1>9, AllocateCases, AtReceipt
    <2>2. UNCHANGED <<receipts, tutoring, unfinished, mutations, crashes, history>>
      BY <1>9, AllocateCases
    <2>3. run' \in Runs
      BY <1>9, <1>0, AllocateCases DEF Goes, Pays, Refuse
    <2>4. last' \in [mutation : AllMutations \union {NoMutation}, how : {"done", "refused"}]
      <3>1. last' = last \/ Refuse
        BY <1>9, AllocateCases
      <3> QED
        BY <3>1, <2>1, <1>0 DEF Refuse, TypeOK
    <2>5. alloc' \in [Receipts -> [Targets -> Nat]]
      <3>1. \/ alloc' = alloc
            \/ \E t \in Targets : /\ Share(t) \in Nat
                                  /\ alloc' = [alloc EXCEPT ![Receipt][t] = Share(t)]
        BY <1>9, AllocateCases DEF Pays, Writes
      <3> QED
        BY <3>1, <2>1, <1>0
    <2> QED
      BY <2>2, <2>3, <2>4, <2>5 DEF TypeOK, tutoring, history, Base
  <1>10. CASE Normalize
    BY <1>10, NormalizeCases DEF TypeOK, tutoring, history, Base, Goes
  <1>11. CASE NormalizeCycle
    <2>1. PICK c \in Cycles :
             /\ status' = [status EXCEPT ![c] = Truth(c)]
             /\ Goes(run.todo, run.queue, run.step, run.cycles \ {c}, run.students,
                     run.left, run.ahead)
             /\ UNCHANGED <<receipts, alloc, lesson, full, price, last, unfinished,
                            mutations, crashes, history>>
      BY <1>11, NormalizeCycleCases
    <2>2. Truth(c) \in {"open", "due", "paid"}
      BY DEF Truth
    <2>3. status' \in [Cycles -> {"open", "due", "paid"}]
      BY <2>1, <2>2 DEF Base, TypeOK
    <2> QED
      BY <2>1, <2>3 DEF TypeOK, history, Base, Goes
  <1>12. CASE Teach
    <2>1. /\ Attends \/ Links \/ MarksDue \/ Unlinks \/ Opens \/ Resets \/ SetsOpening
          /\ run' \in Runs
          /\ UNCHANGED <<receipts, alloc, revived, behind, last, unfinished, mutations, crashes>>
      BY <1>12, TeachCases DEF Goes
    <2>2. lesson' \in SUBSET Targets
      BY <2>1 DEF Attends, Links, MarksDue, Unlinks, Opens, Resets, SetsOpening, Base, TypeOK
    <2>3. full' \in SUBSET Cycles
      BY <2>1 DEF Attends, Links, MarksDue, Unlinks, Opens, Resets, SetsOpening, Base, TypeOK
    <2>4. status' \in [Cycles -> {"open", "due", "paid"}]
      BY <2>1 DEF Attends, Links, MarksDue, Unlinks, Opens, Resets, SetsOpening, Base, TypeOK
    <2>5. price' \in [Targets -> Nat]
      BY <2>1 DEF Attends, Links, MarksDue, Unlinks, Opens, Resets, SetsOpening, Base, TypeOK
    <2>6. halfway' \in SUBSET Students
      <3>1. CASE Resets
        <4>1. Arg \in AbsentPayer => Owner[Arg] \in Students
          BY AllocationAssumption
        <4> QED
          BY <3>1, <4>1 DEF Resets, Base, TypeOK
      <3>2. CASE ~Resets
        BY <2>1, <3>2 DEF Attends, Links, MarksDue, Unlinks, Opens, SetsOpening, Base, TypeOK
      <3> QED
        BY <3>1, <3>2
    <2> QED
      BY <2>1, <2>2, <2>3, <2>4, <2>5, <2>6 DEF TypeOK, Base
  <1>13. CASE Finish
    <2>1. /\ run.mutation \in AllMutations /\ run' = Idle /\ last' = Ended(run.mutation, "done")
          /\ UNCHANGED <<receipts, alloc, tutoring, unfinished, mutations, crashes, history>>
      BY <1>13, FinishCases
    <2> QED
      BY <2>1, <1>0 DEF TypeOK, tutoring, history, Base
  <1>14. CASE WorkerDies
    <2>1. /\ run.mutation \in AllMutations /\ run' = Idle
          /\ crashes' = crashes + 1 /\ unfinished' = unfinished \union {run.mutation}
          /\ halfway' = halfway \/ halfway' = halfway \union ToRebuild
          /\ behind' = behind \/ behind' = behind \union ToRebuild
          /\ ToRebuild \in SUBSET Students
          /\ UNCHANGED <<receipts, alloc, tutoring, last, mutations, revived>>
      BY <1>14, DiesCases
    <2> QED
      BY <2>1, <1>0 DEF TypeOK, tutoring, Base
  <1> QED
    BY <1>1, <1>2, <1>3, <1>4, <1>5, <1>6, <1>7, <1>8, <1>9, <1>10, <1>11, <1>12, <1>13, <1>14
       DEF Next

-----------------------------------------------------------------------------
(* What the handler has still to do.                                       *)

(* The first task is done: what is left is in order.                       *)
LEMMA TailOK ==
    ASSUME Base, NEW k, At(k)
    PROVE  LET m == run.mutation
               q == Tail(run.todo)
           IN /\ q \in Seq(AllTasks) /\ ToSet(q) \in SUBSET ToSet(run.todo)
              /\ \A x \in ToSet(q) : TaskOf(m, x)
              /\ Orderly(m, q) /\ Paired(q) /\ Alone(m, q)
              /\ (\E x \in ToSet(q) : x[1] # "normalize") => run.students = Hooked(m)
              /\ k \notin Statements \/ k = "insert" => ~Left(q)
              /\ (k \notin Statements /\ m.op # "update") \/ k = "insert" =>
                   \A p : <<"rebuild", p>> \notin ToSet(q)
              /\ k \in {"markDue", "open"} =>
                   \A x \in ToSet(q) : x[1] \notin {"link", "unlink"}
  <1> DEFINE m == run.mutation
             s == run.todo
             q == Tail(run.todo)
  <1>1. /\ q \in Seq(AllTasks) /\ s \in Seq(AllTasks) /\ s # <<>> /\ s[1] = <<k, Arg>>
        /\ ToSet(s) = {<<k, Arg>>} \union ToSet(q) /\ TaskOf(m, <<k, Arg>>)
        /\ Len(s) \in Nat /\ 1 \in 1..Len(s)
        /\ \A i \in 1..Len(q) : q[i] = s[i + 1] /\ i + 1 \in 1..Len(s) /\ 1 < i + 1
    <2>0. s \in Seq(AllTasks) /\ s # <<>>
      BY TypeFacts, AtHead DEF Base
    <2>1. s \in Seq(AllTasks) /\ s # <<>> /\ Len(s) \in Nat
      BY <2>0
    <2>2. Len(q) \in Nat
      BY <2>1
    <2>3. \A i \in 1..Len(q) : 1 < i + 1
      BY <2>2
    <2> QED
      BY <2>1, <2>3, AtHead
  <1>2. /\ \A x \in ToSet(s) : TaskOf(m, x)
        /\ Orderly(m, s) /\ Paired(s) /\ Alone(m, s)
        /\ (\E x \in ToSet(s) : x[1] # "normalize") => run.students = Hooked(m)
    BY DEF Base, TodoOK
  <1>3. s[1][1] = k /\ \A p : <<"rebuild", p>>[1] = "rebuild" /\ <<"rebuild", p>>[2] = p
    BY <1>1
  <1>31. q = Tail(s)
    OBVIOUS
  <1>4. DOMAIN q = 1..Len(q) /\ \A x \in ToSet(q) : \E i \in 1..Len(q) : x = q[i]
    BY <1>1 DEF ToSet
  <1> HIDE DEF s, q
  <1> HIDE DEF m
  <1>5. Orderly(m, q)
    BY <1>1, <1>2, <1>31, OrderlyTail
  <1>6. Paired(q)
    <2> SUFFICES ASSUME NEW i \in 1..Len(q), NEW j \in 1..Len(q), i < j,
                        q[j][1] \in {"link", "unlink"}
                 PROVE  q[i][1] \notin {"markDue", "open"}
      BY DEF Paired
    <2>1. i + 1 \in 1..Len(s) /\ j + 1 \in 1..Len(s) /\ q[i] = s[i + 1] /\ q[j] = s[j + 1]
      BY <1>1
    <2>2. i + 1 < j + 1
      OBVIOUS
    <2> QED
      BY <2>1, <2>2, <1>2 DEF Paired
  <1>7. Alone(m, q)
    <2> SUFFICES ASSUME m.op = "create", NEW i \in 1..Len(q), NEW j \in 1..Len(q), i < j
                 PROVE  q[j][1] \notin Statements
      BY DEF Alone
    <2>1. i + 1 \in 1..Len(s) /\ j + 1 \in 1..Len(s) /\ q[j] = s[j + 1]
      BY <1>1
    <2>2. i + 1 < j + 1
      OBVIOUS
    <2> QED
      BY <2>1, <2>2, <1>2 DEF Alone
  <1>8. CASE k \notin Statements
    <2>1. \A x \in ToSet(s) : x[1] \notin Statements
      BY <1>1, <1>2, <1>3, <1>8, OrderlyTail
    <2>20. s \in Seq(AllTasks) /\ s # <<>> /\ Orderly(m, s)
      BY <1>1, <1>2
    <2>21. s[1][1] \notin Statements /\ m.op # "update" =>
             \A x \in ToSet(Tail(s)) : x[1] # "rebuild"
      BY <2>20, OrderlyTail
    <2>2. m.op # "update" => \A x \in ToSet(q) : x[1] # "rebuild"
      BY <2>21, <1>3, <1>31, <1>8
    <2>3. k \notin {"insert", "markDue", "open"}
      BY <1>8 DEF Statements
    <2>4. ~Left(q)
      BY <2>1, <1>1 DEF Left
    <2>5. m.op # "update" => \A p : <<"rebuild", p>> \notin ToSet(q)
      BY <2>2, <1>3
    <2> QED
      BY <1>1, <1>2, <1>5, <1>6, <1>7, <1>8, <2>3, <2>4, <2>5 DEF q, s, m
  <1>9. CASE k \in Statements
    <2>1. ASSUME k = "insert"
          PROVE  ~Left(q) /\ \A p : <<"rebuild", p>> \notin ToSet(q)
      <3>1. m.op = "create"
        BY <1>1, <2>1, HeadOf
      <3>2. \A j \in 1..Len(q) : q[j][1] \notin Statements
        BY <1>1, <1>2, <3>1 DEF Alone
      <3>3. \A p : ~TaskOf(m, <<"rebuild", p>>)
        BY <1>3, <3>1 DEF TaskOf, Corrections
      <3> QED
        BY <3>2, <3>3, <1>1, <1>2, <1>4 DEF Left
    <2>2. ASSUME k \in {"markDue", "open"}
          PROVE  \A x \in ToSet(q) : x[1] \notin {"link", "unlink"}
      <3>1. \A j \in 1..Len(q) : q[j][1] \notin {"link", "unlink"}
        BY <1>1, <1>2, <1>3, <2>2 DEF Paired
      <3> QED
        BY <3>1, <1>4
    <2> QED
      BY <1>1, <1>2, <1>5, <1>6, <1>7, <1>9, <2>1, <2>2 DEF q, s, m
  <1> QED
    BY <1>8, <1>9

(* What precedes a rebuild still does.                                     *)
LEMMA AheadTail ==
    ASSUME Base, NEW k, At(k),
           run'.mutation = run.mutation, run'.todo = Tail(run.todo),
           run.mutation.op \in Corrections =>
             LET r == run.mutation.receipt IN
             \/ receipts'[r].payer = receipts[r].payer
             \/ k = "change" /\ receipts'[r].payer = run.mutation.payer,
           run.mutation.op = "reopen" =>
             full' \in SUBSET full /\ (k = "unlink" => Arg \notin full'),
           run.mutation.op = "complete" =>
             full \in SUBSET full' /\ (k = "link" => Arg \in full')
    PROVE  Ahead(run.mutation, run.todo)'
  <1> DEFINE m == run.mutation
             s == run.todo
             q == Tail(run.todo)
             pay == receipts[m.receipt].payer
             payNext == receipts'[m.receipt].payer
  <1>1. /\ ToSet(s) = {<<k, Arg>>} \union ToSet(q) /\ TaskOf(m, <<k, Arg>>)
        /\ \A x \in ToSet(q) : TaskOf(m, x)
        /\ k \notin Statements => ~Left(q)
        /\ k \in {"markDue", "open"} => \A x \in ToSet(q) : x[1] \notin {"link", "unlink"}
        /\ k \in Statements => Left(s)
    BY AtHead, TailOK
  <1>2. Ahead(m, s)
    BY DEF Base, TodoOK
  <1>3. \A x, y : <<x, y>>[1] = x /\ <<x, y>>[2] = y
    OBVIOUS
  <1>4. k \in Statements => k \notin {"rebuild", "normalize"}
    BY DEF Statements
  <1>5. \A x : <<"rebuild", x>> # <<k, Arg>> \/ k = "rebuild"
    OBVIOUS
  <1>6. Left(q) => k \in Statements /\ Left(s) /\ k # "rebuild"
    BY <1>1, <1>4
  <1>7. Left(q) => \A x : <<"rebuild", x>> \in ToSet(s) => <<"rebuild", x>> \in ToSet(q)
    BY <1>1, <1>5, <1>6
  <1>8. \A x : <<"rebuild", x>> \in ToSet(q) => <<"rebuild", x>> \in ToSet(s)
    BY <1>1
  <1>9. \A a \in {"link", "unlink", "markDue", "open"}, t \in Cycles :
          <<a, t>> \in ToSet(q) => <<a, t>> \in ToSet(s) /\ t = m.target
    <2> SUFFICES ASSUME NEW a \in {"link", "unlink", "markDue", "open"}, NEW t \in Cycles,
                        <<a, t>> \in ToSet(q)
                 PROVE  <<a, t>> \in ToSet(s) /\ t = m.target
      OBVIOUS
    <2>1. TaskOf(m, <<a, t>>)
      BY <1>1
    <2> QED
      BY <1>1, <2>1, HeadOf
  <1>10. k \in {"link", "unlink", "markDue", "open"} => Arg = m.target
    BY <1>1, HeadOf
  <1> HIDE DEF q, s, m
  <1>11. m.op \in Corrections /\ Left(q) /\ payNext \in Students =>
           <<"rebuild", payNext>> \in ToSet(q)
    <2> SUFFICES ASSUME m.op \in Corrections, Left(q), payNext \in Students
                 PROVE  <<"rebuild", payNext>> \in ToSet(q)
      OBVIOUS
    <2>1. CASE payNext = pay
      BY <2>1, <1>2, <1>6, <1>7 DEF Ahead
    <2>2. CASE k = "change" /\ payNext = m.payer
      <3>1. m.op = "update"
        BY <1>1, <2>2, HeadOf
      <3> QED
        BY <2>2, <3>1, <1>2, <1>6, <1>7 DEF Ahead
    <2> QED
      BY <2>1, <2>2 DEF m
  <1>12. m.op = "update" /\ Left(q) => <<"rebuild", m.payer>> \in ToSet(q)
    BY <1>2, <1>6, <1>7 DEF Ahead
  <1>13. m.op \in {"restore", "delete"} =>
           \A p \in Students : <<"rebuild", p>> \in ToSet(q) => p = payNext
    <2>1. m.op \in {"restore", "delete"} => payNext = pay
      <3>1. k = "change" => m.op = "update"
        BY <1>1, HeadOf
      <3> QED
        BY <3>1 DEF m, Corrections
    <2> QED
      BY <2>1, <1>2, <1>8 DEF Ahead
  <1>14. m.op = "configure" /\ Left(q) => <<"rebuild", Owner[m.target]>> \in ToSet(q)
    BY <1>2, <1>6, <1>7 DEF Ahead
  <1>15. m.op = "reopen" /\ Left(q) /\ Owner[m.target] \in Students
           /\ m.target \notin AbsentPayer => <<"rebuild", Owner[m.target]>> \in ToSet(q)
    BY <1>2, <1>6, <1>7 DEF Ahead
  <1>16. m.op = "reopen" =>
           \A t \in Cycles : Owner[t] \in Students =>
             /\ <<"unlink", t>> \in ToSet(q) => <<"open", t>> \in ToSet(q)
             /\ <<"open", t>> \in ToSet(q) => <<"unlink", t>> \in ToSet(q) \/ t \notin full'
    <2> SUFFICES ASSUME m.op = "reopen", NEW t \in Cycles, Owner[t] \in Students
                 PROVE  /\ <<"unlink", t>> \in ToSet(q) => <<"open", t>> \in ToSet(q)
                        /\ <<"open", t>> \in ToSet(q) =>
                             <<"unlink", t>> \in ToSet(q) \/ t \notin full'
      OBVIOUS
    <2>1. /\ <<"unlink", t>> \in ToSet(s) => <<"open", t>> \in ToSet(s)
          /\ <<"open", t>> \in ToSet(s) => <<"unlink", t>> \in ToSet(s) \/ t \notin full
      BY <1>2 DEF Ahead
    <2>2. full' \in SUBSET full /\ (k = "unlink" => Arg \notin full')
      BY DEF m
    <2>3. <<"unlink", t>> \in ToSet(q) => k # "open"
      BY <1>1, <1>3
    <2>4. \A a : <<a, t>> \in ToSet(s) => <<a, t>> \in ToSet(q) \/ (a = k /\ t = Arg)
      BY <1>1
    <2> QED
      BY <1>9, <2>1, <2>2, <2>3, <2>4
  <1>17. m.op = "complete" =>
           \A t \in Cycles : Owner[t] \in Students =>
             /\ <<"link", t>> \in ToSet(q) => <<"markDue", t>> \in ToSet(q)
             /\ <<"markDue", t>> \in ToSet(q) => <<"link", t>> \in ToSet(q) \/ t \in full'
    <2> SUFFICES ASSUME m.op = "complete", NEW t \in Cycles, Owner[t] \in Students
                 PROVE  /\ <<"link", t>> \in ToSet(q) => <<"markDue", t>> \in ToSet(q)
                        /\ <<"markDue", t>> \in ToSet(q) =>
                             <<"link", t>> \in ToSet(q) \/ t \in full'
      OBVIOUS
    <2>1. /\ <<"link", t>> \in ToSet(s) => <<"markDue", t>> \in ToSet(s)
          /\ <<"markDue", t>> \in ToSet(s) => <<"link", t>> \in ToSet(s) \/ t \in full
      BY <1>2 DEF Ahead
    <2>2. full \in SUBSET full' /\ (k = "link" => Arg \in full')
      BY DEF m
    <2>3. <<"link", t>> \in ToSet(q) => k # "markDue"
      BY <1>1, <1>3
    <2>4. \A a : <<a, t>> \in ToSet(s) => <<a, t>> \in ToSet(q) \/ (a = k /\ t = Arg)
      BY <1>1
    <2> QED
      BY <1>9, <2>1, <2>2, <2>3, <2>4
  <1>18. run'.mutation = m /\ run'.todo = q
    BY DEF m, q
  <1> QED
    BY <1>11, <1>12, <1>13, <1>14, <1>15, <1>16, <1>17, <1>18 DEF Ahead

(* No handler is at work any more.                                         *)
LEMMA TodoIdle ==
    ASSUME run' = Idle
    PROVE  TodoOK'
  <1>1. /\ run'.mutation = NoMutation /\ ToSet(run'.todo) = {} /\ run'.queue = {}
        /\ run'.cycles = {} /\ run'.students = {} /\ run'.todo = <<>>
    BY IdleFacts, NoTask
  <1>2. /\ Orderly(NoMutation, <<>>) /\ Paired(<<>>) /\ Alone(NoMutation, <<>>)
    BY NoTask, NoMutationIsNone DEF Paired, Alone
  <1>3. NoMutation.op \notin Corrections \union {"update", "restore", "delete", "configure",
                                               "reopen", "complete"}
    BY NoMutationIsNone DEF Corrections
  <1>4. Ahead(run.mutation, run.todo)'
    BY <1>1, <1>3 DEF Ahead
  <1> QED
    BY <1>1, <1>2, <1>4 DEF TodoOK, Left

(* A handler begins.                                                       *)
LEMMA TodoBegins ==
    ASSUME NEW m \in AllMutations, Begins(m), UNCHANGED <<receipts, tutoring>>
    PROVE  TodoOK'
  <1> DEFINE q == Tasks(m)
  <1>1. /\ run'.mutation = m /\ run'.todo = q /\ run'.queue = {} /\ run'.cycles = {}
        /\ run'.students = Hooked(m) /\ last' = Ended(NoMutation, "done")
    BY DEF Begins
  <1>2. /\ \A x \in ToSet(q) : TaskOf(m, x)
        /\ Orderly(m, q) /\ Paired(q) /\ Alone(m, q) /\ Ahead(m, q)
    BY DEF Begins, TasksOK
  <1> HIDE DEF q
  <1>3. Ahead(run.mutation, run.todo)'
    BY <1>1, <1>2 DEF Ahead, tutoring
  <1>4. m # NoMutation
    BY NoMutationIsNone
  <1> QED
    BY <1>1, <1>2, <1>3, <1>4 DEF TodoOK, Hooked

(* A handler has done its first task.                                      *)
LEMMA TodoTail ==
    ASSUME Base, NEW k, At(k), NEW Q, NEW C, NEW S,
           Goes(Tail(run.todo), Q, "collect", C, run.students, S, {}),
           last' = last,
           Q # {} \/ C # {} => k \notin Statements \/ k = "insert",
           run.mutation.op \in Corrections =>
             LET r == run.mutation.receipt IN
             \/ receipts'[r].payer = receipts[r].payer
             \/ k = "change" /\ receipts'[r].payer = run.mutation.payer,
           run.mutation.op = "reopen" =>
             full' \in SUBSET full /\ (k = "unlink" => Arg \notin full'),
           run.mutation.op = "complete" =>
             full \in SUBSET full' /\ (k = "link" => Arg \in full')
    PROVE  TodoOK'
  <1> DEFINE m == run.mutation
             q == Tail(run.todo)
  <1>1. /\ run'.mutation = m /\ run'.todo = q /\ run'.queue = Q /\ run'.cycles = C
        /\ run'.students = run.students
    BY DEF Goes
  <1>2. Ahead(run.mutation, run.todo)'
    BY <1>1, AheadTail
  <1>3. /\ \A x \in ToSet(q) : TaskOf(m, x)
        /\ Orderly(m, q) /\ Paired(q) /\ Alone(m, q)
        /\ (\E x \in ToSet(q) : x[1] # "normalize") => run.students = Hooked(m)
        /\ k \notin Statements \/ k = "insert" => ~Left(q)
        /\ (k \notin Statements /\ m.op # "update") \/ k = "insert" =>
             \A p : <<"rebuild", p>> \notin ToSet(q)
    BY TailOK
  <1>4. m \in AllMutations /\ m # NoMutation /\ last = Ended(NoMutation, "done")
    BY AtHead, NoMutationIsNone
  <1>5. run.students \subseteq Hooked(m)
    BY DEF Base, TodoOK
  <1> HIDE DEF m, q
  <1>6. Q # {} \/ C # {} => ~Left(q) /\ (m.op # "update" => \A p : <<"rebuild", p>> \notin ToSet(q))
    BY <1>3
  <1> QED
    BY <1>1, <1>2, <1>3, <1>4, <1>5, <1>6 DEF TodoOK, Left, Pending

(* The tasks stay the same.                                                *)
LEMMA TodoSame ==
    ASSUME Base, run'.mutation = run.mutation, run'.todo = run.todo,
           run'.students = run.students, last' = last, run # Idle,
           UNCHANGED <<receipts, full>>,
           run'.queue # {} \/ run'.cycles # {} => run.queue # {} \/ run.cycles # {}
    PROVE  TodoOK'
  <1>1. TodoOK
    BY DEF Base
  <1>2. Ahead(run.mutation, run.todo)'
    BY <1>1 DEF TodoOK, Ahead
  <1>3. run.mutation # NoMutation /\ last' = Ended(NoMutation, "done")
    BY <1>1 DEF TodoOK
  <1> QED
    BY <1>1, <1>2, <1>3 DEF TodoOK, Left, Pending

(* Every step leaves the handler with what it has to do.                   *)
LEMMA TodoStep ==
    ASSUME Base, Next
    PROVE  TodoOK'
  <1>1. CASE New \/ SendAgain
    <2>1. PICK m \in AllMutations :
             /\ Start(m) /\ mutations' \in Nat
             /\ m.op \in Corrections => receipts[m.receipt].state # "none"
      BY <1>1, Sent
    <2>2. run' = Idle \/ (Begins(m) /\ UNCHANGED <<receipts, tutoring>>)
      BY <2>1, StartCases
    <2> QED
      BY <2>2, TodoIdle, TodoBegins
  <1>2. CASE Insert
    <2>1. /\ At("insert") /\ run.mutation.op = "create"
          /\ \/ Goes(Tail(run.todo), {Arg}, "collect", {}, run.students, run.left, {})
                /\ UNCHANGED last
             \/ run' = Idle
          /\ UNCHANGED tutoring
      BY <1>2, InsertCases DEF Refuse
    <2>2. run.mutation.op \notin Corrections \union {"reopen", "complete"}
      BY <2>1 DEF Corrections
    <2> QED
      BY <2>1, <2>2, TodoIdle, TodoTail
  <1>3. CASE Change
    <2>1. /\ At("change") /\ run.mutation.op = "update" /\ Arg = run.mutation.receipt
          /\ receipts'[Arg] = Received(run.mutation) /\ run.mutation \in UpdateMutations
          /\ Goes(Tail(run.todo), {}, "collect", {}, run.students, run.left, {})
          /\ UNCHANGED <<tutoring, last>>
      BY <1>3, ChangeCases
    <2>2. receipts'[run.mutation.receipt].payer = run.mutation.payer
      BY <2>1, ReceivedRow
    <2> QED
      BY <2>1, <2>2, TodoTail
  <1>4. CASE Delete \/ Restore
    <2>1. /\ At("delete") \/ At("restore")
          /\ receipts'[Arg].payer = receipts[Arg].payer /\ Arg = run.mutation.receipt
          /\ run.mutation.op \in {"delete", "restore"}
          /\ Goes(Tail(run.todo), {}, "collect", {}, run.students, run.left, {})
          /\ UNCHANGED <<tutoring, last>>
      BY <1>4, DeleteCases
    <2> QED
      BY <2>1, TodoTail
  <1>5. CASE Rebuild
    <2>1. /\ At("rebuild") /\ UNCHANGED <<receipts, tutoring, last>>
          /\ Goes(Tail(run.todo), ReceiptsOf(Arg), "collect", {}, run.students, run.left, {})
      BY <1>5, RebuildCases
    <2>2. "rebuild" \notin Statements /\ full' = full
      BY <2>1 DEF Statements, tutoring
    <2> QED
      BY <2>1, <2>2, TodoTail
  <1>6. CASE Reconcile
    <2>1. PICK p \in run.students :
             /\ p \in Students /\ run.todo = <<>>
             /\ run # Idle /\ run.mutation \in AllMutations
             /\ run.mutation.op \in {"complete", "reopen"}
             /\ Goes(<<<<"normalize", p>>>>, ReceiptsOf(p), "collect", {},
                     run.students \ {p}, run.left, {})
             /\ last = Ended(NoMutation, "done")
             /\ UNCHANGED <<receipts, tutoring, last>>
      BY <1>6, ReconcileCases
    <2> DEFINE x == <<"normalize", p>>
               q == <<x>>
    <2>2. x \in AllTasks /\ x[1] = "normalize" /\ x[2] = p /\ p \in Payers
      BY <2>1, TaskTypes DEF Payers
    <2>3. /\ run'.mutation = run.mutation /\ run'.todo = q
          /\ run'.students = run.students \ {p}
      BY <2>1 DEF Goes
    <2>4. \A s, y : <<s, y>>[1] = s
      OBVIOUS
    <2> HIDE DEF x
    <2>5. ToSet(q) = {x}
      BY <2>2, ShortTwo
    <2>6. Orderly(run.mutation, q) /\ Paired(q) /\ Alone(run.mutation, q)
      BY TwoOf DEF Orderly, Paired, Alone
    <2> HIDE DEF q
    <2>7. TaskOf(run.mutation, x)
      BY <2>2 DEF TaskOf
    <2>8. \A y \in ToSet(q) : y[1] \notin Statements /\ y[1] # "rebuild" /\ y[1] = "normalize"
      BY <2>2, <2>5 DEF Statements
    <2>9. /\ \A y : <<"rebuild", y>> \notin ToSet(q)
          /\ \A y : <<"unlink", y>> \notin ToSet(q) /\ <<"open", y>> \notin ToSet(q)
          /\ \A y : <<"link", y>> \notin ToSet(q) /\ <<"markDue", y>> \notin ToSet(q)
      BY <2>4, <2>8
    <2>10. ~Left(q)
      BY <2>8 DEF Left
    <2>11. Ahead(run.mutation, run.todo)'
      BY <2>1, <2>3, <2>9, <2>10 DEF Ahead, Corrections
    <2>12. run.students \subseteq Hooked(run.mutation) /\ run.mutation # NoMutation
      BY <2>1, NoMutationIsNone DEF Base, TodoOK
    <2> QED
      BY <2>1, <2>3, <2>5, <2>6, <2>7, <2>8, <2>9, <2>10, <2>11, <2>12
         DEF TodoOK, Left, Pending
  <1>7. CASE Collect
    <2>1. /\ run # Idle /\ run.queue # {}
      BY <1>7, AtReceipt, CollectCases
    <2>2. /\ run'.mutation = run.mutation /\ run'.todo = run.todo
          /\ run'.students = run.students
          /\ UNCHANGED <<receipts, tutoring, last>>
      BY <1>7, CollectCases DEF Goes
    <2> QED
      BY <2>1, <2>2, TodoSame DEF tutoring
  <1>8. CASE List
    <2>1. /\ run # Idle /\ run.queue # {}
      BY <1>8, AtReceipt, ListCases
    <2>2. /\ run'.mutation = run.mutation /\ run'.todo = run.todo
          /\ run'.students = run.students
          /\ UNCHANGED <<receipts, tutoring, last>>
      BY <1>8, ListCases DEF Goes
    <2> QED
      BY <2>1, <2>2, TodoSame DEF tutoring
  <1>9. CASE Allocate
    <2>1. /\ run # Idle /\ run.queue # {} /\ UNCHANGED <<receipts, tutoring>>
      BY <1>9, AtReceipt, AllocateCases
    <2>2. \/ /\ run'.mutation = run.mutation /\ run'.todo = run.todo
             /\ run'.students = run.students /\ UNCHANGED last
          \/ run' = Idle
      BY <1>9, AllocateCases DEF Goes, Pays, Refuse
    <2> QED
      BY <2>1, <2>2, TodoSame, TodoIdle DEF tutoring
  <1>10. CASE Normalize
    <2>1. /\ At("normalize") /\ UNCHANGED <<receipts, tutoring, last>>
          /\ Goes(Tail(run.todo), {}, "collect", CyclesOf(Arg), run.students, run.left, {})
      BY <1>10, NormalizeCases
    <2>2. "normalize" \notin Statements /\ full' = full
      BY <2>1 DEF Statements, tutoring
    <2> QED
      BY <2>1, <2>2, TodoTail
  <1>11. CASE NormalizeCycle
    <2>1. /\ run'.mutation = run.mutation /\ run'.todo = run.todo /\ run # Idle
          /\ run'.students = run.students /\ run.cycles # {}
          /\ UNCHANGED <<receipts, full, last>>
      BY <1>11, NormalizeCycleCases DEF Goes
    <2> QED
      BY <2>1, TodoSame
  <1>12. CASE Teach
    <2>1. /\ Goes(Tail(run.todo), {}, "collect", {}, run.students, run.left, {})
          /\ UNCHANGED <<receipts, last>>
      BY <1>12, TeachCases
    <2>2. ASSUME NEW k, At(k), 
                 run.mutation.op = "reopen" =>
                   full' \in SUBSET full /\ (k = "unlink" => Arg \notin full'),
                 run.mutation.op = "complete" =>
                   full \in SUBSET full' /\ (k = "link" => Arg \in full')
          PROVE  TodoOK'
      BY <2>1, <2>2, TodoTail
    <2>3. CASE Attends
      <3>1. At("attend") /\ run.mutation.op = "complete" /\ full' = full
        BY <2>3 DEF Attends
      <3> QED
        BY <3>1, <2>2
    <2>4. CASE Links
      <3>1. At("link") /\ run.mutation.op = "complete" /\ full' = full \union {Arg}
        BY <2>4 DEF Links
      <3> QED
        BY <3>1, <2>2
    <2>5. CASE MarksDue
      <3>1. At("markDue") /\ run.mutation.op = "complete" /\ full' = full
        BY <2>5 DEF MarksDue
      <3> QED
        BY <3>1, <2>2
    <2>6. CASE Unlinks
      <3>1. At("unlink") /\ run.mutation.op = "reopen" /\ full' = full \ {Arg}
        BY <2>6 DEF Unlinks
      <3> QED
        BY <3>1, <2>2
    <2>7. CASE Opens
      <3>1. At("open") /\ run.mutation.op = "reopen" /\ full' = full
        BY <2>7 DEF Opens
      <3> QED
        BY <3>1, <2>2
    <2>8. CASE Resets
      <3>1. At("reset") /\ run.mutation.op = "reopen" /\ full' = full
        BY <2>8 DEF Resets
      <3> QED
        BY <3>1, <2>2
    <2>9. CASE SetsOpening
      <3>1. At("opening") /\ run.mutation.op = "configure"
        BY <2>9 DEF SetsOpening
      <3> QED
        BY <3>1, <2>2
    <2> QED
      BY <1>12, TeachCases, <2>3, <2>4, <2>5, <2>6, <2>7, <2>8, <2>9
  <1>13. CASE Finish
    BY <1>13, FinishCases, TodoIdle
  <1>14. CASE WorkerDies
    BY <1>14, DiesCases, TodoIdle
  <1> QED
    BY <1>1, <1>2, <1>3, <1>4, <1>5, <1>6, <1>7, <1>8, <1>9, <1>10, <1>11, <1>12, <1>13, <1>14
       DEF Next

-----------------------------------------------------------------------------
(* What the handler collects.                                              *)

(* Nothing is being collected,                                             *)
LEMMA QueueEmpty ==
    ASSUME run'.queue = {}, run'.step = "collect", run'.ahead = {}
    PROVE  QueueOK'
  BY DEF QueueOK

(* ... nothing because no handler is at work.                              *)
LEMMA QueueIdle == ASSUME run' = Idle PROVE QueueOK'
  BY IdleFacts, QueueEmpty

(* A new queue.                                                            *)
LEMMA QueueFresh ==
    ASSUME NEW Q, run'.queue = Q, run'.step = "collect", run'.ahead = {},
           run'.cycles = {},
           run'.mutation.op = "create" => Q \in SUBSET {run'.mutation.receipt},
           \A r \in Q : receipts'[r].state # "none",
           run'.mutation.op # "create" => \A r, s \in Q :
             /\ receipts'[r].state = "live" /\ receipts'[r].payer \in Students
             /\ receipts'[r].payer = receipts'[s].payer,
           run'.students # Hooked(run'.mutation) =>
             \A r \in Q : <<"normalize", receipts'[r].payer>> \in ToSet(run'.todo)
    PROVE  QueueOK'
  <1>1. Hooked(run.mutation)' = Hooked(run'.mutation)
    BY DEF Hooked
  <1> QED
    BY <1>1, NextViews DEF QueueOK

(* The rest of the queue.                                                  *)
LEMMA QueueRest ==
    ASSUME Base, run'.mutation = run.mutation, run'.todo = run.todo,
           run'.students = run.students, run'.queue \in SUBSET run.queue,
           UNCHANGED receipts,
           run'.queue = {} => run'.step = "collect",
           run'.step # "allocate" => run'.ahead = {},
           run'.cycles # {} /\ run'.queue # {} => run'.step = "list",
           run'.step = "allocate" => run'.ahead \in SUBSET OwedBy(receipts[Receipt].payer)',
           run'.step # "collect" /\ Live(Receipt)' =>
             run'.left + Spent(Receipt)' <= receipts[Receipt]'.amount
    PROVE  QueueOK'
  <1>1. QueueOK
    BY DEF Base
  <1>2. /\ run'.mutation.op = "create" => run'.queue \subseteq {run'.mutation.receipt}
        /\ \A r \in run'.queue : receipts'[r].state # "none"
        /\ run'.mutation.op # "create" => \A r, s \in run'.queue :
             /\ Live(r)' /\ receipts'[r].payer \in Students
             /\ receipts'[r].payer = receipts'[s].payer
    BY <1>1, Views, NextViews DEF QueueOK
  <1>3. run'.queue # {} /\ run'.students # Hooked(run'.mutation) =>
          \A r \in run'.queue : <<"normalize", receipts'[r].payer>> \in ToSet(run'.todo)
    BY <1>1 DEF QueueOK
  <1>4. Hooked(run.mutation)' = Hooked(run'.mutation)
    BY DEF Hooked
  <1> QED
    BY <1>2, <1>3, <1>4 DEF QueueOK

(* What is owed stays the same.                                            *)
LEMMA OwedSame ==
    ASSUME UNCHANGED <<lesson, status>>
    PROVE  (\A t : Owing(t)' <=> Owing(t)) /\ \A p : OwedBy(p)' = OwedBy(p)
  BY DEF Owing, OwedBy

(* Before the last task every student is still to be reconciled.           *)
LEMMA HeadStudents ==
    ASSUME Base, NEW k, At(k), k # "normalize"
    PROVE  run.students = Hooked(run.mutation)
  <1>1. k # "normalize" => run.students = Hooked(run.mutation)
    BY AtHead
  <1> QED
    BY <1>1

(* A receipt pays for an obligation.                                       *)
LEMMA PaidStep ==
    ASSUME Base, NEW t \in Targets, Pays(t), Collecting("allocate"),
           UNCHANGED <<receipts, tutoring>>,
           alloc[Receipt][t] = 0, Live(Receipt), Writes(Receipt, t, Share(t))
    PROVE  \E r \in Receipts, x \in Nat \ {0} :
             /\ r = Receipt /\ x = Share(t) /\ Receipt' = r
             /\ Live(r) /\ alloc[r][t] = 0 /\ alloc' \in Allocations
             /\ \A s \in Receipts : Live(s)' <=> Live(s)
             /\ \A s \in Receipts \ {r} : alloc'[s] = alloc[s] /\ Spent(s)' = Spent(s)
             /\ \A u \in Targets \ {t} : \A s \in Receipts : alloc'[s][u] = alloc[s][u]
             /\ alloc'[r][t] = x
             /\ Spent(r)' = Spent(r) + x
             /\ \A u \in Targets \ {t} : Allocated(u)' = Allocated(u)
             /\ \A u \in Targets \ {t} : Outstanding(u)' = Outstanding(u)
             /\ Allocated(t)' = Allocated(t) + x
             /\ Outstanding(t)' = Outstanding(t) - x
             /\ \A p : ReceiptsOf(p)' = ReceiptsOf(p)
  <1>1. Receipt \in Receipts /\ Share(t) \in Nat \ {0}
    BY AtReceipt DEF Pays
  <1>2. run'.queue = run.queue
    BY DEF Pays, Goes
  <1>3. Receipt' = Receipt
    BY <1>2 DEF Receipt, Oldest, Earlier
  <1>4. PICK r \in Receipts, x \in Nat \ {0} : r = Receipt /\ x = Share(t)
    BY <1>1
  <1>5. TypeOK /\ alloc \in Allocations
    BY TypeFacts DEF Base
  <1>6. Writes(r, t, x) /\ Live(r) /\ alloc[r][t] = 0
    BY <1>4
  <1>7. UNCHANGED <<receipts, price>> /\ x \in Nat /\ Receipt' = r
    BY <1>3, <1>4 DEF tutoring
  <1>8. /\ alloc' \in Allocations
        /\ \A s \in Receipts \ {r} : alloc'[s] = alloc[s]
        /\ \A u \in Targets \ {t} : \A s \in Receipts : alloc'[s][u] = alloc[s][u]
        /\ alloc'[r][t] = x
    BY <1>5, <1>6, <1>7, OneWritten
  <1>9. /\ \A s \in Receipts : Live(s)' <=> Live(s)
        /\ \A s \in Receipts \ {r} : Spent(s)' = Spent(s)
        /\ Spent(r)' = Spent(r) + x
        /\ \A u \in Targets \ {t} : Allocated(u)' = Allocated(u)
        /\ \A u \in Targets \ {t} : Outstanding(u)' = Outstanding(u)
        /\ Allocated(t)' = Allocated(t) + x
        /\ Outstanding(t)' = Outstanding(t) - x
        /\ \A p : ReceiptsOf(p)' = ReceiptsOf(p)
    BY <1>5, <1>6, <1>7, <1>8, MoneyPaid
  <1> QED
    BY <1>4, <1>6, <1>7, <1>8, <1>9

(* Every step keeps what is being collected in order.                      *)
LEMMA QueueStep ==
    ASSUME Base, Next
    PROVE  QueueOK'
  <1>1. CASE New \/ SendAgain
    <2>1. PICK m \in AllMutations :
             /\ Start(m) /\ mutations' \in Nat
             /\ m.op \in Corrections => receipts[m.receipt].state # "none"
      BY <1>1, Sent
    <2>2. run' = Idle \/ Begins(m)
      BY <2>1, StartCases
    <2> QED
      BY <2>2, QueueIdle, QueueEmpty DEF Begins
  <1>2. CASE Insert
    <2>1. /\ At("insert") /\ run.mutation.op = "create" /\ Arg \in Receipts
          /\ Arg = run.mutation.receipt /\ run.mutation \in CreateMutations
          /\ \/ /\ receipts' = [receipts EXCEPT ![Arg] = Received(run.mutation)]
                /\ Goes(Tail(run.todo), {Arg}, "collect", {}, run.students, run.left, {})
             \/ /\ receipts[Arg].state # "none" /\ UNCHANGED receipts
                /\ Goes(Tail(run.todo), {Arg}, "collect", {}, run.students, run.left, {})
             \/ run' = Idle
      BY <1>2, InsertCases DEF Refuse
    <2>2. Received(run.mutation) \in Rows /\ Received(run.mutation).state = "live"
      BY <2>1, ReceivedRow
    <2>3. CASE run' = Idle
      BY <2>3, QueueIdle
    <2>4. CASE Goes(Tail(run.todo), {Arg}, "collect", {}, run.students, run.left, {})
               /\ receipts'[Arg].state # "none"
      <3>1. /\ run'.mutation = run.mutation /\ run'.queue = {Arg} /\ run'.step = "collect"
            /\ run'.ahead = {} /\ run'.cycles = {} /\ run'.students = run.students
        BY <2>4 DEF Goes
      <3>2. run.students = Hooked(run.mutation)
        BY <2>1, HeadStudents
      <3> QED
        BY <2>1, <2>4, <3>1, <3>2, QueueFresh
    <2>5. receipts' = [receipts EXCEPT ![Arg] = Received(run.mutation)] =>
            receipts'[Arg].state # "none"
      BY <2>1, <2>2, OneRow DEF Base, TypeOK
    <2> QED
      BY <2>1, <2>3, <2>4, <2>5
  <1>3. CASE Change
    BY <1>3, ChangeCases, QueueEmpty DEF Goes
  <1>4. CASE Delete \/ Restore
    BY <1>4, DeleteCases, QueueEmpty DEF Goes
  <1>5. CASE Rebuild
    <2>1. /\ At("rebuild") /\ Arg \in Students
          /\ run.mutation.op \in Corrections \union {"reopen", "configure"}
          /\ Goes(Tail(run.todo), ReceiptsOf(Arg), "collect", {}, run.students, run.left, {})
          /\ UNCHANGED receipts
      BY <1>5, RebuildCases
    <2>2. run.students = Hooked(run.mutation)
      BY <2>1, HeadStudents
    <2>3. /\ run'.mutation = run.mutation /\ run'.queue = ReceiptsOf(Arg)
          /\ run'.step = "collect" /\ run'.ahead = {} /\ run'.cycles = {}
          /\ run'.students = run.students
      BY <2>1 DEF Goes
    <2>4. \A r \in ReceiptsOf(Arg) : receipts'[r].state = "live" /\ receipts'[r].payer = Arg
      BY <2>1, Views
    <2>5. run.mutation.op # "create"
      BY <2>1 DEF Corrections
    <2> HIDE DEF Base
    <2> QED
      BY <2>1, <2>2, <2>3, <2>4, <2>5, QueueFresh
  <1>6. CASE Reconcile
    <2>1. PICK p \in run.students :
             /\ p \in Students /\ run.mutation.op \in {"complete", "reopen"}
             /\ Goes(<<<<"normalize", p>>>>, ReceiptsOf(p), "collect", {},
                     run.students \ {p}, run.left, {})
             /\ UNCHANGED receipts
      BY <1>6, ReconcileCases
    <2>2. /\ run'.mutation = run.mutation /\ run'.queue = ReceiptsOf(p)
          /\ run'.step = "collect" /\ run'.ahead = {} /\ run'.cycles = {}
          /\ run'.todo = <<<<"normalize", p>>>>
      BY <2>1 DEF Goes
    <2>3. <<"normalize", p>> \in AllTasks
      BY <2>1, TaskTypes
    <2>4. <<"normalize", p>> \in ToSet(run'.todo)
      BY <2>2, <2>3, ShortTwo
    <2>5. \A r \in ReceiptsOf(p) : receipts'[r].state = "live" /\ receipts'[r].payer = p
      BY <2>1, Views
    <2> QED
      BY <2>1, <2>2, <2>4, <2>5, QueueFresh
  <1>7. CASE Collect
    <2>1. /\ Receipt \in Receipts /\ run.queue # {} /\ Spent(Receipt) <= receipts[Receipt].amount
      BY <1>7, CollectCases, AtReceipt
    <2>2. UNCHANGED <<receipts, alloc>>
      BY <1>7, CollectCases
    <2>3. CASE Goes(run.todo, run.queue \ {Receipt}, "collect", {}, run.students, 0, {})
      BY <2>2, <2>3, QueueRest DEF Goes
    <2>4. CASE Goes(run.todo, run.queue, "list", run'.cycles, run.students,
                    Remaining(Receipt), {})
      <3>1. /\ run'.mutation = run.mutation /\ run'.todo = run.todo
            /\ run'.students = run.students /\ run'.queue = run.queue
            /\ run'.step = "list" /\ run'.ahead = {} /\ run'.left = Remaining(Receipt)
        BY <2>4 DEF Goes
      <3>2. Receipt' = Receipt /\ (Live(Receipt)' <=> Live(Receipt))
            /\ Spent(Receipt)' = Spent(Receipt) /\ receipts[Receipt]' = receipts[Receipt]
        <4>1. Receipt' = Receipt
          BY <2>2, <3>1, MoneySame
        <4>2. \A r : Spent(r)' = Spent(r) /\ (Live(r)' <=> Live(r))
          BY <2>2, MoneySame
        <4> QED
          BY <4>1, <2>2, Views, NextViews
      <3>3. Live(Receipt) => Remaining(Receipt) + Spent(Receipt) = receipts[Receipt].amount
        BY <2>1, RemainingIsNat
      <3>4. receipts[Receipt].amount \in Nat
        BY <2>1, TypeFacts DEF Base
      <3>5. Live(Receipt)' => run'.left + Spent(Receipt)' <= receipts[Receipt]'.amount
        BY <3>1, <3>2, <3>3, <3>4
      <3> QED
        BY <2>1, <2>2, <3>1, <3>5, QueueRest
    <2> QED
      BY <1>7, CollectCases, <2>3, <2>4
  <1>8. CASE List
    <2>1. /\ Receipt \in Receipts /\ run.queue # {} /\ run.step = "list"
          /\ UNCHANGED <<receipts, alloc, tutoring>>
      BY <1>8, ListCases, AtReceipt
    <2>2. /\ run'.mutation = run.mutation /\ run'.todo = run.todo
          /\ run'.students = run.students /\ run'.queue = run.queue
          /\ run'.step = "allocate" /\ run'.ahead = OwedBy(receipts[Receipt].payer)
          /\ run'.left = run.left /\ run'.cycles = {}
      BY <1>8, ListCases DEF Goes
    <2>3. Receipt' = Receipt /\ (Live(Receipt)' <=> Live(Receipt))
          /\ Spent(Receipt)' = Spent(Receipt) /\ receipts[Receipt]' = receipts[Receipt]
      <3>1. Receipt' = Receipt
        BY <2>1, <2>2, MoneySame
      <3>2. \A r : Spent(r)' = Spent(r) /\ (Live(r)' <=> Live(r))
        BY <2>1, MoneySame
      <3> QED
        BY <3>1, <2>1, Views, NextViews
    <2>4. run.step # "collect" /\ Live(Receipt) =>
            run.left + Spent(Receipt) <= receipts[Receipt].amount
      BY DEF Base, QueueOK
    <2>5. Live(Receipt)' => run'.left + Spent(Receipt)' <= receipts[Receipt]'.amount
      BY <2>1, <2>2, <2>3, <2>4
    <2>6. run'.ahead \in SUBSET OwedBy(receipts[Receipt].payer)'
      <3>1. \A p : OwedBy(p)' = OwedBy(p)
        BY <2>1, OwedSame DEF tutoring
      <3> QED
        BY <2>1, <2>2, <2>3, <3>1 DEF OwedBy, Owing, tutoring
    <2> QED
      BY <2>1, <2>2, <2>5, <2>6, QueueRest
  <1>9. CASE Allocate
    <2>1. /\ Receipt \in Receipts /\ run.queue # {} /\ run.step = "allocate"
          /\ UNCHANGED <<receipts, tutoring>>
      BY <1>9, AllocateCases, AtReceipt
    <2>2. CASE Goes(run.todo, run.queue \ {Receipt}, "collect", {}, run.students, 0, {})
      BY <2>1, <2>2, QueueRest DEF Goes
    <2>3. CASE run' = Idle
      BY <2>3, QueueIdle
    <2>4. ASSUME NEW t \in Targets, Pays(t),
                 \/ UNCHANGED alloc
                 \/ /\ alloc[Receipt][t] = 0 /\ Live(Receipt)
                    /\ Writes(Receipt, t, Share(t))
          PROVE  QueueOK'
      <3>1. /\ run'.mutation = run.mutation /\ run'.todo = run.todo
            /\ run'.students = run.students /\ run'.queue = run.queue
            /\ run'.step = "allocate" /\ run'.ahead = {u \in run.ahead : u > t}
            /\ run'.left = run.left - Share(t) /\ run'.cycles = {}
            /\ Share(t) \in Nat
        BY <2>4 DEF Pays, Goes
      <3>2. Receipt' = Receipt
        BY <2>1, <3>1 DEF Receipt, Oldest, Earlier
      <3>3. PICK r \in Receipts : r = Receipt
        BY <2>1
      <3>4. Live(r) => run.left + Spent(r) <= receipts[r].amount
        BY <2>1, <3>3 DEF Base, QueueOK
      <3>5. /\ Spent(r) \in Nat /\ receipts[r].amount \in Nat /\ run.left \in Nat
        BY <2>1, TypeFacts DEF Base
      <3>6. Live(Receipt)' => run'.left + Spent(Receipt)' <= receipts[Receipt]'.amount
        <4>1. /\ Live(r)' <=> Live(r)
              /\ Live(r) => Spent(r)' = Spent(r) \/ Spent(r)' = Spent(r) + Share(t)
          <5>1. CASE UNCHANGED alloc
            BY <2>1, <5>1, MoneySame
          <5>2. CASE /\ alloc[Receipt][t] = 0 /\ Live(Receipt)
                     /\ Writes(Receipt, t, Share(t))
            <6>1. Collecting("allocate")
              BY <1>9, AllocateCases
            <6>2. PICK s \in Receipts, x \in Nat \ {0} :
                    /\ s = Receipt /\ x = Share(t)
                    /\ \A q \in Receipts : Live(q)' <=> Live(q)
                    /\ Spent(s)' = Spent(s) + x
              BY <2>1, <2>4, <5>2, <6>1, PaidStep
            <6> QED
              BY <6>2, <3>3
          <5> QED
            BY <2>4, <5>1, <5>2
        <4>2. Live(r)' => run'.left + Spent(r)' <= receipts[r].amount
          BY <3>1, <3>4, <3>5, <4>1
        <4>3. Receipt' = r /\ receipts' = receipts
          BY <2>1, <3>2, <3>3
        <4> QED
          BY <4>2, <4>3, Views, NextViews
      <3>7. run'.ahead \in SUBSET OwedBy(receipts[Receipt].payer)'
        <4>1. run.ahead \in SUBSET OwedBy(receipts[Receipt].payer)
          BY <2>1 DEF Base, QueueOK
        <4> QED
          BY <4>1, <2>1, <3>1, <3>2 DEF OwedBy, Owing, tutoring
      <3> QED
        BY <2>1, <3>1, <3>6, <3>7, QueueRest
    <2> QED
      BY <1>9, AllocateCases, <2>2, <2>3, <2>4 DEF Refuse
  <1>10. CASE Normalize
    BY <1>10, NormalizeCases, QueueEmpty DEF Goes
  <1>11. CASE NormalizeCycle
    <2>1. /\ run'.mutation = run.mutation /\ run'.todo = run.todo
          /\ run'.students = run.students /\ run'.queue = run.queue
          /\ run'.step = run.step /\ run'.left = run.left /\ run'.ahead = run.ahead
          /\ run.step # "allocate" /\ run.ahead = {} /\ run.cycles # {}
          /\ UNCHANGED <<receipts, alloc>>
      BY <1>11, NormalizeCycleCases DEF Goes
    <2>2. /\ run.queue = {} => run.step = "collect"
          /\ run.queue # {} => run.step = "list"
          /\ run.step # "collect" /\ Live(Receipt) =>
               run.left + Spent(Receipt) <= receipts[Receipt].amount
      BY <2>1 DEF Base, QueueOK
    <2>3. Receipt' = Receipt /\ (Live(Receipt)' <=> Live(Receipt))
          /\ Spent(Receipt)' = Spent(Receipt) /\ receipts[Receipt]' = receipts[Receipt]
      <3>1. Receipt' = Receipt
        BY <2>1, MoneySame
      <3> QED
        BY <3>1, <2>1, Views, NextViews
    <2> QED
      BY <2>1, <2>2, <2>3, QueueRest
  <1>12. CASE Teach
    BY <1>12, TeachCases, QueueEmpty DEF Goes
  <1>13. CASE Finish
    BY <1>13, FinishCases, QueueIdle
  <1>14. CASE WorkerDies
    BY <1>14, DiesCases, QueueIdle
  <1> QED
    BY <1>1, <1>2, <1>3, <1>4, <1>5, <1>6, <1>7, <1>8, <1>9, <1>10, <1>11, <1>12, <1>13, <1>14
       DEF Next

-----------------------------------------------------------------------------
(* What the rows say after a step.                                         *)

(* Rows that stay in order.                                                *)
LEMMA RowsWhen ==
    ASSUME Base,
           \A r \in Receipts :
             /\ receipts'[r].state = "none" => \A t \in Targets : alloc'[r][t] = 0
             /\ receipts'[r].state # "none" => receipts'[r].payer \in Payers
             /\ Spent(r)' <= receipts'[r].amount
             /\ \A t \in Targets : alloc'[r][t] > 0 => Owner[t] = receipts'[r].payer
             /\ receipts[r].state # "none" => receipts'[r].state # "none",
           run'.mutation \in {run.mutation, NoMutation},
           unfinished' \in SUBSET (unfinished \union {run.mutation}),
           \A t \in Cycles : price'[t] = price[t]
    PROVE  RowsOK'
  <1>1. \A m \in unfinished \union {run.mutation} :
          m.op \in Corrections => receipts[m.receipt].state # "none"
    BY DEF Base, RowsOK
  <1>2. \A m \in AllMutations : m.op \in Corrections => m.receipt \in Receipts
    BY MutationByOp DEF Corrections, UpdateMutations, DeleteMutations, RestoreMutations
  <1>3. unfinished \union {run.mutation} \in SUBSET (AllMutations \union {NoMutation})
    BY TypeFacts DEF Base, TypeOK
  <1>4. NoMutation.op \notin Corrections
    BY NoMutationIsNone DEF Corrections
  <1>5. \A m \in unfinished' \union {run'.mutation} :
          m.op \in Corrections => receipts'[m.receipt].state # "none"
    <2> SUFFICES ASSUME NEW m \in unfinished' \union {run'.mutation}, m.op \in Corrections
                 PROVE  receipts'[m.receipt].state # "none"
      OBVIOUS
    <2>1. m \in unfinished \union {run.mutation}
      BY <1>4
    <2>2. m \in AllMutations
      BY <2>1, <1>3, <1>4
    <2> QED
      BY <2>1, <2>2, <1>1, <1>2
  <1>6. \A t \in Cycles : price'[t] = CyclePrice
    BY DEF Base, RowsOK
  <1> QED
    BY <1>5, <1>6 DEF RowsOK

(* Neither receipts nor allocations are written.                           *)
LEMMA RowsSame ==
    ASSUME Base, UNCHANGED <<receipts, alloc>>,
           run'.mutation \in {run.mutation, NoMutation},
           unfinished' \in SUBSET (unfinished \union {run.mutation}),
           \A t \in Cycles : price'[t] = price[t]
    PROVE  RowsOK'
  <1>1. \A r : Spent(r)' = Spent(r)
    BY MoneySame
  <1>2. \A r \in Receipts :
          /\ receipts[r].state = "none" => \A t \in Targets : alloc[r][t] = 0
          /\ receipts[r].state # "none" => receipts[r].payer \in Payers
          /\ Spent(r) <= receipts[r].amount
          /\ \A t \in Targets : alloc[r][t] > 0 => Owner[t] = receipts[r].payer
    BY DEF Base, RowsOK
  <1>3. \A r \in Receipts :
          /\ receipts'[r].state = "none" => \A t \in Targets : alloc'[r][t] = 0
          /\ receipts'[r].state # "none" => receipts'[r].payer \in Payers
          /\ Spent(r)' <= receipts'[r].amount
          /\ \A t \in Targets : alloc'[r][t] > 0 => Owner[t] = receipts'[r].payer
          /\ receipts[r].state # "none" => receipts'[r].state # "none"
    BY <1>1, <1>2
  <1> QED
    BY <1>3, RowsWhen

(* One receipt is recorded, corrected or taken back.                       *)
LEMMA RowsOfOne ==
    ASSUME Base, NEW r \in Receipts, alloc' \in Allocations,
           \A s \in Receipts \ {r} : receipts'[s] = receipts[s] /\ alloc'[s] = alloc[s],
           receipts'[r].state # "none", receipts'[r].payer \in Payers,
           receipts'[r].amount \in Nat,
           \/ \A t \in Targets : alloc'[r][t] = 0
           \/ /\ alloc' = alloc /\ receipts'[r].payer = receipts[r].payer
              /\ receipts'[r].amount = receipts[r].amount,
           run'.mutation \in {run.mutation, NoMutation},
           unfinished' \in SUBSET (unfinished \union {run.mutation}),
           \A t \in Cycles : price'[t] = price[t]
    PROVE  RowsOK'
  <1>1. \A s \in Receipts \ {r} : Spent(s)' = Spent(s)
    BY Views, NextViews
  <1>2. \A s \in Receipts :
          /\ receipts[s].state = "none" => \A t \in Targets : alloc[s][t] = 0
          /\ receipts[s].state # "none" => receipts[s].payer \in Payers
          /\ Spent(s) <= receipts[s].amount
          /\ \A t \in Targets : alloc[s][t] > 0 => Owner[t] = receipts[s].payer
    BY DEF Base, RowsOK
  <1>3. /\ Spent(r)' <= receipts'[r].amount
        /\ \A t \in Targets : alloc'[r][t] > 0 => Owner[t] = receipts'[r].payer
    <2>1. CASE \A t \in Targets : alloc'[r][t] = 0
      <3>1. alloc'[r] \in [Targets -> Nat]
        BY DEF Allocations
      <3>2. Spent(r)' = 0
        BY <2>1, <3>1, RowSum, NextViews
      <3> QED
        BY <2>1, <3>2
    <2>2. CASE /\ alloc' = alloc /\ receipts'[r].payer = receipts[r].payer
               /\ receipts'[r].amount = receipts[r].amount
      <3>1. Spent(r)' = Spent(r)
        BY <2>2, Views, NextViews
      <3> QED
        BY <2>2, <3>1, <1>2
    <2> QED
      BY <2>1, <2>2
  <1>4. \A s \in Receipts :
          /\ receipts'[s].state = "none" => \A t \in Targets : alloc'[s][t] = 0
          /\ receipts'[s].state # "none" => receipts'[s].payer \in Payers
          /\ Spent(s)' <= receipts'[s].amount
          /\ \A t \in Targets : alloc'[s][t] > 0 => Owner[t] = receipts'[s].payer
          /\ receipts[s].state # "none" => receipts'[s].state # "none"
    <2> TAKE s \in Receipts
    <2>1. CASE s = r
      BY <2>1, <1>3
    <2>2. CASE s # r
      BY <2>2, <1>1, <1>2
    <2> QED
      BY <2>1, <2>2
  <1> QED
    BY <1>4, RowsWhen

(* Every step keeps the rows in order.                                     *)
LEMMA RowsStep ==
    ASSUME Base, Next
    PROVE  RowsOK'
  <1>1. CASE New \/ SendAgain
    <2>1. PICK m \in AllMutations :
             /\ Start(m) /\ mutations' \in Nat
             /\ m.op \in Corrections => receipts[m.receipt].state # "none"
      BY <1>1, Sent
    <2>2. /\ run' = Idle \/ Begins(m)
          /\ unfinished' = unfinished \ {m}
          /\ UNCHANGED <<receipts, alloc, tutoring>>
      BY <2>1, StartCases
    <2>3. run'.mutation \in {m, NoMutation}
      BY <2>2, IdleFacts DEF Begins
    <2>4. \A r : Spent(r)' = Spent(r)
      BY <2>2, MoneySame
    <2>5. NoMutation.op \notin Corrections
      BY NoMutationIsNone DEF Corrections
    <2>6. \A u \in unfinished' \union {run'.mutation} :
            u.op \in Corrections => receipts'[u.receipt].state # "none"
      BY <2>1, <2>2, <2>3, <2>5 DEF Base, RowsOK
    <2> QED
      BY <2>2, <2>4, <2>6 DEF Base, RowsOK, tutoring
  <1>2. CASE Insert
    <2>1. /\ Arg \in Receipts /\ run.mutation \in CreateMutations
          /\ \/ /\ receipts[Arg].state = "none"
                /\ receipts' = [receipts EXCEPT ![Arg] = Received(run.mutation)]
             \/ UNCHANGED receipts
          /\ run' = Idle \/ run'.mutation = run.mutation
          /\ UNCHANGED <<alloc, tutoring, unfinished>>
      BY <1>2, InsertCases DEF Goes, Refuse
    <2>2. run'.mutation \in {run.mutation, NoMutation}
      BY <2>1, IdleFacts
    <2>3. CASE UNCHANGED receipts
      BY <2>1, <2>2, <2>3, RowsSame DEF tutoring
    <2>4. CASE /\ receipts[Arg].state = "none"
               /\ receipts' = [receipts EXCEPT ![Arg] = Received(run.mutation)]
      <3>1. PICK r \in Receipts, new \in Rows : r = Arg /\ new = Received(run.mutation)
        BY <2>1, ReceivedRow
      <3>2. receipts' = [receipts EXCEPT ![r] = new] /\ receipts \in [Receipts -> Rows]
        BY <2>4, <3>1 DEF Base, TypeOK
      <3>3. receipts'[r] = new /\ \A s \in Receipts \ {r} : receipts'[s] = receipts[s]
        BY <3>2, OneRow
      <3>4. /\ receipts'[r].state # "none" /\ receipts'[r].payer \in Payers
            /\ receipts'[r].amount \in Nat
        BY <2>1, <3>1, <3>3, ReceivedRow
      <3>5. \A t \in Targets : alloc'[r][t] = 0
        BY <2>1, <2>4, <3>1 DEF Base, RowsOK
      <3>6. alloc' \in Allocations
        BY <2>1, TypeFacts DEF Base
      <3> QED
        BY <2>1, <2>2, <3>3, <3>4, <3>5, <3>6, RowsOfOne DEF tutoring
    <2> QED
      BY <2>1, <2>3, <2>4
  <1>3. CASE Change
    <2>1. /\ Arg \in Receipts /\ receipts'[Arg] = Received(run.mutation)
          /\ run.mutation \in UpdateMutations
          /\ \A s \in Receipts \ {Arg} : receipts'[s] = receipts[s] /\ alloc'[s] = alloc[s]
          /\ alloc' \in Allocations /\ \A t \in Targets : alloc'[Arg][t] = 0
          /\ run'.mutation = run.mutation
          /\ UNCHANGED <<tutoring, unfinished>>
      BY <1>3, ChangeCases DEF Goes
    <2>2. PICK r \in Receipts : r = Arg
      BY <2>1
    <2>3. /\ receipts'[r].state # "none" /\ receipts'[r].payer \in Payers
          /\ receipts'[r].amount \in Nat
      BY <2>1, <2>2, ReceivedRow
    <2> QED
      BY <2>1, <2>2, <2>3, RowsOfOne DEF tutoring
  <1>4. CASE Delete \/ Restore
    <2>1. /\ Arg \in Receipts /\ receipts[Arg].payer \in Payers
          /\ receipts'[Arg].state # "none"
          /\ receipts'[Arg].payer = receipts[Arg].payer
          /\ receipts'[Arg].amount = receipts[Arg].amount
          /\ \A s \in Receipts \ {Arg} : receipts'[s] = receipts[s]
          /\ run'.mutation = run.mutation
          /\ UNCHANGED <<alloc, tutoring, unfinished>>
      BY <1>4, DeleteCases DEF Goes
    <2>2. PICK r \in Receipts : r = Arg
      BY <2>1
    <2>3. alloc' \in Allocations /\ receipts'[r].amount \in Nat
      BY <2>1, <2>2, TypeFacts DEF Base
    <2> QED
      BY <2>1, <2>2, <2>3, RowsOfOne DEF tutoring
  <1>5. CASE Rebuild
    <2>1. /\ Arg \in Payers /\ alloc' = Wiped(Arg) /\ run'.mutation = run.mutation
          /\ UNCHANGED <<receipts, tutoring, unfinished>>
      BY <1>5, RebuildCases DEF Goes
    <2>2. PICK p \in Payers : p = Arg
      BY <2>1
    <2>3. /\ \A s \in Receipts : receipts[s].payer # p =>
                alloc'[s] = alloc[s] /\ Spent(s)' = Spent(s)
          /\ \A s \in Receipts : receipts[s].payer = p =>
                Spent(s)' = 0 /\ \A t \in Targets : alloc'[s][t] = 0
      <3>1. alloc' = Wiped(p) /\ UNCHANGED <<receipts, price>>
        BY <2>1, <2>2 DEF tutoring
      <3> QED
        BY <3>1, MoneyWiped
    <2>4. \A s \in Receipts :
            /\ receipts[s].state = "none" => \A t \in Targets : alloc[s][t] = 0
            /\ receipts[s].state # "none" => receipts[s].payer \in Payers
            /\ Spent(s) <= receipts[s].amount /\ receipts[s].amount \in Nat
            /\ \A t \in Targets : alloc[s][t] > 0 => Owner[t] = receipts[s].payer
      BY TypeFacts DEF Base, RowsOK
    <2>5. \A s \in Receipts :
            /\ receipts'[s].state = "none" => \A t \in Targets : alloc'[s][t] = 0
            /\ receipts'[s].state # "none" => receipts'[s].payer \in Payers
            /\ Spent(s)' <= receipts'[s].amount
            /\ \A t \in Targets : alloc'[s][t] > 0 => Owner[t] = receipts'[s].payer
            /\ receipts[s].state # "none" => receipts'[s].state # "none"
      BY <2>1, <2>3, <2>4
    <2> QED
      BY <2>1, <2>5, RowsWhen DEF tutoring
  <1>6. CASE Reconcile
    <2>1. /\ UNCHANGED <<receipts, alloc, tutoring, unfinished>> /\ run'.mutation = run.mutation
      BY <1>6, ReconcileCases DEF Goes
    <2> QED
      BY <2>1, RowsSame DEF tutoring
  <1>7. CASE Collect
    <2>1. /\ UNCHANGED <<receipts, alloc, tutoring, unfinished>> /\ run'.mutation = run.mutation
      BY <1>7, CollectCases DEF Goes
    <2> QED
      BY <2>1, RowsSame DEF tutoring
  <1>8. CASE List
    <2>1. /\ UNCHANGED <<receipts, alloc, tutoring, unfinished>> /\ run'.mutation = run.mutation
      BY <1>8, ListCases DEF Goes
    <2> QED
      BY <2>1, RowsSame DEF tutoring
  <1>9. CASE Allocate
    <2>1. /\ Collecting("allocate") /\ UNCHANGED <<receipts, tutoring, unfinished>>
      BY <1>9, AllocateCases
    <2>2. CASE UNCHANGED alloc
      <3>1. run'.mutation = run.mutation \/ run' = Idle
        BY <1>9, AllocateCases DEF Goes, Pays, Refuse
      <3>2. run'.mutation \in {run.mutation, NoMutation}
        BY <3>1, IdleFacts
      <3> QED
        BY <2>1, <2>2, <3>2, RowsSame DEF tutoring
    <2>3. ASSUME NEW t \in Targets, Pays(t), alloc[Receipt][t] = 0, Live(Receipt),
                 Writes(Receipt, t, Share(t))
          PROVE  RowsOK'
      <3>1. PICK r \in Receipts, x \in Nat \ {0} :
             /\ r = Receipt /\ x = Share(t)
             /\ Live(r) /\ alloc[r][t] = 0
             /\ \A s \in Receipts \ {r} : alloc'[s] = alloc[s] /\ Spent(s)' = Spent(s)
             /\ \A u \in Targets \ {t} : \A s \in Receipts : alloc'[s][u] = alloc[s][u]
             /\ Spent(r)' = Spent(r) + x
        BY <2>1, <2>3, PaidStep
      <3>2. /\ run'.mutation = run.mutation /\ t \in run.ahead /\ x <= run.left
        BY <2>3, <3>1 DEF Pays, Goes
      <3>3. /\ run.step = "allocate" /\ run.left \in Nat
            /\ receipts[r].amount \in Nat /\ Spent(r) \in Nat
        BY <2>1, AtReceipt, TypeFacts DEF Base
      <3>4. /\ run.ahead \in SUBSET OwedBy(receipts[r].payer)
            /\ run.left + Spent(r) <= receipts[r].amount
        BY <3>1, <3>3 DEF Base, QueueOK
      <3>5. Owner[t] = receipts[r].payer
        BY <3>2, <3>4 DEF OwedBy
      <3>6. Spent(r)' <= receipts[r].amount
        BY <3>1, <3>2, <3>3, <3>4
      <3>7. \A s \in Receipts :
              /\ receipts[s].state = "none" => \A u \in Targets : alloc[s][u] = 0
              /\ receipts[s].state # "none" => receipts[s].payer \in Payers
              /\ Spent(s) <= receipts[s].amount
              /\ \A u \in Targets : alloc[s][u] > 0 => Owner[u] = receipts[s].payer
        BY DEF Base, RowsOK
      <3>8. receipts[r].state = "live"
        BY <3>1, Views
      <3>9. \A s \in Receipts :
              /\ receipts'[s].state = "none" => \A u \in Targets : alloc'[s][u] = 0
              /\ receipts'[s].state # "none" => receipts'[s].payer \in Payers
              /\ Spent(s)' <= receipts'[s].amount
              /\ \A u \in Targets : alloc'[s][u] > 0 => Owner[u] = receipts'[s].payer
              /\ receipts[s].state # "none" => receipts'[s].state # "none"
        <4> TAKE s \in Receipts
        <4>1. CASE s = r
          BY <4>1, <2>1, <3>1, <3>5, <3>6, <3>7, <3>8
        <4>2. CASE s # r
          BY <4>2, <2>1, <3>1, <3>7
        <4> QED
          BY <4>1, <4>2
      <3> QED
        BY <2>1, <3>2, <3>9, RowsWhen DEF tutoring
    <2> QED
      BY <1>9, AllocateCases, <2>2, <2>3
  <1>10. CASE Normalize
    <2>1. /\ UNCHANGED <<receipts, alloc, tutoring, unfinished>> /\ run'.mutation = run.mutation
      BY <1>10, NormalizeCases DEF Goes
    <2> QED
      BY <2>1, RowsSame DEF tutoring
  <1>11. CASE NormalizeCycle
    <2>1. /\ UNCHANGED <<receipts, alloc, price, unfinished>> /\ run'.mutation = run.mutation
      BY <1>11, NormalizeCycleCases DEF Goes
    <2> QED
      BY <2>1, RowsSame
  <1>12. CASE Teach
    <2>1. /\ UNCHANGED <<receipts, alloc, unfinished>> /\ run'.mutation = run.mutation
      BY <1>12, TeachCases DEF Goes
    <2>2. \A t \in Cycles : price'[t] = price[t]
      <3>1. CASE Attends
        <4>1. /\ \A t \in Targets \ {Arg} : price'[t] = price[t]
              /\ Arg \in Cycles => price'[Arg] = CyclePrice
          BY <3>1 DEF Attends
        <4>2. Cycles \in SUBSET Targets /\ \A t \in Cycles : price[t] = CyclePrice
          BY AllocationAssumption DEF Base, RowsOK
        <4> QED
          BY <4>1, <4>2
      <3>2. CASE ~Attends
        <4>1. price' = price
          BY <1>12, <3>2, TeachCases DEF Links, MarksDue, Unlinks, Opens, Resets, SetsOpening
        <4> QED
          BY <4>1
      <3> QED
        BY <3>1, <3>2
    <2> QED
      BY <2>1, <2>2, RowsSame
  <1>13. CASE Finish
    <2>1. /\ UNCHANGED <<receipts, alloc, tutoring, unfinished>> /\ run' = Idle
      BY <1>13, FinishCases
    <2> QED
      BY <2>1, IdleFacts, RowsSame DEF tutoring
  <1>14. CASE WorkerDies
    <2>1. /\ UNCHANGED <<receipts, alloc, tutoring>> /\ run' = Idle
          /\ unfinished' = unfinished \union {run.mutation}
      BY <1>14, DiesCases
    <2> QED
      BY <2>1, IdleFacts, RowsSame DEF tutoring
  <1> QED
    BY <1>1, <1>2, <1>3, <1>4, <1>5, <1>6, <1>7, <1>8, <1>9, <1>10, <1>11, <1>12, <1>13, <1>14
       DEF Next

-----------------------------------------------------------------------------
(* The rows and the handler at work, always.                               *)

(* At first everything is in order,                                        *)
LEMMA BaseInit ==
    ASSUME Init
    PROVE  Base
  <1>1. TypeOK
    <2>1. /\ NoReceipt \in Rows
          /\ Ended(NoMutation, "done") \in
               [mutation : AllMutations \union {NoMutation}, how : {"done", "refused"}]
          /\ CyclePrice \in Nat /\ run \in Runs
      BY IdleFacts, EndedType, AllocationAssumption DEF Init, NoReceipt, Rows
    <2> QED
      BY <2>1 DEF Init, TypeOK
  <1>2. RowsOK
    <2>1. \A r \in Receipts :
            /\ receipts[r].state = "none" /\ receipts[r].amount = 0
            /\ \A t \in Targets : alloc[r][t] = 0
      BY DEF Init, NoReceipt
    <2>2. \A r \in Receipts : Spent(r) = 0
      <3> TAKE r \in Receipts
      <3>1. alloc[r] \in [Targets -> Nat]
        BY <1>1 DEF TypeOK
      <3> QED
        BY <2>1, <3>1, RowSum, Views
    <2>3. NoMutation.op \notin Corrections
      BY NoMutationIsNone DEF Corrections
    <2>4. run.mutation = NoMutation /\ unfinished = {}
      BY IdleFacts DEF Init
    <2>5. \A t \in Cycles : price[t] = CyclePrice
      BY AllocationAssumption DEF Init
    <2> QED
      BY <2>1, <2>2, <2>3, <2>4, <2>5 DEF RowsOK
  <1>3. TodoOK
    <2>1. /\ run.mutation = NoMutation /\ run = Idle /\ ToSet(run.todo) = {} /\ run.queue = {}
          /\ run.cycles = {} /\ run.students = {} /\ run.todo = <<>>
      BY IdleFacts, NoTask DEF Init
    <2>2. /\ Orderly(NoMutation, <<>>) /\ Paired(<<>>) /\ Alone(NoMutation, <<>>)
      BY NoTask, NoMutationIsNone DEF Paired, Alone
    <2>3. NoMutation.op \notin Corrections \union {"update", "restore", "delete", "configure",
                                                 "reopen", "complete"}
      BY NoMutationIsNone DEF Corrections
    <2>4. Ahead(run.mutation, run.todo)
      BY <2>1, <2>3 DEF Ahead
    <2> QED
      BY <2>1, <2>2, <2>4 DEF TodoOK, Left
  <1>4. QueueOK
    <2>1. run.queue = {} /\ run.step = "collect" /\ run.ahead = {}
      BY IdleFacts DEF Init
    <2> QED
      BY <2>1 DEF QueueOK
  <1> QED
    BY <1>1, <1>2, <1>3, <1>4 DEF Base

(* ... a step that changes nothing keeps it,                               *)
LEMMA BaseStutter ==
    ASSUME Base, UNCHANGED vars
    PROVE  Base'
  <1>1. /\ UNCHANGED <<receipts, alloc, lesson, full, status, price, run, last,
                       unfinished, mutations, crashes, revived, behind, halfway>>
    BY DEF vars, tutoring, history
  <1>2. TypeOK'
    BY <1>1 DEF Base, TypeOK
  <1>3. RowsOK'
    BY <1>1 DEF Base, RowsOK, Spent
  <1>4. TodoOK'
    BY <1>1 DEF Base, TodoOK, Ahead, Left, Pending
  <1>5. QueueOK'
    BY <1>1 DEF Base, QueueOK, Live, Spent, Receipt, Oldest, Earlier, OwedBy, Owing, Hooked
  <1> QED
    BY <1>2, <1>3, <1>4, <1>5 DEF Base

(* ... and so does every other.                                            *)
LEMMA BaseStep ==
    ASSUME Base, Next
    PROVE  Base'
  BY TypeStep, RowsStep, TodoStep, QueueStep DEF Base

(* Types of the state, what the receipts hold and spend, and what the      *)
(* handler at work has still to do and to collect.                         *)
THEOREM AlwaysBase == Spec => []Base
  <1>1. Init => Base
    BY BaseInit
  <1>2. Base /\ [Next]_vars => Base'
    BY BaseStep, BaseStutter
  <1> QED
    BY <1>1, <1>2, PTL DEF Spec

(* Every variable keeps its type.                                          *)
THEOREM ReceiptTypeCorrect == Spec => []TypeOK
  <1>1. Base => TypeOK
    BY DEF Base
  <1> QED
    BY <1>1, AlwaysBase, PTL

-----------------------------------------------------------------------------
(* Rebuilds to come.                                                       *)

(* Rebuilds that are left when the first task is done.                     *)
LEMMA PendingTail ==
    ASSUME Base, NEW k, At(k), run'.todo = Tail(run.todo)
    PROVE  /\ \A p : Pending(p)' => Pending(p)
           /\ \A p : Pending(p) => Pending(p)' \/ (k = "rebuild" /\ p = Arg)
           /\ \A s, x : <<s, x>> \in ToSet(run'.todo) => <<s, x>> \in ToSet(run.todo)
           /\ \A s, x : <<s, x>> \in ToSet(run.todo) =>
                <<s, x>> \in ToSet(run'.todo) \/ (k = s /\ x = Arg)
  <1>1. ToSet(run.todo) = {<<k, Arg>>} \union ToSet(run'.todo)
    BY AtHead
  <1>2. \A s, x : <<s, x>> = <<k, Arg>> => k = s /\ x = Arg
    OBVIOUS
  <1> QED
    BY <1>1, <1>2 DEF Pending

(* A handler that rebuilds nothing any more.                               *)
LEMMA PendingNever ==
    /\ run.todo = <<>> => (\A p : ~Pending(p)) /\ ToSet(run.todo) = {}
    /\ run'.todo = <<>> => (\A p : ~Pending(p)') /\ ToSet(run'.todo) = {}
    /\ run = Idle => (\A p : ~Pending(p)) /\ ToSet(run.todo) = {} /\ run.mutation = NoMutation
                     /\ run.queue = {} /\ run.students = {}
    /\ run' = Idle => (\A p : ~Pending(p)') /\ ToSet(run'.todo) = {}
                      /\ run'.mutation = NoMutation /\ run'.queue = {} /\ run'.students = {}
    /\ run'.todo = run.todo => \A p : Pending(p)' <=> Pending(p)
  <1>1. ToSet(<<>>) = {} /\ Idle.todo = <<>> /\ Idle.mutation = NoMutation
        /\ Idle.queue = {} /\ Idle.students = {}
    BY NoTask, IdleFacts
  <1> QED
    BY <1>1 DEF Pending

(* While receipts are collected for one student, none waits for a rebuild. *)
LEMMA PendingQueue ==
    ASSUME Base, run.queue # {} \/ run.cycles # {}, run.mutation.op # "update"
    PROVE  \A p \in Students : ~Pending(p)
  BY DEF Base, TodoOK

(* What is left to do before a rebuild.                                    *)
LEMMA PendingFor ==
    ASSUME Base, NEW k, At(k), k \in Statements
    PROVE  /\ run.mutation.op \in Corrections
                /\ receipts[run.mutation.receipt].payer \in Students =>
                Pending(receipts[run.mutation.receipt].payer)
           /\ run.mutation.op = "update" => Pending(run.mutation.payer)
           /\ run.mutation.op = "configure" => Pending(Owner[run.mutation.target])
           /\ run.mutation.op = "reopen" /\ Owner[run.mutation.target] \in Students
                /\ run.mutation.target \notin AbsentPayer =>
                Pending(Owner[run.mutation.target])
  <1>1. Left(run.todo)
    BY AtHead
  <1> QED
    BY <1>1 DEF Base, TodoOK, Ahead, Pending

(* A target that is paid for belongs to the payer.                         *)
LEMMA PaidOwner ==
    ASSUME Base, NEW r \in Receipts, NEW t \in Targets, Owner[t] # receipts[r].payer
    PROVE  alloc[r][t] = 0
  <1>1. alloc[r][t] \in Nat
    BY TypeFacts DEF Base
  <1> QED
    BY <1>1 DEF Base, RowsOK

(* Only a collection pays for anything.                                    *)
NothingPaid == \A r \in Receipts, t \in Targets : alloc'[r][t] \in {0, alloc[r][t]}

(* Collecting pays only for what is owed by the receipt's payer.           *)
LEMMA PaidByCollecting ==
    ASSUME Base, Next, ~Allocate
    PROVE  NothingPaid
  <1>1. CASE alloc' = alloc
    BY <1>1 DEF NothingPaid
  <1>2. CASE Change
    <2>1. /\ Arg \in Receipts /\ \A s \in Receipts \ {Arg} : alloc'[s] = alloc[s]
          /\ \A t \in Targets : alloc'[Arg][t] = 0
      BY <1>2, ChangeCases
    <2> QED
      BY <2>1 DEF NothingPaid
  <1>3. CASE Rebuild
    <2>1. alloc' = Wiped(Arg)
      BY <1>3, RebuildCases
    <2> QED
      BY <2>1 DEF NothingPaid, Wiped, Nothing
  <1> QED
    BY <1>1, <1>2, <1>3
       DEF Next, New, SendAgain, Start, Insert, Delete, Restore, Reconcile, Collect, List,
           Normalize, NormalizeCycle, Teach, Finish, WorkerDies

(* ... and it pays for what is owed.                                       *)
LEMMA CollectingPays ==
    ASSUME Base, Allocate
    PROVE  \/ NothingPaid
           \/ \E t \in Targets, r \in Receipts :
                /\ Owing(t) /\ Owner[t] = receipts[r].payer /\ alloc'[r][t] > 0
                /\ \A s \in Receipts, u \in Targets :
                     (s = r /\ u = t) \/ alloc'[s][u] = alloc[s][u]
  <1>1. Collecting("allocate") /\ UNCHANGED <<receipts, tutoring>>
    BY AllocateCases
  <1>2. CASE UNCHANGED alloc
    BY <1>2 DEF NothingPaid
  <1>3. ASSUME NEW t \in Targets, Pays(t), alloc[Receipt][t] = 0, Live(Receipt),
               Writes(Receipt, t, Share(t))
        PROVE  \E r \in Receipts :
                /\ Owing(t) /\ Owner[t] = receipts[r].payer /\ alloc'[r][t] > 0
                /\ \A s \in Receipts, u \in Targets :
                     (s = r /\ u = t) \/ alloc'[s][u] = alloc[s][u]
    <2>1. PICK r \in Receipts, x \in Nat \ {0} :
             /\ r = Receipt /\ x = Share(t)
             /\ \A s \in Receipts \ {r} : alloc'[s] = alloc[s]
             /\ \A u \in Targets \ {t} : \A s \in Receipts : alloc'[s][u] = alloc[s][u]
             /\ alloc'[r][t] = x
      BY <1>1, <1>3, PaidStep
    <2>2. run.step = "allocate" /\ t \in run.ahead
      BY <1>1, <1>3, AtReceipt DEF Pays
    <2>3. run.ahead \in SUBSET OwedBy(receipts[r].payer)
      BY <2>1, <2>2 DEF Base, QueueOK
    <2>4. Owing(t) /\ Owner[t] = receipts[r].payer
      BY <2>2, <2>3 DEF OwedBy
    <2> QED
      BY <2>1, <2>4
  <1> QED
    BY AllocateCases, <1>2, <1>3

-----------------------------------------------------------------------------
(* Lessons that hold money.                                                *)

(* A step that pays for nothing new.                                       *)
LEMMA LessonMoneyWhen ==
    ASSUME LessonMoney, NothingPaid, lesson \in SUBSET lesson', halfway \in SUBSET halfway',
           run.mutation.op = "reopen" => \A p \in Students :
             Pending(p) => p \in halfway' \/ (run'.mutation.op = "reopen" /\ Pending(p)')
    PROVE  LessonMoney'
  <1> SUFFICES ASSUME NEW r \in Receipts, NEW t \in Targets \ Cycles, alloc'[r][t] > 0
               PROVE  \/ t \in lesson' \/ Owner[t] \in halfway'
                      \/ run'.mutation.op = "reopen" /\ Pending(Owner[t])'
    BY DEF LessonMoney
  <1>1. alloc[r][t] > 0
    BY DEF NothingPaid
  <1>2. Owner[t] \in Students
    BY AllocationAssumption
  <1> QED
    BY <1>1, <1>2 DEF LessonMoney

(* Every step leaves money on completed lessons only.                      *)
LEMMA LessonMoneyStep ==
    ASSUME Base, LessonMoney, Next
    PROVE  LessonMoney'
  <1>0. ~Allocate => NothingPaid
    BY PaidByCollecting
  <1>1. CASE New \/ SendAgain
    <2>1. PICK m \in AllMutations :
             /\ Start(m) /\ mutations' \in Nat
             /\ m.op \in Corrections => receipts[m.receipt].state # "none"
      BY <1>1, Sent
    <2>2. run = Idle /\ UNCHANGED <<alloc, tutoring, history>>
      BY <2>1, StartCases
    <2>3. NothingPaid /\ run.mutation.op # "reopen"
      BY <2>2, PendingNever, NoMutationIsNone DEF NothingPaid
    <2> QED
      BY <2>2, <2>3, LessonMoneyWhen DEF tutoring, history
  <1>2. CASE Insert
    <2>1. /\ run.mutation.op = "create" /\ UNCHANGED <<alloc, tutoring, history>>
      BY <1>2, InsertCases
    <2>2. NothingPaid
      BY <2>1 DEF NothingPaid
    <2> QED
      BY <2>1, <2>2, LessonMoneyWhen DEF tutoring, history
  <1>3. CASE Change
    <2>1. /\ run.mutation.op = "update" /\ UNCHANGED <<tutoring, history>>
      BY <1>3, ChangeCases
    <2>2. NothingPaid
      BY <1>3, <1>0 DEF Allocate, Collecting, Change, At
    <2> QED
      BY <2>1, <2>2, LessonMoneyWhen DEF tutoring, history
  <1>4. CASE Delete \/ Restore
    <2>1. /\ run.mutation.op \in {"delete", "restore"} /\ UNCHANGED <<alloc, tutoring, halfway>>
      BY <1>4, DeleteCases DEF history
    <2>2. NothingPaid
      BY <2>1 DEF NothingPaid
    <2> QED
      BY <2>1, <2>2, LessonMoneyWhen DEF tutoring
  <1>5. CASE Rebuild
    <2>1. /\ At("rebuild") /\ Arg \in Payers /\ alloc' = Wiped(Arg)
          /\ run'.mutation = run.mutation /\ run'.todo = Tail(run.todo)
          /\ UNCHANGED <<receipts, tutoring, halfway>>
      BY <1>5, RebuildCases DEF Goes
    <2>2. PICK p \in Payers : p = Arg
      BY <2>1
    <2>3. \A t \in Targets : Owner[t] = p => \A s \in Receipts : alloc'[s][t] = 0
      <3>1. alloc' = Wiped(p) /\ UNCHANGED <<receipts, price>>
        BY <2>1, <2>2 DEF tutoring
      <3> QED
        BY <3>1, MoneyWiped
    <2>4. \A q : Pending(q) => Pending(q)' \/ q = p
      BY <2>1, <2>2, PendingTail
    <2>5. NothingPaid
      BY <2>1 DEF NothingPaid, Wiped, Nothing
    <2> SUFFICES ASSUME NEW r \in Receipts, NEW t \in Targets \ Cycles, alloc'[r][t] > 0
                 PROVE  \/ t \in lesson' \/ Owner[t] \in halfway'
                        \/ run'.mutation.op = "reopen" /\ Pending(Owner[t])'
      BY DEF LessonMoney
    <2>6. alloc[r][t] > 0 /\ Owner[t] # p
      BY <2>3, <2>5 DEF NothingPaid
    <2> QED
      BY <2>1, <2>4, <2>6 DEF LessonMoney, tutoring
  <1>6. CASE Reconcile
    <2>1. /\ run.todo = <<>> /\ UNCHANGED <<alloc, tutoring, history>>
      BY <1>6, ReconcileCases
    <2>2. NothingPaid /\ \A p : ~Pending(p)
      BY <2>1, PendingNever DEF NothingPaid
    <2> QED
      BY <2>1, <2>2, LessonMoneyWhen DEF tutoring, history
  <1>7. CASE Collect
    <2>1. /\ run'.mutation = run.mutation /\ run'.todo = run.todo
          /\ UNCHANGED <<alloc, tutoring, history>>
      BY <1>7, CollectCases DEF Goes
    <2>2. NothingPaid /\ \A p : Pending(p)' <=> Pending(p)
      BY <2>1, PendingNever DEF NothingPaid
    <2> QED
      BY <2>1, <2>2, LessonMoneyWhen DEF tutoring, history
  <1>8. CASE List
    <2>1. /\ run'.mutation = run.mutation /\ run'.todo = run.todo
          /\ UNCHANGED <<alloc, tutoring, history>>
      BY <1>8, ListCases DEF Goes
    <2>2. NothingPaid /\ \A p : Pending(p)' <=> Pending(p)
      BY <2>1, PendingNever DEF NothingPaid
    <2> QED
      BY <2>1, <2>2, LessonMoneyWhen DEF tutoring, history
  <1>9. CASE Allocate
    <2>1. run.queue # {} /\ UNCHANGED <<tutoring, history>>
      BY <1>9, AllocateCases, AtReceipt
    <2>2. run.mutation.op # "update" => \A p \in Students : ~Pending(p)
      BY <2>1, PendingQueue
    <2>3. CASE NothingPaid
      BY <2>1, <2>2, <2>3, LessonMoneyWhen DEF tutoring, history
    <2>4. CASE \E t \in Targets, r \in Receipts :
                /\ Owing(t) /\ Owner[t] = receipts[r].payer /\ alloc'[r][t] > 0
                /\ \A s \in Receipts, u \in Targets :
                     (s = r /\ u = t) \/ alloc'[s][u] = alloc[s][u]
      <3>1. PICK t \in Targets, r \in Receipts :
                /\ Owing(t)
                /\ \A s \in Receipts, u \in Targets :
                     (s = r /\ u = t) \/ alloc'[s][u] = alloc[s][u]
        BY <2>4
      <3> SUFFICES ASSUME NEW s \in Receipts, NEW u \in Targets \ Cycles, alloc'[s][u] > 0
                   PROVE  u \in lesson \/ Owner[u] \in halfway
        BY <2>1 DEF LessonMoney, tutoring, history
      <3>2. CASE s = r /\ u = t
        BY <3>1, <3>2 DEF Owing
      <3>3. CASE alloc'[s][u] = alloc[s][u]
        <4>1. Owner[u] \in Students
          BY AllocationAssumption
        <4> QED
          BY <3>3, <4>1, <2>2 DEF LessonMoney
      <3> QED
        BY <3>1, <3>2, <3>3
    <2> QED
      BY <1>9, CollectingPays, <2>3, <2>4
  <1>10. CASE Normalize
    <2>1. /\ At("normalize") /\ run'.mutation = run.mutation /\ run'.todo = Tail(run.todo)
          /\ UNCHANGED <<alloc, tutoring, history>>
      BY <1>10, NormalizeCases DEF Goes
    <2>2. NothingPaid /\ \A p : Pending(p) => Pending(p)'
      BY <2>1, PendingTail DEF NothingPaid
    <2> QED
      BY <2>1, <2>2, LessonMoneyWhen DEF tutoring, history
  <1>11. CASE NormalizeCycle
    <2>1. /\ run'.mutation = run.mutation /\ run'.todo = run.todo
          /\ UNCHANGED <<alloc, lesson, history>>
      BY <1>11, NormalizeCycleCases DEF Goes
    <2>2. NothingPaid /\ \A p : Pending(p)' <=> Pending(p)
      BY <2>1, PendingNever DEF NothingPaid
    <2> QED
      BY <2>1, <2>2, LessonMoneyWhen DEF history
  <1>12. CASE Teach
    <2>1. /\ run'.mutation = run.mutation /\ run'.todo = Tail(run.todo) /\ UNCHANGED alloc
      BY <1>12, TeachCases DEF Goes
    <2>2. NothingPaid
      BY <2>1 DEF NothingPaid
    <2>3. ASSUME NEW k, At(k), k # "rebuild"
          PROVE  \A p : Pending(p) => Pending(p)'
      BY <2>1, <2>3, PendingTail
    <2>4. CASE Resets
      <3>1. /\ At("reset") /\ run.mutation.op = "reopen" /\ Arg \in Targets
            /\ Arg = run.mutation.target /\ lesson' = lesson \ {Arg}
            /\ halfway' = IF Arg \in AbsentPayer THEN halfway \union {Owner[Arg]} ELSE halfway
        BY <2>4 DEF Resets
      <3>2. \A p : Pending(p) => Pending(p)'
        BY <3>1, <2>3
      <3>30. PICK a \in Targets : a = Arg
        BY <3>1
      <3>3. Owner[a] \in Students /\ a \notin AbsentPayer => Pending(Owner[a])'
        <4>1. "reset" \in Statements
          BY DEF Statements
        <4>2. Owner[run.mutation.target] \in Students
                /\ run.mutation.target \notin AbsentPayer =>
                Pending(Owner[run.mutation.target])
          BY <3>1, <4>1, PendingFor
        <4>3. Owner[a] \in Students /\ a \notin AbsentPayer => Pending(Owner[a])
          BY <3>1, <3>30, <4>2
        <4> QED
          BY <3>2, <4>3
      <3> SUFFICES ASSUME NEW r \in Receipts, NEW t \in Targets \ Cycles, alloc'[r][t] > 0
                   PROVE  \/ t \in lesson' \/ Owner[t] \in halfway'
                          \/ run'.mutation.op = "reopen" /\ Pending(Owner[t])'
        BY DEF LessonMoney
      <3>4. t \in lesson \/ Owner[t] \in halfway \/ Pending(Owner[t])
        BY <2>1 DEF LessonMoney
      <3>5. Owner[t] \in Students
        BY AllocationAssumption
      <3>6. halfway \in SUBSET halfway' /\ (a \in AbsentPayer => Owner[a] \in halfway')
        BY <3>1, <3>30
      <3> QED
        BY <2>1, <3>1, <3>2, <3>30, <3>3, <3>4, <3>5, <3>6
    <2>5. CASE ~Resets
      <3>1. /\ lesson \in SUBSET lesson' /\ halfway' = halfway
            /\ \E k \in Statements : At(k)
        BY <1>12, <2>5, TeachCases
           DEF Attends, Links, MarksDue, Unlinks, Opens, SetsOpening, Statements
      <3>2. \A p : Pending(p) => Pending(p)'
        BY <3>1, <2>3 DEF Statements
      <3> QED
        BY <2>1, <2>2, <3>1, <3>2, LessonMoneyWhen
    <2> QED
      BY <2>4, <2>5
  <1>13. CASE Finish
    <2>1. /\ \A p : ~Pending(p)
          /\ UNCHANGED <<alloc, tutoring, history>>
      BY <1>13, FinishCases
    <2>2. NothingPaid
      BY <2>1 DEF NothingPaid
    <2> QED
      BY <2>1, <2>2, LessonMoneyWhen DEF tutoring, history
  <1>14. CASE WorkerDies
    <2>1. /\ UNCHANGED <<alloc, tutoring>>
          /\ halfway \in SUBSET halfway'
          /\ run.mutation.op = "reopen" => \A p \in Students : Pending(p) => p \in halfway'
      BY <1>14, DiesCases
    <2>2. NothingPaid
      BY <2>1 DEF NothingPaid
    <2> QED
      BY <2>1, <2>2, LessonMoneyWhen DEF tutoring
  <1> QED
    BY <1>1, <1>2, <1>3, <1>4, <1>5, <1>6, <1>7, <1>8, <1>9, <1>10, <1>11, <1>12, <1>13, <1>14
       DEF Next

-----------------------------------------------------------------------------
(* Full cycles are due.                                                    *)

(* What a mutation's handler has to do first and last.                     *)
LEMMA StartsWith ==
    ASSUME Base, NEW m \in AllMutations, TasksOK(m),
           m.op \in Corrections => receipts[m.receipt].payer \in Payers
    PROVE  /\ m.op = "complete" /\ m.target \in Cycles /\ Owner[m.target] \in Students =>
                <<"markDue", m.target>> \in ToSet(Tasks(m))
           /\ m.op \in {"delete", "restore"} /\ receipts[m.receipt].payer \in Students =>
                <<"rebuild", receipts[m.receipt].payer>> \in ToSet(Tasks(m))
           /\ m.op = "configure" => <<"rebuild", Owner[m.target]>> \in ToSet(Tasks(m))
  <1>1. ASSUME m.op = "complete", m.target \in Cycles, Owner[m.target] \in Students
        PROVE  <<"markDue", m.target>> \in ToSet(Tasks(m))
    <2> DEFINE t == m.target
               a == <<"attend", t>>
               b == <<"link", t>>
               c == <<"markDue", t>>
    <2>1. t \in Targets /\ "attend" \in Statements /\ "link" \in Statements
            /\ "markDue" \in Statements
      BY <1>1, AllocationAssumption DEF Statements
    <2>2. a \in AllTasks /\ b \in AllTasks /\ c \in AllTasks
      BY <2>1, TaskTypes
    <2>3. Tasks(m) = <<a, b, c>>
      BY <1>1 DEF Tasks, CompleteTasks
    <2> HIDE DEF a, b, c
    <2>4. c \in ToSet(Tasks(m))
      BY <2>2, <2>3, ShortThree
    <2> QED
      BY <2>4 DEF c
  <1>2. ASSUME m.op \in {"delete", "restore"}, receipts[m.receipt].payer \in Students
        PROVE  <<"rebuild", receipts[m.receipt].payer>> \in ToSet(Tasks(m))
    <2> DEFINE p == receipts[m.receipt].payer
               a == <<m.op, m.receipt>>
               r == Refresh(p)
    <2>1. /\ m \in DeleteMutations \union RestoreMutations /\ m.receipt \in Receipts
          /\ m.op \in Statements
      BY <1>2, MutationByOp DEF DeleteMutations, RestoreMutations, Statements
    <2>2. Tasks(m) = <<a>> \o r
      BY <1>2 DEF Tasks, DeleteTasks, RestoreTasks
    <2>3. a \in AllTasks
      BY <2>1, TaskTypes
    <2>4. r \in Seq(AllTasks) /\ <<"rebuild", p>> \in ToSet(r)
      <3>1. p \in Payers /\ p \in Students
        BY <1>2, TaskTypes
      <3> QED
        BY <3>1, RefreshTasks
    <2> HIDE DEF a, r, p
    <2>5. <<a>> \in Seq(AllTasks)
      BY <2>3, ShortTwo
    <2>6. <<"rebuild", p>> \in ToSet(Tasks(m))
      BY <2>2, <2>4, <2>5, JoinedTasks
    <2> QED
      BY <2>6 DEF p
  <1>3. ASSUME m.op = "configure"
        PROVE  <<"rebuild", Owner[m.target]>> \in ToSet(Tasks(m))
    <2> DEFINE p == Owner[m.target]
               a == <<"opening", m.target>>
               r == Refresh(p)
    <2>1. m.target \in OpeningCycles
      BY <1>3, MutationByOp DEF ConfigureMutations
    <2>2. m.target \in Targets /\ p \in Students /\ p \in Payers /\ "opening" \in Statements
      BY <2>1, AllocationAssumption, TaskTypes DEF Statements
    <2>3. r \in Seq(AllTasks) /\ <<"rebuild", p>> \in ToSet(r) /\ r = RebuildTasks(p)
      BY <2>2, RefreshTasks
    <2>4. Tasks(m) = <<a>> \o r
      BY <1>3, <2>3 DEF Tasks, ConfigureTasks
    <2>5. a \in AllTasks
      BY <2>2, TaskTypes
    <2> HIDE DEF a, r, p
    <2>6. <<a>> \in Seq(AllTasks)
      BY <2>5, ShortTwo
    <2>7. <<"rebuild", p>> \in ToSet(Tasks(m))
      BY <2>3, <2>4, <2>6, JoinedTasks
    <2> QED
      BY <2>7 DEF p
  <1> QED
    BY <1>1, <1>2, <1>3

(* A mutation that is sent finds its receipt.                              *)
LEMMA SentPayer ==
    ASSUME Base, NEW m \in AllMutations,
           m.op \in Corrections => receipts[m.receipt].state # "none"
    PROVE  m.op \in Corrections => receipts[m.receipt].payer \in Payers
  <1> SUFFICES ASSUME m.op \in Corrections PROVE receipts[m.receipt].payer \in Payers
    OBVIOUS
  <1>1. m.receipt \in Receipts
    BY MutationByOp DEF Corrections, UpdateMutations, DeleteMutations, RestoreMutations
  <1> QED
    BY <1>1 DEF Base, RowsOK

(* A step that leaves the cycles alone.                                    *)
LEMMA FullDueWhen ==
    ASSUME FullDue, UNCHANGED <<status, full>>, unfinished \in SUBSET unfinished',
           run.mutation.op = "complete" => \A t \in Cycles :
             <<"markDue", t>> \in ToSet(run.todo) => ToMark(t)'
    PROVE  FullDue'
  <1> SUFFICES ASSUME NEW t \in Cycles, Owner[t] \in Students, status'[t] = "open", t \in full'
               PROVE  ToMark(t)'
    BY DEF FullDue
  <1>1. ToMark(t)
    BY DEF FullDue
  <1>2. CASE run.mutation.op = "complete" /\ <<"markDue", t>> \in ToSet(run.todo)
    BY <1>2
  <1>3. CASE \E m \in unfinished : m.op = "complete" /\ m.target = t
    BY <1>3 DEF ToMark
  <1> QED
    BY <1>1, <1>2, <1>3 DEF ToMark

(* Every step marks full cycles due.                                       *)
LEMMA FullDueStep ==
    ASSUME Base, FullDue, Next
    PROVE  FullDue'
  <1>0. \A s, x : <<s, x>>[1] = s
    OBVIOUS
  <1>1. CASE New \/ SendAgain
    <2>1. PICK m \in AllMutations :
             /\ Start(m) /\ mutations' \in Nat
             /\ m.op \in Corrections => receipts[m.receipt].state # "none"
      BY <1>1, Sent
    <2>2. /\ run = Idle /\ UNCHANGED tutoring /\ unfinished' = unfinished \ {m}
          /\ m.op = "update" \/ Begins(m)
      BY <2>1, StartCases
    <2> SUFFICES ASSUME NEW t \in Cycles, Owner[t] \in Students, status'[t] = "open",
                        t \in full'
                 PROVE  ToMark(t)'
      BY DEF FullDue
    <2>3. ToMark(t) /\ ToSet(run.todo) = {}
      BY <2>2, PendingNever DEF FullDue, tutoring
    <2>4. PICK u \in unfinished : u.op = "complete" /\ u.target = t
      BY <2>3 DEF ToMark
    <2>5. CASE u # m
      BY <2>2, <2>4, <2>5 DEF ToMark
    <2>6. CASE u = m
      <3>1. Begins(m) /\ m.op = "complete" /\ m.target = t
        BY <2>2, <2>4, <2>6
      <3>2. TasksOK(m) /\ run'.mutation = m /\ run'.todo = Tasks(m)
        BY <3>1 DEF Begins
      <3>3. m.op \in Corrections => receipts[m.receipt].payer \in Payers
        BY <2>1, SentPayer
      <3>4. <<"markDue", m.target>> \in ToSet(Tasks(m))
        BY <3>1, <3>2, <3>3, StartsWith
      <3> QED
        BY <3>1, <3>2, <3>4 DEF ToMark
    <2> QED
      BY <2>5, <2>6
  <1>2. CASE Insert
    <2>1. run.mutation.op = "create" /\ UNCHANGED <<tutoring, unfinished>>
      BY <1>2, InsertCases
    <2> QED
      BY <2>1, FullDueWhen DEF tutoring
  <1>3. CASE Change
    <2>1. run.mutation.op = "update" /\ UNCHANGED <<tutoring, unfinished>>
      BY <1>3, ChangeCases
    <2> QED
      BY <2>1, FullDueWhen DEF tutoring
  <1>4. CASE Delete \/ Restore
    <2>1. run.mutation.op \in {"delete", "restore"} /\ UNCHANGED <<tutoring, unfinished>>
      BY <1>4, DeleteCases
    <2> QED
      BY <2>1, FullDueWhen DEF tutoring
  <1>5. CASE Rebuild
    <2>1. /\ run.mutation.op \in Corrections \union {"reopen", "configure"}
          /\ UNCHANGED <<tutoring, unfinished>>
      BY <1>5, RebuildCases
    <2> QED
      BY <2>1, FullDueWhen DEF tutoring, Corrections
  <1>6. CASE Reconcile
    <2>1. run.todo = <<>> /\ UNCHANGED <<tutoring, unfinished>>
      BY <1>6, ReconcileCases
    <2>2. ToSet(run.todo) = {}
      BY <2>1, PendingNever
    <2> QED
      BY <2>1, <2>2, FullDueWhen DEF tutoring
  <1>7. CASE Collect
    <2>1. /\ run'.mutation = run.mutation /\ run'.todo = run.todo
          /\ UNCHANGED <<tutoring, unfinished>>
      BY <1>7, CollectCases DEF Goes
    <2> QED
      BY <2>1, FullDueWhen DEF tutoring, ToMark
  <1>8. CASE List
    <2>1. /\ run'.mutation = run.mutation /\ run'.todo = run.todo
          /\ UNCHANGED <<tutoring, unfinished>>
      BY <1>8, ListCases DEF Goes
    <2> QED
      BY <2>1, FullDueWhen DEF tutoring, ToMark
  <1>9. CASE Allocate
    <2>1. ~Left(run.todo) /\ UNCHANGED <<tutoring, unfinished>>
      BY <1>9, AllocateCases, AtReceipt
    <2>2. \A t : <<"markDue", t>> \notin ToSet(run.todo)
      BY <1>0, <2>1 DEF Left, Statements
    <2> QED
      BY <2>1, <2>2, FullDueWhen DEF tutoring
  <1>10. CASE Normalize
    <2>1. /\ At("normalize") /\ run'.mutation = run.mutation /\ run'.todo = Tail(run.todo)
          /\ UNCHANGED <<tutoring, unfinished>>
      BY <1>10, NormalizeCases DEF Goes
    <2>2. \A t : <<"markDue", t>> \in ToSet(run.todo) => <<"markDue", t>> \in ToSet(run'.todo)
      BY <2>1, PendingTail
    <2> QED
      BY <2>1, <2>2, FullDueWhen DEF tutoring, ToMark
  <1>11. CASE NormalizeCycle
    <2>1. PICK c \in Cycles :
             /\ status' = [status EXCEPT ![c] = Truth(c)]
             /\ run'.mutation = run.mutation /\ run'.todo = run.todo
             /\ UNCHANGED <<full, unfinished>>
      BY <1>11, NormalizeCycleCases DEF Goes
    <2>2. c \in full => Truth(c) # "open"
      BY DEF Truth
    <2> HIDE DEF Truth
    <2>3. \A t \in Cycles : status'[t] = IF t = c THEN Truth(c) ELSE status[t]
      BY <2>1 DEF Base, TypeOK
    <2> QED
      BY <2>1, <2>2, <2>3 DEF FullDue, ToMark
  <1>12. CASE Teach
    <2>1. /\ run'.mutation = run.mutation /\ run'.todo = Tail(run.todo)
          /\ UNCHANGED unfinished
      BY <1>12, TeachCases DEF Goes
    <2>2. ASSUME NEW k, At(k), k # "markDue"
          PROVE  \A t : <<"markDue", t>> \in ToSet(run.todo) => <<"markDue", t>> \in ToSet(run'.todo)
      BY <2>1, <2>2, PendingTail
    <2>20. status \in [Cycles -> {"open", "due", "paid"}]
      BY DEF Base, TypeOK
    <2>21. Ahead(run.mutation, run.todo)
      BY DEF Base, TodoOK
    <2>3. CASE Attends
      <3>1. At("attend") /\ UNCHANGED <<full, status>>
        BY <2>3 DEF Attends
      <3> QED
        BY <2>1, <2>2, <3>1, FullDueWhen DEF ToMark
    <2>4. CASE Links
      <3>1. /\ At("link") /\ run.mutation.op = "complete" /\ Arg \in Cycles
            /\ full' = full \union {Arg} /\ UNCHANGED status
        BY <2>4 DEF Links
      <3>2. PICK a \in Cycles : a = Arg
        BY <3>1
      <3>3. <<"link", a>> \in ToSet(run.todo)
        BY <3>1, <3>2, AtHead
      <3>4. Owner[a] \in Students => <<"markDue", a>> \in ToSet(run.todo)
        BY <3>1, <3>3, <2>21 DEF Ahead
      <3>5. \A t : <<"markDue", t>> \in ToSet(run.todo) => <<"markDue", t>> \in ToSet(run'.todo)
        BY <2>2, <3>1
      <3> QED
        BY <2>1, <3>1, <3>2, <3>4, <3>5 DEF FullDue, ToMark
    <2>5. CASE MarksDue
      <3>1. /\ At("markDue") /\ Arg \in Cycles /\ UNCHANGED full
            /\ status' = [status EXCEPT ![Arg] = IF @ = "open" THEN "due" ELSE @]
        BY <2>5 DEF MarksDue
      <3>2. PICK a \in Cycles : a = Arg
        BY <3>1
      <3>3. /\ status'[a] # "open"
            /\ \A t \in Cycles \ {a} : status'[t] = status[t]
        BY <2>20, <3>1, <3>2
      <3>4. \A t : <<"markDue", t>> \in ToSet(run.todo) =>
              <<"markDue", t>> \in ToSet(run'.todo) \/ t = a
        BY <2>1, <3>1, <3>2, PendingTail
      <3> QED
        BY <2>1, <3>1, <3>3, <3>4 DEF FullDue, ToMark
    <2>6. CASE Unlinks
      <3>1. At("unlink") /\ full' \in SUBSET full /\ UNCHANGED status
        BY <2>6 DEF Unlinks
      <3>2. \A t : <<"markDue", t>> \in ToSet(run.todo) => <<"markDue", t>> \in ToSet(run'.todo)
        BY <2>2, <3>1
      <3> QED
        BY <2>1, <3>1, <3>2 DEF FullDue, ToMark
    <2>7. CASE Opens
      <3>1. /\ At("open") /\ run.mutation.op = "reopen" /\ Arg \in Cycles
            /\ Owner[Arg] \in Students /\ UNCHANGED full
            /\ status' = [status EXCEPT ![Arg] = "open"]
        BY <2>7 DEF Opens
      <3>2. PICK a \in Cycles : a = Arg
        BY <3>1
      <3>3. \A t \in Cycles \ {a} : status'[t] = status[t]
        BY <2>20, <3>1, <3>2
      <3>4. <<"open", a>> \in ToSet(run.todo) /\ <<"unlink", a>> \notin ToSet(run.todo)
        <4>1. /\ ToSet(run.todo) = {<<"open", Arg>>} \union ToSet(Tail(run.todo))
              /\ \A x \in ToSet(Tail(run.todo)) : x[1] \notin {"link", "unlink"}
          BY <3>1, AtHead, TailOK
        <4> QED
          BY <1>0, <3>2, <4>1
      <3>5. a \notin full
        BY <2>21, <3>1, <3>2, <3>4 DEF Ahead
      <3> QED
        BY <2>1, <3>1, <3>3, <3>5 DEF FullDue, ToMark
    <2>8. CASE Resets
      <3>1. At("reset") /\ UNCHANGED <<full, status>>
        BY <2>8 DEF Resets
      <3> QED
        BY <2>1, <2>2, <3>1, FullDueWhen DEF ToMark
    <2>9. CASE SetsOpening
      <3>1. /\ run.mutation.op = "configure" /\ Arg \in Cycles
            /\ \/ UNCHANGED <<full, status>>
               \/ full' = full \union {Arg} /\ status' = [status EXCEPT ![Arg] = "due"]
               \/ full' = full \ {Arg} /\ status' = [status EXCEPT ![Arg] = "open"]
        BY <2>9 DEF SetsOpening
      <3>2. PICK a \in Cycles : a = Arg
        BY <3>1
      <3>3. \A t \in Cycles : status'[t] = "open" /\ t \in full' => status[t] = "open" /\ t \in full
        BY <2>20, <3>1, <3>2
      <3> QED
        BY <2>1, <3>1, <3>3 DEF FullDue, ToMark
    <2> QED
      BY <1>12, TeachCases, <2>3, <2>4, <2>5, <2>6, <2>7, <2>8, <2>9
  <1>13. CASE Finish
    <2>1. run.todo = <<>> /\ UNCHANGED <<tutoring, unfinished>>
      BY <1>13, FinishCases
    <2>2. ToSet(run.todo) = {}
      BY <2>1, PendingNever
    <2> QED
      BY <2>1, <2>2, FullDueWhen DEF tutoring
  <1>14. CASE WorkerDies
    <2>1. UNCHANGED tutoring /\ unfinished' = unfinished \union {run.mutation}
      BY <1>14, DiesCases
    <2>2. ASSUME NEW t \in Cycles, <<"markDue", t>> \in ToSet(run.todo)
          PROVE  run.mutation.op = "complete" /\ run.mutation.target = t
      <3>1. TaskOf(run.mutation, <<"markDue", t>>)
        BY <2>2 DEF Base, TodoOK
      <3> QED
        BY <3>1, HeadOf
    <2> QED
      BY <2>1, <2>2, FullDueWhen DEF tutoring, ToMark
  <1> QED
    BY <1>1, <1>2, <1>3, <1>4, <1>5, <1>6, <1>7, <1>8, <1>9, <1>10, <1>11, <1>12, <1>13, <1>14
       DEF Next

-----------------------------------------------------------------------------
(* The states of cycles.                                                   *)

(* Only a handler that ends has just been completed.                       *)
LEMMA NotJustDone ==
    ASSUME \/ last' = Ended(NoMutation, "done")
           \/ \E m : last' = Ended(m, "refused")
    PROVE  ~JustDone({"complete", "reopen"})'
  <1>1. NoMutation.op \notin {"complete", "reopen"}
    BY NoMutationIsNone
  <1>2. Ended(NoMutation, "done").mutation = NoMutation
        /\ \A m : Ended(m, "refused").how = "refused"
    BY DEF Ended
  <1> QED
    BY <1>1, <1>2 DEF JustDone

(* Nothing changes what the state of a cycle should be.                    *)
LEMMA TruthSame ==
    ASSUME UNCHANGED <<receipts, alloc, full, price>>
    PROVE  \A c : Truth(c)' = Truth(c)
  <1>1. \A c : Outstanding(c)' = Outstanding(c)
    BY MoneySame
  <1> QED
    BY <1>1 DEF Truth

(* A step that leaves the cycles as right as they were.                    *)
LEMMA StatusesWhen ==
    ASSUME Statuses, ~JustDone({"complete", "reopen"})',
           run'.mutation.op \in {"complete", "reopen"} =>
             /\ run.mutation.op \in {"complete", "reopen"}
             /\ \A c \in Cycles : Owner[c] \in Students /\ ToState(c) => ToState(c)'
    PROVE  Statuses'
  <1>1. JustDone({"complete", "reopen"})' => FALSE
    OBVIOUS
  <1> QED
    BY <1>1 DEF Statuses

(* Every step keeps the states of the cycles right.                        *)
LEMMA StatusesStep ==
    ASSUME Base, Statuses, Next
    PROVE  Statuses'
  <1>0. NoMutation.op \notin {"complete", "reopen"}
    BY NoMutationIsNone
  <1>01. ASSUME NEW m, m.op \in {"complete", "reopen"} PROVE Hooked(m) = Students
    BY <1>01 DEF Hooked
  <1>1. CASE New \/ SendAgain
    <2>1. PICK m \in AllMutations :
             /\ Start(m) /\ mutations' \in Nat
             /\ m.op \in Corrections => receipts[m.receipt].state # "none"
      BY <1>1, Sent
    <2>2. (run' = Idle /\ last' = Ended(m, "refused")) \/ Begins(m)
      BY <2>1, StartCases
    <2>3. CASE run' = Idle /\ last' = Ended(m, "refused")
      <3>1. run'.mutation.op \notin {"complete", "reopen"}
        BY <1>0, <2>3, PendingNever
      <3>2. ~JustDone({"complete", "reopen"})'
        BY <2>3, NotJustDone
      <3> QED
        BY <3>1, <3>2, StatusesWhen
    <2>4. CASE Begins(m)
      <3>1. /\ run'.mutation = m /\ run'.students = Hooked(m)
            /\ last' = Ended(NoMutation, "done")
        BY <2>4 DEF Begins
      <3>2. ~JustDone({"complete", "reopen"})'
        BY <3>1, NotJustDone
      <3>3. m.op \in {"complete", "reopen"} => run'.students = Students
        BY <1>01, <3>1
      <3>4. JustDone({"complete", "reopen"})' => FALSE
        BY <3>2
      <3> QED
        BY <3>1, <3>3, <3>4 DEF Statuses, ToState
    <2> QED
      BY <2>2, <2>3, <2>4
  <1>2. CASE Insert \/ Change \/ Delete \/ Restore
    <2>1. /\ run.mutation.op \in {"create", "update", "delete", "restore"}
          /\ \/ run'.mutation = run.mutation /\ last' = last
             \/ Refuse
          /\ \E k : At(k)
      BY <1>2, InsertCases, ChangeCases, DeleteCases DEF Goes
    <2>2. last = Ended(NoMutation, "done") /\ run.mutation \in AllMutations
      BY <2>1, AtHead
    <2>3. ~JustDone({"complete", "reopen"})'
      BY <2>1, <2>2, NotJustDone DEF Refuse
    <2>4. run'.mutation.op \notin {"complete", "reopen"}
      BY <1>0, <2>1, <2>2, RefuseCases
    <2> QED
      BY <2>3, <2>4, StatusesWhen
  <1>5. CASE Rebuild \/ Teach
    <2>1. /\ \E k \in Statements \union {"rebuild"} : At(k)
          /\ run'.mutation = run.mutation /\ run'.students = run.students /\ last' = last
      <3>1. CASE Rebuild
        BY <3>1, RebuildCases DEF Goes
      <3>2. CASE Teach
        BY <3>2, TeachCases
           DEF Goes, Attends, Links, MarksDue, Unlinks, Opens, Resets, SetsOpening, Statements
      <3> QED
        BY <1>5, <3>1, <3>2
    <2>2. PICK k \in Statements \union {"rebuild"} : At(k)
      BY <2>1
    <2>3. k # "normalize"
      BY DEF Statements
    <2>4. run.students = Hooked(run.mutation)
      BY <2>2, <2>3, HeadStudents
    <2>5. last = Ended(NoMutation, "done")
      BY <2>2, AtHead
    <2>6. ~JustDone({"complete", "reopen"})'
      BY <2>1, <2>5, NotJustDone
    <2>7. JustDone({"complete", "reopen"})' => FALSE
      BY <2>6
    <2>8. run'.mutation.op \in {"complete", "reopen"} => run'.students = Students
      BY <1>01, <2>1, <2>4
    <2> QED
      BY <2>7, <2>8 DEF Statuses, ToState
  <1>6. CASE Reconcile
    <2>1. PICK p \in run.students :
             /\ p \in Students /\ run.todo = <<>> /\ run.cycles = {}
             /\ run'.mutation = run.mutation /\ run'.todo = <<<<"normalize", p>>>>
             /\ run'.students = run.students \ {p}
             /\ last = Ended(NoMutation, "done") /\ last' = last
             /\ UNCHANGED <<receipts, alloc, tutoring>>
      BY <1>6, ReconcileCases DEF Goes
    <2>2. <<"normalize", p>> \in ToSet(run'.todo)
      <3>1. <<"normalize", p>> \in AllTasks
        BY <2>1, TaskTypes
      <3> QED
        BY <2>1, <3>1, ShortTwo
    <2>3. ~JustDone({"complete", "reopen"})'
      BY <2>1, NotJustDone
    <2>4. ToSet(run.todo) = {}
      BY <2>1, PendingNever
    <2>5. \A c : Truth(c)' = Truth(c)
      BY <2>1, TruthSame DEF tutoring
    <2>6. \A c \in Cycles : ToState(c) => ToState(c)'
      BY <2>1, <2>2, <2>4, <2>5 DEF ToState, tutoring
    <2> QED
      BY <2>1, <2>3, <2>6, StatusesWhen
  <1>7. CASE Collect \/ List
    <2>1. /\ run'.mutation = run.mutation /\ run'.todo = run.todo
          /\ run'.students = run.students
          /\ UNCHANGED <<receipts, alloc, tutoring, last>>
          /\ \E st : Collecting(st)
      BY <1>7, CollectCases, ListCases DEF Goes
    <2>2. run.cycles = {} /\ last = Ended(NoMutation, "done")
      BY <2>1, AtReceipt
    <2>3. ~JustDone({"complete", "reopen"})'
      BY <2>1, <2>2, NotJustDone
    <2>4. \A c : Truth(c)' = Truth(c)
      BY <2>1, TruthSame DEF tutoring
    <2>5. \A c \in Cycles : ToState(c) => ToState(c)'
      BY <2>1, <2>2, <2>4 DEF ToState, tutoring
    <2> QED
      BY <2>1, <2>3, <2>5, StatusesWhen
  <1>9. CASE Allocate
    <2>1. Collecting("allocate") /\ UNCHANGED <<receipts, tutoring>>
      BY <1>9, AllocateCases
    <2>2. /\ last = Ended(NoMutation, "done") /\ run.mutation \in AllMutations
          /\ run.cycles = {} /\ run.queue # {} /\ Receipt \in run.queue
          /\ run.step = "allocate"
      BY <2>1, AtReceipt
    <2>3. CASE Refuse
      <3>1. ~JustDone({"complete", "reopen"})'
        BY <2>3, NotJustDone DEF Refuse
      <3>2. run'.mutation.op \notin {"complete", "reopen"}
        BY <1>0, <2>2, <2>3, RefuseCases
      <3> QED
        BY <3>1, <3>2, StatusesWhen
    <2>4. ASSUME run'.mutation = run.mutation, run'.todo = run.todo,
                 run'.students = run.students, last' = last, UNCHANGED alloc
          PROVE  Statuses'
      <3>1. ~JustDone({"complete", "reopen"})'
        BY <2>2, <2>4, NotJustDone
      <3>2. \A c : Truth(c)' = Truth(c)
        BY <2>1, <2>4, TruthSame DEF tutoring
      <3>3. \A c \in Cycles : ToState(c) => ToState(c)'
        BY <2>1, <2>2, <2>4, <3>2 DEF ToState, tutoring
      <3> QED
        BY <2>4, <3>1, <3>3, StatusesWhen
    <2>5. ASSUME NEW t \in Targets, Pays(t), alloc[Receipt][t] = 0, Live(Receipt),
                 Writes(Receipt, t, Share(t)), UNCHANGED last
          PROVE  Statuses'
      <3>1. \A u \in Targets \ {t} : Outstanding(u)' = Outstanding(u)
        BY <2>1, <2>5, PaidStep
      <3>2. /\ run'.mutation = run.mutation /\ run'.todo = run.todo
            /\ run'.students = run.students /\ t \in run.ahead
        BY <2>5 DEF Pays, Goes
      <3>3. Owner[t] = receipts[Receipt].payer
        BY <2>2, <3>2 DEF Base, QueueOK, OwedBy
      <3>4. \/ run.students = Hooked(run.mutation)
            \/ <<"normalize", Owner[t]>> \in ToSet(run.todo)
        BY <2>2, <3>3 DEF Base, QueueOK
      <3>5. ~JustDone({"complete", "reopen"})'
        BY <2>2, <2>5, NotJustDone
      <3>6. ASSUME run.mutation.op \in {"complete", "reopen"}, NEW c \in Cycles,
                   Owner[c] \in Students, ToState(c)
            PROVE  ToState(c)'
        <4>1. CASE run.students = Hooked(run.mutation)
          BY <1>01, <3>2, <3>6, <4>1 DEF ToState
        <4>2. CASE run.students # Hooked(run.mutation) /\ c = t
          BY <3>2, <3>4, <4>2 DEF ToState
        <4>3. CASE c # t
          <5>1. Outstanding(c)' = Outstanding(c)
            BY <3>1, <4>3, TypeFacts DEF Base
          <5>2. Truth(c)' = Truth(c)
            BY <2>1, <5>1 DEF Truth, tutoring
          <5> QED
            BY <2>1, <2>2, <3>2, <3>6, <5>2 DEF ToState, tutoring
        <4> QED
          BY <4>1, <4>2, <4>3
      <3> QED
        BY <3>2, <3>5, <3>6, StatusesWhen
    <2>6. \/ /\ run'.mutation = run.mutation /\ run'.todo = run.todo
             /\ run'.students = run.students /\ last' = last /\ UNCHANGED alloc
          \/ Refuse
          \/ \E t \in Targets : /\ Pays(t) /\ alloc[Receipt][t] = 0 /\ Live(Receipt)
                                /\ Writes(Receipt, t, Share(t)) /\ UNCHANGED last
      BY <1>9, AllocateCases DEF Goes, Pays
    <2> QED
      BY <2>3, <2>4, <2>5, <2>6
  <1>10. CASE Normalize
    <2>1. /\ At("normalize") /\ run'.mutation = run.mutation /\ run'.todo = Tail(run.todo)
          /\ run'.students = run.students /\ run'.cycles = CyclesOf(Arg)
          /\ UNCHANGED <<receipts, alloc, tutoring, last>>
      BY <1>10, NormalizeCases DEF Goes
    <2>2. last = Ended(NoMutation, "done") /\ run.cycles = {}
      BY <2>1, AtHead
    <2>3. ~JustDone({"complete", "reopen"})'
      BY <2>1, <2>2, NotJustDone
    <2>4. \A c : Truth(c)' = Truth(c)
      BY <2>1, TruthSame DEF tutoring
    <2>5. \A p : <<"normalize", p>> \in ToSet(run.todo) =>
            <<"normalize", p>> \in ToSet(run'.todo) \/ p = Arg
      BY <2>1, PendingTail
    <2>6. \A c \in Cycles : Owner[c] = Arg => c \in run'.cycles
      BY <2>1 DEF CyclesOf
    <2>7. \A c \in Cycles : ToState(c) => ToState(c)'
      BY <2>1, <2>2, <2>4, <2>5, <2>6 DEF ToState, tutoring
    <2> QED
      BY <2>1, <2>3, <2>7, StatusesWhen
  <1>11. CASE NormalizeCycle
    <2>1. PICK c \in Cycles :
             /\ status' = [status EXCEPT ![c] = Truth(c)] /\ run # Idle
             /\ run'.mutation = run.mutation /\ run'.todo = run.todo
             /\ run'.students = run.students /\ run'.cycles = run.cycles \ {c}
             /\ UNCHANGED <<receipts, alloc, full, price, last>>
      BY <1>11, NormalizeCycleCases DEF Goes
    <2>2. \A d : Truth(d)' = Truth(d)
      BY <2>1, TruthSame
    <2>3. \A d \in Cycles : status'[d] = IF d = c THEN Truth(c) ELSE status[d]
      BY <2>1 DEF Base, TypeOK
    <2>4. last = Ended(NoMutation, "done")
      BY <2>1 DEF Base, TodoOK
    <2>5. ~JustDone({"complete", "reopen"})'
      BY <2>1, <2>4, NotJustDone
    <2> HIDE DEF Truth
    <2>6. \A d \in Cycles : ToState(d) => ToState(d)'
      BY <2>1, <2>2, <2>3 DEF ToState
    <2> QED
      BY <2>1, <2>5, <2>6, StatusesWhen
  <1>13. CASE Finish
    <2>1. /\ run' = Idle /\ last' = Ended(run.mutation, "done")
          /\ run.todo = <<>> /\ run.cycles = {} /\ run.students = {}
          /\ UNCHANGED <<receipts, alloc, tutoring>>
      BY <1>13, FinishCases
    <2>2. /\ ToSet(run.todo) = {} /\ run'.mutation = NoMutation
      BY <2>1, PendingNever
    <2>3. \A c : Truth(c)' = Truth(c)
      BY <2>1, TruthSame DEF tutoring
    <2>4. JustDone({"complete", "reopen"})' => run.mutation.op \in {"complete", "reopen"}
      BY <2>1 DEF JustDone, Ended
    <2>5. run.mutation.op \in {"complete", "reopen"} => \A c \in Cycles :
            Owner[c] \in Students => status[c] = Truth(c)
      BY <2>1, <2>2 DEF Statuses, ToState
    <2>6. JustDone({"complete", "reopen"})' => \A c \in Cycles :
            Owner[c] \in Students => status'[c] = Truth(c)'
      BY <2>1, <2>3, <2>4, <2>5 DEF tutoring
    <2> QED
      BY <1>0, <2>2, <2>6 DEF Statuses
  <1>14. CASE WorkerDies
    <2>1. run' = Idle /\ last' = last /\ last = Ended(NoMutation, "done")
      BY <1>14, DiesCases
    <2>2. ~JustDone({"complete", "reopen"})'
      BY <2>1, NotJustDone
    <2>3. run'.mutation.op \notin {"complete", "reopen"}
      BY <1>0, <2>1, PendingNever
    <2> QED
      BY <2>2, <2>3, StatusesWhen
  <1> QED
    BY <1>1, <1>2, <1>5, <1>6, <1>7, <1>9, <1>10, <1>11, <1>13, <1>14 DEF Next

-----------------------------------------------------------------------------
(* Money lies on what is owed.                                             *)

(* A step that pays for nothing new and leaves the cycles alone.           *)
LEMMA MoneyOwedWhen ==
    ASSUME Base, MoneyOwed, NothingPaid,
           \A t \in Targets : Owner[t] \in Students /\ Owing(t) =>
             Owing(t)' \/ ToRelease(Owner[t])',
           \A p \in Students : ToRelease(p) => ToRelease(p)',
           UNCHANGED <<status, full>>,
           \A t \in Cycles : Owner[t] \in Students /\ ToOpen(t) => ToOpen(t)'
    PROVE  MoneyOwed'
  <1>1. \A r \in Receipts, t \in Targets : alloc'[r][t] > 0 => alloc[r][t] > 0
    BY DEF NothingPaid
  <1>2. \A r \in Receipts, t \in Targets : alloc'[r][t] > 0 /\ Owner[t] \in Students =>
          Owing(t)' \/ ToRelease(Owner[t])'
    BY <1>1 DEF MoneyOwed
  <1>3. \A t \in Cycles : Owner[t] \in Students /\ status'[t] # "open" /\ t \notin full' =>
          ToOpen(t)'
    BY DEF MoneyOwed
  <1> QED
    BY <1>2, <1>3 DEF MoneyOwed

(* What holds of every step that leaves lessons, cycles and history alone. *)
LEMMA MoneyOwedSame ==
    ASSUME Base, MoneyOwed, NothingPaid, UNCHANGED <<tutoring, halfway, unfinished>>,
           \A p \in Students : Pending(p) /\ run.mutation.op \in {"reopen", "configure"} =>
             run'.mutation = run.mutation /\ Pending(p)',
           \A t \in Cycles : <<"open", t>> \in ToSet(run.todo) /\ run.mutation.op = "reopen" =>
             run'.mutation = run.mutation /\ <<"open", t>> \in ToSet(run'.todo)
    PROVE  MoneyOwed'
  <1>1. \A p \in Students : ToRelease(p) => ToRelease(p)'
    BY DEF ToRelease
  <1>2. \A t \in Cycles : ToOpen(t) => ToOpen(t)'
    BY DEF ToOpen
  <1>3. \A t : Owing(t)' <=> Owing(t)
    BY OwedSame DEF tutoring
  <1>4. UNCHANGED <<status, full>>
    BY DEF tutoring
  <1> QED
    BY <1>1, <1>2, <1>3, <1>4, MoneyOwedWhen

(* Every step leaves money on what is owed only.                           *)
LEMMA MoneyOwedStep ==
    ASSUME Base, MoneyOwed, Next
    PROVE  MoneyOwed'
  <1>0. ~Allocate => NothingPaid
    BY PaidByCollecting
  <1>01. \A s, x : <<s, x>>[1] = s
    OBVIOUS
  <1>02. status \in [Cycles -> {"open", "due", "paid"}] /\ Ahead(run.mutation, run.todo)
    BY DEF Base, TypeOK, TodoOK
  <1>1. CASE New \/ SendAgain
    <2>1. PICK m \in AllMutations :
             /\ Start(m) /\ mutations' \in Nat
             /\ m.op \in Corrections => receipts[m.receipt].state # "none"
      BY <1>1, Sent
    <2>2. /\ run = Idle /\ UNCHANGED <<alloc, tutoring, history>>
          /\ unfinished' = unfinished \ {m}
          /\ m.op = "update" \/ Begins(m)
      BY <2>1, StartCases
    <2>3. NothingPaid
      BY <2>2 DEF NothingPaid
    <2>4. \A p : ~Pending(p)
      BY <2>2, PendingNever
    <2>5. ToSet(run.todo) = {}
      BY <2>2, PendingNever
    <2>6. ASSUME NEW p \in Students, ToRelease(p)
          PROVE  ToRelease(p)'
      <3>1. CASE p \in halfway
        BY <2>2, <3>1 DEF ToRelease, history
      <3>2. ASSUME NEW u \in unfinished, u.op = "configure", Owner[u.target] = p
            PROVE  ToRelease(p)'
        <4>1. CASE u # m
          BY <2>2, <3>2, <4>1 DEF ToRelease
        <4>2. CASE u = m
          <5>1. /\ TasksOK(m) /\ run'.mutation = m /\ run'.todo = Tasks(m)
                /\ m.op = "configure" /\ Owner[m.target] = p
            BY <2>2, <3>2, <4>2 DEF Begins
          <5>2. m.op \in Corrections => receipts[m.receipt].payer \in Payers
            BY <2>1, SentPayer
          <5>3. <<"rebuild", Owner[m.target]>> \in ToSet(Tasks(m))
            BY <5>1, <5>2, StartsWith
          <5> QED
            BY <5>1, <5>3 DEF ToRelease, Pending
        <4> QED
          BY <4>1, <4>2
      <3> QED
        BY <2>4, <2>6, <3>1, <3>2 DEF ToRelease
    <2>7. \A t \in Cycles : ToOpen(t) => ToOpen(t)'
      BY <2>2, <2>5 DEF ToOpen, history
    <2>8. \A t : Owing(t)' <=> Owing(t)
      BY <2>2, OwedSame DEF tutoring
    <2>9. UNCHANGED <<status, full>>
      BY <2>2 DEF tutoring
    <2> QED
      BY <2>3, <2>6, <2>7, <2>8, <2>9, MoneyOwedWhen
  <1>2. CASE Insert
    <2>1. run.mutation.op = "create" /\ UNCHANGED <<alloc, tutoring, history, unfinished>>
      BY <1>2, InsertCases
    <2>2. NothingPaid
      BY <2>1 DEF NothingPaid
    <2> QED
      BY <2>1, <2>2, MoneyOwedSame DEF history
  <1>3. CASE Change
    <2>1. run.mutation.op = "update" /\ UNCHANGED <<tutoring, history, unfinished>>
      BY <1>3, ChangeCases
    <2>2. NothingPaid
      BY <1>3, <1>0 DEF Allocate, Collecting, Change, At
    <2> QED
      BY <2>1, <2>2, MoneyOwedSame DEF history
  <1>4. CASE Delete \/ Restore
    <2>1. /\ run.mutation.op \in {"delete", "restore"}
          /\ UNCHANGED <<alloc, tutoring, halfway, unfinished>>
      BY <1>4, DeleteCases DEF history
    <2>2. NothingPaid
      BY <2>1 DEF NothingPaid
    <2> QED
      BY <2>1, <2>2, MoneyOwedSame
  <1>5. CASE Rebuild
    <2>1. /\ At("rebuild") /\ Arg \in Payers /\ alloc' = Wiped(Arg)
          /\ run'.mutation = run.mutation /\ run'.todo = Tail(run.todo)
          /\ UNCHANGED <<receipts, tutoring, halfway, unfinished>>
      BY <1>5, RebuildCases DEF Goes
    <2>2. PICK p \in Payers : p = Arg
      BY <2>1
    <2>3. \A t \in Targets : Owner[t] = p => \A s \in Receipts : alloc'[s][t] = 0
      <3>1. alloc' = Wiped(p) /\ UNCHANGED <<receipts, price>>
        BY <2>1, <2>2 DEF tutoring
      <3> QED
        BY <3>1, MoneyWiped
    <2>4. \A q : Pending(q) => Pending(q)' \/ q = p
      BY <2>1, <2>2, PendingTail
    <2>5. \A t : <<"open", t>> \in ToSet(run.todo) => <<"open", t>> \in ToSet(run'.todo)
      BY <2>1, PendingTail
    <2>6. NothingPaid
      BY <2>1 DEF NothingPaid, Wiped, Nothing
    <2>7. \A t : Owing(t)' <=> Owing(t)
      BY <2>1, OwedSame DEF tutoring
    <2>8. ASSUME NEW r \in Receipts, NEW t \in Targets, alloc'[r][t] > 0, Owner[t] \in Students
          PROVE  Owing(t)' \/ ToRelease(Owner[t])'
      <3>1. alloc[r][t] > 0 /\ Owner[t] # p
        BY <2>3, <2>6, <2>8 DEF NothingPaid
      <3>2. Owing(t) \/ ToRelease(Owner[t])
        BY <2>8, <3>1 DEF MoneyOwed
      <3>3. Pending(Owner[t]) => Pending(Owner[t])'
        BY <2>4, <3>1
      <3> QED
        BY <2>1, <2>7, <3>2, <3>3 DEF ToRelease
    <2>9. \A t \in Cycles : ToOpen(t) => ToOpen(t)'
      BY <2>1, <2>5 DEF ToOpen
    <2> QED
      BY <2>1, <2>8, <2>9 DEF MoneyOwed, tutoring
  <1>6. CASE Reconcile
    <2>1. /\ run.todo = <<>> /\ UNCHANGED <<alloc, tutoring, history, unfinished>>
      BY <1>6, ReconcileCases
    <2>2. NothingPaid /\ (\A p : ~Pending(p)) /\ ToSet(run.todo) = {}
      BY <2>1, PendingNever DEF NothingPaid
    <2> QED
      BY <2>1, <2>2, MoneyOwedSame DEF history
  <1>7. CASE Collect \/ List
    <2>1. /\ run'.mutation = run.mutation /\ run'.todo = run.todo
          /\ UNCHANGED <<alloc, tutoring, history, unfinished>>
      BY <1>7, CollectCases, ListCases DEF Goes
    <2>2. NothingPaid /\ \A p : Pending(p)' <=> Pending(p)
      BY <2>1, PendingNever DEF NothingPaid
    <2> QED
      BY <2>1, <2>2, MoneyOwedSame DEF history
  <1>9. CASE Allocate
    <2>1. /\ run.queue # {} /\ ~Left(run.todo)
          /\ UNCHANGED <<tutoring, history, unfinished>>
      BY <1>9, AllocateCases, AtReceipt
    <2>2. run.mutation.op # "update" => \A p \in Students : ~Pending(p)
      BY <2>1, PendingQueue
    <2>3. \A t : <<"open", t>> \notin ToSet(run.todo)
      BY <1>01, <2>1 DEF Left, Statements
    <2>4. CASE NothingPaid
      BY <2>1, <2>2, <2>3, <2>4, MoneyOwedSame DEF history
    <2>5. CASE \E t \in Targets, r \in Receipts :
                /\ Owing(t) /\ Owner[t] = receipts[r].payer /\ alloc'[r][t] > 0
                /\ \A s \in Receipts, u \in Targets :
                     (s = r /\ u = t) \/ alloc'[s][u] = alloc[s][u]
      <3>1. PICK t \in Targets, r \in Receipts :
                /\ Owing(t)
                /\ \A s \in Receipts, u \in Targets :
                     (s = r /\ u = t) \/ alloc'[s][u] = alloc[s][u]
        BY <2>5
      <3>2. \A u : Owing(u)' <=> Owing(u)
        BY <2>1, OwedSame DEF tutoring
      <3>3. \A p \in Students : ToRelease(p) => ToRelease(p)'
        BY <2>1, <2>2 DEF ToRelease, history
      <3>4. \A u \in Cycles : ToOpen(u) => ToOpen(u)'
        BY <2>1, <2>3 DEF ToOpen, history
      <3>5. ASSUME NEW s \in Receipts, NEW u \in Targets, alloc'[s][u] > 0, Owner[u] \in Students
            PROVE  Owing(u)' \/ ToRelease(Owner[u])'
        <4>1. CASE s = r /\ u = t
          BY <3>1, <3>2, <4>1
        <4>2. CASE alloc'[s][u] = alloc[s][u]
          BY <3>2, <3>3, <3>5, <4>2 DEF MoneyOwed
        <4> QED
          BY <3>1, <4>1, <4>2
      <3> QED
        BY <2>1, <3>4, <3>5 DEF MoneyOwed, tutoring
    <2> QED
      BY <1>9, CollectingPays, <2>4, <2>5
  <1>10. CASE Normalize
    <2>1. /\ At("normalize") /\ run'.mutation = run.mutation /\ run'.todo = Tail(run.todo)
          /\ UNCHANGED <<alloc, tutoring, history, unfinished>>
      BY <1>10, NormalizeCases DEF Goes
    <2>2. /\ \A p : Pending(p) => Pending(p)'
          /\ \A t : <<"open", t>> \in ToSet(run.todo) => <<"open", t>> \in ToSet(run'.todo)
      BY <2>1, PendingTail
    <2>3. NothingPaid
      BY <2>1 DEF NothingPaid
    <2> QED
      BY <2>1, <2>2, <2>3, MoneyOwedSame DEF history
  <1>11. CASE NormalizeCycle
    <2>1. PICK c \in Cycles :
             /\ run.cycles # {} /\ status' = [status EXCEPT ![c] = Truth(c)]
             /\ run'.mutation = run.mutation /\ run'.todo = run.todo
             /\ UNCHANGED <<alloc, lesson, full, unfinished, history>>
      BY <1>11, NormalizeCycleCases DEF Goes
    <2>2. Truth(c) = "open" <=> c \notin full
      BY DEF Truth
    <2>3. \A t \in Cycles : status'[t] = IF t = c THEN Truth(c) ELSE status[t]
      BY <1>02, <2>1
    <2> HIDE DEF Truth
    <2>4. \A t : <<"open", t>> \notin ToSet(run.todo)
      <3>1. ~Left(run.todo)
        BY <2>1 DEF Base, TodoOK
      <3> QED
        BY <1>01, <3>1 DEF Left, Statements
    <2>5. \A t \in Cycles : Owner[t] \in Students /\ status[t] # "open" /\ t \notin full =>
            Owner[t] \in halfway
      BY <2>4 DEF MoneyOwed, ToOpen
    <2>6. \A p : Pending(p)' <=> Pending(p)
      BY <2>1, PendingNever
    <2>7. \A p \in Students : ToRelease(p) => ToRelease(p)'
      BY <2>1, <2>6 DEF ToRelease, history
    <2>8. \A p \in halfway : ToRelease(p)'
      BY <2>1 DEF ToRelease, history
    <2>9. \A t \in Targets : Owner[t] \in Students /\ Owing(t) =>
            Owing(t)' \/ ToRelease(Owner[t])'
      BY <2>1, <2>2, <2>3, <2>5, <2>8 DEF Owing
    <2>10. \A r \in Receipts, t \in Targets : alloc'[r][t] > 0 /\ Owner[t] \in Students =>
             Owing(t)' \/ ToRelease(Owner[t])'
      BY <2>1, <2>7, <2>9 DEF MoneyOwed
    <2>11. \A t \in Cycles : Owner[t] \in Students /\ status'[t] # "open" /\ t \notin full' =>
             ToOpen(t)'
      BY <2>1, <2>2, <2>3, <2>5 DEF ToOpen, history
    <2> QED
      BY <2>10, <2>11 DEF MoneyOwed
  <1>12. CASE Teach
    <2>1. /\ run'.mutation = run.mutation /\ run'.todo = Tail(run.todo)
          /\ UNCHANGED <<alloc, unfinished>>
      BY <1>12, TeachCases DEF Goes
    <2>2. NothingPaid
      BY <2>1 DEF NothingPaid
    <2>3. ASSUME NEW k, At(k), k \in Statements, halfway \in SUBSET halfway'
          PROVE  /\ \A p : Pending(p) => Pending(p)'
                 /\ \A p \in Students : ToRelease(p) => ToRelease(p)'
                 /\ \A t : <<"open", t>> \in ToSet(run.todo) =>
                      <<"open", t>> \in ToSet(run'.todo) \/ (k = "open" /\ t = Arg)
                 /\ k # "open" => \A t \in Cycles : ToOpen(t) => ToOpen(t)'
      <3>1. k # "rebuild"
        BY <2>3 DEF Statements
      <3>2. \A p : Pending(p) => Pending(p)'
        BY <2>1, <2>3, <3>1, PendingTail
      <3>3. \A t : <<"open", t>> \in ToSet(run.todo) =>
              <<"open", t>> \in ToSet(run'.todo) \/ (k = "open" /\ t = Arg)
        BY <2>1, <2>3, PendingTail
      <3> QED
        BY <2>1, <2>3, <3>2, <3>3 DEF ToRelease, ToOpen
    <2>4. CASE Attends \/ Links \/ MarksDue
      <3>1. /\ At("attend") \/ At("link") \/ At("markDue")
            /\ halfway' = halfway /\ lesson \in SUBSET lesson' /\ full \in SUBSET full'
            /\ \A t \in Cycles : status[t] # "open" => status'[t] # "open"
        BY <1>02, <2>4 DEF Attends, Links, MarksDue
      <3>2. /\ \A p \in Students : ToRelease(p) => ToRelease(p)'
            /\ \A t \in Cycles : ToOpen(t) => ToOpen(t)'
        BY <2>3, <3>1 DEF Statements
      <3>3. \A t \in Targets : Owing(t) => Owing(t)'
        BY <3>1 DEF Owing
      <3>4. \A t \in Cycles : Owner[t] \in Students /\ status'[t] # "open" /\ t \notin full' =>
              status[t] # "open" /\ t \notin full
        <4>1. CASE Attends \/ Links
          BY <3>1, <4>1 DEF Attends, Links
        <4>2. CASE MarksDue
          <5>1. /\ At("markDue") /\ run.mutation.op = "complete" /\ Arg \in Cycles
                /\ Owner[Arg] \in Students /\ UNCHANGED full
                /\ status' = [status EXCEPT ![Arg] = IF @ = "open" THEN "due" ELSE @]
            BY <4>2 DEF MarksDue
          <5>2. PICK a \in Cycles : a = Arg
            BY <5>1
          <5>3. <<"markDue", a>> \in ToSet(run.todo) /\ <<"link", a>> \notin ToSet(run.todo)
            <6>1. /\ ToSet(run.todo) = {<<"markDue", Arg>>} \union ToSet(Tail(run.todo))
                  /\ \A x \in ToSet(Tail(run.todo)) : x[1] \notin {"link", "unlink"}
              BY <5>1, AtHead, TailOK
            <6> QED
              BY <1>01, <5>2, <6>1
          <5>4. a \in full
            BY <1>02, <5>1, <5>2, <5>3 DEF Ahead
          <5>5. \A t \in Cycles \ {a} : status'[t] = status[t]
            BY <1>02, <5>1, <5>2
          <5> QED
            BY <5>1, <5>4, <5>5
        <4> QED
          BY <2>4, <4>1, <4>2
      <3>5. \A r \in Receipts, t \in Targets : alloc'[r][t] > 0 /\ Owner[t] \in Students =>
              Owing(t)' \/ ToRelease(Owner[t])'
        BY <2>1, <3>2, <3>3 DEF MoneyOwed
      <3>6. \A t \in Cycles : Owner[t] \in Students /\ status'[t] # "open" /\ t \notin full' =>
              ToOpen(t)'
        BY <3>2, <3>4 DEF MoneyOwed
      <3> QED
        BY <3>5, <3>6 DEF MoneyOwed
    <2>6. CASE Unlinks
      <3>1. /\ At("unlink") /\ run.mutation.op = "reopen" /\ Arg \in Cycles
            /\ full' = full \ {Arg} /\ UNCHANGED <<lesson, status, halfway>>
        BY <2>6 DEF Unlinks
      <3>2. PICK a \in Cycles : a = Arg
        BY <3>1
      <3>3. /\ \A p \in Students : ToRelease(p) => ToRelease(p)'
            /\ \A t \in Cycles : ToOpen(t) => ToOpen(t)'
            /\ \A t : <<"open", t>> \in ToSet(run.todo) => <<"open", t>> \in ToSet(run'.todo)
        BY <2>3, <3>1 DEF Statements
      <3>4. Owner[a] \in Students => <<"open", a>> \in ToSet(run.todo)
        <4>1. <<"unlink", a>> \in ToSet(run.todo)
          BY <3>1, <3>2, AtHead
        <4> QED
          BY <1>02, <3>1, <4>1 DEF Ahead
      <3>5. \A t : Owing(t)' <=> Owing(t)
        BY <3>1, OwedSame
      <3>6. \A r \in Receipts, t \in Targets : alloc'[r][t] > 0 /\ Owner[t] \in Students =>
              Owing(t)' \/ ToRelease(Owner[t])'
        BY <2>1, <3>3, <3>5 DEF MoneyOwed
      <3>7. \A t \in Cycles : Owner[t] \in Students /\ status'[t] # "open" /\ t \notin full' =>
              ToOpen(t)'
        <4> SUFFICES ASSUME NEW t \in Cycles, Owner[t] \in Students, status'[t] # "open",
                            t \notin full'
                     PROVE  ToOpen(t)'
          OBVIOUS
        <4>1. CASE t = a
          BY <2>1, <3>1, <3>3, <3>4, <4>1 DEF ToOpen
        <4>2. CASE t # a
          BY <3>1, <3>2, <3>3, <4>2 DEF MoneyOwed
        <4> QED
          BY <4>1, <4>2
      <3> QED
        BY <3>6, <3>7 DEF MoneyOwed
    <2>7. CASE Opens
      <3>1. /\ At("open") /\ run.mutation.op = "reopen" /\ Arg \in Cycles
            /\ Arg = run.mutation.target /\ Owner[Arg] \in Students
            /\ status' = [status EXCEPT ![Arg] = "open"]
            /\ UNCHANGED <<lesson, full, halfway>>
        BY <2>7 DEF Opens
      <3>2. PICK a \in Cycles : a = Arg
        BY <3>1
      <3>3. /\ \A p : Pending(p) => Pending(p)'
            /\ \A p \in Students : ToRelease(p) => ToRelease(p)'
            /\ \A t : <<"open", t>> \in ToSet(run.todo) =>
                 <<"open", t>> \in ToSet(run'.todo) \/ t = a
        BY <2>3, <3>1, <3>2 DEF Statements
      <3>4. Pending(Owner[a])
        <4>1. "open" \in Statements /\ a \notin AbsentPayer
          BY AllocationAssumption DEF Statements
        <4>2. Owner[run.mutation.target] \in Students
                /\ run.mutation.target \notin AbsentPayer =>
                Pending(Owner[run.mutation.target])
          BY <3>1, <4>1, PendingFor
        <4> QED
          BY <3>1, <3>2, <4>1, <4>2
      <3>5. \A t \in Cycles : status'[t] = IF t = a THEN "open" ELSE status[t]
        BY <1>02, <3>1, <3>2
      <3>50. Pending(Owner[a])'
        BY <3>3, <3>4
      <3>6. ToRelease(Owner[a])'
        BY <2>1, <3>1, <3>50 DEF ToRelease
      <3>7. \A t \in Targets : Owing(t) => Owing(t)' \/ t = a
        BY <3>1, <3>5 DEF Owing
      <3>8. \A r \in Receipts, t \in Targets : alloc'[r][t] > 0 /\ Owner[t] \in Students =>
              Owing(t)' \/ ToRelease(Owner[t])'
        BY <2>1, <3>3, <3>6, <3>7 DEF MoneyOwed
      <3>9. \A t \in Cycles : Owner[t] \in Students /\ status'[t] # "open" /\ t \notin full' =>
              ToOpen(t)'
        <4> SUFFICES ASSUME NEW t \in Cycles, Owner[t] \in Students, status'[t] # "open",
                            t \notin full'
                     PROVE  ToOpen(t)'
          OBVIOUS
        <4>1. t # a /\ ToOpen(t)
          BY <3>1, <3>5 DEF MoneyOwed
        <4> QED
          BY <2>1, <3>1, <3>3, <4>1 DEF ToOpen
      <3> QED
        BY <3>8, <3>9 DEF MoneyOwed
    <2>8. CASE Resets
      <3>1. /\ At("reset") /\ run.mutation.op = "reopen" /\ Arg \in Targets
            /\ Arg = run.mutation.target /\ lesson' = lesson \ {Arg}
            /\ halfway' = IF Arg \in AbsentPayer THEN halfway \union {Owner[Arg]} ELSE halfway
            /\ UNCHANGED <<full, status>>
        BY <2>8 DEF Resets
      <3>2. PICK a \in Targets : a = Arg
        BY <3>1
      <3>3. halfway \in SUBSET halfway' /\ (a \in AbsentPayer => Owner[a] \in halfway')
        BY <3>1, <3>2
      <3>4. /\ \A p : Pending(p) => Pending(p)'
            /\ \A p \in Students : ToRelease(p) => ToRelease(p)'
            /\ \A t \in Cycles : ToOpen(t) => ToOpen(t)'
        BY <2>3, <3>1, <3>3 DEF Statements
      <3>5. Owner[a] \in Students /\ a \notin AbsentPayer => Pending(Owner[a])
        <4>1. "reset" \in Statements
          BY DEF Statements
        <4>2. Owner[run.mutation.target] \in Students
                /\ run.mutation.target \notin AbsentPayer =>
                Pending(Owner[run.mutation.target])
          BY <3>1, <4>1, PendingFor
        <4> QED
          BY <3>1, <3>2, <4>2
      <3>50. Owner[a] \in Students /\ a \notin AbsentPayer => Pending(Owner[a])'
        BY <3>4, <3>5
      <3>6. Owner[a] \in Students => ToRelease(Owner[a])'
        BY <2>1, <3>1, <3>3, <3>50 DEF ToRelease
      <3>7. \A t \in Targets : Owing(t) => Owing(t)' \/ t = a
        BY <3>1, <3>2 DEF Owing
      <3> QED
        BY <2>2, <3>1, <3>4, <3>6, <3>7, MoneyOwedWhen
    <2>9. CASE SetsOpening
      <3>1. /\ At("opening") /\ run.mutation.op = "configure" /\ Arg \in Cycles
            /\ Arg = run.mutation.target /\ Owner[Arg] \in Students
            /\ \/ UNCHANGED <<full, status>>
               \/ full' = full \union {Arg} /\ status' = [status EXCEPT ![Arg] = "due"]
               \/ full' = full \ {Arg} /\ status' = [status EXCEPT ![Arg] = "open"]
            /\ UNCHANGED <<lesson, halfway>>
        BY <2>9 DEF SetsOpening
      <3>2. PICK a \in Cycles : a = Arg
        BY <3>1
      <3>3. /\ \A p : Pending(p) => Pending(p)'
            /\ \A p \in Students : ToRelease(p) => ToRelease(p)'
            /\ \A t \in Cycles : ToOpen(t) => ToOpen(t)'
        BY <2>3, <3>1 DEF Statements
      <3>4. Pending(Owner[a])'
        <4>1. "opening" \in Statements
          BY DEF Statements
        <4>2. Pending(Owner[run.mutation.target])
          BY <3>1, <4>1, PendingFor
        <4>3. Pending(Owner[a])
          BY <3>1, <3>2, <4>2
        <4> QED
          BY <3>3, <4>3
      <3>5. /\ \A t \in Cycles \ {a} : status'[t] = status[t] /\ (t \in full' <=> t \in full)
            /\ status'[a] # "open" /\ a \notin full' => status[a] # "open" /\ a \notin full
        BY <1>02, <3>1, <3>2
      <3>6. ToRelease(Owner[a])'
        BY <2>1, <3>1, <3>4 DEF ToRelease
      <3>7. \A t \in Targets : Owing(t) => Owing(t)' \/ t = a
        BY <3>1, <3>5 DEF Owing
      <3>8. \A r \in Receipts, t \in Targets : alloc'[r][t] > 0 /\ Owner[t] \in Students =>
              Owing(t)' \/ ToRelease(Owner[t])'
        BY <2>1, <3>3, <3>6, <3>7 DEF MoneyOwed
      <3>9. \A t \in Cycles : Owner[t] \in Students /\ status'[t] # "open" /\ t \notin full' =>
              ToOpen(t)'
        BY <3>3, <3>5 DEF MoneyOwed
      <3> QED
        BY <3>8, <3>9 DEF MoneyOwed
    <2> QED
      BY <1>12, TeachCases, <2>4, <2>6, <2>7, <2>8, <2>9
  <1>13. CASE Finish
    <2>1. /\ run.todo = <<>> /\ UNCHANGED <<alloc, tutoring, history, unfinished>>
      BY <1>13, FinishCases
    <2>2. NothingPaid /\ (\A p : ~Pending(p)) /\ ToSet(run.todo) = {}
      BY <2>1, PendingNever DEF NothingPaid
    <2> QED
      BY <2>1, <2>2, MoneyOwedSame DEF history
  <1>14. CASE WorkerDies
    <2>1. /\ UNCHANGED <<alloc, tutoring>> /\ unfinished' = unfinished \union {run.mutation}
          /\ halfway \in SUBSET halfway'
          /\ run.mutation.op = "reopen" => \A p \in Students : Pending(p) => p \in halfway'
      BY <1>14, DiesCases
    <2>2. NothingPaid
      BY <2>1 DEF NothingPaid
    <2>3. ASSUME NEW p \in Students, Pending(p), run.mutation.op = "configure"
          PROVE  Owner[run.mutation.target] = p
      <3>1. TaskOf(run.mutation, <<"rebuild", p>>)
        BY <2>3 DEF Base, TodoOK, Pending
      <3> QED
        BY <2>3, <3>1, HeadOf DEF Corrections
    <2>4. \A p \in Students : ToRelease(p) => ToRelease(p)'
      <3> SUFFICES ASSUME NEW p \in Students, ToRelease(p) PROVE ToRelease(p)'
        OBVIOUS
      <3>1. CASE p \in halfway
        BY <2>1, <3>1 DEF ToRelease
      <3>2. CASE run.mutation.op = "reopen" /\ Pending(p)
        BY <2>1, <3>2 DEF ToRelease
      <3>3. CASE run.mutation.op = "configure" /\ Pending(p)
        BY <2>1, <2>3, <3>3 DEF ToRelease
      <3>4. CASE \E m \in unfinished : m.op = "configure" /\ Owner[m.target] = p
        BY <2>1, <3>4 DEF ToRelease
      <3> QED
        BY <3>1, <3>2, <3>3, <3>4 DEF ToRelease
    <2>5. \A t \in Cycles : Owner[t] \in Students /\ ToOpen(t) => ToOpen(t)'
      <3> SUFFICES ASSUME NEW t \in Cycles, Owner[t] \in Students, ToOpen(t) PROVE ToOpen(t)'
        OBVIOUS
      <3>1. CASE Owner[t] \in halfway
        BY <2>1, <3>1 DEF ToOpen
      <3>2. CASE run.mutation.op = "reopen" /\ <<"open", t>> \in ToSet(run.todo)
        <4>1. TaskOf(run.mutation, <<"open", t>>)
          BY <3>2 DEF Base, TodoOK
        <4>2. t = run.mutation.target
          BY <4>1, HeadOf
        <4>3. Left(run.todo) /\ t \notin AbsentPayer
          BY <1>01, <3>2, AllocationAssumption DEF Left, Statements
        <4>4. Pending(Owner[t])
          BY <1>02, <3>2, <4>2, <4>3 DEF Ahead, Pending
        <4> QED
          BY <2>1, <3>2, <4>4 DEF ToOpen
      <3> QED
        BY <3>1, <3>2 DEF ToOpen
    <2>6. \A t : Owing(t)' <=> Owing(t)
      BY <2>1, OwedSame DEF tutoring
    <2>7. UNCHANGED <<status, full>>
      BY <2>1 DEF tutoring
    <2> QED
      BY <2>2, <2>4, <2>5, <2>6, <2>7, MoneyOwedWhen
  <1> QED
    BY <1>1, <1>2, <1>3, <1>4, <1>5, <1>6, <1>7, <1>9, <1>10, <1>11, <1>12, <1>13, <1>14
       DEF Next

-----------------------------------------------------------------------------
(* What is collected conflicts with nothing.                               *)

(* Neither the receipts nor what they pay for change,                      *)
LEMMA ClearSame ==
    ASSUME Base, UNCHANGED <<receipts, alloc>>, NEW p, Clear(p),
           \A r \in ReceiptsOf(p), t \in Targets : alloc[r][t] > 0 => price'[t] = price[t]
    PROVE  Clear(p)'
  <1>1. /\ \A r : Spent(r)' = Spent(r)
        /\ ReceiptsOf(p)' = ReceiptsOf(p)
        /\ \A t : price'[t] = price[t] => Outstanding(t)' = Outstanding(t)
    BY MoneySame
  <1> QED
    BY <1>1 DEF Clear

(* ... or one receipt does that pays for nothing of the payer's.           *)
LEMMA ClearOfOne ==
    ASSUME Base, NEW p, NEW q \in Receipts, Clear(p), alloc' \in Allocations,
           \A s \in Receipts \ {q} : receipts'[s] = receipts[s] /\ alloc'[s] = alloc[s],
           \A t \in Targets : Owner[t] = p => alloc[q][t] = 0 /\ alloc'[q][t] = 0,
           receipts'[q].payer = p => \A t \in Targets : alloc'[q][t] = 0,
           UNCHANGED price
    PROVE  Clear(p)'
  <1>1. TypeOK
    BY DEF Base
  <1>2. /\ \A s \in Receipts \ {q} : Spent(s)' = Spent(s)
        /\ \A t \in Targets : alloc[q][t] = 0 /\ alloc'[q][t] = 0 =>
             Allocated(t)' = Allocated(t)
    BY <1>1, MoneyOfOne
  <1> SUFFICES ASSUME NEW r \in ReceiptsOf(p)', NEW t \in Targets, alloc'[r][t] > 0,
                      Spent(r)' < receipts'[r].amount
               PROVE  Outstanding(t)' <= 0
    BY DEF Clear
  <1>3. r \in Receipts /\ receipts'[r].state = "live" /\ receipts'[r].payer = p
    BY NextViews
  <1>4. r # q
    BY <1>3
  <1>5. receipts'[r] = receipts[r] /\ alloc'[r] = alloc[r] /\ Spent(r)' = Spent(r)
    BY <1>2, <1>3, <1>4
  <1>6. r \in ReceiptsOf(p) /\ alloc[r][t] > 0 /\ Spent(r) < receipts[r].amount
    BY <1>3, <1>5, Views
  <1>7. Owner[t] = p
    BY <1>3, <1>5, <1>6 DEF Base, RowsOK
  <1>8. Allocated(t)' = Allocated(t)
    BY <1>2, <1>7
  <1>9. Outstanding(t)' = Outstanding(t)
    BY <1>8, Views, NextViews
  <1> QED
    BY <1>6, <1>9 DEF Clear

(* A step that leaves the rows and the receipt being collected alone.      *)
LEMMA NoConflictWhen ==
    ASSUME Base, NoConflict, UNCHANGED <<receipts, alloc, price>>,
           \A p \in Students : Orderable(p)' => Orderable(p),
           \/ run'.step = "collect"
           \/ run'.queue = run.queue /\ run'.left = run.left /\ run.step # "collect"
    PROVE  NoConflict'
  <1>1. \A p : Clear(p) => Clear(p)'
    BY ClearSame
  <1>2. Whole'
    <2>1. CASE run'.step = "collect"
      BY <2>1 DEF Whole
    <2>2. CASE run'.queue = run.queue /\ run'.left = run.left /\ run.step # "collect"
      <3>1. /\ Receipt' = Receipt
            /\ \A r : Spent(r)' = Spent(r) /\ (Live(r)' <=> Live(r))
        BY <2>2, MoneySame
      <3> QED
        BY <2>2, <3>1 DEF NoConflict, Whole
    <2> QED
      BY <2>1, <2>2
  <1> QED
    BY <1>1, <1>2 DEF NoConflict

(* What is collected of an orderly student's receipt meets no allocation   *)
(* of that receipt.                                                        *)
LEMMA NothingLeft ==
    ASSUME Base, NoConflict, Collecting("allocate"), NEW r \in Receipts, r = Receipt, Live(r),
           NEW t \in Targets, Outstanding(t) > 0, run.left > 0, alloc[r][t] > 0,
           NEW p \in Students, receipts[r].payer = p, Orderable(p)
    PROVE  FALSE
  <1>1. run.step = "allocate"
    BY AtReceipt
  <1>2. run.left + Spent(r) = receipts[r].amount
    BY <1>1 DEF NoConflict, Whole
  <1>3. /\ Spent(r) \in Nat /\ receipts[r].amount \in Nat /\ run.left \in Nat
        /\ Outstanding(t) \in Int
    BY TypeFacts DEF Base
  <1>4. Spent(r) < receipts[r].amount
    BY <1>2, <1>3
  <1>5. r \in ReceiptsOf(p)
    BY DEF ReceiptsOf
  <1>6. Outstanding(t) <= 0
    BY <1>4, <1>5 DEF NoConflict, Clear
  <1> QED
    BY <1>3, <1>6

(* No step brings about a conflict.                                        *)
LEMMA NoConflictStep ==
    ASSUME Base, LessonMoney, NoConflict, Next
    PROVE  NoConflict'
  <1>0. \A p \in Students : Orderable(p) => Clear(p)
    BY DEF NoConflict
  <1>1. CASE New \/ SendAgain
    <2>1. PICK m \in AllMutations :
             /\ Start(m) /\ mutations' \in Nat
             /\ m.op \in Corrections => receipts[m.receipt].state # "none"
      BY <1>1, Sent
    <2>2. /\ run = Idle /\ UNCHANGED <<receipts, alloc, tutoring, history>>
          /\ run' = Idle \/ Begins(m)
      BY <2>1, StartCases
    <2>3. run'.step = "collect" /\ run'.queue = {}
      BY <2>2, IdleFacts DEF Begins
    <2>4. \A p : ~Pending(p)
      BY <2>2, PendingNever
    <2>5. \A p \in Students : Orderable(p)' => Orderable(p)
      BY <2>2, <2>3, <2>4 DEF Orderable, history
    <2> QED
      BY <2>2, <2>3, <2>5, NoConflictWhen DEF tutoring
  <1>2. CASE Insert
    <2>1. /\ At("insert") /\ Arg \in Receipts /\ run.mutation.op = "create"
          /\ \/ run'.mutation = run.mutation /\ run'.todo = Tail(run.todo)
                /\ run'.step = "collect"
             \/ run' = Idle
          /\ \/ UNCHANGED receipts
             \/ /\ receipts[Arg].state = "none"
                /\ receipts' = [receipts EXCEPT ![Arg] = Received(run.mutation)]
          /\ UNCHANGED <<alloc, tutoring, history>>
      BY <1>2, InsertCases DEF Goes, Refuse
    <2>2. run'.step = "collect" /\ (run'.queue = {} \/ run'.mutation.op = "create")
      BY <2>1, IdleFacts
    <2>3. \A p : ~Pending(p)
      <3> SUFFICES ASSUME NEW p, Pending(p) PROVE FALSE
        OBVIOUS
      <3>1. TaskOf(run.mutation, <<"rebuild", p>>)
        BY DEF Base, TodoOK, Pending
      <3>2. run.mutation.op \in Corrections \union {"reopen", "configure"}
        BY <3>1, HeadOf
      <3> QED
        BY <2>1, <3>2 DEF Corrections
    <2>4. \A p \in Students : Orderable(p)' => Orderable(p)
      BY <2>1, <2>2, <2>3 DEF Orderable, history
    <2>5. CASE UNCHANGED receipts
      BY <2>1, <2>2, <2>4, <2>5, NoConflictWhen DEF tutoring
    <2>6. CASE /\ receipts[Arg].state = "none"
               /\ receipts' = [receipts EXCEPT ![Arg] = Received(run.mutation)]
      <3>1. PICK q \in Receipts : q = Arg
        BY <2>1
      <3>2. \A t \in Targets : alloc[q][t] = 0
        BY <2>6, <3>1 DEF Base, RowsOK
      <3>3. /\ \A s \in Receipts \ {q} : receipts'[s] = receipts[s] /\ alloc'[s] = alloc[s]
            /\ UNCHANGED <<alloc, price>>
        BY <2>1, <2>6, <3>1 DEF Base, TypeOK, tutoring
      <3>4. alloc' \in Allocations /\ \A t \in Targets : alloc'[q][t] = 0
        BY <3>2, <3>3, TypeFacts DEF Base
      <3>5. \A p : Clear(p) => Clear(p)'
        BY <3>2, <3>3, <3>4, ClearOfOne
      <3> QED
        BY <1>0, <2>2, <2>4, <3>5 DEF NoConflict, Whole
    <2> QED
      BY <2>1, <2>5, <2>6
  <1>3. CASE Change \/ Delete \/ Restore
    <2>1. /\ \E k \in Statements : At(k)
          /\ Arg \in Receipts /\ Arg = run.mutation.receipt
          /\ run.mutation.op \in Corrections
          /\ \/ /\ run.mutation.op = "update" /\ receipts'[Arg].payer = run.mutation.payer
                /\ \A t \in Targets : alloc'[Arg][t] = 0
             \/ receipts'[Arg].payer = receipts[Arg].payer /\ UNCHANGED alloc
          /\ alloc' \in Allocations
          /\ \A s \in Receipts \ {Arg} : receipts'[s] = receipts[s] /\ alloc'[s] = alloc[s]
          /\ run'.mutation = run.mutation /\ run'.todo = Tail(run.todo)
          /\ run'.queue = {} /\ run'.step = "collect"
          /\ UNCHANGED <<behind, halfway, price>>
      <3>1. CASE Change
        <4>1. Received(run.mutation).payer = run.mutation.payer
          BY <3>1, ChangeCases, ReceivedRow
        <4>2. "change" \in Statements
          BY DEF Statements
        <4> QED
          BY <3>1, <4>1, <4>2, ChangeCases DEF Goes, tutoring, history, Corrections
      <3>2. CASE Delete \/ Restore
        <4>1. "delete" \in Statements /\ "restore" \in Statements
          BY DEF Statements
        <4>2. alloc \in Allocations
          BY TypeFacts DEF Base
        <4> QED
          BY <3>2, <4>1, <4>2, DeleteCases DEF Goes, tutoring, history, Corrections
      <3> QED
        BY <1>3, <3>1, <3>2
    <2>2. PICK k \in Statements : At(k)
      BY <2>1
    <2>3. PICK q \in Receipts : q = Arg
      BY <2>1
    <2>4. \A p : Pending(p) => Pending(p)'
      BY <2>1, <2>2, PendingTail DEF Statements
    <2>5. \A p \in Students : p = receipts[q].payer \/ p = receipts'[q].payer => Pending(p)
      BY <2>1, <2>2, <2>3, PendingFor
    <2>6. \A p \in Students : Orderable(p)' => Orderable(p) /\ ~Pending(p)
      BY <2>1, <2>4 DEF Orderable
    <2>7. ASSUME NEW p \in Students, Orderable(p)' PROVE Clear(p)'
      <3>1. Clear(p) /\ p # receipts[q].payer /\ p # receipts'[q].payer
        BY <1>0, <2>5, <2>6, <2>7
      <3>2. \A t \in Targets : Owner[t] = p => alloc[q][t] = 0
        BY <3>1, PaidOwner
      <3>3. \A t \in Targets : Owner[t] = p => alloc[q][t] = 0 /\ alloc'[q][t] = 0
        BY <2>1, <2>3, <3>2
      <3> QED
        BY <2>1, <2>3, <3>1, <3>3, ClearOfOne
    <2> QED
      BY <2>1, <2>7 DEF NoConflict, Whole
  <1>5. CASE Rebuild
    <2>1. /\ At("rebuild") /\ Arg \in Students /\ Arg \in Payers /\ alloc' = Wiped(Arg)
          /\ behind' = behind \ {Arg}
          /\ run'.mutation = run.mutation /\ run'.todo = Tail(run.todo)
          /\ run'.step = "collect" /\ run'.queue = ReceiptsOf(Arg)
          /\ UNCHANGED <<receipts, price, halfway>>
      BY <1>5, RebuildCases DEF Goes, tutoring
    <2>2. PICK q \in Payers : q = Arg
      BY <2>1
    <2>3. alloc' = Wiped(q) /\ UNCHANGED <<receipts, price>>
      BY <2>1, <2>2
    <2>4. /\ \A p : ReceiptsOf(p)' = ReceiptsOf(p)
          /\ \A s \in Receipts : receipts[s].payer # q =>
               alloc'[s] = alloc[s] /\ Spent(s)' = Spent(s)
          /\ \A s \in Receipts : receipts[s].payer = q => \A t \in Targets : alloc'[s][t] = 0
          /\ \A t \in Targets : Owner[t] # q => Outstanding(t)' = Outstanding(t)
      BY <2>3, MoneyWiped
    <2>5. \A p : Pending(p) => Pending(p)' \/ p = q
      BY <2>1, <2>2, PendingTail
    <2>6. \A r \in run'.queue : receipts'[r].payer = q
      BY <2>1, <2>2, Views
    <2>7. \A p \in Students : Orderable(p)' /\ p # q => Orderable(p)
      BY <2>1, <2>2, <2>5, <2>6 DEF Orderable
    <2>8. \A p : \A r \in ReceiptsOf(p) : r \in Receipts /\ receipts[r].payer = p
      BY Views
    <2>9. ASSUME NEW p \in Students, Orderable(p)' PROVE Clear(p)'
      <3>1. CASE p = q
        BY <2>4, <2>8, <3>1 DEF Clear
      <3>2. CASE p # q
        <4>1. Clear(p)
          BY <1>0, <2>7, <2>9, <3>2
        <4> SUFFICES ASSUME NEW r \in ReceiptsOf(p), NEW t \in Targets, alloc'[r][t] > 0,
                            Spent(r)' < receipts[r].amount
                     PROVE  Outstanding(t)' <= 0
          BY <2>3, <2>4 DEF Clear
        <4>2. alloc[r][t] > 0 /\ Spent(r) < receipts[r].amount /\ r \in Receipts
          BY <2>4, <2>8, <3>2
        <4>3. Owner[t] = p
          BY <2>8, <4>2 DEF Base, RowsOK
        <4> QED
          BY <2>4, <3>2, <4>1, <4>2, <4>3 DEF Clear
      <3> QED
        BY <3>1, <3>2
    <2> QED
      BY <2>1, <2>9 DEF NoConflict, Whole
  <1>6. CASE Reconcile
    <2>1. PICK p \in run.students :
             /\ run.todo = <<>> /\ run.queue = {}
             /\ run'.mutation = run.mutation /\ run'.step = "collect"
             /\ run'.students = run.students \ {p}
             /\ UNCHANGED <<receipts, alloc, tutoring, history>>
      BY <1>6, ReconcileCases DEF Goes
    <2>2. \A x : ~Pending(x)
      BY <2>1, PendingNever
    <2>3. p \in Hooked(run.mutation) /\ Hooked(run.mutation)' = Hooked(run.mutation)
      BY <2>1 DEF Base, TodoOK, Hooked
    <2>4. \A x \in Students : Orderable(x)' => Orderable(x)
      BY <2>1, <2>2, <2>3 DEF Orderable, history
    <2> QED
      BY <2>1, <2>4, NoConflictWhen DEF tutoring
  <1>7. CASE Collect
    <2>1. /\ run.queue # {} /\ Receipt \in Receipts
          /\ Spent(Receipt) <= receipts[Receipt].amount
          /\ UNCHANGED <<receipts, alloc, tutoring, history>>
          /\ run'.mutation = run.mutation /\ run'.todo = run.todo
          /\ run'.students = run.students /\ run'.queue \in SUBSET run.queue
          /\ \/ run'.step = "collect"
             \/ run'.queue = run.queue /\ run'.left = Remaining(Receipt)
      BY <1>7, CollectCases, AtReceipt DEF Goes
    <2>2. \A x : Pending(x)' <=> Pending(x)
      BY <2>1, PendingNever
    <2>3. \A x \in Students : Orderable(x)' => Orderable(x)
      BY <2>1, <2>2 DEF Orderable, history, Hooked
    <2>4. CASE run'.step = "collect"
      BY <2>1, <2>3, <2>4, NoConflictWhen DEF tutoring
    <2>5. CASE run'.queue = run.queue /\ run'.left = Remaining(Receipt)
      <3>1. \A p : Clear(p) => Clear(p)'
        BY <2>1, ClearSame DEF tutoring
      <3>2. /\ Receipt' = Receipt
            /\ \A r : Spent(r)' = Spent(r) /\ (Live(r)' <=> Live(r))
        BY <2>1, <2>5, MoneySame
      <3>3. Live(Receipt) => Remaining(Receipt) + Spent(Receipt) = receipts[Receipt].amount
        BY <2>1, RemainingIsNat
      <3>4. Whole'
        BY <2>1, <2>5, <3>2, <3>3 DEF Whole
      <3> QED
        BY <1>0, <2>3, <3>1, <3>4 DEF NoConflict
    <2> QED
      BY <2>1, <2>4, <2>5
  <1>8. CASE List
    <2>1. /\ run.step = "list"
          /\ UNCHANGED <<receipts, alloc, tutoring, history>>
          /\ run'.mutation = run.mutation /\ run'.todo = run.todo
          /\ run'.students = run.students /\ run'.queue = run.queue
          /\ run'.left = run.left
      BY <1>8, ListCases, AtReceipt DEF Goes
    <2>2. \A x : Pending(x)' <=> Pending(x)
      BY <2>1, PendingNever
    <2>3. \A x \in Students : Orderable(x)' => Orderable(x)
      BY <2>1, <2>2 DEF Orderable, history, Hooked
    <2> QED
      BY <2>1, <2>3, NoConflictWhen DEF tutoring
  <1>9. CASE Allocate
    <2>1. /\ Collecting("allocate") /\ UNCHANGED <<receipts, tutoring, history>>
      BY <1>9, AllocateCases
    <2>2. /\ run.queue # {} /\ Receipt \in Receipts /\ Receipt \in run.queue
          /\ run.step = "allocate" /\ run.mutation \in AllMutations
      BY <2>1, AtReceipt
    <2>3. PICK r \in Receipts : r = Receipt
      BY <2>2
    <2>4. Spent(r) \in Nat /\ receipts[r].amount \in Nat /\ run.left \in Nat
      BY TypeFacts DEF Base
    <2>5. ASSUME NEW t \in Targets, Outstanding(t) > 0, run.left > 0, alloc[r][t] > 0,
                 Live(r), NEW p \in Students, receipts[r].payer = p, Orderable(p)
          PROVE  FALSE
      BY <2>1, <2>3, <2>5, NothingLeft
    <2>6. ASSUME run'.mutation = run.mutation, run'.todo = run.todo,
                 run'.students = run.students, run'.queue \in SUBSET run.queue
          PROVE  \A x \in Students : Orderable(x)' => Orderable(x)
      <3>1. \A x : Pending(x)' <=> Pending(x)
        BY <2>6, PendingNever
      <3> QED
        BY <2>1, <2>6, <3>1 DEF Orderable, history, Hooked
    <2>7. CASE /\ Goes(run.todo, run.queue \ {Receipt}, "collect", {}, run.students, 0, {})
               /\ UNCHANGED alloc
      <3>1. \A x \in Students : Orderable(x)' => Orderable(x)
        BY <2>6, <2>7 DEF Goes
      <3>2. run'.step = "collect"
        BY <2>7 DEF Goes
      <3> QED
        BY <2>1, <2>7, <3>1, <3>2, NoConflictWhen DEF tutoring
    <2>8. ASSUME NEW t \in Targets, Outstanding(t) > 0, run.left > 0,
                 alloc[r][t] = Share(t), Pays(t), UNCHANGED alloc
          PROVE  NoConflict'
      <3>1. /\ run'.mutation = run.mutation /\ run'.todo = run.todo
            /\ run'.students = run.students /\ run'.queue = run.queue
            /\ Share(t) \in Nat \ {0}
        BY <2>8 DEF Pays, Goes
      <3>2. \A x \in Students : Orderable(x)' => Orderable(x)
        BY <2>6, <3>1
      <3>3. alloc[r][t] > 0
        BY <2>8, <3>1
      <3>4. \A p : Clear(p) => Clear(p)'
        BY <2>1, <2>8, ClearSame DEF tutoring
      <3>5. /\ Receipt' = Receipt
            /\ \A s : Live(s)' <=> Live(s)
        BY <2>1, <2>8, <3>1, MoneySame
      <3>6. \A p \in Students : Live(r) /\ receipts[r].payer = p => ~Orderable(p)
        BY <2>5, <2>8, <3>3
      <3>7. Whole'
        BY <2>1, <2>3, <3>2, <3>5, <3>6 DEF Whole
      <3> QED
        BY <1>0, <3>2, <3>4, <3>7 DEF NoConflict
    <2>9. ASSUME NEW t \in Targets, Outstanding(t) > 0, run.left > 0,
                 alloc[Receipt][t] = 0, Live(Receipt), Pays(t), Writes(Receipt, t, Share(t))
          PROVE  NoConflict'
      <3>1. /\ run'.mutation = run.mutation /\ run'.todo = run.todo
            /\ run'.students = run.students /\ run'.queue = run.queue
            /\ run'.left = run.left - Share(t)
            /\ Share(t) = run.left \/ Share(t) = Outstanding(t)
        BY <2>9 DEF Pays, Goes
      <3>2. \A y \in Students : Orderable(y)' => Orderable(y)
        BY <2>6, <3>1
      <3>3. PICK s \in Receipts, x \in Nat \ {0} :
              /\ s = Receipt /\ x = Share(t) /\ Receipt' = s
              /\ Live(s)
              /\ \A q \in Receipts \ {s} : alloc'[q] = alloc[q] /\ Spent(q)' = Spent(q)
              /\ \A u \in Targets \ {t} : \A q \in Receipts : alloc'[q][u] = alloc[q][u]
              /\ Spent(s)' = Spent(s) + x
              /\ \A u \in Targets \ {t} : Outstanding(u)' = Outstanding(u)
              /\ Outstanding(t)' = Outstanding(t) - x
              /\ \A p : ReceiptsOf(p)' = ReceiptsOf(p)
        BY <2>1, <2>9, PaidStep
      <3>4. Outstanding(t) \in Int
        BY TypeFacts DEF Base
      <3>5. s = r /\ (x = run.left \/ x = Outstanding(t)) /\ run'.left = run.left - x
        BY <2>3, <3>1, <3>3
      <3>6. Whole'
        <4> SUFFICES ASSUME NEW p \in Students, receipts[r].payer = p, Orderable(p)
                     PROVE  run'.left + Spent(r)' = receipts[r].amount
          BY <2>1, <2>3, <3>2, <3>3 DEF Whole
        <4>1. run.left + Spent(r) = receipts[r].amount
          BY <2>2, <2>3, <3>3 DEF NoConflict, Whole
        <4> QED
          BY <2>4, <3>3, <3>5, <4>1
      <3>7. ASSUME NEW p \in Students, Orderable(p) PROVE Clear(p)'
        <4>1. Clear(p)
          BY <1>0, <3>7
        <4> SUFFICES ASSUME NEW q \in ReceiptsOf(p), NEW u \in Targets, alloc'[q][u] > 0,
                            Spent(q)' < receipts[q].amount
                     PROVE  Outstanding(u)' <= 0
          BY <2>1, <3>3 DEF Clear
        <4>2. q \in Receipts /\ receipts[q].payer = p
          BY Views
        <4>3. Spent(q) < receipts[q].amount
          BY <2>4, <3>3, <3>5, <4>2
        <4>4. CASE u # t
          <5>1. alloc[q][u] > 0 /\ Outstanding(u)' = Outstanding(u)
            BY <3>3, <4>2, <4>4
          <5> QED
            BY <4>1, <4>3, <5>1 DEF Clear
        <4>5. CASE u = t /\ q # r
          <5>1. alloc[q][t] > 0
            BY <3>3, <3>5, <4>2, <4>5
          <5>2. Outstanding(t) <= 0
            BY <4>1, <4>3, <5>1 DEF Clear
          <5> QED
            BY <2>9, <3>4, <5>2
        <4>6. CASE u = t /\ q = r
          <5>1. run.left + Spent(r) = receipts[r].amount
            BY <2>2, <2>3, <3>3, <3>5, <3>7, <4>2, <4>6 DEF NoConflict, Whole
          <5>2. x # run.left
            BY <2>4, <3>3, <3>5, <4>6, <5>1
          <5> QED
            BY <3>3, <3>4, <3>5, <4>6, <5>2
        <4> QED
          BY <4>4, <4>5, <4>6
      <3> QED
        BY <3>2, <3>6, <3>7 DEF NoConflict
    <2>10. ASSUME NEW t \in Targets, Outstanding(t) > 0, run.left > 0,
                  alloc[r][t] > 0 \/ ~Live(r), Refuse, UNCHANGED alloc
           PROVE  NoConflict'
      <3>1. run'.queue = {} /\ run'.step = "collect"
        BY <2>2, <2>10, RefuseCases
      <3>2. run.mutation.op # "update" => \A p \in Students : ~Pending(p)
        BY <2>2, PendingQueue
      <3>3. run.mutation.op # "update"
        <4> SUFFICES ASSUME run.mutation.op = "update" PROVE FALSE
          OBVIOUS
        <4>1. Hooked(run.mutation) = {} /\ run.students = {}
          BY DEF Base, TodoOK, Hooked
        <4>2. Live(r) /\ receipts[r].payer \in Students
          BY <2>2, <2>3 DEF Base, QueueOK
        <4>3. Orderable(receipts[r].payer)
          BY <2>2, <2>3, <4>1 DEF Orderable
        <4> QED
          BY <2>5, <2>10, <4>2, <4>3
      <3>4. \A x \in Students : Orderable(x)' => Orderable(x)
        BY <2>1, <3>1, <3>2, <3>3 DEF Orderable, history
      <3> QED
        BY <2>1, <2>10, <3>1, <3>4, NoConflictWhen DEF tutoring
    <2>11. \/ /\ Goes(run.todo, run.queue \ {Receipt}, "collect", {}, run.students, 0, {})
              /\ UNCHANGED alloc
           \/ \E t \in Targets :
                /\ Outstanding(t) > 0 /\ run.left > 0
                /\ \/ alloc[Receipt][t] = Share(t) /\ Pays(t) /\ UNCHANGED alloc
                   \/ /\ alloc[Receipt][t] = 0 /\ Live(Receipt) /\ Pays(t)
                      /\ Writes(Receipt, t, Share(t))
                   \/ /\ alloc[Receipt][t] > 0 \/ ~Live(Receipt)
                      /\ Refuse /\ UNCHANGED alloc
      BY <1>9, AllocateCases
    <2> QED
      BY <2>3, <2>7, <2>8, <2>9, <2>10, <2>11
  <1>10. CASE Normalize
    <2>1. /\ At("normalize") /\ run'.todo = Tail(run.todo) /\ run.queue = {} /\ run'.queue = {}
          /\ run'.step = "collect"
          /\ UNCHANGED <<receipts, alloc, tutoring, history>>
      BY <1>10, NormalizeCases, AtHead DEF Goes
    <2>2. \A p : Pending(p) => Pending(p)'
      BY <2>1, PendingTail
    <2>3. \A x \in Students : Orderable(x)' => Orderable(x)
      BY <2>1, <2>2 DEF Orderable, history
    <2> QED
      BY <2>1, <2>3, NoConflictWhen DEF tutoring
  <1>11. CASE NormalizeCycle
    <2>1. /\ run'.mutation = run.mutation /\ run'.todo = run.todo
          /\ run'.students = run.students /\ run'.queue = run.queue
          /\ run'.left = run.left /\ run'.step = run.step
          /\ UNCHANGED <<receipts, alloc, price, history>>
      BY <1>11, NormalizeCycleCases DEF Goes
    <2>2. \A x : Pending(x)' <=> Pending(x)
      BY <2>1, PendingNever
    <2>3. \A x \in Students : Orderable(x)' => Orderable(x)
      BY <2>1, <2>2 DEF Orderable, history, Hooked
    <2> QED
      BY <2>1, <2>3, NoConflictWhen
  <1>12. CASE Teach
    <2>1. /\ run'.mutation = run.mutation /\ run'.todo = Tail(run.todo)
          /\ run'.queue = {} /\ run'.step = "collect"
          /\ UNCHANGED <<receipts, alloc, behind>>
      BY <1>12, TeachCases DEF Goes
    <2>2. /\ \E k \in Statements : At(k)
          /\ halfway \in SUBSET halfway'
      BY <1>12, TeachCases
         DEF Attends, Links, MarksDue, Unlinks, Opens, Resets, SetsOpening, Statements
    <2>3. PICK k \in Statements : At(k)
      BY <2>2
    <2>4. \A p : Pending(p) => Pending(p)'
      BY <2>1, <2>3, PendingTail DEF Statements
    <2>5. \A x \in Students : Orderable(x)' => Orderable(x) /\ x \notin halfway
      BY <2>1, <2>2, <2>4 DEF Orderable
    <2>6. CASE UNCHANGED price
      BY <2>1, <2>5, <2>6, NoConflictWhen
    <2>7. CASE Attends
      <3>1. /\ run.mutation.op = "complete" /\ Arg \in Targets
            /\ \A t \in Targets \ {Arg} : price'[t] = price[t]
            /\ Arg \in lesson => price' = price
            /\ Arg \in Cycles => price'[Arg] = CyclePrice
        BY <2>7 DEF Attends
      <3>2. PICK a \in Targets : a = Arg
        BY <3>1
      <3>3. \A t \in Cycles : price[t] = CyclePrice
        BY DEF Base, RowsOK
      <3>4. ASSUME NEW p \in Students, Orderable(p)' PROVE Clear(p)'
        <4>1. Clear(p) /\ p \notin halfway
          BY <1>0, <2>5, <3>4
        <4>2. ASSUME NEW r \in ReceiptsOf(p), NEW t \in Targets, alloc[r][t] > 0
              PROVE  price'[t] = price[t]
          <5>1. r \in Receipts /\ receipts[r].payer = p
            BY Views
          <5>2. Owner[t] = p
            BY <4>2, <5>1 DEF Base, RowsOK
          <5>3. t \notin Cycles => t \in lesson
            BY <3>1, <4>1, <4>2, <5>1, <5>2 DEF LessonMoney
          <5> QED
            BY <3>1, <3>2, <3>3, <5>3
        <4> QED
          BY <2>1, <4>1, <4>2, ClearSame
      <3> QED
        BY <2>1, <3>4 DEF NoConflict, Whole
    <2> QED
      BY <1>12, TeachCases, <2>6, <2>7
         DEF Links, MarksDue, Unlinks, Opens, Resets, SetsOpening
  <1>13. CASE Finish
    <2>1. /\ run' = Idle /\ \A p : ~Pending(p)
          /\ UNCHANGED <<receipts, alloc, tutoring, history>>
      BY <1>13, FinishCases
    <2>2. run'.queue = {} /\ run'.step = "collect"
      BY <2>1, IdleFacts
    <2>3. \A x \in Students : Orderable(x)' => Orderable(x)
      BY <2>1, <2>2 DEF Orderable, history
    <2> QED
      BY <2>1, <2>2, <2>3, NoConflictWhen DEF tutoring
  <1>14. CASE WorkerDies
    <2>1. /\ run' = Idle /\ UNCHANGED <<receipts, alloc, tutoring>>
          /\ \A p \in Students : Pending(p) => p \in behind' \union halfway'
          /\ behind \in SUBSET behind' /\ halfway \in SUBSET halfway'
      BY <1>14, DiesCases
    <2>2. run'.queue = {} /\ run'.step = "collect"
      BY <2>1, IdleFacts
    <2>3. \A x \in Students : Orderable(x)' => Orderable(x)
      BY <2>1, <2>2 DEF Orderable
    <2> QED
      BY <2>1, <2>2, <2>3, NoConflictWhen DEF tutoring
  <1> QED
    BY <1>1, <1>2, <1>3, <1>5, <1>6, <1>7, <1>8, <1>9, <1>10, <1>11, <1>12, <1>13, <1>14
       DEF Next

-----------------------------------------------------------------------------
(* Tutoring is not refused because of money.                               *)

(* No step refuses a tutoring mutation.                                    *)
LEMMA RefusedStep ==
    ASSUME Base, NoConflict, TutoringNeverRefused, Next
    PROVE  TutoringNeverRefused'
  <1>0. /\ NoMutation.op \notin Tutoring
        /\ \A m, h : Ended(m, h).mutation = m /\ Ended(m, h).how = h
    BY NoMutationIsNone DEF Tutoring, Ended
  <1>1. CASE New \/ SendAgain
    <2>1. PICK m \in AllMutations :
             /\ Start(m) /\ mutations' \in Nat
             /\ m.op \in Corrections => receipts[m.receipt].state # "none"
      BY <1>1, Sent
    <2>2. \/ m.op = "update" /\ last' = Ended(m, "refused")
          \/ last' = Ended(NoMutation, "done")
      BY <2>1, StartCases DEF Begins
    <2> QED
      BY <1>0, <2>2 DEF TutoringNeverRefused, Tutoring
  <1>2. CASE Insert
    <2>1. /\ run.mutation.op = "create" /\ At("insert")
          /\ last' = last \/ last' = Ended(run.mutation, "refused")
      BY <1>2, InsertCases DEF Refuse
    <2>2. last = Ended(NoMutation, "done")
      BY <2>1, AtHead
    <2> QED
      BY <1>0, <2>1, <2>2 DEF TutoringNeverRefused, Tutoring
  <1>3. CASE Allocate
    <2>1. /\ Collecting("allocate") /\ UNCHANGED history
          /\ \/ last' = last
             \/ \E t \in Targets :
                  /\ Outstanding(t) > 0 /\ run.left > 0
                  /\ alloc[Receipt][t] > 0 \/ ~Live(Receipt)
                  /\ last' = Ended(run.mutation, "refused")
      BY <1>3, AllocateCases DEF Refuse
    <2>2. /\ last = Ended(NoMutation, "done") /\ run.queue # {} /\ Receipt \in run.queue
          /\ Receipt \in Receipts
      BY <2>1, AtReceipt
    <2>3. CASE last' = last
      BY <1>0, <2>2, <2>3 DEF TutoringNeverRefused
    <2>4. ASSUME NEW t \in Targets, Outstanding(t) > 0, run.left > 0,
                 alloc[Receipt][t] > 0 \/ ~Live(Receipt),
                 last' = Ended(run.mutation, "refused"), run.mutation.op \in Tutoring,
                 behind \union halfway = {}
          PROVE  FALSE
      <3>1. PICK r \in Receipts : r = Receipt
        BY <2>2
      <3>2. run.mutation.op # "update" /\ run.mutation.op # "create"
        BY <2>4 DEF Tutoring
      <3>3. Live(r) /\ receipts[r].payer \in Students
        BY <2>2, <3>1, <3>2 DEF Base, QueueOK
      <3>4. PICK p \in Students : receipts[r].payer = p
        BY <3>3
      <3>5. ~Pending(p)
        BY <2>2, <3>2, PendingQueue
      <3>6. Orderable(p)
        BY <2>4, <3>5 DEF Orderable
      <3> QED
        BY <2>1, <2>4, <3>1, <3>3, <3>4, <3>6, NothingLeft
    <2> QED
      BY <1>0, <2>1, <2>3, <2>4 DEF TutoringNeverRefused, history
  <1>4. CASE Finish
    <2>1. last' = Ended(run.mutation, "done")
      BY <1>4, FinishCases
    <2> QED
      BY <1>0, <2>1 DEF TutoringNeverRefused
  <1>5. CASE \/ Change \/ Delete \/ Restore \/ Rebuild \/ Reconcile \/ Collect \/ List
             \/ Normalize \/ NormalizeCycle \/ Teach \/ WorkerDies
    <2>1. UNCHANGED last
      BY <1>5, ChangeCases, DeleteCases, RebuildCases, ReconcileCases, CollectCases, ListCases,
         NormalizeCases, NormalizeCycleCases, TeachCases, DiesCases
    <2>2. run # Idle
      <3>1. CASE \/ Change \/ Delete \/ Restore \/ Rebuild \/ Normalize \/ Teach
        <4>1. \E k : At(k)
          BY <3>1, ChangeCases, DeleteCases, RebuildCases, NormalizeCases, TeachCases
             DEF Attends, Links, MarksDue, Unlinks, Opens, Resets, SetsOpening
        <4> QED
          BY <4>1, AtHead
      <3>2. CASE Collect \/ List
        <4>1. \E st : Collecting(st)
          BY <3>2, CollectCases, ListCases
        <4> QED
          BY <4>1, AtReceipt
      <3>3. CASE Reconcile \/ NormalizeCycle \/ WorkerDies
        BY <3>3, ReconcileCases, NormalizeCycleCases, DiesCases
      <3> QED
        BY <1>5, <3>1, <3>2, <3>3
    <2>3. last = Ended(NoMutation, "done")
      BY <2>2 DEF Base, TodoOK
    <2> QED
      BY <1>0, <2>1, <2>3 DEF TutoringNeverRefused
  <1> QED
    BY <1>1, <1>2, <1>3, <1>4, <1>5 DEF Next

-----------------------------------------------------------------------------
(* No target is overpaid.                                                  *)

(* What holds no more, receipt by receipt, holds no more.                  *)
LEMMA ColumnFewer ==
    ASSUME NEW a \in Allocations, NEW b \in Allocations, NEW t \in Targets,
           NEW L \in SUBSET Receipts, NEW M \in SUBSET Receipts,
           \A r \in M : b[r][t] = 0 \/ (r \in L /\ b[r][t] = a[r][t])
    PROVE  Paid(b, t, M) <= Paid(a, t, L)
  <1> DEFINE K == {r \in M : b[r][t] # 0}
  <1>1. K \in SUBSET L /\ K \in SUBSET Receipts
    OBVIOUS
  <1>2. \A r \in Receipts : (IF r \in M THEN b[r][t] ELSE 0)
                          = (IF r \in K THEN a[r][t] ELSE 0)
    OBVIOUS
  <1> HIDE DEF K
  <1>3. Paid(b, t, M) = Paid(a, t, K)
    BY <1>1, <1>2, ColumnSame
  <1>4. Paid(a, t, K) <= Paid(a, t, L)
    BY <1>1, ColumnLess
  <1> QED
    BY <1>3, <1>4

(* What is paid for a target as a sum over the rows.                       *)
LEMMA PaidForViews ==
    /\ \A t : PaidFor(t) = Paid(alloc, t, LiveIn(receipts) \ Suspects)
    /\ \A t : PaidFor(t)' = Paid(alloc', t, LiveIn(receipts') \ Suspects')
    /\ \A r \in Receipts : r \in LiveIn(receipts) <=> Live(r)
    /\ \A r \in Receipts : r \in LiveIn(receipts') <=> Live(r)'
    /\ LiveIn(receipts) \in SUBSET Receipts /\ LiveIn(receipts') \in SUBSET Receipts
  BY DEF PaidFor, Paid, Sum, LiveIn, Live

(* One target holds no more than before.                                   *)
LEMMA OverpayingAt ==
    ASSUME Base, Overpaying, alloc' \in Allocations, NEW t \in Targets, price'[t] = price[t],
           halfway \in SUBSET halfway', revived \in SUBSET revived',
           Owner[t] \in Students => \A r \in Receipts : Live(r)' /\ r \notin Suspects' =>
             \/ alloc'[r][t] = 0
             \/ Live(r) /\ r \notin Suspects /\ alloc'[r][t] = alloc[r][t],
           Owner[t] \in Families \ revived' => \A r \in Receipts : Live(r)' =>
             alloc'[r][t] = 0 \/ (Live(r) /\ alloc'[r][t] = alloc[r][t])
    PROVE  /\ Owner[t] \in Students \ halfway' => PaidFor(t)' <= price'[t]
           /\ Owner[t] \in Families \ revived' => Allocated(t)' <= price'[t]
  <1>1. /\ alloc \in Allocations /\ price[t] \in Nat
    BY TypeFacts DEF Base
  <1> DEFINE L == LiveIn(receipts)
             M == LiveIn(receipts')
             S == L \ Suspects
             T == M \ Suspects'
  <1>2. /\ L \in SUBSET Receipts /\ M \in SUBSET Receipts
        /\ S \in SUBSET Receipts /\ T \in SUBSET Receipts
        /\ \A r \in M : Live(r)'
        /\ \A r \in T : Live(r)' /\ r \notin Suspects'
        /\ \A r \in Receipts : (r \in L <=> Live(r)) /\ (r \in S <=> Live(r) /\ r \notin Suspects)
    BY PaidForViews
  <1>3. /\ PaidFor(t) = Paid(alloc, t, S) /\ PaidFor(t)' = Paid(alloc', t, T)
        /\ Allocated(t) = Paid(alloc, t, L) /\ Allocated(t)' = Paid(alloc', t, M)
    BY PaidForViews, Views, NextViews
  <1> HIDE DEF L, M, S, T
  <1>4. ASSUME Owner[t] \in Students \ halfway'
        PROVE  PaidFor(t)' <= price[t]
    <2>1. \A r \in T : alloc'[r][t] = 0 \/ (r \in S /\ alloc'[r][t] = alloc[r][t])
      BY <1>2, <1>4
    <2>2. Paid(alloc', t, T) <= Paid(alloc, t, S)
      BY <1>1, <1>2, <2>1, ColumnFewer
    <2>3. Paid(alloc, t, S) <= price[t]
      BY <1>3, <1>4 DEF Overpaying
    <2>4. Paid(alloc', t, T) \in Nat /\ Paid(alloc, t, S) \in Nat
      BY <1>1, <1>2, ColumnSum
    <2> QED
      BY <1>1, <1>3, <2>2, <2>3, <2>4
  <1>5. ASSUME Owner[t] \in Families \ revived'
        PROVE  Allocated(t)' <= price[t]
    <2>1. \A r \in M : alloc'[r][t] = 0 \/ (r \in L /\ alloc'[r][t] = alloc[r][t])
      BY <1>2, <1>5
    <2>2. Paid(alloc', t, M) <= Paid(alloc, t, L)
      BY <1>1, <1>2, <2>1, ColumnFewer
    <2>3. Paid(alloc, t, L) <= price[t]
      BY <1>3, <1>5 DEF Overpaying
    <2>4. Paid(alloc', t, M) \in Nat /\ Paid(alloc, t, L) \in Nat
      BY <1>1, <1>2, ColumnSum
    <2> QED
      BY <1>1, <1>3, <2>2, <2>3, <2>4
  <1> QED
    BY <1>4, <1>5

(* No allocation changes, and the students' suspects remain suspects.      *)
LEMMA OverpayingSame ==
    ASSUME Base, Overpaying, UNCHANGED <<receipts, alloc>>,
           \A r \in Suspects : receipts[r].payer \in Students => r \in Suspects',
           halfway \in SUBSET halfway', revived \in SUBSET revived',
           NEW t \in Targets, price'[t] = price[t]
    PROVE  /\ Owner[t] \in Students \ halfway' => PaidFor(t)' <= price'[t]
           /\ Owner[t] \in Families \ revived' => Allocated(t)' <= price'[t]
  <1>1. alloc' \in Allocations
    BY TypeFacts DEF Base
  <1>2. \A r : Live(r)' <=> Live(r)
    BY MoneySame
  <1>3. Owner[t] \in Students => \A r \in Receipts : Live(r)' /\ r \notin Suspects' =>
          \/ alloc'[r][t] = 0
          \/ Live(r) /\ r \notin Suspects /\ alloc'[r][t] = alloc[r][t]
    BY <1>2, PaidOwner
  <1>4. \A r \in Receipts : Live(r)' => Live(r) /\ alloc'[r][t] = alloc[r][t]
    BY <1>2
  <1> QED
    BY <1>1, <1>3, <1>4, OverpayingAt

(* A step that writes no receipt and no allocation.                        *)
LEMMA OverpayingWhen ==
    ASSUME Base, Overpaying, UNCHANGED <<receipts, alloc, price>>,
           \A r \in Suspects : receipts[r].payer \in Students => r \in Suspects',
           halfway \in SUBSET halfway', revived \in SUBSET revived'
    PROVE  Overpaying'
  BY OverpayingSame DEF Overpaying

(* A suspect remains one until its payer is rebuilt.                       *)
LEMMA SuspectsGrow ==
    ASSUME unfinished \in SUBSET unfinished',
           run.mutation.op = "restore" =>
             \/ /\ run'.mutation = run.mutation
                /\ \A p \in Students : Pending(p) => Pending(p)'
             \/ run.mutation \in unfinished'
             \/ \A p \in Students : ~Pending(p)
    PROVE  Suspects \in SUBSET Suspects'
  <1>1. ToRebuild = {p \in Students : Pending(p)} /\ ToRebuild' = {p \in Students : Pending(p)'}
    BY DEF ToRebuild, Pending
  <1> SUFFICES ASSUME NEW r \in Suspects PROVE r \in Suspects'
    OBVIOUS
  <1>2. r \in Receipts
    BY DEF Suspects
  <1>3. CASE \E m \in unfinished : m.op = "restore" /\ m.receipt = r
    BY <1>2, <1>3 DEF Suspects
  <1>4. CASE run.mutation.op = "restore" /\ run.mutation.receipt = r /\ ToRebuild # {}
    <2>1. CASE run.mutation \in unfinished'
      BY <1>2, <1>4, <2>1 DEF Suspects
    <2>2. CASE run'.mutation = run.mutation /\ \A p \in Students : Pending(p) => Pending(p)'
      <3>1. ToRebuild' # {}
        BY <1>1, <1>4, <2>2
      <3> QED
        BY <1>2, <1>4, <2>2, <3>1 DEF Suspects
    <2> QED
      BY <1>1, <1>4, <2>1, <2>2
  <1> QED
    BY <1>3, <1>4 DEF Suspects

(* No step overpays an obligation.                                         *)
LEMMA OverpayingStep ==
    ASSUME Base, LessonMoney, Overpaying, Next
    PROVE  Overpaying'
  <1>0. /\ Base /\ Overpaying
        /\ \A t \in Targets, r \in Receipts : alloc[r][t] \in Nat
        /\ TypeOK /\ RowsOK
    BY TypeFacts DEF Base
  <1>1. CASE New \/ SendAgain
    <2>1. PICK m \in AllMutations :
             /\ Start(m) /\ mutations' \in Nat
             /\ m.op \in Corrections => receipts[m.receipt].state # "none"
      BY <1>1, Sent
    <2>2. /\ run = Idle /\ UNCHANGED <<receipts, alloc, tutoring, history>>
          /\ unfinished' = unfinished \ {m}
          /\ m.op = "update" \/ Begins(m)
      BY <2>1, StartCases
    <2>3. run.mutation.op # "restore"
      BY <2>2, PendingNever, NoMutationIsNone
    <2>4. ASSUME NEW r \in Suspects, receipts[r].payer \in Students
          PROVE  r \in Suspects'
      <3>1. r \in Receipts
        BY DEF Suspects
      <3>2. PICK u \in unfinished : u.op = "restore" /\ u.receipt = r
        BY <2>3 DEF Suspects
      <3>3. CASE u # m
        BY <2>2, <3>1, <3>2, <3>3 DEF Suspects
      <3>4. CASE u = m
        <4>1. /\ TasksOK(m) /\ run'.mutation = m /\ run'.todo = Tasks(m)
              /\ m.op = "restore" /\ m.receipt = r
          BY <2>2, <3>2, <3>4 DEF Begins
        <4>2. m.op \in Corrections => receipts[m.receipt].payer \in Payers
          BY <2>1, SentPayer
        <4>3. <<"rebuild", receipts[r].payer>> \in ToSet(Tasks(m))
          BY <2>4, <4>1, <4>2, StartsWith
        <4>4. ToRebuild' # {}
          BY <2>4, <4>1, <4>3 DEF ToRebuild
        <4> QED
          BY <3>1, <4>1, <4>4 DEF Suspects
      <3> QED
        BY <3>3, <3>4
    <2> QED
      BY <2>2, <2>4, OverpayingWhen DEF tutoring, history
  <1>2. CASE Insert
    <2>1. /\ run.mutation.op = "create" /\ Arg \in Receipts
          /\ UNCHANGED <<alloc, tutoring, history, unfinished>>
          /\ \/ receipts[Arg].state = "none"
                /\ receipts' = [receipts EXCEPT ![Arg] = Received(run.mutation)]
             \/ UNCHANGED receipts
      BY <1>2, InsertCases
    <2>2. Suspects \in SUBSET Suspects'
      BY <2>1, SuspectsGrow
    <2>3. CASE UNCHANGED receipts
      BY <2>1, <2>2, <2>3, OverpayingWhen DEF tutoring, history
    <2>4. CASE /\ receipts[Arg].state = "none"
               /\ receipts' = [receipts EXCEPT ![Arg] = Received(run.mutation)]
      <3>1. PICK a \in Receipts : a = Arg
        BY <2>1
      <3>2. receipts \in [Receipts -> Rows]
        BY <1>0 DEF TypeOK
      <3>3. \A r \in Receipts \ {a} : Live(r)' <=> Live(r)
        BY <2>4, <3>1, <3>2, Views, NextViews
      <3>4. \A t \in Targets : alloc[a][t] = 0
        BY <1>0, <2>4, <3>1 DEF RowsOK
      <3>5. \A t \in Targets, r \in Receipts : Live(r)' =>
              alloc'[r][t] = 0 \/ (Live(r) /\ alloc'[r][t] = alloc[r][t])
        BY <2>1, <3>3, <3>4
      <3>6. alloc' \in Allocations
        BY <1>0, <2>1, TypeFacts
      <3>7. \A t \in Targets : price'[t] = price[t]
        BY <2>1 DEF tutoring
      <3>8. halfway \in SUBSET halfway' /\ revived \in SUBSET revived'
        BY <2>1 DEF history
      <3>9. \A r \in Receipts : r \notin Suspects' => r \notin Suspects
        BY <2>2
      <3>10. ASSUME NEW t \in Targets
             PROVE  /\ Owner[t] \in Students \ halfway' => PaidFor(t)' <= price'[t]
                    /\ Owner[t] \in Families \ revived' => Allocated(t)' <= price'[t]
        BY <1>0, <3>5, <3>6, <3>7, <3>8, <3>9, OverpayingAt
      <3> QED
        BY <3>10 DEF Overpaying
    <2> QED
      BY <2>1, <2>3, <2>4
  <1>3. CASE Change
    <2>1. /\ run.mutation.op = "update" /\ Arg \in Receipts
          /\ \A s \in Receipts \ {Arg} : receipts'[s] = receipts[s] /\ alloc'[s] = alloc[s]
          /\ alloc' \in Allocations /\ \A t \in Targets : alloc'[Arg][t] = 0
          /\ UNCHANGED <<tutoring, history, unfinished>>
      BY <1>3, ChangeCases
    <2>2. PICK a \in Receipts : a = Arg
      BY <2>1
    <2>3. Suspects \in SUBSET Suspects'
      BY <2>1, SuspectsGrow
    <2>4. \A r \in Receipts \ {a} : Live(r)' <=> Live(r)
      BY <2>1, <2>2, Views, NextViews
    <2>5. \A t \in Targets, r \in Receipts : Live(r)' =>
            alloc'[r][t] = 0 \/ (Live(r) /\ alloc'[r][t] = alloc[r][t])
      BY <2>1, <2>2, <2>4
    <2>6. \A t \in Targets : price'[t] = price[t]
      BY <2>1 DEF tutoring
    <2>7. halfway \in SUBSET halfway' /\ revived \in SUBSET revived'
      BY <2>1 DEF history
    <2>8. \A r \in Receipts : r \notin Suspects' => r \notin Suspects
      BY <2>3
    <2>9. ASSUME NEW t \in Targets
          PROVE  /\ Owner[t] \in Students \ halfway' => PaidFor(t)' <= price'[t]
                 /\ Owner[t] \in Families \ revived' => Allocated(t)' <= price'[t]
      BY <1>0, <2>1, <2>5, <2>6, <2>7, <2>8, OverpayingAt
    <2> QED
      BY <2>9 DEF Overpaying
  <1>4. CASE Delete \/ Restore
    <2>1. /\ Arg \in Receipts /\ Arg = run.mutation.receipt
          /\ \/ run.mutation.op = "delete" /\ receipts'[Arg].state = "deleted"
             \/ /\ At("restore") /\ run.mutation.op = "restore"
                /\ revived' = revived \union {receipts[Arg].payer}
          /\ halfway' = halfway /\ revived \in SUBSET revived'
          /\ \A s \in Receipts \ {Arg} : receipts'[s] = receipts[s]
          /\ run'.mutation = run.mutation /\ run'.todo = Tail(run.todo)
          /\ \E k \in {"delete", "restore"} : At(k)
          /\ UNCHANGED <<alloc, tutoring, unfinished>>
      BY <1>4, DeleteCases DEF Goes, history
    <2>2. PICK a \in Receipts : a = Arg
      BY <2>1
    <2>3. PICK k \in {"delete", "restore"} : At(k)
      BY <2>1
    <2>4. \A p : Pending(p) => Pending(p)'
      BY <2>1, <2>3, PendingTail
    <2>5. Suspects \in SUBSET Suspects'
      BY <2>1, <2>4, SuspectsGrow
    <2>6. ASSUME At("restore"), run.mutation.op = "restore", receipts[a].payer \in Students
          PROVE  a \in Suspects'
      <3>1. "restore" \in Statements /\ "restore" \in Corrections
        BY DEF Statements, Corrections
      <3>2. Pending(receipts[run.mutation.receipt].payer)
        BY <2>1, <2>2, <2>6, <3>1, PendingFor
      <3>3. PICK p \in Students : p = receipts[a].payer /\ Pending(p)
        BY <2>1, <2>2, <2>6, <3>2
      <3>4. ToRebuild' # {}
        BY <2>4, <3>3 DEF ToRebuild, Pending
      <3> QED
        BY <2>1, <2>2, <2>6, <3>4 DEF Suspects
    <2>7. \A r \in Receipts \ {a} : Live(r)' <=> Live(r)
      BY <2>1, <2>2, Views, NextViews
    <2>8. \A r \in Receipts : r \notin Suspects' => r \notin Suspects
      BY <2>5
    <2>9. ASSUME NEW t \in Targets
          PROVE  /\ Owner[t] \in Students \ halfway' => PaidFor(t)' <= price'[t]
                 /\ Owner[t] \in Families \ revived' => Allocated(t)' <= price'[t]
      <3>1. receipts[a].payer # Owner[t] => alloc'[a][t] = 0
        BY <2>1, PaidOwner
      <3>2. ~Live(a)' \/ (At("restore") /\ run.mutation.op = "restore"
                          /\ receipts[a].payer \in revived')
        BY <2>1, <2>2, NextViews
      <3>3. Owner[t] \in Students => \A r \in Receipts : Live(r)' /\ r \notin Suspects' =>
              \/ alloc'[r][t] = 0
              \/ Live(r) /\ r \notin Suspects /\ alloc'[r][t] = alloc[r][t]
        BY <2>1, <2>6, <2>7, <2>8, <3>1, <3>2
      <3>4. Owner[t] \in Families \ revived' => \A r \in Receipts : Live(r)' =>
              alloc'[r][t] = 0 \/ (Live(r) /\ alloc'[r][t] = alloc[r][t])
        BY <2>1, <2>7, <3>1, <3>2
      <3>5. alloc' \in Allocations /\ price'[t] = price[t]
        BY <1>0, <2>1, TypeFacts DEF tutoring
      <3>6. halfway \in SUBSET halfway' /\ revived \in SUBSET revived'
        BY <2>1
      <3> QED
        BY <1>0, <3>3, <3>4, <3>5, <3>6, OverpayingAt
    <2> QED
      BY <2>9 DEF Overpaying
  <1>5. CASE Rebuild
    <2>1. /\ At("rebuild") /\ Arg \in Payers /\ Arg \in Students /\ alloc' = Wiped(Arg)
          /\ run'.mutation = run.mutation /\ run'.todo = Tail(run.todo)
          /\ UNCHANGED <<receipts, tutoring, halfway, revived, unfinished>>
      BY <1>5, RebuildCases DEF Goes
    <2>2. PICK p \in Payers : p = Arg /\ p \in Students
      BY <2>1
    <2>3. /\ alloc' \in Allocations
          /\ \A s \in Receipts : Live(s)' <=> Live(s)
          /\ \A s \in Receipts : receipts[s].payer # p => alloc'[s] = alloc[s]
          /\ \A s \in Receipts : receipts[s].payer = p => \A t \in Targets : alloc'[s][t] = 0
      <3>1. alloc' = Wiped(p) /\ UNCHANGED <<receipts, price>>
        BY <2>1, <2>2 DEF tutoring
      <3> QED
        BY <3>1, MoneyWiped
    <2>4. Pending(p)
      BY <2>1, <2>2, AtHead DEF Pending
    <2>5. \A q : Pending(q) => Pending(q)' \/ q = p
      BY <2>1, <2>2, PendingTail
    <2>6. ASSUME NEW r \in Suspects, receipts[r].payer # p
          PROVE  r \in Suspects'
      <3>1. r \in Receipts
        BY DEF Suspects
      <3>2. CASE \E m \in unfinished : m.op = "restore" /\ m.receipt = r
        BY <2>1, <3>1, <3>2 DEF Suspects
      <3>3. CASE run.mutation.op = "restore" /\ run.mutation.receipt = r
        <4>1. p = receipts[r].payer
          BY <2>2, <2>4, <3>3 DEF Base, TodoOK, Ahead, Pending
        <4> QED
          BY <2>6, <4>1
      <3> QED
        BY <3>2, <3>3 DEF Suspects
    <2>7. ASSUME NEW t \in Targets
          PROVE  /\ Owner[t] \in Students \ halfway' => PaidFor(t)' <= price'[t]
                 /\ Owner[t] \in Families \ revived' => Allocated(t)' <= price'[t]
      <3>1. \A r \in Receipts : Live(r)' /\ r \notin Suspects' =>
              \/ alloc'[r][t] = 0
              \/ Live(r) /\ r \notin Suspects /\ alloc'[r][t] = alloc[r][t]
        BY <2>3, <2>6
      <3>2. \A r \in Receipts : Live(r)' =>
              alloc'[r][t] = 0 \/ (Live(r) /\ alloc'[r][t] = alloc[r][t])
        BY <2>3
      <3>3. price'[t] = price[t] /\ halfway \in SUBSET halfway' /\ revived \in SUBSET revived'
        BY <2>1 DEF tutoring
      <3> QED
        BY <1>0, <2>3, <3>1, <3>2, <3>3, OverpayingAt
    <2> QED
      BY <2>7 DEF Overpaying
  <1>6. CASE Reconcile
    <2>1. /\ run.mutation.op # "restore"
          /\ UNCHANGED <<receipts, alloc, tutoring, history, unfinished>>
      BY <1>6, ReconcileCases
    <2>2. Suspects \in SUBSET Suspects'
      BY <2>1, SuspectsGrow
    <2> QED
      BY <2>1, <2>2, OverpayingWhen DEF tutoring, history
  <1>7. CASE Collect \/ List \/ NormalizeCycle
    <2>1. /\ run'.mutation = run.mutation /\ run'.todo = run.todo
          /\ UNCHANGED <<receipts, alloc, price, history, unfinished>>
      BY <1>7, CollectCases, ListCases, NormalizeCycleCases DEF Goes, tutoring
    <2>2. \A p : Pending(p)' <=> Pending(p)
      BY <2>1, PendingNever
    <2>3. Suspects \in SUBSET Suspects'
      BY <2>1, <2>2, SuspectsGrow
    <2> QED
      BY <2>1, <2>3, OverpayingWhen DEF history
  <1>9. CASE Allocate
    <2>1. /\ Collecting("allocate") /\ run.queue # {}
          /\ UNCHANGED <<receipts, tutoring, history, unfinished>>
      BY <1>9, AllocateCases, AtReceipt
    <2>2. run.mutation.op # "update" => \A p \in Students : ~Pending(p)
      BY <2>1, PendingQueue
    <2>3. Suspects \in SUBSET Suspects'
      BY <2>1, <2>2, SuspectsGrow
    <2>4. CASE UNCHANGED alloc
      BY <2>1, <2>3, <2>4, OverpayingWhen DEF tutoring, history
    <2>5. ASSUME NEW t \in Targets, alloc[Receipt][t] = 0, Live(Receipt), Pays(t),
                 Writes(Receipt, t, Share(t))
          PROVE  Overpaying'
      <3>1. PICK s \in Receipts, x \in Nat \ {0} :
              /\ x = Share(t) /\ alloc' \in Allocations
              /\ \A q \in Receipts : Live(q)' <=> Live(q)
              /\ \A u \in Targets \ {t} : \A q \in Receipts : alloc'[q][u] = alloc[q][u]
              /\ Allocated(t)' = Allocated(t) + x
        BY <2>1, <2>5, PaidStep
      <3>2. x <= Outstanding(t)
        BY <2>5, <3>1 DEF Pays
      <3>3. Allocated(t)' <= price[t]
        BY <1>0, <3>1, <3>2, TypeFacts DEF Outstanding
      <3>4. UNCHANGED price /\ halfway \in SUBSET halfway' /\ revived \in SUBSET revived'
        BY <2>1 DEF tutoring, history
      <3>5. PaidFor(t)' <= price[t]
        <4> DEFINE M == LiveIn(receipts')
        <4>1. /\ M \in SUBSET Receipts /\ M \ Suspects' \in SUBSET M
              /\ PaidFor(t)' = Paid(alloc', t, M \ Suspects')
              /\ Allocated(t)' = Paid(alloc', t, M)
          BY PaidForViews, NextViews
        <4> HIDE DEF M
        <4>2. Paid(alloc', t, M \ Suspects') <= Paid(alloc', t, M)
          BY <3>1, <4>1, ColumnLess
        <4>3. Paid(alloc', t, M \ Suspects') \in Nat /\ Paid(alloc', t, M) \in Nat
          BY <3>1, <4>1, ColumnSum
        <4>4. price[t] \in Nat
          BY <1>0, TypeFacts
        <4> QED
          BY <3>3, <4>1, <4>2, <4>3, <4>4
      <3>6. ASSUME NEW u \in Targets \ {t}
            PROVE  /\ Owner[u] \in Students \ halfway' => PaidFor(u)' <= price'[u]
                   /\ Owner[u] \in Families \ revived' => Allocated(u)' <= price'[u]
        <4>1. \A r \in Receipts : Live(r)' => Live(r) /\ alloc'[r][u] = alloc[r][u]
          BY <3>1
        <4>2. \A r \in Receipts : r \notin Suspects' => r \notin Suspects
          BY <2>3
        <4> QED
          BY <1>0, <3>1, <3>4, <4>1, <4>2, OverpayingAt
      <3> QED
        BY <3>3, <3>4, <3>5, <3>6 DEF Overpaying
    <2> QED
      BY <1>9, AllocateCases, <2>4, <2>5
  <1>10. CASE Normalize
    <2>1. /\ At("normalize") /\ run'.mutation = run.mutation /\ run'.todo = Tail(run.todo)
          /\ UNCHANGED <<receipts, alloc, tutoring, history, unfinished>>
      BY <1>10, NormalizeCases DEF Goes
    <2>2. \A p : Pending(p) => Pending(p)'
      BY <2>1, PendingTail
    <2>3. Suspects \in SUBSET Suspects'
      BY <2>1, <2>2, SuspectsGrow
    <2> QED
      BY <2>1, <2>3, OverpayingWhen DEF tutoring, history
  <1>12. CASE Teach
    <2>1. /\ UNCHANGED <<receipts, alloc, revived, unfinished>>
          /\ Attends \/ Links \/ MarksDue \/ Unlinks \/ Opens \/ Resets \/ SetsOpening
      BY <1>12, TeachCases
    <2>2. run.mutation.op \in Tutoring /\ halfway \in SUBSET halfway'
      BY <2>1 DEF Attends, Links, MarksDue, Unlinks, Opens, Resets, SetsOpening, Tutoring
    <2>3. Suspects \in SUBSET Suspects'
      BY <2>1, <2>2, SuspectsGrow DEF Tutoring
    <2>4. CASE UNCHANGED price
      BY <2>1, <2>2, <2>3, <2>4, OverpayingWhen
    <2>5. CASE Attends
      <3>1. /\ run.mutation.op = "complete" /\ Arg \in Targets
            /\ price' \in [Targets -> Nat] /\ \A t \in Targets \ {Arg} : price'[t] = price[t]
            /\ Arg \in lesson => price' = price
            /\ Arg \in Cycles => price'[Arg] = CyclePrice
            /\ halfway' = halfway
        BY <2>5 DEF Attends
      <3>2. PICK a \in Targets : a = Arg
        BY <3>1
      <3>3. ASSUME NEW t \in Targets, price'[t] = price[t]
            PROVE  /\ Owner[t] \in Students \ halfway' => PaidFor(t)' <= price'[t]
                   /\ Owner[t] \in Families \ revived' => Allocated(t)' <= price'[t]
        BY <2>1, <2>2, <2>3, <3>3, OverpayingSame
      <3>4. CASE a \in lesson \/ a \in Cycles
        <4>1. \A t \in Targets : price'[t] = price[t]
          BY <1>0, <3>1, <3>2, <3>4 DEF RowsOK
        <4> QED
          BY <3>3, <4>1 DEF Overpaying
      <3>5. CASE a \notin lesson /\ a \notin Cycles
        <4>1. Owner[a] \in Students /\ Owner[a] \notin Families
          BY <3>5, AllocationAssumption
        <4>2. ASSUME Owner[a] \notin halfway
              PROVE  PaidFor(a)' <= price'[a]
          <5>1. \A r \in Receipts : ~(alloc[r][a] > 0)
            BY <3>1, <3>5, <4>2 DEF LessonMoney
          <5>2. \A r \in Receipts : alloc'[r][a] = 0
            BY <1>0, <2>1, <5>1
          <5> DEFINE M == LiveIn(receipts') \ Suspects'
          <5>3. M \in SUBSET Receipts /\ PaidFor(a)' = Paid(alloc', a, M)
            BY PaidForViews
          <5> HIDE DEF M
          <5>4. alloc' \in Allocations
            BY <1>0, <2>1, TypeFacts
          <5>5. Paid(alloc', a, M) = 0
            BY <5>2, <5>3, <5>4, ColumnSum
          <5>6. price'[a] \in Nat
            BY <3>1
          <5> QED
            BY <5>3, <5>5, <5>6
        <4>3. \A t \in Targets \ {a} : price'[t] = price[t]
          BY <3>1, <3>2
        <4> QED
          BY <3>1, <3>3, <4>1, <4>2, <4>3 DEF Overpaying
      <3> QED
        BY <3>4, <3>5
    <2> QED
      BY <2>1, <2>4, <2>5 DEF Links, MarksDue, Unlinks, Opens, Resets, SetsOpening
  <1>13. CASE Finish
    <2>1. /\ \A p : ~Pending(p)
          /\ UNCHANGED <<receipts, alloc, tutoring, history, unfinished>>
      BY <1>13, FinishCases
    <2>2. Suspects \in SUBSET Suspects'
      BY <2>1, SuspectsGrow
    <2> QED
      BY <2>1, <2>2, OverpayingWhen DEF tutoring, history
  <1>14. CASE WorkerDies
    <2>1. /\ UNCHANGED <<receipts, alloc, tutoring, revived>>
          /\ unfinished' = unfinished \union {run.mutation}
          /\ halfway \in SUBSET halfway'
      BY <1>14, DiesCases
    <2>2. Suspects \in SUBSET Suspects'
      BY <2>1, SuspectsGrow
    <2> QED
      BY <2>1, <2>2, OverpayingWhen DEF tutoring
  <1> QED
    BY <1>1, <1>2, <1>3, <1>4, <1>5, <1>6, <1>7, <1>9, <1>10, <1>12, <1>13, <1>14
       DEF Next

-----------------------------------------------------------------------------
(* No student keeps credit while owing.                                    *)

(* A step after which every student is as balanced as before, or more.     *)
LEMMA CreditWhen ==
    ASSUME Credit, crashes' = 0 => behind' = {} /\ unfinished' = {},
           unfinished' = {} /\ Watched' =>
             /\ unfinished = {} /\ Watched
             /\ \A p \in Students \ (behind' \union halfway' \union run'.students) :
                  Pending(p)' \/ Balanced(p)'
                  \/ /\ p \notin behind \union halfway \union run.students /\ ~Pending(p)
                     /\ Balanced(p) => Balanced(p)'
    PROVE  Credit'
  BY DEF Credit

(* Whoever is watched while a handler goes on was watched before.          *)
LEMMA WatchedSame ==
    ASSUME Base, UNCHANGED <<crashes, last>>, run'.mutation = run.mutation,
           halfway \in SUBSET halfway', Watched'
    PROVE  Watched
  <1>1. run' = Idle => run = Idle
    BY PendingNever DEF Base, TodoOK
  <1>2. JustDone({"complete", "reopen"})' => JustDone({"complete", "reopen"})
    BY <1>1 DEF JustDone
  <1> QED
    BY <1>2 DEF Watched

(* ... and who is watched once it has ended, unless it completed a lesson. *)
LEMMA WatchedEnd ==
    ASSUME NEW m, last' = Ended(m, "refused"), run' = Idle, Watched'
    PROVE  crashes' = 0 /\ halfway' = {}
  <1>1. run'.mutation.op \notin {"complete", "reopen"}
    BY PendingNever, NoMutationIsNone
  <1>2. ~JustDone({"complete", "reopen"})'
    BY NotJustDone
  <1> QED
    BY <1>1, <1>2 DEF Watched

(* A step that neither moves money nor adds obligations of the student.    *)
LEMMA BalancedSame ==
    ASSUME UNCHANGED <<receipts, alloc, price>>, NEW p, OwedBy(p)' \in SUBSET OwedBy(p),
           run.queue \in SUBSET run'.queue, run'.step # "allocate", Balanced(p)
    PROVE  Balanced(p)'
  <1>1. /\ \A r : Spent(r)' = Spent(r)
        /\ ReceiptsOf(p)' = ReceiptsOf(p)
        /\ \A t : Outstanding(t)' = Outstanding(t)
    BY MoneySame
  <1> QED
    BY <1>1 DEF Balanced

(* What is owed depends on the lessons and on the cycles' states.          *)
LEMMA OwedBySame ==
    ASSUME UNCHANGED <<lesson, status>>
    PROVE  \A p : OwedBy(p)' = OwedBy(p)
  BY OwedSame DEF OwedBy

(* One receipt changes, which is not the student's or is to be collected.  *)
LEMMA BalancedOfOne ==
    ASSUME Base, NEW p, NEW q \in Receipts, alloc' \in Allocations, Balanced(p),
           \A s \in Receipts \ {q} : receipts'[s] = receipts[s] /\ alloc'[s] = alloc[s],
           \A t \in Targets : Owner[t] = p => alloc[q][t] = 0 /\ alloc'[q][t] = 0,
           receipts'[q].payer = p => q \in run'.queue,
           UNCHANGED tutoring, run.queue = {}, run'.step = "collect"
    PROVE  Balanced(p)'
  <1>1. TypeOK
    BY DEF Base
  <1>2. /\ \A s \in Receipts \ {q} : Spent(s)' = Spent(s)
        /\ \A t \in Targets : alloc[q][t] = 0 /\ alloc'[q][t] = 0 =>
             Allocated(t)' = Allocated(t)
    BY <1>1, MoneyOfOne
  <1>3. OwedBy(p)' = OwedBy(p) /\ UNCHANGED price
    BY OwedBySame DEF tutoring
  <1> SUFFICES ASSUME NEW r \in ReceiptsOf(p)', r \notin run'.queue, NEW t \in OwedBy(p),
                      Spent(r)' < receipts'[r].amount
               PROVE  Outstanding(t)' <= 0
    BY <1>3 DEF Balanced
  <1>4. r \in Receipts /\ receipts'[r].state = "live" /\ receipts'[r].payer = p
    BY NextViews
  <1>5. r # q
    BY <1>4
  <1>6. receipts'[r] = receipts[r] /\ Spent(r)' = Spent(r)
    BY <1>2, <1>4, <1>5
  <1>7. r \in ReceiptsOf(p) /\ Spent(r) < receipts[r].amount
    BY <1>4, <1>6, Views
  <1>8. t \in Targets /\ Owner[t] = p
    BY DEF OwedBy
  <1>9. Outstanding(t)' = Outstanding(t)
    BY <1>2, <1>3, <1>8, Views, NextViews
  <1> QED
    BY <1>7, <1>9 DEF Balanced

(* No step leaves credit beside what is owed.                              *)
LEMMA CreditStep ==
    ASSUME Base, NoConflict, FullDue, Credit, Next
    PROVE  Credit'
  <1>0. /\ crashes = 0 => behind = {} /\ unfinished = {}
        /\ crashes \in Nat /\ TypeOK
        /\ run.students \in SUBSET Hooked(run.mutation)
    BY DEF Credit, Base, TypeOK, TodoOK
  <1>00. NoMutation.op \notin {"complete", "reopen"}
    BY NoMutationIsNone
  <1>1. CASE New \/ SendAgain
    <2>1. PICK m \in AllMutations :
             /\ Start(m) /\ mutations' \in Nat
             /\ m.op \in Corrections => receipts[m.receipt].state # "none"
      BY <1>1, Sent
    <2>2. /\ run = Idle /\ UNCHANGED <<receipts, alloc, tutoring, crashes, history>>
          /\ unfinished' = unfinished \ {m}
          /\ (run' = Idle /\ last' = Ended(m, "refused")) \/ Begins(m)
      BY <2>1, StartCases
    <2>3. crashes' = 0 => behind' = {} /\ unfinished' = {}
      BY <1>0, <2>2 DEF history
    <2>4. CASE Begins(m) /\ m.op \in {"complete", "reopen"}
      <3>1. run'.students = Students
        BY <2>4 DEF Begins, Hooked
      <3> QED
        BY <2>3, <3>1 DEF Credit
    <2>5. CASE (run' = Idle /\ last' = Ended(m, "refused")) \/ m.op \notin {"complete", "reopen"}
      <3>1. run'.queue = {} /\ run'.step = "collect"
        BY <2>2, IdleFacts DEF Begins
      <3>2. Watched' => crashes = 0 /\ halfway = {}
        <4>1. CASE run' = Idle /\ last' = Ended(m, "refused")
          BY <2>2, <4>1, WatchedEnd DEF history
        <4>2. CASE Begins(m) /\ m.op \notin {"complete", "reopen"}
          <5>1. run'.mutation = m /\ last' = Ended(NoMutation, "done")
            BY <4>2 DEF Begins
          <5>2. ~JustDone({"complete", "reopen"})'
            BY <5>1, NotJustDone
          <5> QED
            BY <2>2, <4>2, <5>1, <5>2 DEF Watched, history
        <4> QED
          BY <2>2, <2>5, <4>1, <4>2
      <3>3. Watched' => unfinished = {} /\ behind = {} /\ Watched
        BY <1>0, <3>2 DEF Watched
      <3>4. run.students = {} /\ run.queue = {} /\ \A p : ~Pending(p)
        BY <2>2, PendingNever
      <3>5. ASSUME NEW p, Balanced(p) PROVE Balanced(p)'
        <4>1. OwedBy(p)' = OwedBy(p) /\ UNCHANGED price
          BY <2>2, OwedBySame DEF tutoring
        <4> QED
          BY <2>2, <3>1, <3>4, <3>5, <4>1, BalancedSame
      <3> QED
        BY <2>3, <3>2, <3>3, <3>4, <3>5, CreditWhen
    <2> QED
      BY <2>2, <2>4, <2>5
  <1>2. CASE Insert
    <2>1. /\ At("insert") /\ Arg \in Receipts /\ run.mutation.op = "create"
          /\ \/ /\ receipts[Arg].state = "none"
                /\ receipts' = [receipts EXCEPT ![Arg] = Received(run.mutation)]
             \/ UNCHANGED receipts
          /\ \/ /\ run'.mutation = run.mutation /\ run'.todo = Tail(run.todo)
                /\ run'.queue = {Arg} /\ run'.step = "collect"
                /\ run'.students = run.students /\ last' = last
             \/ Refuse /\ UNCHANGED receipts
          /\ UNCHANGED <<alloc, tutoring, unfinished, crashes, history>>
      BY <1>2, InsertCases DEF Goes
    <2>2. PICK a \in Receipts : a = Arg
      BY <2>1
    <2>3. /\ run.queue = {} /\ run.students = {} /\ run.mutation \in AllMutations
          /\ Hooked(run.mutation) = {}
      BY <1>0, <2>1, AtHead DEF Hooked
    <2>4. \A p \in Students : ~Pending(p)
      <3> SUFFICES ASSUME NEW p \in Students, Pending(p) PROVE FALSE
        OBVIOUS
      <3>1. TaskOf(run.mutation, <<"rebuild", p>>)
        BY DEF Base, TodoOK, Pending
      <3> QED
        BY <2>1, <3>1, HeadOf DEF Corrections
    <2>5. crashes' = 0 => behind' = {} /\ unfinished' = {}
      BY <1>0, <2>1 DEF history
    <2>6. ASSUME NEW p \in Students, UNCHANGED receipts, run'.step = "collect", Balanced(p)
          PROVE  Balanced(p)'
      <3>1. OwedBy(p)' = OwedBy(p) /\ UNCHANGED price
        BY <2>1, OwedBySame DEF tutoring
      <3> QED
        BY <2>1, <2>3, <2>6, <3>1, BalancedSame
    <2>7. CASE Refuse /\ UNCHANGED receipts
      <3>1. /\ run' = Idle /\ last' = Ended(run.mutation, "refused")
            /\ run'.step = "collect"
        BY <2>3, <2>7, RefuseCases
      <3>2. Watched' => unfinished = {} /\ behind = {} /\ halfway = {} /\ Watched
        BY <1>0, <2>1, <3>1, WatchedEnd DEF Watched, history
      <3> QED
        BY <2>3, <2>4, <2>5, <2>6, <2>7, <3>1, <3>2, CreditWhen
    <2>8. CASE /\ run'.mutation = run.mutation /\ run'.todo = Tail(run.todo)
               /\ run'.queue = {Arg} /\ run'.step = "collect"
               /\ run'.students = run.students /\ last' = last
      <3>1. Watched' => Watched
        BY <2>1, <2>8, WatchedSame DEF history
      <3>2. ASSUME NEW p \in Students, Balanced(p) PROVE Balanced(p)'
        <4>1. CASE UNCHANGED receipts
          BY <2>6, <2>8, <3>2, <4>1
        <4>2. CASE /\ receipts[a].state = "none"
                   /\ receipts' = [receipts EXCEPT ![a] = Received(run.mutation)]
          <5>1. \A s \in Receipts \ {a} : receipts'[s] = receipts[s] /\ alloc'[s] = alloc[s]
            BY <1>0, <2>1, <4>2 DEF TypeOK
          <5>2. \A t \in Targets : alloc[a][t] = 0 /\ alloc'[a][t] = 0
            BY <2>1, <4>2 DEF Base, RowsOK
          <5>3. alloc' \in Allocations
            BY <1>0, <2>1, TypeFacts
          <5>4. a \in run'.queue
            BY <2>2, <2>8
          <5>5. UNCHANGED tutoring
            BY <2>1
          <5> QED
            BY <2>3, <2>8, <3>2, <5>1, <5>2, <5>3, <5>4, <5>5, BalancedOfOne
        <4> QED
          BY <2>1, <2>2, <4>1, <4>2
      <3> QED
        BY <2>1, <2>4, <2>5, <2>8, <3>1, <3>2, CreditWhen DEF history
    <2> QED
      BY <2>1, <2>7, <2>8
  <1>3. CASE Change \/ Delete \/ Restore
    <2>1. /\ Arg \in Receipts /\ Arg = run.mutation.receipt
          /\ run.mutation.op \in Corrections
          /\ \/ run.mutation.op = "update" /\ receipts'[Arg].payer = run.mutation.payer
                /\ \A t \in Targets : alloc'[Arg][t] = 0
             \/ receipts'[Arg].payer = receipts[Arg].payer /\ UNCHANGED alloc
          /\ \A s \in Receipts \ {Arg} : receipts'[s] = receipts[s] /\ alloc'[s] = alloc[s]
          /\ alloc' \in Allocations
          /\ run'.mutation = run.mutation /\ run'.todo = Tail(run.todo)
          /\ run'.queue = {} /\ run'.step = "collect" /\ run'.students = run.students
          /\ \E k \in {"change", "delete", "restore"} : At(k)
          /\ UNCHANGED <<tutoring, last, unfinished, crashes, behind, halfway>>
      <3>1. CASE Change
        BY <3>1, ChangeCases, ReceivedRow DEF Goes, history, Corrections
      <3>2. CASE Delete \/ Restore
        <4>1. alloc' = alloc /\ alloc \in Allocations
          BY <1>0, <3>2, DeleteCases, TypeFacts
        <4> QED
          BY <3>2, <4>1, DeleteCases DEF Goes, history, Corrections
      <3> QED
        BY <1>3, <3>1, <3>2
    <2>2. PICK a \in Receipts : a = Arg
      BY <2>1
    <2>3. PICK k \in {"change", "delete", "restore"} : At(k)
      BY <2>1
    <2>4. /\ run.queue = {} /\ \A p : Pending(p) => Pending(p)'
          /\ k \in Statements
      BY <2>1, <2>3, AtHead, PendingTail DEF Statements
    <2>5. /\ receipts[a].payer \in Students => Pending(receipts[a].payer)
          /\ run.mutation.op = "update" => Pending(run.mutation.payer)
      BY <2>1, <2>2, <2>3, <2>4, PendingFor
    <2>6. crashes' = 0 => behind' = {} /\ unfinished' = {}
      BY <1>0, <2>1
    <2>7. Watched' => Watched
      BY <2>1, WatchedSame
    <2>8. ASSUME NEW p \in Students, ~Pending(p), Balanced(p) PROVE Balanced(p)'
      <3>1. receipts[a].payer # p /\ receipts'[a].payer # p
        BY <2>1, <2>2, <2>5, <2>8
      <3>2. \A t \in Targets : Owner[t] = p => alloc[a][t] = 0 /\ alloc'[a][t] = 0
        BY <2>1, <2>2, <3>1, PaidOwner
      <3>3. \A s \in Receipts \ {a} : receipts'[s] = receipts[s] /\ alloc'[s] = alloc[s]
        BY <2>1, <2>2
      <3> QED
        BY <2>1, <2>4, <2>8, <3>1, <3>2, <3>3, BalancedOfOne
    <2> QED
      BY <2>1, <2>4, <2>6, <2>7, <2>8, CreditWhen
  <1>5. CASE Rebuild
    <2>1. /\ At("rebuild") /\ Arg \in Payers /\ Arg \in Students /\ alloc' = Wiped(Arg)
          /\ behind' = behind \ {Arg} /\ run'.queue = ReceiptsOf(Arg)
          /\ run'.mutation = run.mutation /\ run'.todo = Tail(run.todo)
          /\ run'.students = run.students /\ run'.step = "collect"
          /\ UNCHANGED <<receipts, tutoring, last, halfway, unfinished, crashes>>
      BY <1>5, RebuildCases DEF Goes
    <2>2. PICK a \in Payers : a = Arg /\ a \in Students
      BY <2>1
    <2>3. /\ \A q : ReceiptsOf(q)' = ReceiptsOf(q)
          /\ \A s \in Receipts : receipts[s].payer # a => Spent(s)' = Spent(s)
          /\ \A t \in Targets : Owner[t] # a => Outstanding(t)' = Outstanding(t)
      <3>1. alloc' = Wiped(a) /\ UNCHANGED <<receipts, price>>
        BY <2>1, <2>2 DEF tutoring
      <3> QED
        BY <3>1, MoneyWiped
    <2>4. run.queue = {} /\ \A q : Pending(q) => Pending(q)' \/ q = a
      <3>1. run.queue = {}
        BY <2>1, AtHead
      <3>2. \A q : Pending(q) => Pending(q)' \/ q = a
        BY <2>1, <2>2, PendingTail
      <3> QED
        BY <3>1, <3>2
    <2>5. crashes' = 0 => behind' = {} /\ unfinished' = {}
      BY <1>0, <2>1
    <2>6. Watched' => Watched
      BY <2>1, WatchedSame
    <2>7. \A p : OwedBy(p)' = OwedBy(p)
      BY <2>1, OwedBySame DEF tutoring
    <2>8. Balanced(a)'
      BY <2>1, <2>2, <2>3 DEF Balanced
    <2>9. ASSUME NEW p \in Students, p # a, Balanced(p) PROVE Balanced(p)'
      <3>1. \A r \in ReceiptsOf(p) : Spent(r)' = Spent(r)
        BY <2>3, <2>9, Views
      <3>2. \A t \in OwedBy(p) : Outstanding(t)' = Outstanding(t)
        BY <2>3, <2>9 DEF OwedBy
      <3> QED
        BY <2>1, <2>3, <2>4, <2>7, <2>9, <3>1, <3>2 DEF Balanced
    <2>10. \A p \in Students \ (behind' \union halfway' \union run'.students) :
             \/ Pending(p)' \/ Balanced(p)'
             \/ /\ p \notin behind \union halfway \union run.students /\ ~Pending(p)
                /\ Balanced(p) => Balanced(p)'
      BY <2>1, <2>2, <2>4, <2>8, <2>9
    <2> QED
      BY <2>1, <2>5, <2>6, <2>10, CreditWhen
  <1>6. CASE Reconcile
    <2>1. PICK a \in run.students :
             /\ run.todo = <<>> /\ run.queue = {}
             /\ run'.mutation = run.mutation /\ run'.queue = ReceiptsOf(a)
             /\ run'.students = run.students \ {a} /\ run'.step = "collect"
             /\ UNCHANGED <<receipts, alloc, tutoring, last, unfinished, crashes, history>>
      BY <1>6, ReconcileCases DEF Goes
    <2>2. crashes' = 0 => behind' = {} /\ unfinished' = {}
      BY <1>0, <2>1 DEF history
    <2>3. Watched' => Watched
      BY <2>1, WatchedSame DEF history
    <2>4. \A p : ReceiptsOf(p)' = ReceiptsOf(p)
      BY <2>1, MoneySame
    <2>5. Balanced(a)'
      BY <2>1, <2>4 DEF Balanced
    <2>6. ASSUME NEW p \in Students, Balanced(p) PROVE Balanced(p)'
      <3>1. OwedBy(p)' = OwedBy(p) /\ UNCHANGED price
        BY <2>1, OwedBySame DEF tutoring
      <3> QED
        BY <2>1, <2>6, <3>1, BalancedSame
    <2>7. \A p : ~Pending(p)
      BY <2>1, PendingNever
    <2> QED
      BY <2>1, <2>2, <2>3, <2>5, <2>6, <2>7, CreditWhen DEF history
  <1>7. CASE Collect
    <2>1. /\ run.queue # {} /\ Receipt \in Receipts /\ Receipt \in run.queue
          /\ Spent(Receipt) <= receipts[Receipt].amount
          /\ run'.mutation = run.mutation /\ run'.todo = run.todo
          /\ run'.students = run.students /\ run'.step # "allocate"
          /\ \/ run'.queue = run.queue \ {Receipt} /\ Remaining(Receipt) = 0
             \/ run'.queue = run.queue
          /\ UNCHANGED <<receipts, alloc, tutoring, last, unfinished, crashes, history>>
      BY <1>7, CollectCases, AtReceipt DEF Goes
    <2>2. crashes' = 0 => behind' = {} /\ unfinished' = {}
      BY <1>0, <2>1 DEF history
    <2>3. Watched' => Watched
      BY <2>1, WatchedSame DEF history
    <2>4. PICK c \in Receipts : c = Receipt
      BY <2>1
    <2>5. Live(c) /\ run'.queue # run.queue => ~(Spent(c) < receipts[c].amount)
      <3>1. Live(c) => Remaining(c) + Spent(c) = receipts[c].amount
        BY <2>1, <2>4, RemainingIsNat
      <3>2. Spent(c) \in Nat /\ receipts[c].amount \in Nat
        BY <1>0, TypeFacts
      <3> QED
        BY <2>1, <2>4, <3>1, <3>2
    <2>6. /\ \A r : Spent(r)' = Spent(r) /\ (Live(r)' <=> Live(r))
          /\ \A p : ReceiptsOf(p)' = ReceiptsOf(p) /\ OwedBy(p)' = OwedBy(p)
          /\ \A t : Outstanding(t)' = Outstanding(t)
          /\ \A p, r : r \in ReceiptsOf(p) => Live(r)
      BY <2>1, MoneySame, OwedBySame, Views DEF tutoring
    <2>7. ASSUME NEW p \in Students, Balanced(p) PROVE Balanced(p)'
      BY <2>1, <2>4, <2>5, <2>6, <2>7 DEF Balanced
    <2>8. \A p : Pending(p)' <=> Pending(p)
      BY <2>1, PendingNever
    <2> QED
      BY <2>1, <2>2, <2>3, <2>7, <2>8, CreditWhen DEF history
  <1>8. CASE List
    <2>1. /\ run'.mutation = run.mutation /\ run'.todo = run.todo
          /\ run'.students = run.students /\ run'.queue = run.queue
          /\ run'.ahead = OwedBy(receipts[Receipt].payer)
          /\ UNCHANGED <<receipts, alloc, tutoring, last, unfinished, crashes, history>>
      BY <1>8, ListCases DEF Goes
    <2>2. crashes' = 0 => behind' = {} /\ unfinished' = {}
      BY <1>0, <2>1 DEF history
    <2>3. Watched' => Watched
      BY <2>1, WatchedSame DEF history
    <2>4. /\ \A r : Spent(r)' = Spent(r)
          /\ \A p : ReceiptsOf(p)' = ReceiptsOf(p) /\ OwedBy(p)' = OwedBy(p)
          /\ \A t : Outstanding(t)' = Outstanding(t)
          /\ Receipt' = Receipt
      BY <2>1, MoneySame, OwedBySame DEF tutoring
    <2>5. ASSUME NEW p \in Students, Balanced(p) PROVE Balanced(p)'
      BY <2>1, <2>4, <2>5 DEF Balanced
    <2>6. \A p : Pending(p)' <=> Pending(p)
      BY <2>1, PendingNever
    <2> QED
      BY <2>1, <2>2, <2>3, <2>5, <2>6, CreditWhen DEF history
  <1>9. CASE Allocate
    <2>1. /\ Collecting("allocate") /\ UNCHANGED <<receipts, tutoring, unfinished, crashes, history>>
          /\ \/ /\ run.left = 0 \/ Lacking = {}
                /\ Goes(run.todo, run.queue \ {Receipt}, "collect", {}, run.students, 0, {})
                /\ UNCHANGED <<alloc, last>>
             \/ \E t \in Targets :
                  /\ Outstanding(t) > 0 /\ run.left > 0
                  /\ \/ alloc[Receipt][t] = Share(t) /\ Pays(t) /\ UNCHANGED <<alloc, last>>
                     \/ /\ alloc[Receipt][t] = 0 /\ Live(Receipt) /\ Pays(t)
                        /\ Writes(Receipt, t, Share(t)) /\ UNCHANGED last
                     \/ /\ alloc[Receipt][t] > 0 \/ ~Live(Receipt)
                        /\ Refuse /\ UNCHANGED alloc
      BY <1>9, AllocateCases
    <2>2. /\ run.queue # {} /\ Receipt \in Receipts /\ Receipt \in run.queue
          /\ run.step = "allocate" /\ run.mutation \in AllMutations
      BY <2>1, AtReceipt
    <2>3. PICK r \in Receipts : r = Receipt /\ r \in run.queue
      BY <2>2
    <2>4. /\ Spent(r) \in Nat /\ receipts[r].amount \in Nat /\ run.left \in Nat
          /\ \A t \in Targets : Outstanding(t) \in Int
          /\ Targets \in SUBSET Nat /\ \A p : OwedBy(p) \in SUBSET Targets
      BY <1>0, TypeFacts, AllocationAssumption DEF OwedBy
    <2>5. ASSUME NEW t \in Targets, Outstanding(t) > 0, run.left > 0, alloc[r][t] > 0,
                 Live(r), NEW p \in Students, receipts[r].payer = p, Orderable(p)
          PROVE  FALSE
      BY <2>1, <2>3, <2>5, NothingLeft
    <2>6. crashes' = 0 => behind' = {} /\ unfinished' = {}
      BY <1>0, <2>1 DEF history
    <2>7. \A p \in Students : p \notin behind \union halfway /\ ~Pending(p) => Orderable(p)
      BY DEF Orderable
    <2>8. \A p : OwedBy(p)' = OwedBy(p)
      BY <2>1, OwedBySame DEF tutoring
    <2>9. UNCHANGED price
      BY <2>1 DEF tutoring
    <2>10. ASSUME run'.mutation = run.mutation, run'.todo = run.todo,
                  run'.students = run.students, UNCHANGED last,
                  \A p \in Students : Orderable(p) /\ Balanced(p) => Balanced(p)'
           PROVE  Credit'
      <3>1. \A p : Pending(p)' <=> Pending(p)
        BY <2>10, PendingNever
      <3>2. Watched' => Watched
        BY <2>1, <2>10, WatchedSame DEF history
      <3> QED
        BY <2>1, <2>6, <2>7, <2>10, <3>1, <3>2, CreditWhen DEF history
    <2>11. CASE /\ run.left = 0 \/ Lacking = {}
                /\ Goes(run.todo, run.queue \ {Receipt}, "collect", {}, run.students, 0, {})
                /\ UNCHANGED <<alloc, last>>
      <3>1. /\ run'.mutation = run.mutation /\ run'.todo = run.todo
            /\ run'.students = run.students /\ run'.queue = run.queue \ {r}
            /\ run'.step = "collect"
        BY <2>3, <2>11 DEF Goes
      <3>2. /\ \A s : Spent(s)' = Spent(s)
            /\ \A p : ReceiptsOf(p)' = ReceiptsOf(p)
            /\ \A t : Outstanding(t)' = Outstanding(t)
        BY <2>1, <2>9, <2>11, MoneySame
      <3>3. ASSUME NEW p \in Students, Orderable(p), Balanced(p) PROVE Balanced(p)'
        <4> SUFFICES ASSUME NEW s \in ReceiptsOf(p), s \notin run'.queue, NEW t \in OwedBy(p),
                            Spent(s) < receipts[s].amount
                     PROVE  Outstanding(t) <= 0
          BY <2>1, <2>8, <3>1, <3>2 DEF Balanced
        <4>1. CASE s # r
          BY <3>1, <3>3, <4>1 DEF Balanced
        <4>2. CASE s = r
          <5>1. Live(r) /\ receipts[r].payer = p
            BY <4>2, Views
          <5>2. run.left + Spent(r) = receipts[r].amount
            BY <2>2, <2>3, <3>3, <5>1 DEF NoConflict, Whole
          <5>3. run.left # 0 /\ Lacking = {}
            BY <2>4, <2>11, <4>2, <5>2
          <5>4. CASE t \in run.ahead
            <6>1. t \in Targets /\ ~(Outstanding(t) > 0)
              BY <2>4, <5>3, <5>4 DEF Lacking
            <6>2. Outstanding(t) \in Int
              BY <2>4, <6>1
            <6> QED
              BY <6>1, <6>2
          <5>5. CASE t \notin run.ahead
            BY <2>2, <2>3, <3>3, <5>1, <5>3, <5>5 DEF Balanced
          <5> QED
            BY <5>4, <5>5
        <4> QED
          BY <4>1, <4>2
      <3> QED
        BY <2>10, <2>11, <3>1, <3>3
    <2>12. ASSUME NEW t \in Targets, Outstanding(t) > 0, run.left > 0,
                  alloc[r][t] = Share(t), Pays(t), UNCHANGED <<alloc, last>>
           PROVE  Credit'
      <3>1. /\ run'.mutation = run.mutation /\ run'.todo = run.todo
            /\ run'.students = run.students /\ run'.queue = run.queue
            /\ Share(t) \in Nat \ {0}
        BY <2>12 DEF Pays, Goes
      <3>2. /\ \A s : Spent(s)' = Spent(s) /\ (Live(s)' <=> Live(s))
            /\ \A p : ReceiptsOf(p)' = ReceiptsOf(p)
            /\ \A u : Outstanding(u)' = Outstanding(u)
            /\ Receipt' = r
        BY <2>1, <2>3, <2>9, <2>12, <3>1, MoneySame
      <3>3. alloc[r][t] > 0
        BY <2>12, <3>1
      <3>4. ASSUME NEW p \in Students, Orderable(p), Balanced(p) PROVE Balanced(p)'
        <4>1. ~(Live(r) /\ receipts[r].payer = p)
          BY <2>5, <2>12, <3>3, <3>4
        <4> QED
          BY <2>1, <2>8, <3>1, <3>2, <3>4, <4>1 DEF Balanced
      <3> QED
        BY <2>10, <2>12, <3>1, <3>4
    <2>13. ASSUME NEW t \in Targets, Outstanding(t) > 0, run.left > 0,
                  alloc[Receipt][t] = 0, Live(Receipt), Pays(t), Writes(Receipt, t, Share(t)),
                  UNCHANGED last
           PROVE  Credit'
      <3>1. /\ run'.mutation = run.mutation /\ run'.todo = run.todo
            /\ run'.students = run.students /\ run'.queue = run.queue
            /\ run'.left = run.left - Share(t) /\ run'.ahead = {u \in run.ahead : u > t}
            /\ Share(t) = run.left \/ Share(t) = Outstanding(t)
            /\ \A u \in Lacking : t <= u
        BY <2>13 DEF Pays, Goes
      <3>2. PICK s \in Receipts, x \in Nat \ {0} :
              /\ s = Receipt /\ x = Share(t) /\ Receipt' = s
              /\ \A q \in Receipts : Live(q)' <=> Live(q)
              /\ \A q \in Receipts \ {s} : Spent(q)' = Spent(q)
              /\ \A u \in Targets \ {t} : Outstanding(u)' = Outstanding(u)
              /\ Outstanding(t)' = Outstanding(t) - x
              /\ \A p : ReceiptsOf(p)' = ReceiptsOf(p)
        BY <2>1, <2>13, PaidStep
      <3>3. s = r /\ (x = run.left \/ x = Outstanding(t)) /\ run'.left = run.left - x
        BY <2>3, <3>1, <3>2
      <3>4. \A u \in Targets : Outstanding(u) <= 0 => Outstanding(u)' <= 0
        <4> SUFFICES ASSUME NEW u \in Targets, Outstanding(u) <= 0 PROVE Outstanding(u)' <= 0
          OBVIOUS
        <4>1. Outstanding(u) \in Int /\ Outstanding(t) \in Int
          BY <2>4
        <4>2. u # t
          BY <2>13, <4>1
        <4> QED
          BY <3>2, <4>2
      <3>5. ASSUME NEW p \in Students, Balanced(p) PROVE Balanced(p)'
        <4>1. \A q \in ReceiptsOf(p) \ run'.queue, u \in OwedBy(p) :
                Spent(q)' < receipts'[q].amount => Outstanding(u)' <= 0
          <5> SUFFICES ASSUME NEW q \in ReceiptsOf(p), q \notin run'.queue, NEW u \in OwedBy(p),
                              Spent(q)' < receipts[q].amount
                       PROVE  Outstanding(u)' <= 0
            BY <2>1
          <5>1. q \in Receipts /\ q # s
            BY <2>3, <3>1, <3>3, Views
          <5>2. Outstanding(u) <= 0
            BY <3>1, <3>2, <3>5, <5>1 DEF Balanced
          <5> QED
            BY <2>4, <3>4, <5>2
        <4>2. ASSUME Live(r), receipts[r].payer = p, NEW u \in OwedBy(p), u \notin run'.ahead
              PROVE  run'.left = 0 \/ Outstanding(u)' <= 0
          <5>1. CASE u \notin run.ahead
            <6>1. Outstanding(u) <= 0
              BY <2>2, <2>3, <2>13, <3>5, <4>2, <5>1 DEF Balanced
            <6> QED
              BY <2>4, <3>4, <6>1
          <5>2. CASE u \in run.ahead /\ u # t
            <6>1. ~(u > t) /\ u \in Nat /\ t \in Nat
              BY <2>4, <3>1, <4>2, <5>2
            <6>2. u \notin Lacking
              BY <3>1, <5>2, <6>1
            <6>3. Outstanding(u) <= 0
              BY <2>4, <5>2, <6>2 DEF Lacking
            <6> QED
              BY <2>4, <3>4, <6>3
          <5>3. CASE u = t
            BY <2>4, <3>2, <3>3, <5>3
          <5> QED
            BY <5>1, <5>2, <5>3
        <4> QED
          BY <2>1, <2>8, <3>2, <3>3, <4>1, <4>2 DEF Balanced
      <3> QED
        BY <2>10, <2>13, <3>1, <3>5
    <2>14. ASSUME NEW t \in Targets, Outstanding(t) > 0, run.left > 0,
                  alloc[r][t] > 0 \/ ~Live(r), Refuse, UNCHANGED alloc
           PROVE  Credit'
      <3>1. /\ run' = Idle /\ last' = Ended(run.mutation, "refused")
            /\ run'.queue = {} /\ run'.step = "collect" /\ run'.students = {}
        BY <2>2, <2>14, RefuseCases
      <3>2. ASSUME Watched'
            PROVE  unfinished = {} /\ behind = {} /\ halfway = {} /\ Watched
        BY <1>0, <2>1, <3>1, <3>2, WatchedEnd DEF Watched, history
      <3>3. ASSUME Watched', NEW p \in Students, receipts[r].payer = p, Live(r)
            PROVE  FALSE
        <4>1. Orderable(p)
          <5>1. CASE run.mutation.op = "update"
            <6>1. Hooked(run.mutation) = {} /\ run.students = {}
              BY <1>0, <5>1 DEF Hooked
            <6> QED
              BY <2>3, <3>3, <5>1, <6>1 DEF Orderable
          <5>2. CASE run.mutation.op # "update"
            <6>1. ~Pending(p)
              BY <2>2, <5>2, PendingQueue
            <6> QED
              BY <3>2, <3>3, <6>1 DEF Orderable
          <5> QED
            BY <5>1, <5>2
        <4> QED
          BY <2>5, <2>14, <3>3, <4>1
      <3>4. ASSUME Watched' PROVE run.mutation.op = "create"
        <4> SUFFICES ASSUME run.mutation.op # "create" PROVE FALSE
          OBVIOUS
        <4>1. Live(r) /\ receipts[r].payer \in Students
          BY <2>3 DEF Base, QueueOK
        <4> QED
          BY <3>3, <3>4, <4>1
      <3>5. ASSUME Watched', NEW p \in Students
            PROVE  p \notin run.students /\ ~Pending(p) /\ (Balanced(p) => Balanced(p)')
        <4>1. run.mutation.op = "create"
          BY <3>4, <3>5
        <4>2. p \notin run.students /\ ~Pending(p)
          BY <1>0, <2>2, <4>1, PendingQueue DEF Hooked
        <4>3. run.queue = {r}
          BY <2>3, <4>1 DEF Base, QueueOK
        <4>4. r \notin ReceiptsOf(p)
          BY <3>3, <3>5, Views
        <4>5. /\ \A s : Spent(s)' = Spent(s)
              /\ ReceiptsOf(p)' = ReceiptsOf(p)
              /\ \A u : Outstanding(u)' = Outstanding(u)
          BY <2>1, <2>9, <2>14, MoneySame
        <4> QED
          BY <2>1, <2>8, <3>1, <4>2, <4>3, <4>4, <4>5 DEF Balanced
      <3> QED
        BY <2>6, <3>2, <3>5, CreditWhen
    <2> QED
      BY <2>1, <2>3, <2>11, <2>12, <2>13, <2>14
  <1>10. CASE Normalize
    <2>1. /\ At("normalize") /\ run'.mutation = run.mutation /\ run'.todo = Tail(run.todo)
          /\ run.queue = {} /\ run'.students = run.students /\ run'.step = "collect"
          /\ UNCHANGED <<receipts, alloc, tutoring, last, unfinished, crashes, history>>
      BY <1>10, NormalizeCases, AtHead DEF Goes
    <2>2. \A p : Pending(p) => Pending(p)'
      BY <2>1, PendingTail
    <2>3. crashes' = 0 => behind' = {} /\ unfinished' = {}
      BY <1>0, <2>1 DEF history
    <2>4. Watched' => Watched
      BY <2>1, WatchedSame DEF history
    <2>5. ASSUME NEW p \in Students, Balanced(p) PROVE Balanced(p)'
      <3>1. OwedBy(p)' = OwedBy(p) /\ UNCHANGED price
        BY <2>1, OwedBySame DEF tutoring
      <3> QED
        BY <2>1, <2>5, <3>1, BalancedSame
    <2> QED
      BY <2>1, <2>2, <2>3, <2>4, <2>5, CreditWhen DEF history
  <1>11. CASE NormalizeCycle
    <2>1. PICK c \in Cycles :
             /\ run.cycles # {} /\ status' = [status EXCEPT ![c] = Truth(c)]
             /\ run'.mutation = run.mutation /\ run'.todo = run.todo
             /\ run'.students = run.students /\ run'.queue = run.queue
             /\ run'.step # "allocate"
             /\ UNCHANGED <<receipts, alloc, lesson, full, price, last, unfinished, crashes,
                            history>>
      BY <1>11, NormalizeCycleCases DEF Goes
    <2>2. \A p : Pending(p)' <=> Pending(p)
      BY <2>1, PendingNever
    <2>3. crashes' = 0 => behind' = {} /\ unfinished' = {}
      BY <1>0, <2>1 DEF history
    <2>4. Watched' => Watched
      BY <2>1, WatchedSame DEF history
    <2>5. \A t : <<"markDue", t>> \notin ToSet(run.todo)
      <3>1. ~Left(run.todo)
        BY <2>1 DEF Base, TodoOK
      <3>2. \A s, x : <<s, x>>[1] = s
        OBVIOUS
      <3> QED
        BY <3>1, <3>2 DEF Left, Statements
    <2>6. status \in [Cycles -> {"open", "due", "paid"}]
      BY <1>0 DEF TypeOK
    <2>7. \A t \in Cycles : status'[t] = IF t = c THEN Truth(c) ELSE status[t]
      BY <2>1, <2>6
    <2>8. c \notin full => Truth(c) = "open"
      BY DEF Truth
    <2> HIDE DEF Truth
    <2>9. ASSUME unfinished = {}, NEW p \in Students
          PROVE  OwedBy(p)' \in SUBSET OwedBy(p)
      <3>1. Owner[c] = p /\ status[c] = "open" => c \notin full
        BY <2>5, <2>9 DEF FullDue, ToMark
      <3>2. ASSUME NEW t \in Targets, Owner[t] = p, Owing(t)' PROVE Owing(t)
        <4>1. CASE t \in Cycles
          BY <2>7, <2>8, <3>1, <3>2, <4>1 DEF Owing
        <4>2. CASE t \notin Cycles
          BY <2>1, <3>2, <4>2 DEF Owing
        <4> QED
          BY <4>1, <4>2
      <3> QED
        BY <3>2 DEF OwedBy
    <2>10. ASSUME unfinished = {}, NEW p \in Students, Balanced(p) PROVE Balanced(p)'
      <3>1. OwedBy(p)' \in SUBSET OwedBy(p)
        BY <2>9, <2>10
      <3> QED
        BY <2>1, <2>10, <3>1, BalancedSame
    <2> QED
      BY <2>1, <2>2, <2>3, <2>4, <2>10, CreditWhen DEF history
  <1>12. CASE Teach
    <2>1. /\ run'.mutation = run.mutation /\ run'.todo = Tail(run.todo)
          /\ run'.step = "collect" /\ run'.students = run.students
          /\ UNCHANGED <<receipts, alloc, behind, last, unfinished, crashes>>
      BY <1>12, TeachCases DEF Goes
    <2>2. /\ \E k \in Statements : At(k)
          /\ run.mutation.op \in {"complete", "reopen"} \/ SetsOpening
      BY <1>12, TeachCases
         DEF Attends, Links, MarksDue, Unlinks, Opens, Resets, SetsOpening, Statements
    <2>3. PICK k \in Statements : At(k)
      BY <2>2
    <2>4. k # "normalize" /\ k # "rebuild"
      BY DEF Statements
    <2>5. run.students = Hooked(run.mutation) /\ run.queue = {}
      BY <2>3, <2>4, HeadStudents, AtHead
    <2>6. \A p : Pending(p) => Pending(p)'
      BY <2>1, <2>3, <2>4, PendingTail
    <2>7. crashes' = 0 => behind' = {} /\ unfinished' = {}
      BY <1>0, <2>1
    <2>8. CASE run.mutation.op \in {"complete", "reopen"}
      <3>1. run'.students = Students
        BY <2>1, <2>5, <2>8 DEF Hooked
      <3> QED
        BY <2>7, <3>1 DEF Credit
    <2>9. CASE SetsOpening
      <3>1. /\ At("opening") /\ run.mutation.op = "configure" /\ Arg \in Cycles
            /\ Arg = run.mutation.target
            /\ \/ UNCHANGED <<full, status>>
               \/ full' = full \union {Arg} /\ status' = [status EXCEPT ![Arg] = "due"]
               \/ full' = full \ {Arg} /\ status' = [status EXCEPT ![Arg] = "open"]
            /\ UNCHANGED <<lesson, price, halfway>>
        BY <2>9 DEF SetsOpening
      <3>2. PICK a \in Cycles : a = Arg
        BY <3>1
      <3>3. Pending(Owner[a])'
        <4>1. Pending(Owner[run.mutation.target])
          BY <2>3, <3>1, PendingFor
        <4>2. Pending(Owner[a])
          BY <3>1, <3>2, <4>1
        <4> QED
          BY <2>6, <4>2
      <3>4. \A t \in Cycles \ {a} : status'[t] = status[t]
        BY <1>0, <3>1, <3>2 DEF TypeOK
      <3>5. \A t \in Targets \ {a} : Owing(t)' <=> Owing(t)
        BY <3>1, <3>4 DEF Owing
      <3>6. ASSUME NEW p \in Students, p # Owner[a], Balanced(p) PROVE Balanced(p)'
        <4>1. OwedBy(p)' \in SUBSET OwedBy(p)
          BY <3>5, <3>6 DEF OwedBy
        <4> QED
          BY <2>1, <2>5, <3>1, <3>6, <4>1, BalancedSame
      <3>7. Watched' => Watched
        BY <2>1, <3>1, WatchedSame
      <3>8. \A p \in Students \ (behind' \union halfway' \union run'.students) :
              \/ Pending(p)' \/ Balanced(p)'
              \/ /\ p \notin behind \union halfway \union run.students /\ ~Pending(p)
                 /\ Balanced(p) => Balanced(p)'
        BY <2>1, <2>6, <3>1, <3>3, <3>6
      <3> QED
        BY <2>1, <2>7, <3>7, <3>8, CreditWhen
    <2> QED
      BY <2>2, <2>8, <2>9
  <1>13. CASE Finish
    <2>1. /\ run' = Idle /\ last' = Ended(run.mutation, "done")
          /\ run.queue = {} /\ run.students = {} /\ \A p : ~Pending(p)
          /\ UNCHANGED <<receipts, alloc, tutoring, unfinished, crashes, history>>
      BY <1>13, FinishCases
    <2>2. crashes' = 0 => behind' = {} /\ unfinished' = {}
      BY <1>0, <2>1 DEF history
    <2>3. run'.step = "collect" /\ run'.mutation = NoMutation
      BY <2>1, IdleFacts
    <2>4. Watched' => Watched
      <3>1. last'.mutation = run.mutation
        BY <2>1 DEF Ended
      <3> QED
        BY <1>00, <2>1, <2>3, <3>1 DEF Watched, JustDone, history
    <2>5. ASSUME NEW p \in Students, Balanced(p) PROVE Balanced(p)'
      <3>1. OwedBy(p)' = OwedBy(p) /\ UNCHANGED price
        BY <2>1, OwedBySame DEF tutoring
      <3> QED
        BY <2>1, <2>3, <2>5, <3>1, BalancedSame
    <2> QED
      BY <2>1, <2>2, <2>4, <2>5, CreditWhen DEF history
  <1>14. CASE WorkerDies
    <2>1. crashes' = crashes + 1 /\ unfinished' = unfinished \union {run.mutation}
      BY <1>14, DiesCases
    <2> QED
      BY <1>0, <2>1 DEF Credit
  <1> QED
    BY <1>1, <1>2, <1>3, <1>5, <1>6, <1>7, <1>8, <1>9, <1>10, <1>11, <1>12, <1>13, <1>14
       DEF Next

-----------------------------------------------------------------------------
(* The theorems.                                                           *)

(* At first no money is anywhere.                                          *)
LEMMA BookkeepingInit ==
    ASSUME Init
    PROVE  Bookkeeping
  <1>1. Base
    BY BaseInit
  <1>2. /\ \A r \in Receipts : receipts[r].state = "none" /\ ~Live(r)
        /\ \A r \in Receipts, t \in Targets : alloc[r][t] = 0
        /\ \A t \in Cycles : status[t] = "open"
        /\ full = {} /\ unfinished = {} /\ behind = {} /\ halfway = {} /\ run = Idle
        /\ last = Ended(NoMutation, "done")
    BY DEF Init, NoReceipt, Live
  <1>3. /\ run.step = "collect" /\ run.mutation = NoMutation
        /\ NoMutation.op \notin {"complete", "reopen", "restore"} \union Tutoring
        /\ Ended(NoMutation, "done").mutation = NoMutation
    BY <1>2, IdleFacts, NoMutationIsNone DEF Ended, Tutoring
  <1>4. LessonMoney /\ MoneyOwed /\ FullDue
    BY <1>2, TypeFacts, <1>1 DEF LessonMoney, MoneyOwed, FullDue
  <1>5. \A p : ReceiptsOf(p) = {}
    BY <1>2, Views
  <1>6. NoConflict
    BY <1>3, <1>5 DEF NoConflict, Clear, Whole
  <1>7. ASSUME NEW t \in Targets
        PROVE  PaidFor(t) <= price[t] /\ Allocated(t) <= price[t]
    <2>1. alloc \in Allocations /\ price[t] \in Nat
      BY <1>1, TypeFacts DEF Base
    <2>2. /\ LiveIn(receipts) \in SUBSET Receipts
          /\ LiveIn(receipts) \ Suspects \in SUBSET Receipts
      BY PaidForViews
    <2>3. /\ Paid(alloc, t, LiveIn(receipts)) = 0
          /\ Paid(alloc, t, LiveIn(receipts) \ Suspects) = 0
      BY <1>2, <2>1, <2>2, ColumnSum
    <2>4. PaidFor(t) = 0
      BY <2>3, PaidForViews
    <2>5. Allocated(t) = 0
      BY <2>3, Views
    <2> QED
      BY <2>1, <2>4, <2>5
  <1>8. Overpaying
    BY <1>7 DEF Overpaying
  <1>9. ~JustDone({"complete", "reopen"})
    BY <1>2, <1>3 DEF JustDone
  <1>10. Statuses
    BY <1>3, <1>9 DEF Statuses
  <1>11. Credit
    BY <1>2, <1>3, <1>5 DEF Credit, Balanced
  <1>12. TutoringNeverRefused
    BY <1>2, <1>3 DEF TutoringNeverRefused
  <1> QED
    BY <1>4, <1>6, <1>8, <1>10, <1>11, <1>12 DEF Bookkeeping

(* A step that changes nothing keeps the books.                            *)
LEMMA BookkeepingStutter ==
    ASSUME Bookkeeping, UNCHANGED vars
    PROVE  Bookkeeping'
  <1>1. /\ UNCHANGED <<receipts, alloc, lesson, full, status, price, run, last,
                       unfinished, mutations, crashes, revived, behind, halfway>>
    BY DEF vars, tutoring, history
  <1>2. /\ \A r : Spent(r)' = Spent(r) /\ (Live(r)' <=> Live(r))
        /\ \A t : Allocated(t)' = Allocated(t) /\ Outstanding(t)' = Outstanding(t)
        /\ \A p : ReceiptsOf(p)' = ReceiptsOf(p) /\ OwedBy(p)' = OwedBy(p)
        /\ Receipt' = Receipt
    BY <1>1, MoneySame, OwedBySame
  <1>3. /\ \A p : Pending(p)' <=> Pending(p)
        /\ ToRebuild' = ToRebuild
    BY <1>1 DEF Pending, ToRebuild
  <1>4. Suspects' = Suspects /\ \A t : PaidFor(t)' = PaidFor(t)
    BY <1>1, <1>2, <1>3 DEF Suspects, PaidFor
  <1>5. /\ \A p : Orderable(p)' <=> Orderable(p)
        /\ \A t : Truth(t)' = Truth(t) /\ (Owing(t)' <=> Owing(t))
    BY <1>1, <1>2, <1>3 DEF Orderable, Truth, Owing, Hooked
  <1>6. LessonMoney'
    BY <1>1, <1>3 DEF Bookkeeping, LessonMoney
  <1>7. NoConflict'
    BY <1>1, <1>2, <1>5 DEF Bookkeeping, NoConflict, Clear, Whole
  <1>8. Overpaying'
    BY <1>1, <1>2, <1>4 DEF Bookkeeping, Overpaying
  <1>9. MoneyOwed'
    BY <1>1, <1>3, <1>5 DEF Bookkeeping, MoneyOwed, ToRelease, ToOpen
  <1>10. FullDue'
    BY <1>1 DEF Bookkeeping, FullDue, ToMark
  <1>11. JustDone({"complete", "reopen"})' <=> JustDone({"complete", "reopen"})
    BY <1>1 DEF JustDone
  <1>12. Statuses'
    BY <1>1, <1>5, <1>11 DEF Bookkeeping, Statuses, ToState
  <1>13. Credit'
    BY <1>1, <1>2, <1>3, <1>11 DEF Bookkeeping, Credit, Watched, Balanced
  <1>14. TutoringNeverRefused'
    BY <1>1 DEF Bookkeeping, TutoringNeverRefused
  <1> QED
    BY <1>6, <1>7, <1>8, <1>9, <1>10, <1>12, <1>13, <1>14 DEF Bookkeeping

(* What the receipts pay for, what is left of them, and what the states of *)
(* the cycles say of it, while handlers are at work and when they end.     *)
THEOREM AlwaysBookkeeping == Spec => []Bookkeeping
  <1>1. Init => Bookkeeping
    BY BookkeepingInit
  <1>2. Base /\ Bookkeeping /\ [Next]_vars => Bookkeeping'
    <2>1. ASSUME Base, Bookkeeping, Next PROVE Bookkeeping'
      <3>1. /\ LessonMoney /\ NoConflict /\ Overpaying /\ MoneyOwed /\ FullDue /\ Statuses
            /\ Credit /\ TutoringNeverRefused
        BY <2>1 DEF Bookkeeping
      <3>2. LessonMoney' /\ MoneyOwed' /\ FullDue' /\ Statuses'
        BY <2>1, <3>1, LessonMoneyStep, MoneyOwedStep, FullDueStep, StatusesStep
      <3>3. NoConflict'
        BY <2>1, <3>1, NoConflictStep
      <3>4. TutoringNeverRefused'
        BY <2>1, <3>1, RefusedStep
      <3>5. Overpaying'
        BY <2>1, <3>1, OverpayingStep
      <3>6. Credit'
        BY <2>1, <3>1, CreditStep
      <3> QED
        BY <3>2, <3>3, <3>4, <3>5, <3>6 DEF Bookkeeping
    <2> QED
      BY <2>1, BookkeepingStutter
  <1> QED
    BY <1>1, <1>2, AlwaysBase, PTL DEF Spec

(* No tutoring mutation is refused because of money, unless the rebuild of *)
(* some student was left undone.                                           *)
THEOREM TutoringIsNeverRefused == Spec => []TutoringNeverRefused
  <1>1. Bookkeeping => TutoringNeverRefused
    BY DEF Bookkeeping
  <1> QED
    BY <1>1, AlwaysBookkeeping, PTL

(* When every mutation sent has ended, no obligation holds more money than *)
(* it costs.                                                               *)
THEOREM NothingIsOverpaid == Spec => []NeverOverpaid
  <1>1. Base /\ Bookkeeping => NeverOverpaid
    <2> SUFFICES ASSUME Base, Bookkeeping, run = Idle, unfinished = {}, NEW t \in Targets,
                        Owner[t] \notin (Families \intersect revived) \union halfway
                 PROVE  Outstanding(t) >= 0
      BY DEF NeverOverpaid, Settled
    <2>1. \A p : ~Pending(p)
      BY PendingNever
    <2>2. Suspects = {}
      BY <2>1 DEF Suspects, ToRebuild, Pending
    <2>3. PaidFor(t) = Allocated(t)
      BY <2>2, PaidForViews, Views
    <2>4. /\ price[t] \in Nat /\ Allocated(t) \in Nat /\ Owner[t] \in Students \union Families
      BY TypeFacts DEF Base, Payers
    <2>5. Allocated(t) <= price[t]
      BY <2>3, <2>4 DEF Bookkeeping, Overpaying
    <2> QED
      BY <2>4, <2>5 DEF Outstanding
  <1> QED
    BY <1>1, AlwaysBase, AlwaysBookkeeping, PTL

(* ... and no money of a student lies on what is not owed any more.        *)
THEOREM MoneyIsWhereOwed == Spec => []MoneyFollowsObligations
  <1>1. Bookkeeping => MoneyFollowsObligations
    <2> SUFFICES ASSUME Bookkeeping, run = Idle, unfinished = {},
                        NEW r \in Receipts, NEW t \in Targets,
                        Owner[t] \in Students \ halfway, alloc[r][t] > 0
                 PROVE  Owing(t)
      BY DEF MoneyFollowsObligations, Settled
    <2>1. \A p : ~Pending(p)
      BY PendingNever
    <2> QED
      BY <2>1 DEF Bookkeeping, MoneyOwed, ToRelease
  <1> QED
    BY <1>1, AlwaysBookkeeping, PTL

(* After a lesson is completed or reopened, once settled, every student's  *)
(* cycles are open, due or paid as their lessons and money say.            *)
THEOREM StatusIsTrue == Spec => []StatusTellsTruth
  <1>1. Base /\ Bookkeeping => StatusTellsTruth
    <2> SUFFICES ASSUME Base, Bookkeeping, JustDone({"complete", "reopen"}),
                        NEW t \in Cycles, Owner[t] \in Students
                 PROVE  /\ status[t] = "open" <=> t \notin full
                        /\ status[t] = "paid" => Outstanding(t) <= 0
                        /\ status[t] = "due" => Outstanding(t) > 0
      BY DEF StatusTellsTruth
    <2>1. status[t] = Truth(t)
      BY DEF Bookkeeping, Statuses
    <2>2. Outstanding(t) \in Int
      BY TypeFacts DEF Base
    <2> QED
      BY <2>1, <2>2 DEF Truth
  <1> QED
    BY <1>1, AlwaysBase, AlwaysBookkeeping, PTL

(* Once settled, no student has unspent money and an unpaid obligation at  *)
(* the same time, except students whose rebuild was left undone for good.  *)
THEOREM CreditIsSpent == Spec => []NoCreditWhileOwing
  <1>1. Base /\ Bookkeeping => NoCreditWhileOwing
    <2> SUFFICES ASSUME Base, Bookkeeping, run = Idle, unfinished = {}, Watched,
                        NEW p \in Students, p \notin behind \union halfway,
                        NEW r \in ReceiptsOf(p), NEW t \in OwedBy(p),
                        Spent(r) < receipts[r].amount, Outstanding(t) > 0
                 PROVE  FALSE
      BY DEF NoCreditWhileOwing, Settled, CreditWhileOwing, Watched
    <2>1. ~Pending(p) /\ run.queue = {} /\ run.students = {}
      BY PendingNever
    <2>2. Balanced(p)
      BY <2>1 DEF Bookkeeping, Credit
    <2>3. Outstanding(t) <= 0
      BY <2>1, <2>2 DEF Balanced
    <2>4. Outstanding(t) \in Int
      BY TypeFacts DEF Base, OwedBy
    <2> QED
      BY <2>3, <2>4
  <1> QED
    BY <1>1, AlwaysBase, AlwaysBookkeeping, PTL

-----------------------------------------------------------------------------
(* Where the money lies after a correction.                                *)

LEMMA CoveredIs ==
    ASSUME NEW x \in Nat, NEW o \in Nat, NEW c \in Nat
    PROVE  Covered(x, o, c) \in Nat /\ Covered(0, o, c) = 0
  BY DEF Covered

(* An obligation that the money before the receipt has paid,               *)
LEMMA AlreadyCovered ==
    ASSUME NEW x \in Nat, NEW a \in Nat, NEW o \in Nat, NEW c \in Nat \ {0},
           c <= Covered(x, o, c)
    PROVE  /\ o + c <= x /\ Shared(x, a, o, c) = 0
           /\ Covered(x + a, o, c) = Covered(x, o, c)
  <1>1. o + c <= x
    BY DEF Covered
  <1> QED
    BY <1>1 DEF Covered, Shared

(* one that the money does not reach,                                      *)
LEMMA OutOfReach ==
    ASSUME NEW x \in Nat, NEW a \in Nat, NEW o \in Nat, NEW c \in Nat,
           x + a <= o \/ a = 0
    PROVE  Shared(x, a, o, c) = 0 /\ Covered(x + a, o, c) = Covered(x, o, c)
  BY DEF Covered, Shared

(* and the one it pays next.                                               *)
LEMMA NextShare ==
    ASSUME NEW x \in Nat, NEW a \in Nat, NEW o \in Nat, NEW c \in Nat,
           NEW l \in Nat, l = LeftOf(x, a, o), l > 0, c - Covered(x, o, c) > 0,
           NEW s \in Nat, s = IF l <= c - Covered(x, o, c) THEN l ELSE c - Covered(x, o, c)
    PROVE  /\ s = Shared(x, a, o, c) /\ Covered(x, o, c) + s = Covered(x + a, o, c)
           /\ l - s = LeftOf(x, a, o + c)
  <1>1. x < o + c
    BY DEF Covered
  <1>2. CASE x <= o
    <2>1. Covered(x, o, c) = 0 /\ x + a > o /\ l = x + a - o
      BY <1>2 DEF Covered, LeftOf
    <2> QED
      BY <1>1, <1>2, <2>1 DEF Covered, Shared, LeftOf
  <1>3. CASE o < x
    <2>1. Covered(x, o, c) = x - o /\ l = a
      BY <1>1, <1>3 DEF Covered, LeftOf
    <2> QED
      BY <1>1, <1>3, <2>1 DEF Covered, Shared, LeftOf
  <1> QED
    BY <1>2, <1>3

(* The larger of two numbers.                                              *)
LEMMA MaxOfTwo ==
    ASSUME NEW a \in Int, NEW b \in Int
    PROVE  Max({a, b}) = IF a <= b THEN b ELSE a
  <1> DEFINE c == IF a <= b THEN b ELSE a
  <1>1. c \in {a, b} /\ \A y \in {a, b} : c >= y
    OBVIOUS
  <1>2. \A x \in {a, b} : (\A y \in {a, b} : x >= y) => x = c
    OBVIOUS
  <1> HIDE DEF c
  <1>3. Max({a, b}) = c
    BY <1>1, <1>2 DEF Max
  <1> QED
    BY <1>3 DEF c

(* The greatest of some numbers that are all below another.                *)
LEMMA GreatestBelow ==
    ASSUME NEW S \in SUBSET Nat, S # {}, NEW t \in Nat, \A u \in S : u < t
    PROVE  \E m \in S : \A u \in S : u <= m
  <1> DEFINE T == {t - u : u \in S}
  <1>1. T \in SUBSET Nat /\ T # {}
    <2>1. \A u \in S : u \in Nat /\ u < t
      OBVIOUS
    <2>2. \A u \in S : t - u \in Nat
      BY <2>1
    <2>3. PICK u \in S : TRUE
      OBVIOUS
    <2>4. t - u \in T
      BY <2>3
    <2> QED
      BY <2>2, <2>4
  <1>2. PICK k \in T : \A j \in T : k <= j
    BY <1>1, LeastNatural
  <1>3. PICK m \in S : k = t - m
    BY <1>2
  <1>4. \A u \in S : t - m <= t - u
    BY <1>2, <1>3
  <1> QED
    BY <1>4

(* Money and prices laid end to end.                                       *)
LEMMA LaidFacts ==
    ASSUME TypeOK
    PROVE  /\ \A r \in Receipts : Received_before(r) \in Nat
           /\ \A t \in Targets : Owed_before(t) \in Nat
           /\ \A p : Gathered(p) \in Nat /\ Passed(p) \in Nat
           /\ \A p : OwedBy(p) \in SUBSET Targets /\ IsFiniteSet(OwedBy(p))
           /\ \A p : ReceiptsOf(p) \in SUBSET Receipts /\ IsFiniteSet(ReceiptsOf(p))
  <1> DEFINE f == [s \in Receipts |-> receipts[s].amount]
  <1>1. /\ \A s \in Receipts : f[s] \in Nat
        /\ \A t \in Targets : price[t] \in Nat
    BY TypeFacts
  <1> HIDE DEF f
  <1>2. \A S \in SUBSET Receipts : IsFiniteSet(S)
    BY AllocationAssumption, FS_Subset
  <1>3. \A S \in SUBSET Targets : IsFiniteSet(S)
    BY AllocationAssumption, FS_Subset
  <1>4. \A S \in SUBSET Receipts : Sum(f, S) \in Nat
    BY <1>1, <1>2, SumIsNat
  <1>5. \A S \in SUBSET Targets : Sum(price, S) \in Nat
    BY <1>1, <1>3, SumIsNat
  <1>6. \A p : OwedBy(p) \in SUBSET Targets /\ ReceiptsOf(p) \in SUBSET Receipts
    BY DEF OwedBy, ReceiptsOf
  <1>7. \A r \in Receipts : Received_before(r) \in Nat
    BY <1>4, <1>6 DEF Received_before, Sum, f
  <1>8. \A t \in Targets : Owed_before(t) \in Nat
    BY <1>5, <1>6 DEF Owed_before, Sum
  <1>9. \A p : Gathered(p) \in Nat /\ Passed(p) \in Nat
    BY <1>4, <1>5, <1>6 DEF Gathered, Passed, f
  <1> QED
    BY <1>2, <1>3, <1>6, <1>7, <1>8, <1>9

(* What two stretches share.                                               *)
LEMMA OverlapIs ==
    ASSUME TypeOK, NEW r \in Receipts, NEW t \in Targets
    PROVE  /\ Overlap(r, t) = Shared(Received_before(r), receipts[r].amount,
                                     Owed_before(t), price[t])
           /\ Overlap(r, t) \in Nat
  <1> DEFINE x == Received_before(r)
             a == receipts[r].amount
             o == Owed_before(t)
             c == price[t]
  <1>1. x \in Nat /\ a \in Nat /\ o \in Nat /\ c \in Nat
    BY LaidFacts, TypeFacts
  <1>2. Overlap(r, t) = Max({0, Min({x + a, o + c}) - Max({x, o})})
    BY DEF Overlap
  <1> HIDE DEF x, a, o, c
  <1>3. Min({x + a, o + c}) = IF x + a <= o + c THEN x + a ELSE o + c
    BY <1>1, MinOfTwo
  <1>4. Max({x, o}) = IF x <= o THEN o ELSE x
    BY <1>1, MaxOfTwo
  <1> DEFINE d == Min({x + a, o + c}) - Max({x, o})
  <1>5. d \in Int
    BY <1>1, <1>3, <1>4
  <1>6. d = (IF x + a <= o + c THEN x + a ELSE o + c) - (IF x <= o THEN o ELSE x)
    BY <1>3, <1>4
  <1> HIDE DEF d
  <1>7. Max({0, d}) = IF 0 <= d THEN d ELSE 0
    BY <1>5, MaxOfTwo
  <1>8. Overlap(r, t) = IF 0 <= d THEN d ELSE 0
    BY <1>2, <1>7 DEF d
  <1>9. (IF 0 <= d THEN d ELSE 0) = Shared(x, a, o, c)
    BY <1>1, <1>6 DEF Shared
  <1> QED
    BY <1>5, <1>8, <1>9 DEF x, a, o, c

(* Obligations fall due one after the other.                               *)
LEMMA InOrder ==
    ASSUME TypeOK, NEW p, NEW u \in OwedBy(p), NEW v \in OwedBy(p)
    PROVE  /\ u \in Targets /\ u \in Nat /\ Owner[u] = p
           /\ u <= v <=> (u < v \/ u = v)
           /\ ~(u <= v) <=> v < u
           /\ u < v => ~(v < u) /\ u # v
           /\ u <= u /\ ~(u < u)
  <1>1. u \in Targets /\ v \in Targets /\ Owner[u] = p
    BY DEF OwedBy
  <1>2. u \in Nat /\ v \in Nat
    BY <1>1, AllocationAssumption
  <1> QED
    BY <1>1, <1>2

(* The receipt that is paying follows those that have been collected.      *)
LEMMA CollectedBefore ==
    ASSUME Base, NEW p, LaidOut(p), NEW r \in Receipts, r = Receipt, r \in Waiting(p)
    PROVE  /\ Received_before(r) = Gathered(p)
           /\ \A s \in Waiting(p) \ {r} : Earlier(r, s)
  <1>1. /\ run.queue \in SUBSET Receipts /\ run.queue # {}
        /\ r = Oldest(run.queue) /\ TypeOK /\ receipts[r].payer = p
        /\ ReceiptsOf(p) \in SUBSET Receipts /\ Waiting(p) \in SUBSET run.queue
        /\ Waiting(p) \in SUBSET ReceiptsOf(p)
    BY TypeFacts DEF Base, Receipt, Waiting, ReceiptsOf
  <1>2. \A s \in run.queue \ {r} : Earlier(r, s)
    BY <1>1, OldestIsIn
  <1>3. \A s, u \in Receipts : Earlier(s, u) => ~Earlier(u, s) /\ s # u
    <2>1. Receipts \in SUBSET Nat /\ \A s \in Receipts : receipts[s].at \in Nat
      BY <1>1, TypeFacts, AllocationAssumption
    <2> QED
      BY <2>1 DEF Earlier
  <1>4. \A s \in ReceiptsOf(p) \ Waiting(p) : Earlier(s, r)
    BY DEF LaidOut
  <1>5. \A s \in ReceiptsOf(p) : Earlier(s, r) => s \notin Waiting(p)
    BY <1>1, <1>2, <1>3
  <1>6. {s \in ReceiptsOf(p) : Earlier(s, r)} = ReceiptsOf(p) \ Waiting(p)
    BY <1>4, <1>5
  <1> QED
    BY <1>1, <1>2, <1>6 DEF Received_before, Gathered, Sum

(* The obligations that the receipt has passed come before those ahead.    *)
LEMMA PassedBefore ==
    ASSUME Base, NEW p, LaidOut(p), NEW r \in Receipts, Paying(r, p)
    PROVE  /\ \A t \in run.ahead : t \in OwedBy(p) /\ Owner[t] = p /\ Passed(p) <= Owed_before(t)
           /\ \A t \in run.ahead : (\A u \in run.ahead : t <= u) => Owed_before(t) = Passed(p)
  <1>1. /\ r = Receipt /\ receipts[r].payer = p /\ run.step = "allocate"
    BY DEF Paying, Waiting, ReceiptsOf
  <1>2. run.ahead \in SUBSET OwedBy(p)
    BY <1>1 DEF Base, QueueOK
  <1>3. /\ OwedBy(p) \in SUBSET Targets /\ IsFiniteSet(OwedBy(p))
        /\ Targets \in SUBSET Nat /\ \A t \in Targets : price[t] \in Nat
        /\ \A t \in OwedBy(p) : Owner[t] = p
    BY LaidFacts, TypeFacts, AllocationAssumption DEF Base, OwedBy
  <1>4. \A u \in OwedBy(p) \ run.ahead, v \in run.ahead : u < v
    BY DEF LaidOut
  <1> SUFFICES ASSUME NEW t \in run.ahead
               PROVE  /\ Passed(p) <= Owed_before(t)
                      /\ (\A u \in run.ahead : t <= u) => Owed_before(t) = Passed(p)
    BY <1>2, <1>3
  <1> DEFINE B == {u \in OwedBy(p) : u < t}
  <1>5. Owed_before(t) = Sum(price, B) /\ B \in SUBSET OwedBy(p)
    BY <1>2, <1>3 DEF Owed_before, Sum
  <1>6. OwedBy(p) \ run.ahead \in SUBSET B
    BY <1>4
  <1>7. IsFiniteSet(B) /\ \A u \in B : price[u] \in Nat
    BY <1>3, <1>5, FS_Subset
  <1>8. Passed(p) <= Owed_before(t)
    BY <1>5, <1>6, <1>7, SumPart DEF Passed
  <1>9. ASSUME \A u \in run.ahead : t <= u PROVE B = OwedBy(p) \ run.ahead
    <2>1. \A u \in run.ahead : ~(u < t)
      BY <1>2, <1>9, InOrder DEF Base
    <2> QED
      BY <1>6, <2>1
  <1> QED
    BY <1>5, <1>8, <1>9 DEF Passed

(* One more obligation.                                                    *)
LEMMA OwedNext ==
    ASSUME TypeOK, NEW p, NEW m \in OwedBy(p)
    PROVE  Sum(price, {u \in OwedBy(p) : u <= m}) = Owed_before(m) + price[m]
  <1> DEFINE B == {u \in OwedBy(p) : u <= m}
  <1>1. /\ OwedBy(p) \in SUBSET Targets /\ IsFiniteSet(OwedBy(p))
        /\ Targets \in SUBSET Nat /\ \A t \in Targets : price[t] \in Nat
        /\ Owner[m] = p
    BY LaidFacts, TypeFacts, AllocationAssumption DEF OwedBy
  <1>2. IsFiniteSet(B) /\ m \in B /\ \A u \in B : price[u] \in Nat
    <2>1. B \in SUBSET OwedBy(p) /\ m \in B
      BY InOrder
    <2>2. IsFiniteSet(B)
      BY <1>1, <2>1, FS_Subset
    <2> QED
      BY <1>1, <2>1, <2>2
  <1>3. Sum(price, B) = price[m] + Sum(price, B \ {m})
    BY <1>2, SumRemove
  <1>4. B \ {m} = {u \in OwedBy(p) : u < m}
    BY InOrder
  <1>5. Owed_before(m) = Sum(price, B \ {m})
    BY <1>1, <1>4 DEF Owed_before, Sum
  <1>6. Owed_before(m) \in Nat /\ price[m] \in Nat
    BY <1>1, LaidFacts
  <1> QED
    BY <1>3, <1>5, <1>6

(* If every obligation ahead before t is paid, the money gathered reaches  *)
(* t, or nothing lies between.                                             *)
LEMMA ReachesNext ==
    ASSUME Base, Priced, NEW p, LaidOut(p), NEW r \in Receipts, Paying(r, p),
           NEW t \in run.ahead,
           \A u \in run.ahead : u < t => Outstanding(u) <= 0
    PROVE  Owed_before(t) = Passed(p) \/ Owed_before(t) <= Gathered(p)
  <1>1. \A u \in run.ahead : u \in OwedBy(p) /\ Owner[u] = p
    BY PassedBefore
  <1>2. /\ OwedBy(p) \in SUBSET Targets
        /\ Targets \in SUBSET Nat /\ \A u \in Targets : price[u] \in Nat \ {0}
        /\ \A u \in OwedBy(p) : Owner[u] = p
    BY LaidFacts, TypeFacts, AllocationAssumption DEF Base, OwedBy, Priced
  <1>3. CASE \A u \in run.ahead : t <= u
    BY <1>3, PassedBefore
  <1>4. CASE \E u \in run.ahead : ~(t <= u)
    <2>1. PICK u \in run.ahead : u < t
      BY <1>1, <1>4, InOrder DEF Base
    <2> DEFINE B == {v \in OwedBy(p) : v < t}
    <2>2. B \in SUBSET Nat /\ u \in B /\ t \in Nat /\ \A v \in B : v < t
      BY <1>1, <1>2, <2>1
    <2>3. PICK m \in B : \A v \in B : v <= m
      BY <2>2, GreatestBelow
    <2>4. m \in run.ahead
      <3> SUFFICES ASSUME m \notin run.ahead PROVE FALSE
        OBVIOUS
      <3>1. m < u
        BY DEF LaidOut
      <3> QED
        BY <2>2, <2>3, <3>1
    <2>5. Outstanding(m) <= 0 /\ m \in OwedBy(p) /\ m \in Targets
      BY <1>2, <2>3, <2>4
    <2>6. Allocated(m) = Covered(Gathered(p), Owed_before(m), price[m])
      BY <2>4, <2>5 DEF LaidOut, LaidTarget
    <2>7. /\ Gathered(p) \in Nat /\ Owed_before(m) \in Nat /\ price[m] \in Nat \ {0}
          /\ Allocated(m) \in Nat
      BY <1>2, <2>5, LaidFacts, TypeFacts DEF Base
    <2>8. price[m] <= Allocated(m)
      BY <2>5, <2>7 DEF Outstanding
    <2>9. Owed_before(m) + price[m] <= Gathered(p)
      BY <2>6, <2>7, <2>8 DEF Covered
    <2>10. B = {v \in OwedBy(p) : v <= m}
      <3>1. m \in Nat /\ t \in Nat /\ m < t
        BY <2>2, <2>3
      <3>2. \A v \in Nat : v <= m => v < t
        BY <3>1
      <3>3. \A v \in OwedBy(p) : v \in Nat
        BY <1>2
      <3> QED
        BY <2>3, <3>2, <3>3
    <2>11. Sum(price, {v \in OwedBy(p) : v <= m}) = Owed_before(m) + price[m]
      BY <2>5, OwedNext DEF Base
    <2>12. Owed_before(t) = Sum(price, B)
      BY <1>1 DEF Owed_before, Sum
    <2> QED
      BY <2>9, <2>10, <2>11, <2>12
  <1> QED
    BY <1>3, <1>4

(* Rows that stay as they are.                                             *)
LEMMA LaidViews ==
    ASSUME UNCHANGED <<receipts, price>>, NEW p, OwedBy(p)' = OwedBy(p)
    PROVE  /\ ReceiptsOf(p)' = ReceiptsOf(p)
           /\ \A r, s : Earlier(r, s)' <=> Earlier(r, s)
           /\ \A t \in OwedBy(p) : Owed_before(t)' = Owed_before(t)
           /\ \A r \in ReceiptsOf(p), t \in OwedBy(p) : Overlap(r, t)' = Overlap(r, t)
           /\ Waiting(p)' = Waiting(p) => Gathered(p)' = Gathered(p)
           /\ run'.ahead = run.ahead => Passed(p)' = Passed(p)
  <1>1. \A q : ReceiptsOf(q)' = ReceiptsOf(q)
    BY NextViews, Views
  <1>2. \A r, s : Earlier(r, s)' <=> Earlier(r, s)
    BY DEF Earlier
  <1>3. \A t \in OwedBy(p) : Owner[t] = p
    BY DEF OwedBy
  <1>4. \A t \in OwedBy(p) : Owed_before(t)' = Owed_before(t)
    BY <1>3 DEF Owed_before
  <1>5. \A r : Received_before(r)' = Received_before(r)
    BY <1>1, <1>2 DEF Received_before
  <1>6. \A r \in ReceiptsOf(p), t \in OwedBy(p) : Overlap(r, t)' = Overlap(r, t)
    BY <1>4, <1>5 DEF Overlap
  <1>7. Waiting(p)' = Waiting(p) => Gathered(p)' = Gathered(p)
    BY <1>1 DEF Gathered
  <1>8. run'.ahead = run.ahead => Passed(p)' = Passed(p)
    BY DEF Passed
  <1> QED
    BY <1>1, <1>2, <1>4, <1>6, <1>7, <1>8

(* What a payer's receipts pay for stays the same.                         *)
LEMMA LaidSame ==
    ASSUME NEW p, LaidOut(p), UNCHANGED <<receipts, price>>, OwedBy(p)' = OwedBy(p),
           \A r \in ReceiptsOf(p), t \in Targets : alloc'[r][t] = alloc[r][t],
           \A t \in OwedBy(p) : Allocated(t)' = Allocated(t),
           Waiting(p)' = Waiting(p),
           \A r \in Receipts : Paying(r, p)' <=> Paying(r, p),
           \A r \in Receipts : Paying(r, p) => run'.left = run.left /\ run'.ahead = run.ahead
    PROVE  LaidOut(p)'
  <1>1. /\ ReceiptsOf(p)' = ReceiptsOf(p) /\ ReceiptsOf(p) \in SUBSET Receipts
        /\ \A r, s : Earlier(r, s)' <=> Earlier(r, s)
        /\ \A t \in OwedBy(p) : Owed_before(t)' = Owed_before(t)
        /\ \A r \in ReceiptsOf(p), t \in OwedBy(p) : Overlap(r, t)' = Overlap(r, t)
        /\ Gathered(p)' = Gathered(p)
        /\ run'.ahead = run.ahead => Passed(p)' = Passed(p)
    BY LaidViews DEF ReceiptsOf
  <1>2. \A r \in ReceiptsOf(p)' \ Waiting(p)', s \in Waiting(p)' : Earlier(r, s)'
    BY <1>1 DEF LaidOut
  <1>3. \A r \in ReceiptsOf(p)' : LaidRow(r, p)'
    BY <1>1 DEF LaidOut, LaidRow
  <1>4. \A t \in OwedBy(p)' : LaidTarget(t, p)'
    BY <1>1 DEF LaidOut, LaidTarget
  <1>5. \A r \in Receipts : Paying(r, p)' =>
          /\ run'.left = LeftOf(Gathered(p)', receipts'[r].amount, Passed(p)')
          /\ \A u \in OwedBy(p)' \ run'.ahead, v \in run'.ahead : u < v
    BY <1>1 DEF LaidOut
  <1> QED
    BY <1>2, <1>3, <1>4, <1>5 DEF LaidOut

(* Nothing of a payer's is collected yet.                                  *)
LEMMA LaidStart ==
    ASSUME TypeOK, NEW p, OwedBy(p)' = OwedBy(p), UNCHANGED <<receipts, price>>,
           \A r \in ReceiptsOf(p), t \in Targets : alloc'[r][t] = 0,
           \A t \in OwedBy(p) : Allocated(t)' = 0,
           run'.queue = ReceiptsOf(p), run'.step = "collect"
    PROVE  LaidOut(p)'
  <1>1. /\ ReceiptsOf(p)' = ReceiptsOf(p) /\ ReceiptsOf(p) \in SUBSET Receipts
        /\ \A t \in OwedBy(p) : Owed_before(t)' = Owed_before(t)
    BY LaidViews DEF ReceiptsOf
  <1>2. Waiting(p)' = ReceiptsOf(p) /\ \A r : ~Paying(r, p)'
    BY <1>1 DEF Waiting, Paying
  <1>3. Gathered(p)' = 0
    <2>1. ReceiptsOf(p)' \ Waiting(p)' = {}
      BY <1>1, <1>2
    <2> QED
      BY <2>1, SumEmpty DEF Gathered
  <1>4. \A t \in OwedBy(p) : Covered(Gathered(p)', Owed_before(t)', price'[t]) = 0
    <2> SUFFICES ASSUME NEW t \in OwedBy(p)
                 PROVE  Covered(0, Owed_before(t), price[t]) = 0
      BY <1>1, <1>3
    <2>1. Owed_before(t) \in Nat /\ price[t] \in Nat
      BY LaidFacts, TypeFacts DEF OwedBy
    <2> QED
      BY <2>1, CoveredIs
  <1>5. \A r \in ReceiptsOf(p)' : LaidRow(r, p)'
    BY <1>1, <1>2 DEF LaidRow
  <1>6. \A t \in OwedBy(p)' : LaidTarget(t, p)'
    BY <1>2, <1>4 DEF LaidTarget
  <1> QED
    BY <1>1, <1>2, <1>5, <1>6 DEF LaidOut

(* A receipt has been collected.                                           *)
LEMMA LaidCollected ==
    ASSUME Base, NEW p, LaidOut(p), NEW r \in Receipts, r = Receipt, r \in Waiting(p),
           UNCHANGED <<receipts, alloc, price>>, OwedBy(p)' = OwedBy(p),
           run'.queue = run.queue \ {r}, run'.step = "collect",
           \A t \in OwedBy(p) :
             /\ alloc[r][t] = Overlap(r, t)
             /\ Allocated(t) = Covered(Gathered(p) + receipts[r].amount,
                                       Owed_before(t), price[t])
    PROVE  LaidOut(p)'
  <1>1. /\ ReceiptsOf(p)' = ReceiptsOf(p) /\ ReceiptsOf(p) \in SUBSET Receipts
        /\ \A s, u : Earlier(s, u)' <=> Earlier(s, u)
        /\ \A t \in OwedBy(p) : Owed_before(t)' = Owed_before(t)
        /\ \A s \in ReceiptsOf(p), t \in OwedBy(p) : Overlap(s, t)' = Overlap(s, t)
    BY LaidViews DEF ReceiptsOf
  <1>2. Waiting(p)' = Waiting(p) \ {r} /\ \A s : ~Paying(s, p)'
    BY <1>1 DEF Waiting, Paying
  <1>3. r \in ReceiptsOf(p) /\ \A s \in Receipts : Paying(s, p) => s = r
    BY DEF Waiting, Paying
  <1>4. \A s \in Waiting(p) \ {r} : Earlier(r, s)
    BY CollectedBefore
  <1>5. \A s \in ReceiptsOf(p)' \ Waiting(p)', u \in Waiting(p)' : Earlier(s, u)'
    BY <1>1, <1>2, <1>4 DEF LaidOut
  <1>6. Gathered(p)' = Gathered(p) + receipts[r].amount
    <2> DEFINE f == [s \in Receipts |-> receipts[s].amount]
               S == ReceiptsOf(p) \ (Waiting(p) \ {r})
    <2>1. /\ IsFiniteSet(S) /\ r \in S /\ S \in SUBSET Receipts
          /\ S \ {r} = ReceiptsOf(p) \ Waiting(p)
      <3>1. IsFiniteSet(ReceiptsOf(p)) /\ r \in Waiting(p)
        BY LaidFacts DEF Base
      <3>2. IsFiniteSet(S)
        BY <3>1, FS_Subset
      <3> QED
        BY <1>1, <1>3, <3>1, <3>2
    <2>2. \A s \in Receipts : f[s] \in Nat
      BY TypeFacts DEF Base
    <2>3. Gathered(p) = Sum(f, S \ {r}) /\ f[r] = receipts[r].amount
      BY <2>1 DEF Gathered
    <2>4. Gathered(p)' = Sum(f, S)
      BY <1>1, <1>2 DEF Gathered
    <2> HIDE DEF f, S
    <2>5. Sum(f, S) = f[r] + Sum(f, S \ {r})
      BY <2>1, <2>2, SumRemove
    <2>6. f[r] \in Nat /\ Gathered(p) \in Nat
      BY <2>2, LaidFacts DEF Base
    <2> QED
      BY <2>3, <2>4, <2>5, <2>6
  <1>7. \A s \in ReceiptsOf(p)' : LaidRow(s, p)'
    <2> SUFFICES ASSUME NEW s \in ReceiptsOf(p), NEW t \in Targets
                 PROVE  alloc[s][t] = IF t \in OwedBy(p) /\ s \notin Waiting(p)'
                                      THEN Overlap(s, t) ELSE 0
      BY <1>1, <1>2 DEF LaidRow
    <2>1. LaidRow(s, p)
      BY DEF LaidOut
    <2>2. CASE s = r
      BY <1>2, <2>1, <2>2 DEF LaidRow
    <2>3. CASE s # r
      BY <1>1, <1>2, <1>3, <2>1, <2>3 DEF LaidRow
    <2> QED
      BY <2>2, <2>3
  <1>8. \A t : Allocated(t)' = Allocated(t)
    BY MoneySame
  <1>9. \A t \in OwedBy(p)' : LaidTarget(t, p)'
    BY <1>1, <1>2, <1>6, <1>8 DEF LaidTarget
  <1> QED
    BY <1>2, <1>5, <1>7, <1>9 DEF LaidOut

(* A receipt that nothing is spent of yet begins to pay.                   *)
LEMMA LaidListed ==
    ASSUME Base, NEW p, LaidOut(p), NEW r \in Receipts, r = Receipt, r \in Waiting(p),
           UNCHANGED <<receipts, alloc, price>>, OwedBy(p)' = OwedBy(p),
           run.step # "allocate", run'.queue = run.queue, run'.step = "allocate",
           run'.left = receipts[r].amount, run'.ahead = OwedBy(p)
    PROVE  LaidOut(p)'
  <1>1. /\ ReceiptsOf(p)' = ReceiptsOf(p) /\ ReceiptsOf(p) \in SUBSET Receipts
        /\ Waiting(p)' = Waiting(p)
    BY LaidViews DEF ReceiptsOf, Waiting
  <1>2. /\ \A s, u : Earlier(s, u)' <=> Earlier(s, u)
        /\ \A t \in OwedBy(p) : Owed_before(t)' = Owed_before(t)
        /\ \A s \in ReceiptsOf(p), t \in OwedBy(p) : Overlap(s, t)' = Overlap(s, t)
        /\ Gathered(p)' = Gathered(p)
    BY <1>1, LaidViews
  <1>3. /\ Receipt' = Receipt /\ \A t : Allocated(t)' = Allocated(t)
    BY MoneySame
  <1>4. /\ \A s \in Receipts : Paying(s, p)' <=> s = r
        /\ \A s \in Receipts : ~Paying(s, p)
    BY <1>1, <1>3 DEF Paying
  <1>5. OwedBy(p) \in SUBSET Targets
    BY DEF OwedBy
  <1>6. \A s \in ReceiptsOf(p)' : LaidRow(s, p)'
    BY <1>1, <1>2, <1>4 DEF LaidRow, LaidOut
  <1>7. \A t \in OwedBy(p)' : LaidTarget(t, p)'
    BY <1>2, <1>3, <1>4 DEF LaidTarget, LaidOut
  <1>8. run'.left = LeftOf(Gathered(p)', receipts'[r].amount, Passed(p)')
    <2>1. OwedBy(p)' \ run'.ahead = {}
      OBVIOUS
    <2>2. Passed(p)' = 0
      BY <2>1, SumEmpty DEF Passed
    <2>3. Gathered(p) \in Nat /\ receipts[r].amount \in Nat
      BY LaidFacts, TypeFacts DEF Base
    <2>4. LeftOf(Gathered(p), receipts[r].amount, 0) = receipts[r].amount
      BY <2>3 DEF LeftOf
    <2> QED
      BY <1>2, <2>2, <2>4
  <1>9. \A s \in ReceiptsOf(p)' \ Waiting(p)', u \in Waiting(p)' : Earlier(s, u)'
    BY <1>1, <1>2 DEF LaidOut
  <1> QED
    BY <1>4, <1>6, <1>7, <1>8, <1>9 DEF LaidOut

(* What the receipt that is paying has passed without paying for it.       *)
LEMMA LaidSkip ==
    ASSUME Base, Priced, NEW p, LaidOut(p), NEW r \in Receipts, Paying(r, p),
           NEW t \in run.ahead, Outstanding(t) <= 0
    PROVE  /\ Overlap(r, t) = 0
           /\ Allocated(t) = Covered(Gathered(p) + receipts[r].amount,
                                     Owed_before(t), price[t])
  <1> DEFINE x == Gathered(p)
             a == receipts[r].amount
             o == Owed_before(t)
             c == price[t]
  <1>1. t \in OwedBy(p) /\ t \in Targets
    BY PassedBefore DEF OwedBy
  <1>2. /\ x \in Nat /\ a \in Nat /\ o \in Nat /\ c \in Nat \ {0} /\ Allocated(t) \in Nat
    BY <1>1, LaidFacts, TypeFacts DEF Base, Priced
  <1>3. Received_before(r) = x
    BY CollectedBefore DEF Paying
  <1>4. Overlap(r, t) = Shared(x, a, o, c)
    BY <1>1, <1>3, OverlapIs DEF Base
  <1>5. Allocated(t) = Covered(x, o, c)
    BY <1>1 DEF LaidOut, LaidTarget
  <1>6. c <= Allocated(t)
    BY <1>2 DEF Outstanding
  <1> HIDE DEF x, a, o, c
  <1>60. c <= Covered(x, o, c)
    BY <1>5, <1>6
  <1>61. x \in Nat /\ a \in Nat /\ o \in Nat /\ c \in Nat \ {0}
    BY <1>2
  <1>7. Shared(x, a, o, c) = 0 /\ Covered(x + a, o, c) = Covered(x, o, c)
    BY <1>60, <1>61, AlreadyCovered
  <1> QED
    BY <1>4, <1>5, <1>7 DEF x, a, o, c

(* What it pays for the next obligation that lacks money.                  *)
LEMMA LaidShare ==
    ASSUME Base, Priced, NEW p, LaidOut(p), NEW r \in Receipts, Paying(r, p),
           NEW t \in Targets, Pays(t)
    PROVE  /\ Share(t) = Overlap(r, t)
           /\ Allocated(t) + Share(t) = Covered(Gathered(p) + receipts[r].amount,
                                                Owed_before(t), price[t])
           /\ run.left - Share(t) = LeftOf(Gathered(p), receipts[r].amount,
                                           Owed_before(t) + price[t])
           /\ \A u \in run.ahead : u < t => Outstanding(u) <= 0
  <1> DEFINE x == Gathered(p)
             a == receipts[r].amount
             o == Owed_before(t)
             c == price[t]
  <1>1. t \in run.ahead /\ t \in OwedBy(p) /\ run.ahead \in SUBSET OwedBy(p)
    BY PassedBefore DEF Pays
  <1>2. /\ x \in Nat /\ a \in Nat /\ o \in Nat /\ c \in Nat /\ Allocated(t) \in Nat
        /\ Passed(p) \in Nat /\ run.left \in Nat
    BY LaidFacts, TypeFacts DEF Base
  <1>3. Received_before(r) = x
    BY CollectedBefore DEF Paying
  <1>4. Overlap(r, t) = Shared(x, a, o, c)
    BY <1>3, OverlapIs DEF Base
  <1>5. Allocated(t) = Covered(x, o, c)
    BY <1>1 DEF LaidOut, LaidTarget
  <1>6. \A u \in run.ahead : u < t => Outstanding(u) <= 0
    <2> SUFFICES ASSUME NEW u \in run.ahead, u < t PROVE Outstanding(u) <= 0
      OBVIOUS
    <2>1. ~(t <= u)
      BY <1>1, InOrder DEF Base
    <2>2. u \notin Lacking
      BY <2>1 DEF Pays
    <2>3. Outstanding(u) \in Int /\ ~(Outstanding(u) > 0)
      BY <1>1, <2>2, LaidFacts, TypeFacts DEF Lacking, Base
    <2> QED
      BY <2>3
  <1>7. run.left = LeftOf(x, a, o)
    <2>1. run.left = LeftOf(x, a, Passed(p))
      BY DEF LaidOut
    <2>2. o = Passed(p) \/ o <= x
      BY <1>1, <1>6, ReachesNext
    <2>3. Passed(p) <= o
      BY <1>1, PassedBefore
    <2> HIDE DEF x, a, o
    <2> QED
      BY <1>2, <2>1, <2>2, <2>3 DEF LeftOf
  <1>8. run.left > 0 /\ c - Covered(x, o, c) > 0 /\ Share(t) \in Nat
    BY <1>5 DEF Pays, Outstanding
  <1>9. Share(t) = IF run.left <= c - Covered(x, o, c) THEN run.left ELSE c - Covered(x, o, c)
    <2>1. Outstanding(t) = c - Covered(x, o, c) /\ Outstanding(t) \in Int
      BY <1>2, <1>5 DEF Outstanding
    <2> QED
      BY <1>2, <2>1, MinOfTwo DEF Share
  <1> HIDE DEF x, a, o, c
  <1>10. /\ Share(t) = Shared(x, a, o, c)
         /\ Covered(x, o, c) + Share(t) = Covered(x + a, o, c)
         /\ run.left - Share(t) = LeftOf(x, a, o + c)
    BY <1>2, <1>7, <1>8, <1>9, NextShare
  <1> QED
    BY <1>4, <1>5, <1>6, <1>10 DEF x, a, o, c

(* It pays for this obligation.                                            *)
LEMMA LaidPaid ==
    ASSUME Base, Priced, NEW p, LaidOut(p), NEW r \in Receipts, Paying(r, p),
           NEW t \in Targets, Pays(t), alloc[r][t] = 0, Writes(r, t, Share(t)),
           UNCHANGED <<receipts, price>>, OwedBy(p)' = OwedBy(p)
    PROVE  LaidOut(p)'
  <1>1. /\ TypeOK /\ Live(r) /\ r \in ReceiptsOf(p) /\ Share(t) \in Nat
        /\ r = Receipt /\ r \in Waiting(p) /\ alloc \in Allocations
        /\ \A s \in Receipts : Paying(s, p) <=> s = r
    BY TypeFacts DEF Base, Pays, Paying, Waiting, ReceiptsOf
  <1>2. /\ alloc' \in Allocations
        /\ \A s \in Receipts \ {r} : alloc'[s] = alloc[s]
        /\ \A u \in Targets \ {t} : \A s \in Receipts : alloc'[s][u] = alloc[s][u]
        /\ alloc'[r][t] = Share(t)
    BY <1>1, OneWritten
  <1>3. /\ \A u \in Targets \ {t} : Allocated(u)' = Allocated(u)
        /\ Allocated(t)' = Allocated(t) + Share(t)
        /\ run'.queue = run.queue => Receipt' = Receipt
    BY <1>1, <1>2, MoneyPaid
  <1>4. /\ run'.queue = run.queue /\ run'.step = "allocate"
        /\ run'.left = run.left - Share(t) /\ run'.ahead = {u \in run.ahead : u > t}
        /\ t \in run.ahead
    BY DEF Pays, Goes
  <1>5. /\ ReceiptsOf(p)' = ReceiptsOf(p) /\ ReceiptsOf(p) \in SUBSET Receipts
        /\ Waiting(p)' = Waiting(p)
    BY <1>4, LaidViews DEF ReceiptsOf, Waiting
  <1>6. /\ \A s, u : Earlier(s, u)' <=> Earlier(s, u)
        /\ \A u \in OwedBy(p) : Owed_before(u)' = Owed_before(u)
        /\ \A s \in ReceiptsOf(p), u \in OwedBy(p) : Overlap(s, u)' = Overlap(s, u)
        /\ Gathered(p)' = Gathered(p)
    BY <1>5, LaidViews
  <1>7. \A s \in Receipts : Paying(s, p)' <=> s = r
    BY <1>1, <1>3, <1>4, <1>5 DEF Paying
  <1>8. /\ run.ahead \in SUBSET OwedBy(p) /\ OwedBy(p) \in SUBSET Targets
        /\ t \in OwedBy(p)
    BY <1>4, PassedBefore DEF OwedBy
  <1>9. /\ Share(t) = Overlap(r, t)
        /\ Allocated(t) + Share(t) = Covered(Gathered(p) + receipts[r].amount,
                                             Owed_before(t), price[t])
        /\ run.left - Share(t) = LeftOf(Gathered(p), receipts[r].amount,
                                        Owed_before(t) + price[t])
        /\ \A u \in run.ahead : u < t => Outstanding(u) <= 0
    BY LaidShare
  <1>10. \A u \in run.ahead : u < t =>
           /\ Overlap(r, u) = 0
           /\ Allocated(u) = Covered(Gathered(p) + receipts[r].amount,
                                     Owed_before(u), price[u])
    BY <1>9, LaidSkip
  <1>11. \A u \in OwedBy(p) : /\ u < t \/ u = t \/ u > t
                              /\ u > t => u # t
                              /\ u < t => u # t /\ ~(u > t)
    <2> SUFFICES ASSUME NEW u \in OwedBy(p)
                 PROVE  /\ u < t \/ u = t \/ u > t
                        /\ u > t => u # t
                        /\ u < t => u # t /\ ~(u > t)
      OBVIOUS
    <2>1. u \in Nat /\ t \in Nat
      BY <1>1, <1>8, InOrder
    <2> QED
      BY <2>1
  <1>12. LaidRow(r, p) /\ \A u \in OwedBy(p) : LaidTarget(u, p)
    BY <1>1 DEF LaidOut
  <1>13. LaidRow(r, p)'
    <2> SUFFICES ASSUME NEW u \in Targets
                 PROVE  alloc'[r][u] = IF u \in OwedBy(p) /\ u \notin run'.ahead
                                       THEN Overlap(r, u) ELSE 0
      BY <1>1, <1>5, <1>6, <1>7 DEF LaidRow
    <2>1. alloc[r][u] = IF u \in OwedBy(p) /\ u \notin run.ahead THEN Overlap(r, u) ELSE 0
      BY <1>1, <1>12 DEF LaidRow
    <2>2. CASE u = t
      BY <1>2, <1>4, <1>8, <1>9, <1>11, <2>2
    <2>3. CASE u # t /\ u \in run.ahead
      BY <1>2, <1>4, <1>8, <1>10, <1>11, <2>1, <2>3
    <2>4. CASE u # t /\ u \notin run.ahead
      BY <1>2, <1>4, <2>1, <2>4
    <2> QED
      BY <2>2, <2>3, <2>4
  <1>14. \A s \in ReceiptsOf(p)' : LaidRow(s, p)'
    <2> SUFFICES ASSUME NEW s \in ReceiptsOf(p), s # r PROVE LaidRow(s, p)'
      BY <1>5, <1>13
    <2>1. LaidRow(s, p)
      BY DEF LaidOut
    <2>2. s \in Receipts
      BY <1>5
    <2> QED
      BY <1>1, <1>2, <1>5, <1>6, <1>7, <1>8, <2>1, <2>2 DEF LaidRow
  <1>15. \A u \in OwedBy(p)' : LaidTarget(u, p)'
    <2> SUFFICES ASSUME NEW u \in OwedBy(p)
                 PROVE  Allocated(u)' = IF u \in run'.ahead
                          THEN Covered(Gathered(p), Owed_before(u), price[u])
                          ELSE Covered(Gathered(p) + receipts[r].amount,
                                       Owed_before(u), price[u])
      BY <1>1, <1>6, <1>7 DEF LaidTarget
    <2>1. Allocated(u) = IF u \in run.ahead
                          THEN Covered(Gathered(p), Owed_before(u), price[u])
                          ELSE Covered(Gathered(p) + receipts[r].amount,
                                       Owed_before(u), price[u])
      BY <1>1, <1>12 DEF LaidTarget
    <2>2. CASE u = t
      BY <1>3, <1>4, <1>9, <1>11, <2>2
    <2>3. CASE u # t /\ u \in run.ahead
      BY <1>3, <1>4, <1>8, <1>10, <1>11, <2>1, <2>3
    <2>4. CASE u # t /\ u \notin run.ahead
      BY <1>3, <1>4, <1>8, <2>1, <2>4
    <2> QED
      BY <2>2, <2>3, <2>4
  <1>16. \A u \in OwedBy(p) \ run'.ahead, v \in run'.ahead : u < v
    <2> SUFFICES ASSUME NEW u \in OwedBy(p), u \notin run'.ahead, NEW v \in run'.ahead
                 PROVE  u < v
      OBVIOUS
    <2>1. v \in run.ahead /\ v \in OwedBy(p) /\ v > t /\ (u \notin run.ahead \/ ~(u > t))
      BY <1>4, <1>8
    <2>2. CASE u \notin run.ahead
      BY <2>1, <2>2 DEF LaidOut
    <2>3. CASE ~(u > t)
      <3>1. u \in Nat /\ v \in Nat /\ t \in Nat
        BY <1>1, <1>8, <2>1, InOrder
      <3> QED
        BY <2>1, <2>3, <3>1
    <2> QED
      BY <2>1, <2>2, <2>3
  <1>17. Passed(p)' = Owed_before(t) + price[t]
    <2>1. \A u \in OwedBy(p) : u \notin run.ahead => u < t
      BY <1>4 DEF LaidOut
    <2>2. \A u \in OwedBy(p) : u \in run'.ahead <=> ~(u <= t)
      BY <1>1, <1>4, <1>8, <2>1, InOrder
    <2>3. OwedBy(p) \ run'.ahead = {u \in OwedBy(p) : u <= t}
      BY <2>2
    <2> QED
      BY <1>1, <1>8, <2>3, OwedNext DEF Passed
  <1>18. \A s \in ReceiptsOf(p)' \ Waiting(p)', u \in Waiting(p)' : Earlier(s, u)'
    BY <1>5, <1>6 DEF LaidOut
  <1>19. \A s \in Receipts : Paying(s, p)' =>
           /\ run'.left = LeftOf(Gathered(p)', receipts'[s].amount, Passed(p)')
           /\ \A u \in OwedBy(p)' \ run'.ahead, v \in run'.ahead : u < v
    BY <1>4, <1>6, <1>7, <1>9, <1>16, <1>17
  <1> QED
    BY <1>14, <1>15, <1>18, <1>19 DEF LaidOut

(* A receipt that has paid what it can is collected.                       *)
LEMMA LaidEnough ==
    ASSUME Base, Priced, NEW p, LaidOut(p), NEW r \in Receipts, Paying(r, p),
           run.left = 0 \/ Lacking = {}, NEW t \in OwedBy(p)
    PROVE  /\ alloc[r][t] = Overlap(r, t)
           /\ Allocated(t) = Covered(Gathered(p) + receipts[r].amount,
                                     Owed_before(t), price[t])
  <1>1. r \in Waiting(p) /\ r \in ReceiptsOf(p) /\ t \in Targets
    BY DEF Paying, Waiting, OwedBy
  <1>2. LaidRow(r, p) /\ LaidTarget(t, p)
    BY <1>1 DEF LaidOut
  <1>3. CASE t \notin run.ahead
    BY <1>1, <1>2, <1>3 DEF LaidRow, LaidTarget
  <1>4. CASE t \in run.ahead
    <2>1. alloc[r][t] = 0 /\ Allocated(t) = Covered(Gathered(p), Owed_before(t), price[t])
      BY <1>1, <1>2, <1>4 DEF LaidRow, LaidTarget
    <2>2. CASE Lacking = {}
      <3>1. Outstanding(t) \in Int /\ ~(Outstanding(t) > 0)
        BY <1>1, <1>4, <2>2, TypeFacts DEF Lacking, Base
      <3>2. Outstanding(t) <= 0
        BY <3>1
      <3> QED
        BY <1>4, <2>1, <3>2, LaidSkip
    <2>3. CASE run.left = 0
      <3> DEFINE x == Gathered(p)
                 a == receipts[r].amount
                 o == Owed_before(t)
                 c == price[t]
      <3>1. /\ x \in Nat /\ a \in Nat /\ o \in Nat /\ c \in Nat /\ Passed(p) \in Nat
        BY <1>1, LaidFacts, TypeFacts DEF Base
      <3>2. Passed(p) <= o
        BY <1>4, PassedBefore
      <3>3. LeftOf(x, a, Passed(p)) = 0
        BY <2>3 DEF LaidOut
      <3>4. Overlap(r, t) = Shared(x, a, o, c)
        BY <1>1, CollectedBefore, OverlapIs DEF Base, Paying
      <3> HIDE DEF x, a, o, c
      <3>5. x + a <= o \/ a = 0
        BY <3>1, <3>2, <3>3 DEF LeftOf
      <3>51. x \in Nat /\ a \in Nat /\ o \in Nat /\ c \in Nat
        BY <3>1
      <3>6. Shared(x, a, o, c) = 0 /\ Covered(x + a, o, c) = Covered(x, o, c)
        BY <3>5, <3>51, OutOfReach
      <3> QED
        BY <2>1, <3>4, <3>6 DEF x, a, o, c
    <2> QED
      BY <2>2, <2>3
  <1> QED
    BY <1>3, <1>4

(* A receipt without money pays nothing.                                   *)
LEMMA LaidNothing ==
    ASSUME Base, NEW p, LaidOut(p), NEW r \in Receipts, r = Receipt, r \in Waiting(p),
           run.step # "allocate"
    PROVE  /\ Spent(r) = 0 /\ Remaining(r) = receipts[r].amount
           /\ receipts[r].amount = 0 => \A t \in OwedBy(p) :
                /\ alloc[r][t] = Overlap(r, t)
                /\ Allocated(t) = Covered(Gathered(p) + receipts[r].amount,
                                          Owed_before(t), price[t])
  <1>1. /\ r \in ReceiptsOf(p) /\ \A s \in Receipts : ~Paying(s, p)
        /\ alloc[r] \in [Targets -> Nat] /\ receipts[r].amount \in Nat
    BY TypeFacts DEF Base, Waiting, Paying
  <1>2. \A t \in Targets : alloc[r][t] = 0
    BY <1>1 DEF LaidOut, LaidRow
  <1>3. Spent(r) = 0
    BY <1>1, <1>2, RowSum DEF Spent
  <1>4. Remaining(r) = receipts[r].amount
    BY <1>1, <1>3 DEF Remaining
  <1>5. ASSUME receipts[r].amount = 0, NEW t \in OwedBy(p)
        PROVE  /\ alloc[r][t] = Overlap(r, t)
               /\ Allocated(t) = Covered(Gathered(p) + receipts[r].amount,
                                         Owed_before(t), price[t])
    <2> DEFINE x == Gathered(p)
               a == receipts[r].amount
               o == Owed_before(t)
               c == price[t]
    <2>0. t \in Targets
      BY DEF OwedBy
    <2>1. x \in Nat /\ a \in Nat /\ o \in Nat /\ c \in Nat
      BY <1>1, <2>0, LaidFacts, TypeFacts DEF Base
    <2>2. Overlap(r, t) = Shared(x, a, o, c)
      BY <2>0, CollectedBefore, OverlapIs DEF Base
    <2>3. Allocated(t) = Covered(x, o, c)
      BY <1>1 DEF LaidOut, LaidTarget
    <2>4. a = 0
      BY <1>5
    <2> HIDE DEF x, a, o, c
    <2>5. Shared(x, a, o, c) = 0 /\ Covered(x + a, o, c) = Covered(x, o, c)
      BY <2>1, <2>4, OutOfReach
    <2> QED
      BY <1>2, <2>0, <2>2, <2>3, <2>5 DEF x, a, o, c
  <1> QED
    BY <1>3, <1>4, <1>5

(* The statement of a correction comes before the rebuild that follows it. *)
LEMMA CorrectionBegins ==
    ASSUME Base, NEW m \in AllMutations, TasksOK(m), m.op \in Corrections,
           receipts[m.receipt].payer \in Students
    PROVE  <<"rebuild", receipts[m.receipt].payer>> \in ToSet(Tasks(m))
  <1>1. CASE m.op \in {"delete", "restore"}
    BY <1>1, StartsWith DEF Payers
  <1>2. CASE m.op = "update"
    <2> DEFINE p == receipts[m.receipt].payer
               a == <<"change", m.receipt>>
               r == Refresh(p)
               s == RebuildTasks(m.payer)
    <2>1. m \in UpdateMutations /\ m.receipt \in Receipts /\ m.payer \in Students
      BY <1>2, MutationByOp DEF UpdateMutations
    <2>2. p \in Payers /\ m.payer \in Payers /\ "change" \in Statements
      BY <2>1 DEF Payers, Statements
    <2>3. Tasks(m) = (<<a>> \o r) \o s
      BY <1>2 DEF Tasks, UpdateTasks
    <2>4. a \in AllTasks
      BY <2>1, <2>2, TaskTypes
    <2>5. r \in Seq(AllTasks) /\ <<"rebuild", p>> \in ToSet(r)
      BY <2>2, RefreshTasks
    <2>6. s \in Seq(AllTasks)
      BY <2>1, <2>2, RefreshTasks
    <2> HIDE DEF a, r, s, p
    <2>7. <<a>> \in Seq(AllTasks)
      BY <2>4, ShortTwo
    <2>8. /\ <<a>> \o r \in Seq(AllTasks)
          /\ ToSet(<<a>> \o r) = ToSet(<<a>>) \union ToSet(r)
      BY <2>5, <2>7, JoinedTasks
    <2>9. ToSet((<<a>> \o r) \o s) = ToSet(<<a>> \o r) \union ToSet(s)
      BY <2>6, <2>8, JoinedTasks
    <2>10. <<"rebuild", p>> \in ToSet(Tasks(m))
      BY <2>3, <2>5, <2>8, <2>9
    <2> QED
      BY <2>10 DEF p
  <1> QED
    BY <1>1, <1>2 DEF Corrections

(* Prices stay what they are, or the lesson that is completed gets one.    *)
LEMMA PricedStep ==
    ASSUME Base, Priced, Next
    PROVE  Priced'
  <1>1. CASE price' = price
    BY <1>1 DEF Priced
  <1>2. CASE Teach /\ price' # price
    <2>1. /\ Attends /\ At("attend")
          /\ price' = [price EXCEPT ![Arg] = run.mutation.price]
      BY <1>2, TeachCases DEF Teach, Attends, Links, MarksDue, Unlinks, Opens, Resets, SetsOpening
    <2>2. run.mutation.op = "complete" /\ run.mutation \in AllMutations
      BY <2>1, AtHead DEF Attends
    <2>3. run.mutation \in CompleteMutations
      BY <2>2, MutationByOp
    <2>4. run.mutation.price \in Nat \ {0}
      BY <2>3, AllocationAssumption DEF CompleteMutations
    <2>5. price \in [Targets -> Nat]
      BY DEF Base, TypeOK
    <2>6. \A t \in Targets : price'[t] = price[t] \/ price'[t] = run.mutation.price
      BY <2>1, <2>5
    <2> QED
      BY <2>4, <2>6 DEF Priced
  <1> QED
    BY <1>1, <1>2
       DEF Next, New, SendAgain, Start, Insert, Change, Delete, Restore, Rebuild, Reconcile,
           Collect, List, Allocate, Normalize, NormalizeCycle, Finish, WorkerDies, tutoring

(* Only a correction that ends is just completed.                          *)
LEMMA NotCorrected ==
    ASSUME \/ last' = Ended(NoMutation, "done")
           \/ \E m : last' = Ended(m, "refused")
    PROVE  ~JustDone(Corrections)'
  <1>1. NoMutation.op \notin Corrections
    BY NoMutationIsNone DEF Corrections
  <1>2. Ended(NoMutation, "done").mutation = NoMutation
        /\ \A m : Ended(m, "refused").how = "refused"
    BY DEF Ended
  <1> QED
    BY <1>1, <1>2 DEF JustDone

(* A mutation that has ended without being completed rebuilt nothing.      *)
LEMMA EndedRebuilt ==
    ASSUME \/ last' = Ended(NoMutation, "done")
           \/ \E m : last' = Ended(m, "refused"),
           run' = Idle, NEW p
    PROVE  ~Rebuilt_since(p)'
  <1>1. ~JustDone(Corrections)'
    BY NotCorrected
  <1>2. run'.mutation.op \notin Corrections
    BY PendingNever, NoMutationIsNone DEF Corrections
  <1> QED
    BY <1>1, <1>2 DEF Rebuilt_since, Corrected

(* While the handler goes on, only the payer of its receipt is rebuilt.    *)
LEMMA StillRebuilt ==
    ASSUME Base, Deterministic, run # Idle, run'.mutation = run.mutation,
           UNCHANGED <<receipts, last, unfinished, halfway>>, unfinished = {},
           NEW p \in Students, p \notin halfway, Rebuilt_since(p)',
           Pending(p) => Pending(p)'
    PROVE  /\ LaidOut(p) /\ ~Pending(p)
           /\ run.mutation.op \in Corrections /\ receipts[run.mutation.receipt].payer = p
  <1>1. last' = Ended(NoMutation, "done")
    BY DEF Base, TodoOK
  <1>2. ~JustDone(Corrections)'
    BY <1>1, NotCorrected
  <1>3. /\ run'.mutation.op \in Corrections /\ receipts'[run'.mutation.receipt].payer = p
        /\ ~Pending(p)'
    BY <1>2 DEF Rebuilt_since, Corrected
  <1>4. /\ run.mutation.op \in Corrections /\ receipts[run.mutation.receipt].payer = p
        /\ ~Pending(p)
    BY <1>3
  <1>5. Rebuilt_since(p)
    BY <1>4 DEF Rebuilt_since, Corrected
  <1> QED
    BY <1>4, <1>5 DEF Deterministic

(* A handler that goes on and that is not to be done with the payer.       *)
LEMMA GoesUnrebuilt ==
    ASSUME Base, run # Idle, run'.mutation = run.mutation, UNCHANGED last, NEW p,
           run.mutation.op \in Corrections /\ receipts'[run.mutation.receipt].payer = p =>
             Pending(p)'
    PROVE  ~Rebuilt_since(p)'
  <1>1. last' = Ended(NoMutation, "done")
    BY DEF Base, TodoOK
  <1>2. ~JustDone(Corrections)'
    BY <1>1, NotCorrected
  <1> QED
    BY <1>2 DEF Rebuilt_since, Corrected

(* A correction has rebuilt nothing before its receipt is changed, and no  *)
(* other mutation corrects a receipt.                                      *)
LEMMA NotYetRebuilt ==
    ASSUME Base, NEW p \in Students, unfinished' = {},
           \/ New \/ SendAgain \/ Insert \/ Change \/ Delete \/ Restore
           \/ Reconcile \/ Teach \/ WorkerDies
    PROVE  ~Rebuilt_since(p)'
  <1>1. CASE New \/ SendAgain
    <2>1. PICK m \in AllMutations :
             /\ Start(m) /\ mutations' \in Nat
             /\ m.op \in Corrections => receipts[m.receipt].state # "none"
      BY <1>1, Sent
    <2>2. /\ UNCHANGED receipts
          /\ \/ run' = Idle /\ last' = Ended(m, "refused")
             \/ Begins(m)
      BY <2>1, StartCases
    <2>3. CASE run' = Idle /\ last' = Ended(m, "refused")
      BY <2>3, EndedRebuilt
    <2>4. CASE Begins(m)
      <3>1. /\ TasksOK(m) /\ run'.mutation = m /\ run'.todo = Tasks(m)
            /\ last' = Ended(NoMutation, "done")
        BY <2>4 DEF Begins
      <3>2. ~JustDone(Corrections)'
        BY <3>1, NotCorrected
      <3>3. ASSUME m.op \in Corrections, receipts[m.receipt].payer = p PROVE Pending(p)'
        <4>1. <<"rebuild", p>> \in ToSet(Tasks(m))
          BY <3>1, <3>3, CorrectionBegins
        <4> QED
          BY <3>1, <4>1 DEF Pending
      <3> QED
        BY <2>2, <3>1, <3>2, <3>3 DEF Rebuilt_since, Corrected
    <2> QED
      BY <2>2, <2>3, <2>4
  <1>2. CASE Insert
    <2>1. /\ At("insert") /\ run.mutation.op = "create"
          /\ \/ run'.mutation = run.mutation /\ UNCHANGED last
             \/ Refuse
      BY <1>2, InsertCases DEF Goes
    <2>2. run # Idle
      BY <2>1, AtHead
    <2>3. CASE Refuse
      BY <2>3, EndedRebuilt DEF Refuse
    <2> QED
      BY <2>1, <2>2, <2>3, GoesUnrebuilt DEF Corrections
  <1>3. CASE Change \/ Delete \/ Restore
    <2>1. /\ \E k \in Statements : At(k)
          /\ Arg \in Receipts /\ Arg = run.mutation.receipt
          /\ run.mutation.op \in Corrections
          /\ \/ run.mutation.op = "update" /\ receipts'[Arg].payer = run.mutation.payer
             \/ receipts'[Arg].payer = receipts[Arg].payer
          /\ run'.mutation = run.mutation /\ run'.todo = Tail(run.todo)
          /\ UNCHANGED last
      <3>1. CASE Change
        <4>1. Received(run.mutation).payer = run.mutation.payer
          BY <3>1, ChangeCases, ReceivedRow
        <4>2. "change" \in Statements
          BY DEF Statements
        <4> QED
          BY <3>1, <4>1, <4>2, ChangeCases DEF Goes, Corrections
      <3>2. CASE Delete \/ Restore
        <4>1. "delete" \in Statements /\ "restore" \in Statements
          BY DEF Statements
        <4> QED
          BY <3>2, <4>1, DeleteCases DEF Goes, Corrections
      <3> QED
        BY <1>3, <3>1, <3>2
    <2>2. PICK k \in Statements : At(k)
      BY <2>1
    <2>3. PICK q \in Receipts : q = Arg
      BY <2>1
    <2>4. \A x : Pending(x) => Pending(x)'
      BY <2>1, <2>2, PendingTail DEF Statements
    <2>5. \A x \in Students : x = receipts'[q].payer => Pending(x)
      BY <2>1, <2>2, <2>3, PendingFor
    <2>6. run # Idle
      BY <2>2, AtHead
    <2>7. receipts'[run.mutation.receipt].payer = p => Pending(p)'
      BY <2>1, <2>3, <2>4, <2>5
    <2> QED
      BY <2>1, <2>6, <2>7, GoesUnrebuilt
  <1>4. CASE Reconcile
    <2>1. /\ run # Idle /\ run.mutation.op \in {"complete", "reopen"}
          /\ run'.mutation = run.mutation /\ UNCHANGED last
      BY <1>4, ReconcileCases DEF Goes
    <2> QED
      BY <2>1, GoesUnrebuilt DEF Corrections
  <1>5. CASE Teach
    <2>1. /\ Attends \/ Links \/ MarksDue \/ Unlinks \/ Opens \/ Resets \/ SetsOpening
          /\ run'.mutation = run.mutation /\ UNCHANGED last
      BY <1>5, TeachCases DEF Goes
    <2>2. run.mutation.op \in {"complete", "reopen", "configure"} /\ \E k : At(k)
      BY <2>1 DEF Attends, Links, MarksDue, Unlinks, Opens, Resets, SetsOpening
    <2>3. run # Idle
      BY <2>2, AtHead
    <2> QED
      BY <2>1, <2>2, <2>3, GoesUnrebuilt DEF Corrections
  <1>6. CASE WorkerDies
    BY <1>6, DiesCases
  <1> QED
    BY <1>1, <1>2, <1>3, <1>4, <1>5, <1>6

(* What a student owes stays the same while a correction is at work.       *)
LEMMA OwedKept ==
    ASSUME Base, MoneyOwed, FullDue, unfinished = {}, run.mutation.op \in Corrections,
           NEW c \in Cycles, status' = [status EXCEPT ![c] = Truth(c)], UNCHANGED lesson,
           NEW p \in Students, p \notin halfway
    PROVE  OwedBy(p)' = OwedBy(p)
  <1>1. \A t \in Cycles : status'[t] = IF t = c THEN Truth(c) ELSE status[t]
    BY DEF Base, TypeOK
  <1>2. Truth(c) = "open" <=> c \notin full
    BY DEF Truth
  <1>3. run.mutation.op \notin {"complete", "reopen", "configure"}
    BY DEF Corrections
  <1>4. Owner[c] = p => (status[c] = "open" <=> c \notin full)
    <2>1. Owner[c] = p /\ status[c] # "open" => c \in full
      BY <1>3 DEF MoneyOwed, ToOpen
    <2>2. Owner[c] = p /\ status[c] = "open" => c \notin full
      BY <1>3 DEF FullDue, ToMark
    <2> QED
      BY <2>1, <2>2
  <1>5. \A t \in Targets : Owner[t] = p => (Owing(t)' <=> Owing(t))
    BY <1>1, <1>2, <1>4 DEF Owing
  <1> QED
    BY <1>5 DEF OwedBy

(* A step at another payer's receipts.                                     *)
LEMMA LaidElsewhere ==
    ASSUME NEW p, LaidOut(p), UNCHANGED <<receipts, price>>, OwedBy(p)' = OwedBy(p),
           \A r \in ReceiptsOf(p), t \in Targets : alloc'[r][t] = alloc[r][t],
           \A t \in OwedBy(p) : Allocated(t)' = Allocated(t),
           \A r \in run.queue \union run'.queue : r \notin ReceiptsOf(p)
    PROVE  LaidOut(p)'
  <1>1. ReceiptsOf(p)' = ReceiptsOf(p)
    BY LaidViews
  <1>2. Waiting(p) = {} /\ Waiting(p)' = {}
    BY <1>1 DEF Waiting
  <1>3. \A r : ~Paying(r, p) /\ ~Paying(r, p)'
    BY <1>2 DEF Paying
  <1> QED
    BY <1>2, <1>3, LaidSame

(* A student's allocations are rebuilt.                                    *)
LEMMA LaidByRebuild ==
    ASSUME Base, Deterministic, Rebuild, unfinished' = {},
           NEW p \in Students, p \notin halfway', Rebuilt_since(p)'
    PROVE  LaidOut(p)'
  <1>1. /\ At("rebuild") /\ Arg \in Payers /\ alloc' = Wiped(Arg)
        /\ run'.mutation = run.mutation /\ run'.todo = Tail(run.todo)
        /\ run'.queue = ReceiptsOf(Arg) /\ run'.step = "collect"
        /\ UNCHANGED <<receipts, lesson, status, price, last, unfinished, halfway>>
    BY RebuildCases DEF Goes, tutoring
  <1>2. PICK q \in Payers : q = Arg
    BY <1>1
  <1>3. alloc' = Wiped(q) /\ UNCHANGED <<receipts, price>> /\ run'.queue = ReceiptsOf(q)
    BY <1>1, <1>2
  <1>4. /\ alloc' \in Allocations
        /\ \A s \in Receipts : receipts[s].payer # q => alloc'[s] = alloc[s]
        /\ \A s \in Receipts : receipts[s].payer = q => \A t \in Targets : alloc'[s][t] = 0
        /\ \A t \in Targets : Owner[t] # q => Allocated(t)' = Allocated(t)
        /\ \A t \in Targets : Owner[t] = q => \A s \in Receipts : alloc'[s][t] = 0
    BY <1>3, MoneyWiped
  <1>5. OwedBy(p)' = OwedBy(p) /\ \A t \in OwedBy(p) : t \in Targets /\ Owner[t] = p
    BY <1>1, OwedBySame DEF OwedBy
  <1>6. \A x : \A r \in ReceiptsOf(x) : r \in Receipts /\ receipts[r].payer = x
    BY Views
  <1>7. CASE p = q
    <2>1. \A t \in OwedBy(p) : Allocated(t)' = 0
      <3>1. LiveIn(receipts') \in SUBSET Receipts
        BY DEF LiveIn
      <3>2. \A t \in Targets : Owner[t] = q => Paid(alloc', t, LiveIn(receipts')) = 0
        BY <1>4, <3>1, ColumnSum
      <3> QED
        BY <1>5, <1>7, <3>2, NextViews
    <2>2. \A r \in ReceiptsOf(p), t \in Targets : alloc'[r][t] = 0
      BY <1>4, <1>6, <1>7
    <2>3. TypeOK /\ run'.queue = ReceiptsOf(p) /\ run'.step = "collect"
      BY <1>1, <1>3, <1>7 DEF Base
    <2> QED
      BY <1>3, <1>5, <2>1, <2>2, <2>3, LaidStart
  <1>8. CASE p # q
    <2>1. run # Idle /\ run.queue = {}
      BY <1>1, AtHead
    <2>2. Pending(p) => Pending(p)'
      BY <1>1, <1>2, <1>8, PendingTail
    <2>3. LaidOut(p)
      BY <1>1, <2>1, <2>2, StillRebuilt
    <2>4. \A r \in run.queue \union run'.queue : r \notin ReceiptsOf(p)
      BY <1>3, <1>6, <1>8, <2>1
    <2>5. \A r \in ReceiptsOf(p), t \in Targets : alloc'[r][t] = alloc[r][t]
      BY <1>4, <1>6, <1>8
    <2>6. \A t \in OwedBy(p) : Allocated(t)' = Allocated(t)
      BY <1>4, <1>5, <1>8
    <2> QED
      BY <1>3, <1>5, <2>3, <2>4, <2>5, <2>6, LaidElsewhere
  <1> QED
    BY <1>7, <1>8

(* The receipts of a correction are collected one payer at a time.         *)
LEMMA OnePayer ==
    ASSUME Base, NEW st, Collecting(st), run.mutation.op \in Corrections, NEW p \in Students
    PROVE  /\ Live(Receipt) /\ Receipt \in Receipts /\ Receipt \in run.queue
           /\ run.step = st /\ run # Idle
           /\ receipts[Receipt].payer = p => Receipt \in Waiting(p)
           /\ receipts[Receipt].payer # p => \A r \in run.queue : r \notin ReceiptsOf(p)
           /\ receipts[Receipt].payer = p => Orderable(p)
  <1>1. /\ Receipt \in run.queue /\ Receipt \in Receipts /\ run.step = st /\ run # Idle
    BY AtReceipt
  <1>2. run.mutation.op # "create" /\ run.mutation.op \notin {"complete", "reopen"}
    BY DEF Corrections
  <1>3. \A r, s \in run.queue : Live(r) /\ receipts[r].payer = receipts[s].payer
    BY <1>2 DEF Base, QueueOK
  <1>4. run.students = Hooked(run.mutation)
    BY <1>2 DEF Base, TodoOK, Hooked
  <1> QED
    BY <1>1, <1>2, <1>3, <1>4 DEF Waiting, ReceiptsOf, Orderable

(* A receipt's obligations are listed, if it has any money.                *)
LEMMA LaidByCollect ==
    ASSUME Base, NoConflict, Deterministic, Collect \/ List, unfinished' = {},
           NEW p \in Students, p \notin halfway', Rebuilt_since(p)'
    PROVE  LaidOut(p)'
  <1>1. /\ run'.mutation = run.mutation /\ run'.todo = run.todo
        /\ \E st \in {"collect", "list"} : Collecting(st)
        /\ run'.queue \in SUBSET run.queue
        /\ UNCHANGED <<receipts, alloc, lesson, status, price, last, unfinished, halfway>>
    BY CollectCases, ListCases DEF Goes, tutoring, history
  <1>2. PICK st \in {"collect", "list"} : Collecting(st)
    BY <1>1
  <1>3. run # Idle /\ run.step = st
    BY <1>2, AtReceipt
  <1>4. Pending(p) => Pending(p)'
    BY <1>1, PendingNever
  <1>5. LaidOut(p) /\ run.mutation.op \in Corrections
    BY <1>1, <1>3, <1>4, StillRebuilt
  <1>6. /\ OwedBy(p)' = OwedBy(p) /\ \A t : Allocated(t)' = Allocated(t)
        /\ UNCHANGED <<receipts, alloc, price>>
    BY <1>1, OwedBySame, MoneySame
  <1>7. PICK r \in Receipts : r = Receipt
    BY <1>2, AtReceipt
  <1>8. /\ Live(r) /\ r \in run.queue
        /\ receipts[r].payer = p => r \in Waiting(p) /\ Orderable(p)
        /\ receipts[r].payer # p => \A s \in run.queue : s \notin ReceiptsOf(p)
    BY <1>2, <1>5, <1>7, OnePayer
  <1>9. CASE receipts[r].payer # p
    <2>1. \A s \in run.queue \union run'.queue : s \notin ReceiptsOf(p)
      BY <1>1, <1>8, <1>9
    <2> QED
      BY <1>5, <1>6, <2>1, LaidElsewhere
  <1>10. CASE receipts[r].payer = p
    <2>1. r \in Waiting(p) /\ Orderable(p) /\ run.step # "allocate"
      BY <1>3, <1>8, <1>10
    <2>2. /\ Spent(r) = 0 /\ Remaining(r) = receipts[r].amount
          /\ receipts[r].amount = 0 => \A t \in OwedBy(p) :
               /\ alloc[r][t] = Overlap(r, t)
               /\ Allocated(t) = Covered(Gathered(p) + receipts[r].amount,
                                         Owed_before(t), price[t])
      BY <1>5, <1>7, <2>1, LaidNothing
    <2>3. CASE List
      <3>1. /\ run.step = "list" /\ run'.queue = run.queue /\ run'.step = "allocate"
            /\ run'.left = run.left /\ run'.ahead = OwedBy(p)
        BY <1>7, <1>10, <2>3, ListCases, AtReceipt DEF Goes
      <3>2. run.left + Spent(r) = receipts[r].amount
        BY <1>7, <1>8, <1>10, <2>1, <3>1 DEF NoConflict, Whole
      <3>3. run'.left = receipts[r].amount
        <4>1. run.left \in Nat
          BY TypeFacts DEF Base
        <4> QED
          BY <2>2, <3>1, <3>2, <4>1
      <3> QED
        BY <1>5, <1>6, <1>7, <2>1, <3>1, <3>3, LaidListed
    <2>4. CASE Collect
      <3>1. \/ /\ Remaining(r) = 0
               /\ run'.queue = run.queue \ {r} /\ run'.step = "collect"
            \/ run'.queue = run.queue /\ run'.step = "list"
        BY <1>7, <2>4, CollectCases DEF Goes
      <3>2. CASE Remaining(r) = 0 /\ run'.queue = run.queue \ {r} /\ run'.step = "collect"
        BY <1>5, <1>6, <1>7, <2>1, <2>2, <3>2, LaidCollected
      <3>3. CASE run'.queue = run.queue /\ run'.step = "list"
        <4>1. Waiting(p)' = Waiting(p)
          BY <1>6, <3>3, MoneySame DEF Waiting
        <4>2. \A s \in Receipts : ~Paying(s, p) /\ ~Paying(s, p)'
          BY <2>1, <3>3 DEF Paying
        <4> QED
          BY <1>5, <1>6, <4>1, <4>2, LaidSame
      <3> QED
        BY <3>1, <3>2, <3>3
    <2> QED
      BY <2>3, <2>4
  <1> QED
    BY <1>9, <1>10

(* A receipt pays for the next obligation, or is done with.                *)
LEMMA LaidByAllocate ==
    ASSUME Base, Priced, Deterministic, Allocate, unfinished' = {},
           NEW p \in Students, p \notin halfway', Rebuilt_since(p)'
    PROVE  LaidOut(p)'
  <1>1. /\ Collecting("allocate")
        /\ UNCHANGED <<receipts, lesson, status, price, unfinished, halfway>>
    BY AllocateCases DEF tutoring, history
  <1>2. OwedBy(p)' = OwedBy(p) /\ \A t \in OwedBy(p) : t \in Targets /\ Owner[t] = p
    BY <1>1, OwedBySame DEF OwedBy
  <1>3. PICK r \in Receipts : r = Receipt
    BY <1>1, AtReceipt
  <1>4. \/ /\ run.left = 0 \/ Lacking = {}
           /\ Goes(run.todo, run.queue \ {r}, "collect", {}, run.students, 0, {})
           /\ UNCHANGED <<alloc, last>>
        \/ \E t \in Targets :
             /\ t \in run.ahead
             /\ \/ alloc[r][t] = Share(t) /\ Pays(t) /\ UNCHANGED <<alloc, last>>
                \/ /\ alloc[r][t] = 0 /\ Live(r) /\ Pays(t)
                   /\ Writes(r, t, Share(t)) /\ UNCHANGED last
                \/ Refuse
    BY <1>3, AllocateCases
  <1>5. ASSUME Refuse PROVE FALSE
    BY <1>5, EndedRebuilt DEF Refuse
  <1>6. ASSUME run'.mutation = run.mutation, run'.todo = run.todo, UNCHANGED last
        PROVE  /\ LaidOut(p) /\ run.step = "allocate" /\ r \in run.queue /\ Live(r)
               /\ receipts[r].payer = p => Paying(r, p)
               /\ receipts[r].payer # p => \A s \in run.queue : s \notin ReceiptsOf(p)
    <2>1. run # Idle
      BY <1>1, AtReceipt
    <2>2. Pending(p) => Pending(p)'
      BY <1>6, PendingNever
    <2>3. LaidOut(p) /\ run.mutation.op \in Corrections
      BY <1>1, <1>6, <2>1, <2>2, StillRebuilt
    <2> QED
      BY <1>1, <1>3, <2>3, OnePayer DEF Paying
  <1>7. CASE /\ run.left = 0 \/ Lacking = {}
             /\ Goes(run.todo, run.queue \ {r}, "collect", {}, run.students, 0, {})
             /\ UNCHANGED <<alloc, last>>
    <2>1. /\ run'.mutation = run.mutation /\ run'.todo = run.todo
          /\ run'.queue = run.queue \ {r} /\ run'.step = "collect"
      BY <1>7 DEF Goes
    <2>2. /\ receipts[r].payer = p => Paying(r, p)
          /\ receipts[r].payer # p => \A s \in run.queue : s \notin ReceiptsOf(p)
      BY <1>6, <1>7, <2>1
    <2>3. \A t : Allocated(t)' = Allocated(t)
      BY <1>1, <1>7, MoneySame
    <2>4. LaidOut(p)
      BY <1>6, <1>7, <2>1
    <2>5. CASE receipts[r].payer = p
      <3>1. Paying(r, p) /\ r \in Waiting(p)
        BY <2>2, <2>4, <2>5 DEF Paying
      <3>2. \A t \in OwedBy(p) :
              /\ alloc[r][t] = Overlap(r, t)
              /\ Allocated(t) = Covered(Gathered(p) + receipts[r].amount,
                                        Owed_before(t), price[t])
        BY <1>7, <2>4, <3>1, LaidEnough
      <3> QED
        BY <1>1, <1>2, <1>3, <1>7, <2>1, <2>4, <3>1, <3>2, LaidCollected
    <2>6. CASE receipts[r].payer # p
      <3>1. \A s \in run.queue \union run'.queue : s \notin ReceiptsOf(p)
        BY <2>1, <2>2, <2>6
      <3> QED
        BY <1>1, <1>2, <1>7, <2>3, <2>4, <3>1, LaidElsewhere
    <2> QED
      BY <2>5, <2>6
  <1>8. ASSUME NEW t \in Targets, t \in run.ahead, Pays(t), UNCHANGED last,
               \/ alloc[r][t] = Share(t) /\ UNCHANGED alloc
               \/ alloc[r][t] = 0 /\ Live(r) /\ Writes(r, t, Share(t))
        PROVE  LaidOut(p)'
    <2>1. /\ run'.mutation = run.mutation /\ run'.todo = run.todo
          /\ run'.queue = run.queue /\ Share(t) \in Nat \ {0}
      BY <1>8 DEF Pays, Goes
    <2>2. LaidOut(p) /\ run.step = "allocate" /\ r \in run.queue /\ Live(r)
      BY <1>6, <1>8, <2>1
    <2>3. /\ receipts[r].payer = p => Paying(r, p)
          /\ receipts[r].payer # p => \A s \in run.queue : s \notin ReceiptsOf(p)
      BY <1>6, <1>8, <2>1
    <2>4. CASE receipts[r].payer = p
      <3>1. Paying(r, p) /\ r \in Waiting(p) /\ r \in ReceiptsOf(p)
        BY <2>3, <2>4 DEF Paying, Waiting
      <3>2. alloc[r][t] = 0
        BY <1>8, <2>2, <3>1 DEF LaidOut, LaidRow
      <3>3. Writes(r, t, Share(t))
        BY <1>8, <2>1, <3>2
      <3>4. UNCHANGED <<receipts, price>>
        BY <1>1
      <3> QED
        BY <1>2, <1>8, <2>2, <3>1, <3>2, <3>3, <3>4, LaidPaid
    <2>5. CASE receipts[r].payer # p
      <3>1. \A s \in run.queue \union run'.queue : s \notin ReceiptsOf(p)
        BY <2>1, <2>3, <2>5
      <3>2. Owner[t] # p
        <4>1. run.ahead \in SUBSET OwedBy(receipts[r].payer)
          BY <1>3, <2>2 DEF Base, QueueOK
        <4> QED
          BY <1>8, <2>5, <4>1 DEF OwedBy
      <3>3. \A s \in ReceiptsOf(p) : s \in Receipts /\ s # r
        BY <2>5, Views
      <3>4. CASE UNCHANGED alloc
        <4>1. \A u : Allocated(u)' = Allocated(u)
          BY <1>1, <3>4, MoneySame
        <4> QED
          BY <1>1, <1>2, <2>2, <3>1, <3>4, <4>1, LaidElsewhere
      <3>5. CASE alloc[r][t] = 0 /\ Writes(r, t, Share(t))
        <4>1. TypeOK /\ Share(t) \in Nat /\ alloc \in Allocations /\ UNCHANGED <<receipts, price>>
          BY <1>1, <2>1, TypeFacts DEF Base
        <4>2. /\ alloc' \in Allocations
              /\ \A s \in Receipts \ {r} : alloc'[s] = alloc[s]
              /\ \A u \in Targets \ {t} : \A s \in Receipts : alloc'[s][u] = alloc[s][u]
              /\ alloc'[r][t] = Share(t)
          BY <3>5, <4>1, OneWritten
        <4>3. \A u \in Targets \ {t} : Allocated(u)' = Allocated(u)
          BY <2>2, <3>5, <4>1, <4>2, MoneyPaid
        <4>4. \A u \in OwedBy(p) : Allocated(u)' = Allocated(u)
          BY <1>2, <3>2, <4>3
        <4>5. \A s \in ReceiptsOf(p), u \in Targets : alloc'[s][u] = alloc[s][u]
          BY <3>3, <4>2
        <4> QED
          BY <1>2, <2>2, <3>1, <4>1, <4>4, <4>5, LaidElsewhere
      <3> QED
        BY <1>8, <3>4, <3>5
    <2> QED
      BY <2>4, <2>5
  <1> QED
    BY <1>4, <1>5, <1>7, <1>8

(* The cycles are brought up to date, and the handler ends.                *)
LEMMA LaidByNormalize ==
    ASSUME Base, MoneyOwed, FullDue, Deterministic, Normalize \/ NormalizeCycle \/ Finish,
           unfinished' = {}, NEW p \in Students, p \notin halfway', Rebuilt_since(p)'
    PROVE  LaidOut(p)'
  <1>1. CASE Normalize
    <2>1. /\ At("normalize") /\ run'.mutation = run.mutation /\ run'.todo = Tail(run.todo)
          /\ run'.queue = {}
          /\ UNCHANGED <<receipts, alloc, lesson, status, price, last, unfinished, halfway>>
      BY <1>1, NormalizeCases DEF Goes, tutoring, history
    <2>2. run # Idle /\ run.queue = {}
      BY <2>1, AtHead
    <2>3. Pending(p) => Pending(p)'
      BY <2>1, PendingTail
    <2>4. LaidOut(p)
      BY <2>1, <2>2, <2>3, StillRebuilt
    <2>5. OwedBy(p)' = OwedBy(p) /\ \A t : Allocated(t)' = Allocated(t)
      BY <2>1, OwedBySame, MoneySame
    <2> QED
      BY <2>1, <2>2, <2>4, <2>5, LaidElsewhere
  <1>2. CASE NormalizeCycle
    <2>1. PICK c \in Cycles :
             /\ run # Idle /\ status' = [status EXCEPT ![c] = Truth(c)]
             /\ run'.mutation = run.mutation /\ run'.todo = run.todo
             /\ run'.queue = run.queue /\ run'.step = run.step /\ run.step # "allocate"
             /\ UNCHANGED <<receipts, alloc, lesson, price, last, unfinished, halfway>>
      BY <1>2, NormalizeCycleCases DEF Goes, history
    <2>2. Pending(p) => Pending(p)'
      BY <2>1, PendingNever
    <2>3. LaidOut(p) /\ run.mutation.op \in Corrections
      BY <2>1, <2>2, StillRebuilt
    <2>4. OwedBy(p)' = OwedBy(p)
      BY <2>1, <2>3, OwedKept
    <2>5. /\ ReceiptsOf(p)' = ReceiptsOf(p) /\ \A t : Allocated(t)' = Allocated(t)
      BY <2>1, MoneySame
    <2>6. /\ Waiting(p)' = Waiting(p)
          /\ \A r \in Receipts : ~Paying(r, p) /\ ~Paying(r, p)'
      BY <2>1, <2>5 DEF Waiting, Paying
    <2> QED
      BY <2>1, <2>3, <2>4, <2>5, <2>6, LaidSame
  <1>3. CASE Finish
    <2>1. /\ run' = Idle /\ last' = Ended(run.mutation, "done")
          /\ run.queue = {} /\ ~Pending(p)
          /\ UNCHANGED <<receipts, alloc, lesson, status, price, unfinished, halfway>>
      BY <1>3, FinishCases DEF tutoring, history
    <2>2. run'.mutation.op \notin Corrections /\ run'.queue = {}
      BY <2>1, PendingNever, NoMutationIsNone DEF Corrections
    <2>3. last'.mutation = run.mutation
      BY <2>1 DEF Ended
    <2>4. Rebuilt_since(p)
      BY <2>1, <2>2, <2>3 DEF Rebuilt_since, Corrected
    <2>5. LaidOut(p)
      BY <2>1, <2>4 DEF Deterministic
    <2>6. OwedBy(p)' = OwedBy(p) /\ \A t : Allocated(t)' = Allocated(t)
      BY <2>1, OwedBySame, MoneySame
    <2> QED
      BY <2>1, <2>2, <2>5, <2>6, LaidElsewhere
  <1> QED
    BY <1>1, <1>2, <1>3

(* Every step leaves a payer's money where the rebuild puts it.            *)
LEMMA DeterministicStep ==
    ASSUME Base, NoConflict, MoneyOwed, FullDue, Priced, Deterministic, Next
    PROVE  Deterministic'
  <1> SUFFICES ASSUME unfinished' = {}, NEW p \in Students, p \notin halfway', Rebuilt_since(p)'
               PROVE  LaidOut(p)'
    BY DEF Deterministic
  <1>1. CASE \/ New \/ SendAgain \/ Insert \/ Change \/ Delete \/ Restore
             \/ Reconcile \/ Teach \/ WorkerDies
    BY <1>1, NotYetRebuilt
  <1>2. CASE Rebuild
    BY <1>2, LaidByRebuild
  <1>3. CASE Collect \/ List
    BY <1>3, LaidByCollect
  <1>4. CASE Allocate
    BY <1>4, LaidByAllocate
  <1>5. CASE Normalize \/ NormalizeCycle \/ Finish
    BY <1>5, LaidByNormalize
  <1> QED
    BY <1>1, <1>2, <1>3, <1>4, <1>5 DEF Next

(* A step that changes nothing.                                            *)
LEMMA DeterministicStutter ==
    ASSUME Deterministic, Priced, UNCHANGED vars
    PROVE  Deterministic' /\ Priced'
  <1>1. UNCHANGED <<receipts, alloc, lesson, status, price, run, last, unfinished, halfway>>
    BY DEF vars, tutoring, history
  <1>2. /\ \A p : OwedBy(p)' = OwedBy(p) /\ ReceiptsOf(p)' = ReceiptsOf(p)
        /\ \A t : Allocated(t)' = Allocated(t)
        /\ Receipt' = Receipt
    BY <1>1, OwedBySame, MoneySame
  <1>3. \A p : (Pending(p)' <=> Pending(p)) /\ Waiting(p)' = Waiting(p)
    BY <1>1, <1>2 DEF Pending, Waiting
  <1>4. \A r, p : Paying(r, p)' <=> Paying(r, p)
    BY <1>1, <1>2, <1>3 DEF Paying
  <1>5. JustDone(Corrections)' <=> JustDone(Corrections)
    BY <1>1 DEF JustDone
  <1>6. \A p : Rebuilt_since(p)' => Rebuilt_since(p)
    BY <1>1, <1>3, <1>5 DEF Rebuilt_since, Corrected
  <1>7. \A p : LaidOut(p) => LaidOut(p)'
    BY <1>1, <1>2, <1>3, <1>4, LaidSame
  <1> QED
    BY <1>1, <1>6, <1>7 DEF Deterministic, Priced

(* From the rebuild of a corrected receipt's payer on, the payer's money   *)
(* lies, as far as it has been collected, where laying receipts and        *)
(* obligations end to end puts it.                                         *)
THEOREM AlwaysDeterministic == Spec => [](Deterministic /\ Priced)
  <1>1. Init => Deterministic /\ Priced
    <2> SUFFICES ASSUME Init PROVE Deterministic /\ Priced
      OBVIOUS
    <2>1. run = Idle /\ last = Ended(NoMutation, "done") /\ price = [t \in Targets |-> CyclePrice]
      BY DEF Init
    <2>2. NoMutation.op \notin Corrections
      BY NoMutationIsNone DEF Corrections
    <2>3. run.mutation = NoMutation /\ last.mutation = NoMutation
      BY <2>1, IdleFacts DEF Ended
    <2>4. \A p : ~Rebuilt_since(p)
      BY <2>2, <2>3 DEF Rebuilt_since, Corrected
    <2>5. CyclePrice # 0
      BY AllocationAssumption
    <2> QED
      BY <2>1, <2>4, <2>5 DEF Deterministic, Priced
  <1>2. Base /\ Bookkeeping /\ Deterministic /\ Priced /\ [Next]_vars => Deterministic' /\ Priced'
    <2>1. ASSUME Base, Bookkeeping, Deterministic, Priced, Next
          PROVE  Deterministic' /\ Priced'
      <3>1. NoConflict /\ MoneyOwed /\ FullDue
        BY <2>1 DEF Bookkeeping
      <3> QED
        BY <2>1, <3>1, DeterministicStep, PricedStep
    <2>2. ASSUME Deterministic, Priced, UNCHANGED vars PROVE Deterministic' /\ Priced'
      BY <2>2, DeterministicStutter
    <2> QED
      BY <2>1, <2>2
  <1> QED
    BY <1>1, <1>2, AlwaysBase, AlwaysBookkeeping, PTL DEF Spec

(* Once settled, after a correction, however often its worker died and     *)
(* whatever came in between, the payer's money lies where oldest-first     *)
(* allocation from nothing puts it.                                        *)
THEOREM ReallocationIsDeterministic == Spec => []ReallocationDeterministic
  <1>1. Deterministic => ReallocationDeterministic
    <2> DEFINE p == receipts[last.mutation.receipt].payer
    <2> SUFFICES ASSUME Deterministic, run = Idle, unfinished = {}, JustDone(Corrections),
                        p \in Students \ halfway, NEW r \in ReceiptsOf(p), NEW t \in Targets
                 PROVE  alloc[r][t] = IF t \in OwedBy(p) THEN Overlap(r, t) ELSE 0
      BY DEF ReallocationDeterministic, Settled
    <2>1. Rebuilt_since(p)
      BY DEF Rebuilt_since, Corrected, JustDone
    <2>2. LaidOut(p)
      BY <2>1 DEF Deterministic
    <2>3. Waiting(p) = {}
      BY PendingNever DEF Waiting
    <2> HIDE DEF p
    <2> QED
      BY <2>2, <2>3 DEF LaidOut, LaidRow
  <1> QED
    BY <1>1, AlwaysDeterministic, PTL
=============================================================================
