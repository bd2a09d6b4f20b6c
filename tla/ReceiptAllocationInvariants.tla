---------------------- MODULE ReceiptAllocationInvariants ----------------------
(***************************************************************************)
(* What is true of ReceiptAllocation in every state, between any two       *)
(* statements of a handler: the inductive invariants of                    *)
(* ReceiptAllocationProofs.                                                *)
(***************************************************************************)
EXTENDS ReceiptAllocation

(* The totals of ReceiptAllocation are folds with +.                       *)
Plus(a, b) == a + b
INSTANCE FoldTheorems WITH Step <- Plus

-----------------------------------------------------------------------------
(* Types.                                                                  *)

CreateMutations ==
    [op : {"create"}, receipt : Receipts, payer : Payers, amount : Amounts, at : Dates]
UpdateMutations ==
    [op : {"update"}, receipt : Receipts, payer : Students, amount : Amounts, at : Dates]
DeleteMutations == [op : {"delete"}, receipt : Receipts]
RestoreMutations == [op : {"restore"}, receipt : Receipts]
CompleteMutations ==
    {m \in [op : {"complete"}, target : Targets, price : Prices \union {CyclePrice}] :
       m.target \in Cycles => m.price = CyclePrice}
ReopenMutations == [op : {"reopen"}, target : Targets]
ConfigureMutations == [op : {"configure"}, target : OpeningCycles, full : BOOLEAN]

AllMutations ==
    CreateMutations \union UpdateMutations \union DeleteMutations
      \union RestoreMutations \union CompleteMutations \union ReopenMutations
      \union ConfigureMutations

(* The kinds of tasks that come first in every handler.                    *)
Statements ==
    {"insert", "change", "delete", "restore", "attend", "link", "markDue",
     "unlink", "open", "reset", "opening"}
Kinds == Statements \union {"rebuild", "normalize"}
AllTasks == Kinds \X (Receipts \union Targets \union Payers)

Rows ==
    [state : {"none", "live", "deleted"}, payer : Payers \union {NoPayer},
     amount : Nat, at : Nat]

Runs ==
    [mutation : AllMutations \union {NoMutation}, todo : Seq(AllTasks),
     queue : SUBSET Receipts, step : {"collect", "list", "allocate"},
     cycles : SUBSET Cycles, students : SUBSET Students, left : Nat,
     ahead : SUBSET Targets]

TypeOK ==
    /\ receipts \in [Receipts -> Rows]
    /\ alloc \in [Receipts -> [Targets -> Nat]]
    /\ lesson \in SUBSET Targets
    /\ full \in SUBSET Cycles
    /\ status \in [Cycles -> {"open", "due", "paid"}]
    /\ price \in [Targets -> Nat]
    /\ run \in Runs
    /\ last \in [mutation : AllMutations \union {NoMutation}, how : {"done", "refused"}]
    /\ unfinished \in SUBSET AllMutations
    /\ mutations \in Nat /\ crashes \in Nat
    /\ revived \in SUBSET Payers
    /\ behind \in SUBSET Students /\ halfway \in SUBSET Students

(* Which tasks the handler of a mutation has.                              *)
TaskOf(m, x) ==
    \/ /\ x[1] \in {"insert", "change", "delete", "restore"}
       /\ x[2] \in Receipts /\ x[2] = m.receipt
       /\ m.op = CASE x[1] = "insert" -> "create" [] x[1] = "change" -> "update"
                   [] OTHER -> x[1]
    \/ /\ x[1] \in {"attend", "link", "markDue"}
       /\ m.op = "complete" /\ x[2] \in Targets /\ x[2] = m.target
       /\ x[1] # "attend" => x[2] \in Cycles
       /\ x[1] = "markDue" => Owner[x[2]] \in Students
    \/ /\ x[1] \in {"unlink", "open", "reset"}
       /\ m.op = "reopen" /\ x[2] \in Targets /\ x[2] = m.target
       /\ x[1] # "reset" => x[2] \in Cycles
       /\ x[1] = "open" => Owner[x[2]] \in Students
    \/ /\ x[1] = "opening" /\ m.op = "configure"
       /\ x[2] \in OpeningCycles /\ x[2] = m.target
    \/ /\ x[1] = "rebuild" /\ x[2] \in Students
       /\ \/ m.op \in Corrections
          \/ m.op \in {"reopen", "configure"} /\ x[2] = Owner[m.target]
    \/ x[1] = "normalize" /\ x[2] \in Payers

(* Statements come before everything else; only a changed receipt has two  *)
(* payers to rebuild.                                                      *)
Orderly(m, q) ==
    \A i, j \in 1..Len(q) : i < j =>
      /\ q[j][1] \in Statements => q[i][1] \in Statements
      /\ q[j][1] = "rebuild" /\ m.op # "update" => q[i][1] \in Statements

(* A cycle is marked due when it is full, opened when it is not.           *)
Paired(q) ==
    \A i, j \in 1..Len(q) : i < j /\ q[j][1] \in {"link", "unlink"} =>
      q[i][1] \notin {"markDue", "open"}

(* A statement is still to be performed.                                   *)
Left(q) == \E x \in ToSet(q) : x[1] \in Statements

(* While a statement that disturbs a student's allocations is still to be  *)
(* performed, so is the rebuild that follows it.                           *)
Ahead(m, q) ==
    /\ m.op \in Corrections /\ Left(q) /\ receipts[m.receipt].payer \in Students =>
         <<"rebuild", receipts[m.receipt].payer>> \in ToSet(q)
    /\ m.op = "update" /\ Left(q) => <<"rebuild", m.payer>> \in ToSet(q)
    /\ m.op \in {"restore", "delete"} =>
         \A p \in Students : <<"rebuild", p>> \in ToSet(q) => p = receipts[m.receipt].payer
    /\ m.op = "configure" /\ Left(q) => <<"rebuild", Owner[m.target]>> \in ToSet(q)
    /\ m.op = "reopen" /\ Left(q) /\ Owner[m.target] \in Students
         /\ m.target \notin AbsentPayer => <<"rebuild", Owner[m.target]>> \in ToSet(q)
    /\ m.op = "reopen" =>
         \A t \in Cycles : Owner[t] \in Students =>
           /\ <<"unlink", t>> \in ToSet(q) => <<"open", t>> \in ToSet(q)
           /\ <<"open", t>> \in ToSet(q) => <<"unlink", t>> \in ToSet(q) \/ t \notin full
    /\ m.op = "complete" =>
         \A t \in Cycles : Owner[t] \in Students =>
           /\ <<"link", t>> \in ToSet(q) => <<"markDue", t>> \in ToSet(q)
           /\ <<"markDue", t>> \in ToSet(q) => <<"link", t>> \in ToSet(q) \/ t \in full

(* Recording a receipt is one statement.                                   *)
Alone(m, q) ==
    m.op = "create" => \A i, j \in 1..Len(q) : i < j => q[j][1] \notin Statements

TasksOK(m) ==
    /\ Tasks(m) \in Seq(AllTasks)
    /\ Orderly(m, Tasks(m)) /\ Paired(Tasks(m)) /\ Alone(m, Tasks(m))
    /\ \A x \in ToSet(Tasks(m)) : TaskOf(m, x)
    /\ Ahead(m, Tasks(m))

-----------------------------------------------------------------------------
(* The rows.                                                               *)

Unpaid(r) == Live(r) /\ Spent(r) < receipts[r].amount

RowsOK ==
    /\ \A r \in Receipts :
         /\ receipts[r].state = "none" => \A t \in Targets : alloc[r][t] = 0
         /\ receipts[r].state # "none" => receipts[r].payer \in Payers
         /\ Spent(r) <= receipts[r].amount
         /\ \A t \in Targets : alloc[r][t] > 0 => Owner[t] = receipts[r].payer
    /\ \A m \in unfinished \union {run.mutation} :
         m.op \in Corrections => receipts[m.receipt].state # "none"
    /\ \A t \in Cycles : price[t] = CyclePrice

(* The handler at work.                                                    *)

Pending(p) == <<"rebuild", p>> \in ToSet(run.todo)

TodoOK ==
    /\ run.mutation = NoMutation => run = Idle
    /\ \A x \in ToSet(run.todo) : TaskOf(run.mutation, x)
    /\ Orderly(run.mutation, run.todo)
    /\ Paired(run.todo)
    /\ Alone(run.mutation, run.todo)
    /\ Ahead(run.mutation, run.todo)
    /\ run.queue # {} \/ run.cycles # {} =>
         /\ ~Left(run.todo)
         /\ run.mutation.op # "update" => \A p \in Students : ~Pending(p)
    /\ run.students \subseteq Hooked(run.mutation)
    /\ (\E x \in ToSet(run.todo) : x[1] # "normalize") =>
         run.students = Hooked(run.mutation)
    /\ run # Idle => last = Ended(NoMutation, "done")

QueueOK ==
    /\ run.queue = {} => run.step = "collect"
    /\ run.step # "allocate" => run.ahead = {}
    /\ run.cycles # {} /\ run.queue # {} => run.step = "list"
    /\ run.mutation.op = "create" => run.queue \subseteq {run.mutation.receipt}
    /\ \A r \in run.queue : receipts[r].state # "none"
    /\ run.mutation.op # "create" => \A r, s \in run.queue :
         Live(r) /\ receipts[r].payer \in Students /\ receipts[r].payer = receipts[s].payer
    /\ run.queue # {} /\ run.students # Hooked(run.mutation) =>
         \A r \in run.queue : <<"normalize", receipts[r].payer>> \in ToSet(run.todo)
    /\ run.step = "allocate" => run.ahead \subseteq OwedBy(receipts[Receipt].payer)
    /\ run.step # "collect" /\ Live(Receipt) =>
         run.left + Spent(Receipt) <= receipts[Receipt].amount

(* Lessons that hold money are completed.                                  *)
LessonMoney ==
    \A r \in Receipts, t \in Targets \ Cycles : alloc[r][t] > 0 =>
      \/ t \in lesson
      \/ Owner[t] \in halfway
      \/ run.mutation.op = "reopen" /\ Pending(Owner[t])

(* Money of a student is left over only where nothing lacks any.           *)
Orderable(p) ==
    \/ p \notin behind \union halfway /\ ~Pending(p)
    \/ /\ \E r \in run.queue : receipts[r].payer = p
       /\ run.mutation.op # "create" /\ run.students = Hooked(run.mutation)

(* No receipt of the payer has money left and pays in part.                *)
Clear(p) ==
    \A r \in ReceiptsOf(p), t \in Targets :
      alloc[r][t] > 0 /\ Spent(r) < receipts[r].amount => Outstanding(t) <= 0
(* What is left of the receipt being collected is left over for good.      *)
Whole ==
    \A r \in Receipts, p \in Students :
      run.step # "collect" /\ r = Receipt /\ Live(r) /\ receipts[r].payer = p /\ Orderable(p) =>
        run.left + Spent(r) = receipts[r].amount

NoConflict == (\A p \in Students : Orderable(p) => Clear(p)) /\ Whole

(* Receipts whose restoring has not been followed by a rebuild.            *)
Suspects ==
    {r \in Receipts :
       \/ \E m \in unfinished : m.op = "restore" /\ m.receipt = r
       \/ /\ run.mutation.op = "restore" /\ run.mutation.receipt = r
          /\ ToRebuild # {}}
PaidFor(t) ==
    SumFunctionOnSet([r \in Receipts |-> alloc[r][t]],
                     {r \in Receipts : Live(r)} \ Suspects)

Overpaying ==
    \A t \in Targets :
      /\ Owner[t] \in Students \ halfway => PaidFor(t) <= price[t]
      /\ Owner[t] \in Families \ revived => Allocated(t) <= price[t]

(* Money may lie on what is not owed only until a rebuild that is to come, *)
(* a cycle that is not full may be owed only until it is opened.           *)
ToRelease(p) ==
    \/ p \in halfway
    \/ run.mutation.op \in {"reopen", "configure"} /\ Pending(p)
    \/ \E m \in unfinished : m.op = "configure" /\ Owner[m.target] = p
ToOpen(t) ==
    \/ Owner[t] \in halfway
    \/ run.mutation.op = "reopen" /\ <<"open", t>> \in ToSet(run.todo)

MoneyOwed ==
    /\ \A r \in Receipts, t \in Targets : alloc[r][t] > 0 /\ Owner[t] \in Students =>
         Owing(t) \/ ToRelease(Owner[t])
    /\ \A t \in Cycles : Owner[t] \in Students /\ status[t] # "open" /\ t \notin full =>
         ToOpen(t)

(* A full cycle is open only until it is marked due.                       *)
ToMark(t) ==
    \/ run.mutation.op = "complete" /\ <<"markDue", t>> \in ToSet(run.todo)
    \/ \E m \in unfinished : m.op = "complete" /\ m.target = t

FullDue ==
    \A t \in Cycles : Owner[t] \in Students /\ status[t] = "open" /\ t \in full => ToMark(t)

(* A cycle has the right state, or is to get it.                           *)
ToState(c) ==
    \/ Owner[c] \in run.students \/ <<"normalize", Owner[c]>> \in ToSet(run.todo)
    \/ c \in run.cycles \/ status[c] = Truth(c)

Statuses ==
    /\ run.mutation.op \in {"complete", "reopen"} => \A c \in Cycles : Owner[c] \in Students =>
         ToState(c)
    /\ JustDone({"complete", "reopen"}) => \A c \in Cycles : Owner[c] \in Students =>
         status[c] = Truth(c)

Watched ==
    \/ crashes = 0 /\ halfway = {}
    \/ run.mutation.op \in {"complete", "reopen"}
    \/ JustDone({"complete", "reopen"})

Balanced(p) ==
    /\ \A r \in ReceiptsOf(p) \ run.queue, t \in OwedBy(p) :
         Spent(r) < receipts[r].amount => Outstanding(t) <= 0
    /\ \A r \in Receipts :
         run.step = "allocate" /\ r = Receipt /\ Live(r) /\ receipts[r].payer = p =>
           \A t \in OwedBy(p) \ run.ahead : run.left = 0 \/ Outstanding(t) <= 0

Credit ==
    /\ crashes = 0 => behind = {} /\ unfinished = {}
    /\ unfinished = {} /\ Watched =>
         \A p \in Students \ (behind \union halfway \union run.students) :
           Pending(p) \/ Balanced(p)

(* The invariant of the rows and of the handler at work.                   *)
Base == TypeOK /\ RowsOK /\ TodoOK /\ QueueOK

(* What the unsettled money waits for.                                     *)
Bookkeeping ==
    /\ LessonMoney /\ NoConflict /\ Overpaying /\ MoneyOwed /\ FullDue /\ Statuses /\ Credit
    /\ TutoringNeverRefused

-----------------------------------------------------------------------------
(* Where the money lies after a correction.                                *)

(* Of an obligation of cost c that follows obligations of o, what the      *)
(* first x of a payer's money pay;                                         *)
Covered(x, o, c) == IF x <= o THEN 0 ELSE IF x <= o + c THEN x - o ELSE c
(* what a receipt of a that follows receipts of x pays for it;             *)
Shared(x, a, o, c) ==
    IF x + a <= o \/ o + c <= x THEN 0
    ELSE (IF x + a <= o + c THEN x + a ELSE o + c) - (IF x <= o THEN o ELSE x)
(* and what is left of this receipt once obligations of o are paid.        *)
LeftOf(x, a, o) ==
    IF x <= o THEN (IF x + a <= o THEN 0 ELSE x + a - o) ELSE a

(* The receipts of a payer that are still to be collected, the money of    *)
(* those that have been, and the price of the obligations already passed.  *)
Waiting(p) == run.queue \intersect ReceiptsOf(p)
Gathered(p) == Sum([s \in Receipts |-> receipts[s].amount], ReceiptsOf(p) \ Waiting(p))
Passed(p) == Sum(price, OwedBy(p) \ run.ahead)

(* The receipt that is paying.                                             *)
Paying(r, p) == run.step = "allocate" /\ r \in Waiting(p) /\ r = Receipt

(* The payer's money, as far as it is collected, lies where laying the     *)
(* receipts and the obligations end to end puts it.                        *)
LaidRow(r, p) ==
    \A t \in Targets :
      alloc[r][t] = IF /\ t \in OwedBy(p)
                       /\ r \notin Waiting(p) \/ (Paying(r, p) /\ t \notin run.ahead)
                    THEN Overlap(r, t) ELSE 0
LaidTarget(t, p) ==
    /\ (\A r \in Receipts : ~Paying(r, p)) \/ t \in run.ahead =>
         Allocated(t) = Covered(Gathered(p), Owed_before(t), price[t])
    /\ \A r \in Receipts : Paying(r, p) /\ t \notin run.ahead =>
         Allocated(t) = Covered(Gathered(p) + receipts[r].amount, Owed_before(t), price[t])
LaidOut(p) ==
    /\ \A r \in ReceiptsOf(p) \ Waiting(p), s \in Waiting(p) : Earlier(r, s)
    /\ \A r \in ReceiptsOf(p) : LaidRow(r, p)
    /\ \A t \in OwedBy(p) : LaidTarget(t, p)
    /\ \A r \in Receipts : Paying(r, p) =>
         /\ run.left = LeftOf(Gathered(p), receipts[r].amount, Passed(p))
         /\ \A u \in OwedBy(p) \ run.ahead, v \in run.ahead : u < v

(* ... from the rebuild of the payer of a corrected receipt on.            *)
Corrected(m, p) == m.op \in Corrections /\ receipts[m.receipt].payer = p
Rebuilt_since(p) ==
    \/ Corrected(run.mutation, p) /\ ~Pending(p)
    \/ JustDone(Corrections) /\ Corrected(last.mutation, p)
Deterministic ==
    unfinished = {} => \A p \in Students \ halfway : Rebuilt_since(p) => LaidOut(p)

(* No obligation is free of charge.                                        *)
Priced == \A t \in Targets : price[t] # 0

================================================================================
