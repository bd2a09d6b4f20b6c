-------------------------- MODULE ReceiptAllocation --------------------------
(***************************************************************************)
(* Receipts, what they pay for, and how the server keeps the two in step:  *)
(* FinanceCollectionService, D1FinanceGateway, the finance handlers and    *)
(* the reconciliation that follows every tutoring mutation.                *)
(*                                                                         *)
(* One handler runs at a time (WorkspaceLease), one statement per step.    *)
(* Its worker may die after any statement; the device then sends the same  *)
(* mutation again, maybe after others.  An obligation is a package cycle   *)
(* or a lesson charged by itself; obligations are numbered in the order in *)
(* which they fall due, receipts in the order of their ids.                *)
(***************************************************************************)
EXTENDS Integers, Sequences, FiniteSets, FiniteSetsExt, SequencesExt, Functions

CONSTANTS
    Receipts, Targets,      \* numbers
    Students, Families,     \* the two kinds of payer
    NoPayer,
    Owner,                  \* the payer of each target
    Cycles,                 \* targets that are package cycles
    OpeningCycles,          \* cycles whose progress is opening progress only
    AbsentPayer,            \* lessons charged to a payer who did not attend
    Amounts, Dates,         \* of receipts
    Prices, CyclePrice,     \* of lessons; of cycles
    MaxMutations,           \* bound: mutations made
    CrashOps,               \* operations whose worker may die
    MaxCrashes              \* bound: dead workers

Payers == Students \union Families

ASSUME AllocationAssumption ==
    /\ Receipts \subseteq Nat /\ IsFiniteSet(Receipts)
    /\ Targets \subseteq Nat /\ IsFiniteSet(Targets)
    /\ Students \intersect Families = {} /\ NoPayer \notin Payers
    /\ Owner \in [Targets -> Payers]
    /\ OpeningCycles \subseteq Cycles /\ Cycles \subseteq Targets
    /\ \A t \in OpeningCycles \union (Targets \ Cycles) : Owner[t] \in Students
    /\ AbsentPayer \subseteq Targets \ Cycles
    /\ Amounts \union Prices \union Dates \union {CyclePrice} \subseteq Nat \ {0}
    /\ MaxMutations \in Nat /\ MaxCrashes \in Nat
    /\ CrashOps \subseteq {"create", "update", "delete", "restore",
                          "complete", "reopen", "configure"}

VARIABLES
    receipts,    \* finance_receipts
    alloc,       \* finance_receipt_allocations: amount per receipt and target
    lesson,      \* targets whose (last) lesson is completed
    full,        \* cycles whose progress has reached the limit
    status,      \* tutoring_billing_cycles.status
    price,       \* amount_due of each target
    run,         \* the handler at work: its mutation and what it has to do
    last,        \* the mutation that ended last, and how
    unfinished,  \* mutations whose worker died: they are sent again
    mutations, crashes,
    revived,     \* history: payers one of whose receipts was restored
    behind,      \* history: students whose rebuild a dead worker left undone
    halfway      \* history: students a reopened lesson left money behind for

tutoring == <<lesson, full, status, price>>
history == <<revived, behind, halfway>>
vars == <<receipts, alloc, tutoring, run, last, unfinished, mutations, crashes, history>>

Tutoring == {"complete", "reopen", "configure"}
Corrections == {"update", "delete", "restore"}

NoReceipt == [state |-> "none", payer |-> NoPayer, amount |-> 0, at |-> 0]
NoMutation == [op |-> "none"]

(* The handler at work: the tasks it has still to perform, the receipts it *)
(* is collecting, the cycles it is bringing up to date, the students the   *)
(* hook has still to reconcile; of the receipt being collected, the money  *)
(* left and the obligations ahead.                                         *)
Idle ==
    [mutation |-> NoMutation, todo |-> <<>>, queue |-> {}, step |-> "collect",
     cycles |-> {}, students |-> {}, left |-> 0, ahead |-> {}]
Ended(m, how) == [mutation |-> m, how |-> how]

Init ==
    /\ receipts = [r \in Receipts |-> NoReceipt]
    /\ alloc = [r \in Receipts |-> [t \in Targets |-> 0]]
    /\ lesson = {}
    /\ full = {}
    /\ status = [t \in Cycles |-> "open"]
    /\ price = [t \in Targets |-> CyclePrice]
    /\ run = Idle
    /\ last = Ended(NoMutation, "done")
    /\ unfinished = {}
    /\ mutations = 0
    /\ crashes = 0
    /\ revived = {} /\ behind = {} /\ halfway = {}

-----------------------------------------------------------------------------
(* What the rows say.                                                      *)

Live(r) == receipts[r].state = "live"
Earlier(r, s) ==
    \/ receipts[r].at < receipts[s].at
    \/ receipts[r].at = receipts[s].at /\ r < s
ReceiptsOf(p) == {r \in Receipts : Live(r) /\ receipts[r].payer = p}

(* getReceiptAllocatedTotal and getAllocatedTotal: a deleted receipt keeps *)
(* its allocations, but they count for nothing.                            *)
Spent(r) == SumFunction(alloc[r])
Allocated(t) ==
    SumFunctionOnSet([r \in Receipts |-> alloc[r][t]], {r \in Receipts : Live(r)})
Outstanding(t) == price[t] - Allocated(t)

(* listOpenObligations: cycles due or paid, completed lessons.             *)
Owing(t) == IF t \in Cycles THEN status[t] # "open" ELSE t \in lesson
OwedBy(p) == {t \in Targets : Owner[t] = p /\ Owing(t)}

-----------------------------------------------------------------------------
(* The tasks of each handler, in the order it performs them.               *)

CyclesOf(p) == {t \in Cycles : Owner[t] = p}

\* Mutated form of Oldest: receipts are collected in the order of their ids.
LowestId(S) == Min(S)

(* ORDER BY received_at, id                                                *)
Oldest(S) == CHOOSE r \in S : \A s \in S \ {r} : Earlier(r, s)

RebuildTasks(p) == <<<<"rebuild", p>>, <<"normalize", p>>>>

(* refreshPayer: a family's allocations are left as they are.              *)
Refresh(p) == IF p \in Students THEN RebuildTasks(p) ELSE <<<<"normalize", p>>>>

CreateTasks(m) == <<<<"insert", m.receipt>>, <<"normalize", m.payer>>>>

\* Mutated form of UpdateTasks: only the new payer's allocations are rebuilt.
UpdateNewPayer(m) == <<<<"change", m.receipt>>>> \o RebuildTasks(m.payer)

UpdateTasks(m) ==
    <<<<"change", m.receipt>>>> \o Refresh(receipts[m.receipt].payer)
      \o RebuildTasks(m.payer)

DeleteTasks(m) ==
    <<<<"delete", m.receipt>>>> \o Refresh(receipts[m.receipt].payer)

RestoreTasks(m) ==
    <<<<"restore", m.receipt>>>> \o Refresh(receipts[m.receipt].payer)

(* A student's cycle is marked due when its last lesson counts; family     *)
(* cycles follow those of their members (reconcileFamilyAccount).          *)
CompleteTasks(m) ==
    IF m.target \notin Cycles THEN <<<<"attend", m.target>>>>
    ELSE <<<<"attend", m.target>>, <<"link", m.target>>,
           IF Owner[m.target] \in Students
           THEN <<"markDue", m.target>> ELSE <<"normalize", Owner[m.target]>>>>

\* Mutated form of Rebuilt: reopening relies on the hook's reconciliation.
RebuiltByHook(t) == <<>>

(* The students whose allocations reopenCompletedOccurrence rebuilds: those *)
(* who attended.  Family accounts are reconciled.                          *)
Rebuilt(t) == IF t \in AbsentPayer THEN <<>> ELSE Refresh(Owner[t])

(* A lesson that is scheduled already leaves nothing to do but the hook;   *)
(* a cycle that lost its lesson already is not looked at again.            *)
ReopenTasks(m) ==
    IF m.target \notin lesson THEN <<>>
    ELSE (IF m.target \notin full THEN <<<<"reset", m.target>>>>
          ELSE IF Owner[m.target] \in Students
          THEN <<<<"unlink", m.target>>, <<"open", m.target>>, <<"reset", m.target>>>>
          ELSE <<<<"unlink", m.target>>, <<"reset", m.target>>>>)
         \o Rebuilt(m.target)

(* Opening progress may be corrected while no lesson counts in the cycle.  *)
ConfigureTasks(m) == <<<<"opening", m.target>>>> \o RebuildTasks(Owner[m.target])

Tasks(m) ==
    CASE m.op = "create" -> CreateTasks(m)
      [] m.op = "update" -> UpdateTasks(m)
      [] m.op = "delete" -> DeleteTasks(m)
      [] m.op = "restore" -> RestoreTasks(m)
      [] m.op = "complete" -> CompleteTasks(m)
      [] m.op = "reopen" -> ReopenTasks(m)
      [] m.op = "configure" -> ConfigureTasks(m)

(* financialReconcileSyncHook: after any other tutoring mutation every     *)
(* student is reconciled.                                                  *)
Hooked(m) == IF m.op \in {"complete", "reopen"} THEN Students ELSE {}

-----------------------------------------------------------------------------
(* Mutations: what a device that sees these rows may send.                 *)

Creates == {[op |-> "create", receipt |-> r, payer |-> p, amount |-> a, at |-> d] :
              r \in {r \in Receipts : receipts[r].state = "none"},
              p \in Payers, a \in Amounts, d \in Dates}
Updates == {[op |-> "update", receipt |-> r, payer |-> p, amount |-> a, at |-> d] :
              r \in {r \in Receipts : Live(r)}, p \in Students, a \in Amounts, d \in Dates}
Deletes == {[op |-> "delete", receipt |-> r] : r \in {r \in Receipts : Live(r)}}
Restores == {[op |-> "restore", receipt |-> r] :
               r \in {r \in Receipts : receipts[r].state = "deleted"}}
Completes ==
    {[op |-> "complete", target |-> t, price |-> CyclePrice] :
       t \in Cycles \ (OpeningCycles \union lesson)}
    \union {[op |-> "complete", target |-> t, price |-> a] :
       t \in Targets \ (Cycles \union lesson), a \in Prices}
Reopens == {[op |-> "reopen", target |-> t] : t \in lesson}
Configures == {[op |-> "configure", target |-> t, full |-> t \notin full] :
                 t \in OpeningCycles}

Start(m) ==
    /\ run = Idle
    /\ IF m.op = "update" /\ receipts[m.receipt].state = "deleted"
       THEN /\ last' = Ended(m, "refused")           \* RECEIPT_DELETED
            /\ UNCHANGED run
       ELSE /\ run' = [Idle EXCEPT !.mutation = m, !.todo = Tasks(m),
                                 !.students = Hooked(m)]
            /\ last' = Ended(NoMutation, "done")
    /\ unfinished' = unfinished \ {m}
    /\ UNCHANGED <<receipts, alloc, tutoring, crashes, history>>

New ==
    /\ mutations < MaxMutations
    /\ mutations' = mutations + 1
    /\ \E m \in Creates \union Updates \union Deletes \union Restores
                \union Completes \union Reopens \union Configures :
         /\ m \notin unfinished
         /\ \A u \in unfinished :                \* receipt ids are fresh
              m.op = "create" /\ u.op = "create" => u.receipt # m.receipt
         /\ Start(m)

SendAgain ==
    /\ \E m \in unfinished : Start(m)
    /\ UNCHANGED mutations

-----------------------------------------------------------------------------
(* One statement of the handler at work: the status of a cycle, the next   *)
(* step of a collection or else the next task.                             *)

Collecting(step) == run.cycles = {} /\ run.queue # {} /\ run.step = step
Receipt == Oldest(run.queue)

At(task) ==
    /\ run.cycles = {} /\ run.queue = {}
    /\ run.todo # <<>> /\ run.todo[1][1] = task
Arg == run.todo[1][2]
Done == run' = [run EXCEPT !.todo = Tail(@)]
DoneCollecting(S) == run' = [run EXCEPT !.todo = Tail(@), !.queue = S]

Refuse ==
    /\ run' = Idle
    /\ last' = Ended(run.mutation, "refused")

Same == UNCHANGED <<last, unfinished, mutations, crashes>>

Received(m) == [state |-> "live", payer |-> m.payer, amount |-> m.amount, at |-> m.at]

(* recordReceipt: a repeated command finds its row, deleted or not.        *)
Insert ==
    /\ At("insert")
    /\ LET row == receipts[Arg]
           new == Received(run.mutation)
       IN /\ receipts' = IF row.state = "none" THEN [receipts EXCEPT ![Arg] = new]
                         ELSE receipts
          /\ IF row.state = "none" \/ [row EXCEPT !.state = "live"] = new
             THEN DoneCollecting({Arg}) /\ UNCHANGED last
             ELSE Refuse                                 \* RECEIPT_ID_CONFLICT
    /\ UNCHANGED <<alloc, tutoring, unfinished, mutations, crashes, history>>

Nothing == [t \in Targets |-> 0]

(* receipt.update: one batch.                                              *)
Change ==
    /\ At("change")
    /\ alloc' = [alloc EXCEPT ![Arg] = Nothing]
    /\ receipts' = [receipts EXCEPT ![Arg] = Received(run.mutation)]
    /\ Done
    /\ UNCHANGED <<tutoring, history>> /\ Same

Delete ==
    /\ At("delete")
    /\ receipts' = [receipts EXCEPT ![Arg].state = "deleted"]
    /\ Done
    /\ UNCHANGED <<alloc, tutoring, history>> /\ Same

Restore ==
    /\ At("restore")
    /\ receipts' = [receipts EXCEPT ![Arg].state = "live"]
    /\ revived' = revived \union {receipts[Arg].payer}
    /\ Done
    /\ UNCHANGED <<alloc, tutoring, behind, halfway>> /\ Same

(* DELETE every allocation of the payer's receipts, deleted ones included. *)
Wiped(p) ==
    [r \in Receipts |-> IF receipts[r].payer = p THEN Nothing ELSE alloc[r]]

(* rebuildStudentAllocations, rebuildStudentFinancialState.                *)
Rebuild ==
    /\ At("rebuild")
    /\ alloc' = Wiped(Arg)
    /\ behind' = behind \ {Arg}
    /\ DoneCollecting(ReceiptsOf(Arg))
    /\ UNCHANGED <<receipts, tutoring, revived, halfway>> /\ Same

(* reconcileStudentFinancialState: collect again, nothing is released.     *)
Reconcile ==
    /\ run.cycles = {} /\ run.queue = {} /\ run.todo = <<>>
    /\ \E p \in run.students :
         run' = [run EXCEPT !.students = @ \ {p}, !.queue = ReceiptsOf(p),
                            !.todo = <<<<"normalize", p>>>>]
    /\ UNCHANGED <<receipts, alloc, tutoring, history>> /\ Same

\* Mutated form of Remaining: a repeated collection starts with the amount.
WholeAmount(r) == receipts[r].amount

Remaining(r) == receipts[r].amount - (IF Live(r) THEN Spent(r) ELSE 0)

(* On to the next receipt of the loop.                                     *)
Collected ==
    run' = [run EXCEPT !.queue = @ \ {Receipt}, !.step = "collect",
                       !.left = 0, !.ahead = {}]

(* FinanceCollectionService.collect up to its list of obligations; a       *)
(* family's cycles are brought up to date before they are listed.          *)
Collect ==
    /\ Collecting("collect")
    /\ IF Remaining(Receipt) < 0 THEN Refuse            \* RECEIPT_OVERALLOCATED
       ELSE /\ IF Remaining(Receipt) = 0 THEN Collected
               ELSE run' = [run EXCEPT
                     !.step = "list",
                     !.left = Remaining(Receipt),
                     !.cycles = IF receipts[Receipt].payer \in Families
                                THEN CyclesOf(receipts[Receipt].payer) ELSE {}]
            /\ UNCHANGED last
    /\ UNCHANGED <<receipts, alloc, tutoring, unfinished, mutations, crashes, history>>

List ==
    /\ Collecting("list")
    /\ run' = [run EXCEPT !.step = "allocate", !.ahead = OwedBy(receipts[Receipt].payer)]
    /\ UNCHANGED <<receipts, alloc, tutoring, history>> /\ Same

\* Mutated form of Share: what others paid for the target is not looked at.
ShareIgnoringOthers(t) == Min({run.left, price[t]})

Share(t) == Min({run.left, Outstanding(t)})

(* The rest of the loop's obligations that still lack money.               *)
Lacking == {t \in run.ahead : Outstanding(t) > 0}

(* allocateReceipt for the next obligation; it neither tops up an existing *)
(* allocation nor touches a deleted receipt.                               *)
AllocateTo(r, t) ==
    LET share == Share(t)
        go == run' = [run EXCEPT !.left = @ - share,
                                 !.ahead = {u \in @ : u > t}]
    IN IF alloc[r][t] = share THEN go /\ UNCHANGED <<alloc, last>>
       ELSE IF alloc[r][t] > 0 \/ ~Live(r) \/ Spent(r) + share > receipts[r].amount
       THEN Refuse /\ UNCHANGED alloc
       ELSE go /\ alloc' = [alloc EXCEPT ![r][t] = share] /\ UNCHANGED last

Allocate ==
    /\ Collecting("allocate")
    /\ IF run.left = 0 \/ Lacking = {} THEN Collected /\ UNCHANGED <<alloc, last>>
       ELSE AllocateTo(Receipt, Min(Lacking))
    /\ UNCHANGED <<receipts, tutoring, unfinished, mutations, crashes, history>>

\* Mutated form of Truth: a paid cycle stays paid.
OncePaid(t) ==
    IF t \notin full THEN "open"
    ELSE IF status[t] = "paid" \/ Outstanding(t) <= 0 THEN "paid" ELSE "due"

Truth(t) ==
    IF t \notin full THEN "open" ELSE IF Outstanding(t) <= 0 THEN "paid" ELSE "due"

(* normalizeCycles, reconcileFamilyAccount: the payer's cycles are read,   *)
(* then one status after the other is written.                             *)
Normalize ==
    /\ At("normalize")
    /\ run' = [run EXCEPT !.todo = Tail(@), !.cycles = CyclesOf(Arg)]
    /\ UNCHANGED <<receipts, alloc, tutoring, history>> /\ Same

NormalizeCycle ==
    /\ run.cycles # {}
    /\ LET c == Min(run.cycles) IN
         /\ status' = [status EXCEPT ![c] = Truth(c)]
         /\ run' = [run EXCEPT !.cycles = @ \ {c}]
    /\ UNCHANGED <<receipts, alloc, lesson, full, price, history>> /\ Same

(* The tutoring statements of complete, reopen and configure.              *)
Teach ==
    /\ \/ /\ At("attend")
          /\ lesson' = lesson \union {Arg}
          /\ price' = IF Arg \in lesson THEN price
                      ELSE [price EXCEPT ![Arg] = run.mutation.price]
          /\ UNCHANGED <<full, status, halfway>>
       \/ /\ At("link")
          /\ full' = full \union {Arg}
          /\ UNCHANGED <<lesson, status, price, halfway>>
       \/ /\ At("markDue")
          /\ status' = [status EXCEPT ![Arg] = IF @ = "open" THEN "due" ELSE @]
          /\ UNCHANGED <<lesson, full, price, halfway>>
       \/ /\ At("unlink")
          /\ full' = full \ {Arg}
          /\ UNCHANGED <<lesson, status, price, halfway>>
       \/ /\ At("open")
          /\ status' = [status EXCEPT ![Arg] = "open"]
          /\ UNCHANGED <<lesson, full, price, halfway>>
       \/ /\ At("reset")
          /\ lesson' = lesson \ {Arg}
          /\ halfway' = IF Arg \in AbsentPayer THEN halfway \union {Owner[Arg]} ELSE halfway
          /\ UNCHANGED <<full, status, price>>
       \/ /\ At("opening")
          /\ IF run.mutation.full = (Arg \in full)
             THEN UNCHANGED <<full, status>>
             ELSE /\ full' = IF run.mutation.full THEN full \union {Arg} ELSE full \ {Arg}
                  /\ status' = [status EXCEPT ![Arg] =
                                  IF run.mutation.full THEN "due" ELSE "open"]
          /\ UNCHANGED <<lesson, price, halfway>>
    /\ Done
    /\ UNCHANGED <<receipts, alloc, revived, behind>> /\ Same

(* The idempotency key is marked done.                                     *)
Finish ==
    /\ run.mutation # NoMutation
    /\ run.cycles = {} /\ run.queue = {} /\ run.todo = <<>> /\ run.students = {}
    /\ run' = Idle
    /\ last' = Ended(run.mutation, "done")
    /\ UNCHANGED <<receipts, alloc, tutoring, unfinished, mutations, crashes, history>>

(* The students whose allocations the handler has still to rebuild.        *)
ToRebuild == {p \in Students : <<"rebuild", p>> \in ToSet(run.todo)}

WorkerDies ==
    /\ run.mutation.op \in CrashOps
    /\ crashes < MaxCrashes
    /\ crashes' = crashes + 1
    /\ unfinished' = unfinished \union {run.mutation}
    /\ run' = Idle
    /\ IF run.mutation.op = "reopen"
       THEN halfway' = halfway \union ToRebuild /\ UNCHANGED behind
       ELSE behind' = behind \union ToRebuild /\ UNCHANGED halfway
    /\ UNCHANGED <<receipts, alloc, tutoring, last, mutations, revived>>

Next ==
    \/ New \/ SendAgain
    \/ Insert \/ Change \/ Delete \/ Restore
    \/ Rebuild \/ Reconcile \/ Collect \/ List \/ Allocate
    \/ Normalize \/ NormalizeCycle
    \/ Teach
    \/ Finish \/ WorkerDies

Spec == Init /\ [][Next]_vars

-----------------------------------------------------------------------------
(* Correctness.                                                            *)

(* No handler is at work and no device has a mutation to send again.       *)
Settled == run = Idle /\ unfinished = {}

(* "Automatic allocation cannot overpay a target obligation"               *)
(* (ARCHITECTURE.md, invariant 8): when every mutation sent has ended, no  *)
(* obligation holds more than it costs, whatever was corrected meanwhile.  *)
(* A family's are left out once a receipt of the family was restored: its  *)
(* allocations come back whatever was collected since.  Left out as well   *)
(* are students a reopening left money behind for.                         *)
NeverOverpaid ==
    Settled => \A t \in Targets :
      Owing(t) /\ Owner[t] \notin (Families \intersect revived) \union halfway =>
        Outstanding(t) >= 0

(* The mutation m has just been completed.                                 *)
JustDone(ops) == last.how = "done" /\ last.mutation.op \in ops /\ run = Idle

(* Oldest-first allocation without a loop: lay a payer's receipts end to   *)
(* end, and its obligations as well; a receipt pays for an obligation what *)
(* the two stretches share.                                                *)
Received_before(r) ==
    SumFunctionOnSet([s \in Receipts |-> receipts[s].amount],
                     {s \in ReceiptsOf(receipts[r].payer) : Earlier(s, r)})
Owed_before(t) ==
    SumFunctionOnSet(price, {u \in OwedBy(Owner[t]) : u < t})
Overlap(r, t) ==
    Max({0, Min({Received_before(r) + receipts[r].amount, Owed_before(t) + price[t]})
              - Max({Received_before(r), Owed_before(t)})})

(* "Edit/delete/restore of receipts causes deterministic reallocation"     *)
(* (ARCHITECTURE.md, invariant 9): once settled, after a correction,       *)
(* however often its worker died and whatever came in between, the payer's *)
(* money lies where oldest-first allocation from nothing puts it; a        *)
(* family's allocations are never rebuilt.                                 *)
ReallocationDeterministic ==
    Settled /\ JustDone(Corrections) =>
      LET p == receipts[last.mutation.receipt].payer IN
      p \in Students \ halfway => \A r \in ReceiptsOf(p), t \in Targets :
        alloc[r][t] = IF t \in OwedBy(p) THEN Overlap(r, t) ELSE 0

CreditWhileOwing(p) ==
    \E r \in ReceiptsOf(p), t \in OwedBy(p) :
      Spent(r) < receipts[r].amount /\ Outstanding(t) > 0

(* Once settled, no student has unspent money and an unpaid obligation at  *)
(* the same time (README.md: "automatic reallocation after payment         *)
(* corrections or tutoring-state changes"): always while no handler was    *)
(* cut short, and then at the latest after the next lesson completed or    *)
(* reopened, except students whose rebuild was left undone for good.       *)
NoCreditWhileOwing ==
    Settled /\ ((crashes = 0 /\ halfway = {}) \/ JustDone({"complete", "reopen"})) =>
      \A p \in Students \ (behind \union halfway) : ~CreditWhileOwing(p)

(* ... and no money of a student lies on what is not owed any more.        *)
MoneyFollowsObligations ==
    Settled => \A r \in Receipts, t \in Targets :
      Owner[t] \in Students \ halfway /\ alloc[r][t] > 0 => Owing(t)

(* ... and every student's cycles are open, due or paid as their lessons   *)
(* and money say.                                                          *)
StatusTellsTruth ==
    Settled /\ JustDone({"complete", "reopen"}) =>
      \A t \in {c \in Cycles : Owner[c] \in Students} :
        /\ status[t] = "open" <=> t \notin full
        /\ status[t] = "paid" => Outstanding(t) <= 0
        /\ status[t] = "due" => Outstanding(t) > 0

(* No tutoring mutation is refused because of money, unless the rebuild of *)
(* some student was left undone: its allocations then conflict with what   *)
(* is collected from the same receipts (ALLOCATION_CONFLICT).              *)
TutoringNeverRefused ==
    last.mutation.op \in Tutoring /\ last.how = "refused" =>
      behind \union halfway # {}
=============================================================================
