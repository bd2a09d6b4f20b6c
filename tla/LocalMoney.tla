----------------------------- MODULE LocalMoney -----------------------------
(***************************************************************************)
(* The money on the device: which receipts pay for which lessons and       *)
(* packages, as IndexedDB keeps it (client/finance/local-rebalance.ts,     *)
(* client/finance/corrections.ts, client/tutoring/local-commands.ts,       *)
(* client/tutoring/family-billing.ts).                                     *)
(*                                                                         *)
(* A command writes its own rows in one transaction and then awaits the    *)
(* jobs that bring allocations and statuses up to date, each a read        *)
(* transaction followed by a write of what was computed from the read.     *)
(* Between any two transactions another tab may run one of its own, the    *)
(* background synchronisation may replace the rows, or the tab may close,  *)
(* and the remaining jobs are lost.                                        *)
(*                                                                         *)
(* Abstractions: a receipt is older than those with a higher number and a  *)
(* cycle than the later ones of its student; two family cycles of one      *)
(* sequence number, which only a crossed job can make, are one; positions  *)
(* within a package are LessonCalendar's; the members of a session, its    *)
(* price and the family account stay as they are.                          *)
(***************************************************************************)
EXTENDS Integers, FiniteSets, Sequences, SequencesExt, FiniteSetsExt

CONSTANTS Students, Family, Nobody, Tabs,
          Lessons,      \* the lessons that may be recorded, numbered
          Setups,       \* members, payers, prices, plans, the family, the rows
                        \* at the start, the tabs open and the bound on commands
          Amounts,      \* amounts the collection form may submit
          Openings,     \* lessons already had, as the plan form may submit
          MaxReceipts   \* bound on receipts

Payers == Students \union {Family}

ASSUME MoneyAssumption ==
    /\ Family \notin Students /\ Nobody \notin Payers
    /\ Lessons \subseteq Nat /\ Amounts \subseteq Nat \ {0}
    /\ Openings \subseteq Nat /\ MaxReceipts \in Nat

VARIABLES
    setup,    \* constant of the behaviour
    db,       \* the rows in IndexedDB
    task,     \* per tab, the transactions its command has still to run
    seen,     \* per tab, what the read of the first of them returned
    fresh,    \* tabs whose job began after the last command on its payer
    need,     \* per payer, the job the commands so far call for
    crossed,  \* payers a job wrote for from rows changed since its read
    made      \* commands begun

vars == <<setup, db, task, seen, fresh, need, crossed, made>>

NotRead == [read |-> FALSE]

Job(kind, p) == [kind |-> kind, payer |-> p]

-----------------------------------------------------------------------------
(* Who is billed, and what is owed.  A target is a kind, a payer and a     *)
(* number; an obligation is a target and the amount due for it.            *)

InFamily(s) == s \in setup.family.members

Required ==
    IF setup.family.members = {} THEN {}
    ELSE IF setup.family.counting = "shared_occurrence"
         THEN {setup.family.primary} ELSE setup.family.members

BillingStudentIds(present) ==
    IF setup.basis = "total_session" /\ setup.payer \in setup.members
    THEN {setup.payer} ELSE present

Complete(c) == c.opening + c.count >= setup.size

Charge(d, s, n) ==
    IF \/ n \notin Range(d.done)
       \/ setup.basis = "per_student" /\ s \notin d.who[n]
       \/ setup.basis = "total_session" /\ s # setup.payer
    THEN 0 ELSE setup.price

Obligation(target, due) == [target |-> target, due |-> due]

StudentObligations(d, s) ==
    CASE d.mode[s] = "package" /\ ~InFamily(s) ->
           LET complete(k) == Complete(d.cycles[s][k])
               ks == SelectSeq([k \in DOMAIN d.cycles[s] |-> k], complete)
           IN  [i \in DOMAIN ks |->
                  Obligation(<<"cycle", s, ks[i]>>, setup.packagePrice)]
      [] d.mode[s] = "per_session" ->
           LET charged(n) == Charge(d, s, n) > 0
               ns == SelectSeq(d.done, charged)
           IN  [i \in DOMAIN ns |->
                  Obligation(<<"lesson", s, ns[i]>>, Charge(d, s, ns[i]))]
      [] OTHER -> <<>>

AccountObligations(d) ==
    LET owed(k) == d.family[k] \in {"due", "paid"}
        ks == SelectSeq([k \in DOMAIN d.family |-> k], owed)
    IN  [i \in DOMAIN ks |->
           Obligation(<<"family", Family, ks[i]>>, setup.family.price)]

Obligations(d, p) ==
    IF p = Family THEN AccountObligations(d) ELSE StudentObligations(d, p)

-----------------------------------------------------------------------------
(* Receipts and allocations.                                               *)

Total(as) == MapThenSumSet(LAMBDA a : a.amount, as)

Live(d, p) ==
    {r \in DOMAIN d.receipts : d.receipts[r].payer = p /\ d.receipts[r].live}

From(as, r) == Total({a \in as : a.receipt = r})
To(as, target) == Total({a \in as : a.target = target})
AllocationsOf(d, p) == {a \in d.allocations : a.receipt \in Live(d, p)}

OverAllocated(d, p) ==
    \E r \in Live(d, p) : From(AllocationsOf(d, p), r) > d.receipts[r].amount

(* The allocations an incremental rebalance adds: the oldest receipt's     *)
(* remainder to the oldest obligation's, and so on.                        *)
Generated(d, p, used) ==
    LET old == AllocationsOf(d, p)
        pay(as, r, o) ==
            LET remaining == d.receipts[r].amount - From(as, r)
                outstanding == o.due - To(as, o.target)
                amount == Min({remaining, outstanding})
            IN  IF amount <= 0 THEN as
                ELSE as \union {[id |-> used + Cardinality(as \ old) + 1,
                                 receipt |-> r, target |-> o.target,
                                 amount |-> amount]}
        payAll(as, r) ==
            FoldLeft(LAMBDA acc, o : pay(acc, r, o), as, Obligations(d, p))
    IN  FoldLeft(payAll, old, SetToSortSeq(Live(d, p), <)) \ old

(* Mutated form of PaidOrDue: paid as soon as something is allocated.      *)
PaidWithAny(as, target, price) ==
    IF To(as, target) > 0 \/ price = 0 THEN "paid" ELSE "due"

PaidOrDue(as, target, price) == IF To(as, target) >= price THEN "paid" ELSE "due"

-----------------------------------------------------------------------------
(* The write of each job: d are the rows it finds, v those it had read.    *)

CyclesWritten(d, v, s, as) ==
    [k \in DOMAIN d.cycles[s] |->
       IF k \notin DOMAIN v.cycles[s] THEN d.cycles[s][k]
       ELSE LET c == v.cycles[s][k] IN
            CASE Complete(c) ->
                   [c EXCEPT !.status = PaidOrDue(as, <<"cycle", s, k>>, setup.packagePrice)]
              [] ~Complete(c) /\ c.status # "open" -> [c EXCEPT !.status = "open"]
              [] OTHER -> d.cycles[s][k]]

Rebalanced(d, v, s, used) ==
    LET new == Generated(v, s, used) IN
    [d EXCEPT !.allocations = @ \union new,
              !.cycles[s] = IF v.mode[s] = "package" /\ ~InFamily(s)
                            THEN CyclesWritten(d, v, s, AllocationsOf(v, s) \union new)
                            ELSE @]

(* The first half of a rebuild: what the student's receipts, deleted ones  *)
(* included, are allocated to is released.                                 *)
Released(d, v, s) ==
    [d EXCEPT !.allocations =
        @ \ {a \in v.allocations : v.receipts[a.receipt].payer = s}]

FamilyComplete(v, k) ==
    \A s \in Required : k \in DOMAIN v.cycles[s] /\ Complete(v.cycles[s][k])

FamilyStatus(v, k) ==
    LET as == {a \in v.allocations : v.receipts[a.receipt].live} IN
    IF FamilyComplete(v, k)
    THEN PaidOrDue(as, <<"family", Family, k>>, setup.family.price) ELSE "open"

Reconciled(d, v) ==
    LET sequences == UNION {DOMAIN v.cycles[s] : s \in Required} IN
    [d EXCEPT !.family = [k \in DOMAIN d.family \union sequences |->
        IF k \in sequences THEN FamilyStatus(v, k) ELSE d.family[k]]]

Spread(d, v, used) ==
    [d EXCEPT !.allocations = @ \union Generated(v, Family, used)]

RebuildJobs(s) == <<Job("release", s), Job("rebalance", s)>>

(* Mutated form of FamilyJobs: the money is spread before the cycles are   *)
(* brought up to date.                                                     *)
FamilyJobsSpreadFirst ==
    IF setup.family.members = {} THEN <<>>
    ELSE <<Job("spread", Family), Job("reconcile", Family), Job("settle", Family)>>

FamilyJobs ==
    IF setup.family.members = {} THEN <<>>
    ELSE <<Job("reconcile", Family), Job("spread", Family), Job("settle", Family)>>

FamilyJobsFor(ss) == IF \E s \in ss : InFamily(s) THEN FamilyJobs ELSE <<>>

RebalanceJobs(ss) ==
    LET order == SetToSeq(ss) IN [i \in DOMAIN order |-> Job("rebalance", order[i])]

RefreshPayer(p) == IF p = Family THEN FamilyJobs ELSE RebuildJobs(p)

-----------------------------------------------------------------------------
(* What is said about the rows.                                            *)

Idle(t) == task[t] = <<>>

Raised(ps, level) ==
    [p \in Payers |-> IF p \in ps /\ need[p] # "rebuild" THEN level ELSE need[p]]

(* A command of tab t calls for jobs on the payers ps.                     *)
Raise(t, ps, level) ==
    /\ need' = Raised(ps, level)
    /\ fresh' = {u \in fresh : u = t \/ Idle(u) \/ Head(task[u]).payer \notin ps}

FamilyOf(ss) == IF \E s \in ss : InFamily(s) THEN {Family} ELSE {}

Used ==
    LET read == {t \in Tabs : seen[t] # NotRead}
        ids == {a.id : a \in db.allocations \union
                             UNION {seen[t].rows.allocations : t \in read}}
    IN  Max(ids \union {0})

(* What a job on the payer p reads and its write depends on.               *)
View(d, p) ==
    [receipts |-> [r \in {q \in DOMAIN d.receipts : d.receipts[q].payer = p} |->
                     d.receipts[r]],
     allocations |-> {a \in d.allocations : d.receipts[a.receipt].payer = p},
     progress |-> IF p = Family
                  THEN [family |-> d.family,
                        cycles |-> [s \in Required |-> d.cycles[s]]]
                  ELSE [cycles |-> d.cycles[p], mode |-> d.mode[p],
                        charges |-> [n \in Lessons |-> Charge(d, p, n)]]]

Begin(t, job) ==
    /\ Idle(t) /\ t \in setup.tabs /\ made < setup.commands
    /\ made' = made + 1
    /\ task' = [task EXCEPT ![t] = <<job>>]
    /\ seen' = [seen EXCEPT ![t] = [read |-> TRUE, rows |-> db]]
    /\ UNCHANGED <<setup, db, fresh, need, crossed>>

(* A command that is one transaction, followed by its jobs.                *)
AtOnce(t, rows, jobs) ==
    /\ Idle(t) /\ t \in setup.tabs /\ made < setup.commands
    /\ made' = made + 1
    /\ db' = rows
    /\ task' = [task EXCEPT ![t] = jobs]
    /\ UNCHANGED <<setup, seen, crossed>>

(* Whom a write for the payers ps concerns: the payers of the receipts it  *)
(* spends too, which may be others by then.                                *)
Concerned(ps, rows) ==
    ps \union {rows.receipts[x.receipt].payer : x \in rows.allocations \ db.allocations}

(* The write of a command or job, computed from what it read.              *)
Commit(t, ps, rows, jobs) ==
    /\ db' = rows
    /\ crossed' = IF \E p \in ps : View(seen[t].rows, p) # View(db, p) /\ rows # db
                  THEN crossed \union Concerned(ps, rows) ELSE crossed
    /\ task' = [task EXCEPT ![t] = jobs \o Tail(@)]
    /\ seen' = [seen EXCEPT ![t] = NotRead]
    /\ UNCHANGED <<setup, made>>

(* The command rejects: the jobs after this one do not run.                *)
Throw(t) ==
    /\ task' = [task EXCEPT ![t] = <<>>]
    /\ seen' = [seen EXCEPT ![t] = NotRead]
    /\ UNCHANGED <<setup, db, fresh, need, crossed, made>>

Ready(t, kind) == ~Idle(t) /\ seen[t] # NotRead /\ Head(task[t]).kind = kind

-----------------------------------------------------------------------------
(* Lessons.                                                                *)

FirstCycle(opening) ==
    [opening |-> opening, count |-> 0, locked |-> FALSE,
     status |-> IF opening = setup.size THEN "due" ELSE "open"]

OpenCycles(cs) == {k \in DOMAIN cs : cs[k].status = "open"}

PlaceIn(cs) == IF OpenCycles(cs) = {} THEN Len(cs) + 1 ELSE Max(OpenCycles(cs))

TakePlace(cs) ==
    LET all == IF OpenCycles(cs) = {} THEN Append(cs, FirstCycle(0)) ELSE cs
        c == all[PlaceIn(cs)]
        taken == [c EXCEPT !.count = @ + 1, !.locked = TRUE]
    IN  [all EXCEPT ![PlaceIn(cs)] =
            [taken EXCEPT !.status = IF Complete(taken) THEN "due" ELSE "open"]]

Placed(d, n, ss) ==
    LET new == {s \in ss : d.mode[s] = "package" /\ ~\E p \in d.places : p[1] = s /\ p[3] = n}
    IN  [d EXCEPT
           !.cycles = [s \in Students |-> IF s \in new THEN TakePlace(@[s]) ELSE @[s]],
           !.places = @ \union {<<s, PlaceIn(d.cycles[s]), n>> : s \in new}]

RecordLesson(t, n, present) ==
    LET billed == BillingStudentIds(present)
        touched == present \union billed
        recorded == [db EXCEPT !.done = Append(@, n), !.who[n] = present]
    IN  /\ n \notin Range(db.done)
        /\ present # {} /\ present \subseteq setup.members
        /\ AtOnce(t, Placed(recorded, n, billed),
                  RebalanceJobs(touched) \o FamilyJobsFor(touched))
        /\ Raise(t, touched \union FamilyOf(touched), "rebalance")

(* Recording a lesson already recorded only repeats the jobs.              *)
RecordAgain(t, n) ==
    LET touched == db.who[n] \union BillingStudentIds(db.who[n]) IN
    /\ n \in Range(db.done)
    /\ AtOnce(t, db, RebalanceJobs(touched) \o FamilyJobsFor(touched))
    /\ UNCHANGED <<fresh, need>>

BeginReopen(t, n) ==
    LET counted == {s \in setup.members : db.cycles[s] # <<>>} IN
    /\ n \in Range(db.done)
    /\ counted # {} => \E p \in db.places : p[3] = n
    /\ Begin(t, [kind |-> "reopen", lesson |-> n, payer |-> Nobody])

(* The cycle without the lesson, from the rows read.                       *)
GivenBack(v, place) ==
    LET c == v.cycles[place[1]][place[2]]
        rest == {p \in v.places : p[1] = place[1] /\ p[2] = place[2]} \ {place}
        given == [c EXCEPT !.count = Cardinality(rest), !.locked = TRUE]
    IN  [given EXCEPT !.status = IF Complete(given) THEN "due" ELSE "open"]

Reopened(d, v, n) ==
    LET removed == {p \in v.places : p[3] = n}
        kept == {p \in v.places \ removed : \E q \in removed : q[1] = p[1] /\ q[2] = p[2]}
        rewritten(s, k) == {p \in removed : p[1] = s /\ p[2] = k}
        other(m) == m # n
    IN  [d EXCEPT
           !.done = SelectSeq(@, other), !.who[n] = {},
           !.places = (@ \ removed) \union kept,
           !.cycles = [s \in Students |-> [k \in DOMAIN @[s] |->
              IF rewritten(s, k) = {} THEN @[s][k]
              ELSE GivenBack(v, CHOOSE p \in rewritten(s, k) : TRUE)]]]

Reopen(t) ==
    LET v == seen[t].rows
        n == Head(task[t]).lesson
        touched == setup.members \union {p[1] : p \in {q \in v.places : q[3] = n}}
        order == SetToSeq(touched)
    IN  /\ Ready(t, "reopen")
        /\ Commit(t, touched \union FamilyOf(touched), Reopened(db, v, n),
                  FlattenSeq([i \in DOMAIN order |-> RebuildJobs(order[i])]))
        /\ Raise(t, touched \union FamilyOf(touched), "rebuild")

-----------------------------------------------------------------------------
(* Plans.                                                                  *)

Last1(cs) == cs[Len(cs)]

OpeningRefused(cs, opening) ==
    \/ opening > setup.size
    \/ /\ cs # <<>>
       /\ Last1(cs).opening # opening
       /\ Last1(cs).locked \/ Last1(cs).count > 0

BeginConfigure(t, s, mode, opening) ==
    /\ db.mode[s] # "none" /\ db.cycles[s] # <<>> => db.mode[s] = mode
    /\ mode = "package" => ~OpeningRefused(db.cycles[s], opening)
    /\ mode = "per_session" => opening = 0
    /\ Begin(t, [kind |-> "configure", payer |-> s, mode |-> mode, opening |-> opening])

Corrects(v, job) ==
    /\ job.mode = "package" /\ v.cycles[job.payer] # <<>>
    /\ Last1(v.cycles[job.payer]).opening # job.opening

Corrected(c, opening) ==
    [c EXCEPT !.opening = opening,
              !.status = IF opening + c.count = setup.size THEN "due" ELSE "open"]

Configured(d, v, job) ==
    LET s == job.payer
        k == Len(v.cycles[s])
    IN  [d EXCEPT
           !.mode[s] = job.mode,
           !.cycles[s] =
              IF job.mode = "package" /\ k = 0 THEN Append(@, FirstCycle(job.opening))
              ELSE IF Corrects(v, job)
                   THEN [@ EXCEPT ![k] = Corrected(v.cycles[s][k], job.opening)] ELSE @]

Configure(t) ==
    LET v == seen[t].rows
        job == Head(task[t])
        touched == {job.payer} \union FamilyOf({job.payer})
    IN  /\ Ready(t, "configure")
        /\ Commit(t, touched, Configured(db, v, job),
                  IF Corrects(v, job) THEN RebuildJobs(job.payer)
                  ELSE RebalanceJobs({job.payer}))
        /\ Raise(t, touched,
                 IF Corrects(v, job) \/ v.mode[job.payer] # job.mode
                 THEN "rebuild" ELSE "rebalance")

-----------------------------------------------------------------------------
(* Receipts.                                                               *)

Receipt(p, amount, live) == [payer |-> p, amount |-> amount, live |-> live]

Collect(t, p, amount) ==
    /\ Len(db.receipts) < MaxReceipts
    /\ p = Family => setup.family.members # {}
    /\ AtOnce(t, [db EXCEPT !.receipts = Append(@, Receipt(p, amount, TRUE))],
              IF p = Family THEN FamilyJobs ELSE RebalanceJobs({p}))
    /\ Raise(t, {p}, "rebalance")

BeginUpdate(t, r, p, amount) ==
    /\ r \in DOMAIN db.receipts
    /\ db.receipts[r].live /\ db.receipts[r].payer # Family
    /\ Begin(t, [kind |-> "receipt", payer |-> Nobody, id |-> r,
                 row |-> Receipt(p, amount, TRUE), release |-> TRUE])

BeginDelete(t, r) ==
    /\ r \in DOMAIN db.receipts
    /\ db.receipts[r].live
    /\ Begin(t, [kind |-> "receipt", payer |-> Nobody, id |-> r,
                 row |-> [db.receipts[r] EXCEPT !.live = FALSE], release |-> TRUE])

BeginRestore(t, r) ==
    /\ r \in DOMAIN db.receipts
    /\ ~db.receipts[r].live
    /\ Begin(t, [kind |-> "receipt", payer |-> Nobody, id |-> r,
                 row |-> [db.receipts[r] EXCEPT !.live = TRUE], release |-> FALSE])

(* Mutated form of ReceiptWritten: the allocations are left to the jobs.   *)
ReceiptOnlyWritten(d, job) == [d EXCEPT !.receipts[job.id] = job.row]

(* An update or a deletion releases the receipt's allocations in the same  *)
(* transaction; a restoration finds none.                                  *)
ReceiptWritten(d, job) ==
    [d EXCEPT !.receipts[job.id] = job.row,
              !.allocations = IF job.release THEN {a \in @ : a.receipt # job.id} ELSE @]

WriteReceipt(t) ==
    LET job == Head(task[t])
        old == seen[t].rows.receipts[job.id].payer
        new == job.row.payer
        touched == {old, new, db.receipts[job.id].payer}
    IN  /\ Ready(t, "receipt")
        /\ Commit(t, touched, ReceiptWritten(db, job),
                  RefreshPayer(old) \o IF new # old THEN RebuildJobs(new) ELSE <<>>)
        /\ Raise(t, touched, "rebalance")

-----------------------------------------------------------------------------
(* Jobs.                                                                   *)

ReadRows(t) ==
    /\ ~Idle(t) /\ seen[t] = NotRead
    /\ seen' = [seen EXCEPT ![t] = [read |-> TRUE, rows |-> db]]
    /\ fresh' = IF Head(task[t]).kind \in {"rebalance", "reconcile"}
                THEN fresh \union {t} ELSE fresh
    /\ UNCHANGED <<setup, db, task, need, crossed, made>>

Unchanged(t, p) == View(seen[t].rows, p) = View(db, p)

(* The need a job has met, if nothing happened to its payer meanwhile.     *)
Met(t, p) ==
    need' = IF t \in fresh /\ Unchanged(t, p) /\ need[p] = "rebalance"
            THEN [need EXCEPT ![p] = "none"] ELSE need

Rebalance(t) ==
    LET p == Head(task[t]).payer IN
    /\ Ready(t, "rebalance")
    /\ ~OverAllocated(seen[t].rows, p)
    /\ Commit(t, {p}, Rebalanced(db, seen[t].rows, p, Used), <<>>)
    /\ Met(t, p) /\ UNCHANGED fresh

Release(t) ==
    LET p == Head(task[t]).payer
        rows == Released(db, seen[t].rows, p)
    IN  /\ Ready(t, "release")
        /\ db' = rows
        /\ need' = IF Unchanged(t, p) \/ need[p] = "none"
                   THEN [need EXCEPT ![p] = "rebalance"] ELSE need
        /\ crossed' = IF Unchanged(t, p) THEN crossed \ {p} ELSE crossed
        /\ task' = [task EXCEPT ![t] = Tail(@)]
        /\ seen' = [seen EXCEPT ![t] = NotRead]
        /\ UNCHANGED <<setup, fresh, made>>

Reconcile(t) ==
    /\ Ready(t, "reconcile") \/ Ready(t, "settle")
    /\ Commit(t, {Family}, Reconciled(db, seen[t].rows), <<>>)
    /\ IF Head(task[t]).kind = "settle" THEN Met(t, Family) ELSE UNCHANGED need
    /\ UNCHANGED fresh

SpreadFamily(t) ==
    /\ Ready(t, "spread")
    /\ ~OverAllocated(seen[t].rows, Family)
    /\ Commit(t, {Family}, Spread(db, seen[t].rows, Used), <<>>)
    /\ UNCHANGED <<need, fresh>>

OverAllocatedThrows(t) ==
    /\ Ready(t, "rebalance") \/ Ready(t, "spread")
    /\ OverAllocated(seen[t].rows, Head(task[t]).payer)
    /\ Throw(t)

CloseTab(t) == ~Idle(t) /\ Throw(t)

(* The rows a synchronisation brings: every command has been pushed, and   *)
(* the server has allocated the same receipts itself (ReceiptAllocation);  *)
(* it refuses to take a student with a cycle off packages.                 *)
Settle(d, used) ==
    LET counted == [d EXCEPT
            !.allocations = {},
            !.mode = [s \in Students |-> IF d.cycles[s] = <<>> THEN @[s] ELSE "package"],
            !.cycles = [s \in Students |-> [k \in DOMAIN @[s] |->
                [@[s][k] EXCEPT !.count = Cardinality({p \in d.places : p[1] = s /\ p[2] = k})]]]]
        last(e) == Max({a.id : a \in e.allocations} \union {used})
        students == FoldSet(LAMBDA s, e : Rebalanced(e, e, s, last(e)), counted, Students)
        due == Reconciled(students, students)
        spread == Spread(due, due, last(due))
    IN  IF setup.family.members = {} THEN students ELSE Reconciled(spread, spread)

Pull ==
    /\ \E p \in Payers : need[p] # "none" \/ p \in crossed
    /\ db' = Settle(db, Used)
    /\ need' = [p \in Payers |-> "none"]
    /\ crossed' = {}
    /\ UNCHANGED <<setup, task, seen, fresh, made>>

-----------------------------------------------------------------------------
FirstRows ==
    LET rows == [done |-> <<>>, who |-> [n \in Lessons |-> {}], mode |-> setup.mode,
                 cycles |-> [s \in Students |-> IF setup.mode[s] = "package"
                                THEN <<FirstCycle(setup.opening)>> ELSE <<>>],
                 places |-> {}, family |-> <<>>, receipts |-> setup.receipts,
                 allocations |-> {}]
        record(d, n) == Placed([d EXCEPT !.done = Append(@, n), !.who[n] = setup.members],
                               n, BillingStudentIds(setup.members))
    IN  Settle(FoldLeft(record, rows, setup.done), 0)

Init ==
    /\ setup \in Setups
    /\ task = [t \in Tabs |-> <<>>]
    /\ seen = [t \in Tabs |-> NotRead]
    /\ db = FirstRows
    /\ fresh = {}
    /\ need = [p \in Payers |-> "none"]
    /\ crossed = {}
    /\ made = 0

Lesson(t) ==
    \E n \in Lessons :
       \/ \E present \in SUBSET Students : RecordLesson(t, n, present)
       \/ RecordAgain(t, n)
       \/ BeginReopen(t, n)

Plan(t) ==
    \E s \in Students, mode \in {"per_session", "package"}, opening \in Openings :
       BeginConfigure(t, s, mode, opening)

Money(t) ==
    \/ \E p \in Payers, amount \in Amounts : Collect(t, p, amount)
    \/ \E r \in 1..MaxReceipts, s \in Students, amount \in Amounts :
          BeginUpdate(t, r, s, amount)
    \/ \E r \in 1..MaxReceipts : BeginDelete(t, r) \/ BeginRestore(t, r)

Work(t) ==
    \/ ReadRows(t) \/ Reopen(t) \/ Configure(t) \/ WriteReceipt(t)
    \/ Rebalance(t) \/ Release(t) \/ Reconcile(t) \/ SpreadFamily(t)
    \/ OverAllocatedThrows(t)

Next ==
    \/ Pull
    \/ \E t \in Tabs : Lesson(t) \/ Plan(t) \/ Money(t) \/ Work(t) \/ CloseTab(t)

Spec == Init /\ [][Next]_vars

-----------------------------------------------------------------------------
(* Properties.                                                             *)

Outstanding(p) ==
    LET os == Obligations(db, p)
        left(o) == Max({0, o.due - To(AllocationsOf(db, p), o.target)})
    IN  MapThenSumSet(left, Range(os))

Unspent(p) ==
    MapThenSumSet(LAMBDA r : db.receipts[r].amount, Live(db, p))
    - Total(AllocationsOf(db, p))

DueOf(target) ==
    CASE target[1] = "cycle" -> setup.packagePrice
      [] target[1] = "lesson" -> setup.price
      [] target[1] = "family" -> setup.family.price

(* No receipt is spent twice and nothing is paid twice, whatever commands  *)
(* of two tabs run between the transactions of a job and wherever a tab is *)
(* closed; only a payer whose own rows changed between a job's read and    *)
(* its write is left out, until a rebuild or a synchronisation.            *)
MoneyFits ==
    \A p \in Payers \ crossed :
       /\ ~OverAllocated(db, p)
       /\ \A a \in AllocationsOf(db, p) : To(AllocationsOf(db, p), a.target) <= DueOf(a.target)

StatusesRight(p) ==
    IF p = Family
    THEN \A k \in DOMAIN db.family : db.family[k] = FamilyStatus(db, k)
    ELSE db.mode[p] = "package" /\ ~InFamily(p) =>
         \A k \in DOMAIN db.cycles[p] :
            db.cycles[p][k].status =
               IF ~Complete(db.cycles[p][k]) THEN "open"
               ELSE PaidOrDue(AllocationsOf(db, p), <<"cycle", p, k>>, setup.packagePrice)

(* Once the jobs the commands call for have run, a payer has no unspent    *)
(* money while owing some, every allocation is for something owed, and     *)
(* every package shows the status its lessons and money give it: a         *)
(* completed lesson whose jobs were cut short is repaired by the next job. *)
Settled ==
    \A p \in Payers \ crossed : need[p] = "none" =>
       /\ Unspent(p) = 0 \/ Outstanding(p) = 0
       /\ \A a \in AllocationsOf(db, p) :
             \E i \in DOMAIN Obligations(db, p) : Obligations(db, p)[i].target = a.target
       /\ StatusesRight(p)

-----------------------------------------------------------------------------
(* What the screens say is due: the total of the money screen, and the     *)
(* sum of one payer.  Both start from the stored statuses and count every  *)
(* allocation to a target, whichever receipt it is from.                   *)

LeftOf(target, due) == Max({0, due - To(db.allocations, target)})

DueCycles(s) ==
    MapThenSumSet(LAMBDA k : LeftOf(<<"cycle", s, k>>, setup.packagePrice),
                  {k \in DOMAIN db.cycles[s] : db.cycles[s][k].status = "due"})

DueFamily ==
    MapThenSumSet(LAMBDA k : LeftOf(<<"family", Family, k>>, setup.family.price),
                  {k \in DOMAIN db.family : db.family[k] = "due"})

DueLessons(s) ==
    IF db.mode[s] # "per_session" THEN 0
    ELSE MapThenSumSet(LAMBDA n : LeftOf(<<"lesson", s, n>>, Charge(db, s, n)),
                       Range(db.done))

CurrentDue ==
    MapThenSumSet(LAMBDA s : (IF InFamily(s) THEN 0 ELSE DueCycles(s)) + DueLessons(s),
                  Students)
    + IF setup.family.members = {} THEN 0 ELSE DueFamily

SummaryDue(s) ==
    IF InFamily(s) THEN DueFamily ELSE DueCycles(s) + DueLessons(s)

(* Once settled, what the screens show as due is what the lessons and the  *)
(* packages recorded leave to pay: in total, and student by student.       *)
ShownIsOwed ==
    (crossed = {} /\ \A p \in Payers : need[p] = "none") =>
       /\ CurrentDue = MapThenSumSet(Outstanding, Payers)
       /\ \A s \in Students :
             SummaryDue(s) = IF InFamily(s) THEN Outstanding(Family) ELSE Outstanding(s)
=============================================================================
