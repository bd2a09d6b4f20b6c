--------------------------- MODULE PackageBilling ---------------------------
(***************************************************************************)
(* What a lesson does to the packages of the students it is charged to:    *)
(* OccurrencesService, BillingService and their D1 repositories, the       *)
(* lesson, session and student operations of the tutoring sync handler,    *)
(* the cycles of a family account, and the hook that normalises cycles     *)
(* after every tutoring mutation.                                          *)
(*                                                                         *)
(* A worker takes one mutation and runs its handler one statement (or one  *)
(* batch) at a time.  It may die after any of them, or a statement may     *)
(* fail: the mutation stays pending and some worker takes it again.  The   *)
(* workspace lease lets one worker work at a time; a worker that outlives  *)
(* its lease overlaps with the next one (MaxOverlaps).                     *)
(*                                                                         *)
(* One recurring session; money is in ReceiptAllocation, so "due" stands   *)
(* for a full cycle whether it is paid or not.                             *)
(***************************************************************************)
EXTENDS Integers, Sequences, FiniteSets, FiniteSetsExt, SequencesExt

CONSTANTS
    Students, Lessons, Workers,
    Nobody,     \* payer_student_id NULL
    Setups      \* workspaces to start with, by name, each with
                \*   session, plan, cycles: the rows there are
                \*   family, counting, primary: the family account
                \*   commands: the mutations devices may send
                \*   mutations, failures, overlaps: bounds on the mutations sent, on
                \*   workers that die and statements that fail, on workers that
                \*   outlive their lease

MaxAttempts == 4
Shift == 10000

(* What a device may ask for; Nobody where no lesson is named.             *)
Mutations ==
    [op : {"occurrence.complete"}, lesson : Lessons, present : SUBSET Students]
    \union [op : {"occurrence.reopen", "occurrence.cancel", "occurrence.restore"}, lesson : Lessons]
    \union [op : {"occurrence.reschedule"}, lesson : Lessons, future : BOOLEAN]
    \union [op : {"student.archive", "student.restore"}, lesson : {Nobody}, student : Students]
    \union [op : {"session.archive", "session.restore"}, lesson : {Nobody}]
    \union [op : {"session.details.update"}, lesson : {Nobody}, members : SUBSET Students,
            payer : Students \union {Nobody}]
    \union [op : {"billing.configure"}, lesson : {Nobody}, student : Students,
            mode : {"per_session", "package"}, size : Nat, opening : Nat]

(* A row of tutoring_billing_cycles with its links to lessons.             *)
PackageRow ==
    [limit : Nat, opening : Nat, locked : BOOLEAN, status : {"open", "due"},
     links : SUBSET [lesson : Lessons, pos : Nat]]

ASSUME BillingAssumption ==
    /\ Nobody \notin Students \union Lessons /\ IsFiniteSet(Students)
    /\ \A name \in DOMAIN Setups : LET u == Setups[name] IN
         /\ u.primary \in Students /\ u.family \subseteq Students
         /\ u.counting \in {"shared_occurrence", "per_member_quota"}
         /\ u.plan \in [Students -> [mode : {"none", "per_session", "package"}, size : Nat]]
         /\ u.cycles \in [Students -> Seq({c \in PackageRow : c.links = {} /\ c.opening <= c.limit})]
         /\ u.commands \subseteq Mutations
         /\ u.mutations \in Nat /\ u.failures \in Nat /\ u.overlaps \in Nat

VARIABLES
    setup,      \* the workspace this behaviour starts with
    lesson,     \* tutoring_occurrences: status; roster and attended rows; moved to the future
    session,    \* the recurring session: active, members, payer
    active,     \* students not archived
    plan,       \* tutoring_billing_plans
    cycles,     \* tutoring_billing_cycles of each student, by sequence_no, with their links
    family,     \* tutoring_billing_account_cycles: status by sequence_no
    pending,    \* mutations not answered for good, in the order they were sent
    tried,      \* the ones the push at work has been through
    job,        \* what each worker is doing
    sent, failures, overlaps,
    owed,       \* history: <<lesson, student>> a completion has to charge
    orphaned,   \* history: of these, the ones whose student left session or package uncharged
    torn,       \* history: cycles whose renumbering was cut off or disturbed
    raced,      \* history: lessons two workers handled at once
    partial,    \* history: mutations a worker left unfinished
    halted      \* history: when repeated, such a mutation was refused, or had nothing left to do

data == <<lesson, session, active, plan, cycles, family>>
history == <<owed, orphaned, torn, raced, partial, halted>>
vars == <<setup, data, pending, tried, job, sent, failures, overlaps, history>>

Family == Setups[setup].family
Commands == Setups[setup].commands
MaxMutations == Setups[setup].mutations
MaxFailures == Setups[setup].failures
MaxOverlaps == Setups[setup].overlaps

Idle == [pc |-> "idle"]

Init ==
    /\ setup \in DOMAIN Setups
    /\ lesson = [l \in Lessons |->
                    [status |-> "none", roster |-> {}, attended |-> {}, future |-> FALSE]]
    /\ session = Setups[setup].session
    /\ active = Students
    /\ plan = Setups[setup].plan
    /\ cycles = Setups[setup].cycles
    /\ family = << >>
    /\ pending = << >> /\ tried = {} /\ job = [w \in Workers |-> Idle]
    /\ sent = 0 /\ failures = 0 /\ overlaps = 0
    /\ owed = {} /\ orphaned = {} /\ torn = {} /\ raced = {}
    /\ partial = {} /\ halted = FALSE

-----------------------------------------------------------------------------
(* Reading the tables                                                      *)

Completed(l) == lesson[l].status = "completed"

(* real_completed_count: links whose lesson is completed.                  *)
Real(c) == Cardinality({x \in c.links : Completed(x.lesson)})

(* The count the INSERT of a link and the snapshot use: all links.         *)
Used(c) == c.opening + Cardinality(c.links)

Full(c) == c.opening + Real(c) >= c.limit

Linked(s, l) == {k \in DOMAIN cycles[s] : \E x \in cycles[s][k].links : x.lesson = l}

OpenCycles(s) == {k \in DOMAIN cycles[s] : cycles[s][k].status = "open"}

(* billingStudentIdsForOccurrence                                          *)
BillingStudents(present) ==
    IF session.payer \in session.members THEN {session.payer}
    ELSE present \intersect session.members

SessionHasHistory == \E l \in Lessons : lesson[l].status \in {"completed", "cancelled"}

HasBillingHistory(s) ==
    \/ cycles[s] # << >>
    \/ s \in session.members /\ SessionHasHistory

NewCycle(size, opening) ==
    [limit |-> size, opening |-> opening, locked |-> FALSE,
     status |-> IF opening = size THEN "due" ELSE "open", links |-> {}]

-----------------------------------------------------------------------------
(* Mutations: sent by devices, taken by workers, answered or repeated      *)

Send ==
    /\ sent < MaxMutations
    /\ \E m \in Commands \ ToSet(pending) : pending' = Append(pending, m)
    /\ sent' = sent + 1
    /\ UNCHANGED <<setup, data, tried, job, failures, overlaps, history>>

At(w, pc) == job[w].pc = pc
Arg(w) == job[w].m
Goto(w, pc) == job' = [job EXCEPT ![w].pc = pc]

Busy == {w \in Workers : ~ At(w, "idle")}

Start(w, m) ==
    job' = [job EXCEPT ![w] =
                [pc |-> "begin", m |-> m, todo |-> << >>, try |-> 1, at |-> 0, pos |-> 0,
                 members |-> {}, affected |-> {}, left |-> {}, rows |-> 0, full |-> {}]]

(* A push goes through the pending mutations in order, past the ones that  *)
(* fail; the next push starts again with them.                             *)
Take(w) ==
    /\ Busy = {}
    /\ \E i \in DOMAIN pending :
         LET m == pending[i]
             before == {pending[n] : n \in 1 .. (i - 1)}
         IN /\ Start(w, m)
            /\ \/ m \notin tried /\ before \subseteq tried /\ tried' = tried \union {m}
               \/ i = 1 /\ ToSet(pending) \subseteq tried /\ tried' = {m}
    /\ UNCHANGED <<setup, data, pending, sent, failures, overlaps, history>>

(* A request that has been given up still runs when the next one comes.    *)
TakeOver(w) ==
    /\ job[w].pc = "idle" /\ Busy # {} /\ overlaps < MaxOverlaps
    /\ overlaps' = overlaps + 1
    /\ \E m \in ToSet(pending) :
         /\ Start(w, m)
         /\ raced' = raced \union {l \in Lessons : l = m.lesson /\ \E v \in Busy : Arg(v).lesson = l}
    /\ UNCHANGED <<setup, data, pending, tried, sent, failures, owed, orphaned, torn, partial,
                   halted>>

(* What is left once a mutation has its answer.                            *)
PendingWithout(m) ==
    IF m \in ToSet(pending) THEN RemoveAt(pending, CHOOSE i \in DOMAIN pending : pending[i] = m)
    ELSE pending

(* A terminal error: the device drops the mutation.                        *)
Refuse(w) ==
    /\ job' = [job EXCEPT ![w] = Idle]
    /\ pending' = PendingWithout(Arg(w))
    /\ halted' = (halted \/ Arg(w) \in partial)
    /\ UNCHANGED <<setup, data, tried, sent, failures, overlaps, owed, orphaned, torn, raced,
                   partial>>

(* The cycles a worker has still to number.                                *)
Numbering(w) ==
    IF job[w].pc \in {"shift", "places", "renumber", "settle"}
    THEN {<<x[1], x[2]>> : x \in ToSet(job[w].todo)} ELSE {}

(* Any other error leaves the mutation pending, for the device to repeat.  *)
GiveUp(w) ==
    /\ job' = [job EXCEPT ![w] = Idle]
    /\ partial' = partial \union {Arg(w)}
    /\ torn' = torn \union Numbering(w)
    /\ UNCHANGED <<setup, data, pending, tried, sent, failures, overlaps, owed, orphaned, raced,
                   halted>>

(* The worker dies, or a statement fails.                                  *)
Fail(w) ==
    /\ ~ At(w, "idle") /\ failures < MaxFailures
    /\ failures' = failures + 1
    /\ job' = [job EXCEPT ![w] = Idle]
    /\ partial' = IF At(w, "begin") THEN partial ELSE partial \union {Arg(w)}
    /\ torn' = torn \union Numbering(w)
    /\ UNCHANGED <<setup, data, pending, tried, sent, overlaps, owed, orphaned, raced, halted>>

(* What a step leaves alone unless it says otherwise.                      *)
Aside == <<setup, tried, sent, failures, overlaps, torn, raced, partial, halted>>
Steady == <<pending, Aside, owed, orphaned>>
NotTorn == <<pending, setup, tried, sent, failures, overlaps, raced, partial, halted, owed,
             orphaned>>

-----------------------------------------------------------------------------
(* The operations that are one statement or one batch                      *)

Is(w, op) == At(w, "begin") /\ Arg(w).op = op

(* Pairs that a repeated completion can no longer find: their student is   *)
(* not charged by the session as it now stands.                            *)
LeftBehind(s) == {p \in owed : /\ Linked(p[2], p[1]) = {}
                               /\ s.active => p[2] \notin (s.members \union {s.payer})}

SetSession(s) ==
    /\ session' = s
    /\ orphaned' = orphaned \union LeftBehind(s)

SetStatus(w, l, status) ==
    /\ lesson' = [lesson EXCEPT ![l].status = status]
    /\ Goto(w, "hook")
    /\ UNCHANGED <<session, active, plan, cycles, family, Steady>>

Cancel(w) ==
    /\ Is(w, "occurrence.cancel")
    /\ LET l == Arg(w).lesson IN
         IF lesson[l].status \in {"none", "completed"} THEN Refuse(w)
         ELSE SetStatus(w, l, "cancelled")

Restore(w) ==
    /\ Is(w, "occurrence.restore")
    /\ LET l == Arg(w).lesson IN
         IF lesson[l].status \in {"none", "completed"} THEN Refuse(w)
         ELSE SetStatus(w, l, "scheduled")

(* Moving a lesson leaves its status; only a future date matters here.     *)
Reschedule(w) ==
    /\ Is(w, "occurrence.reschedule")
    /\ LET l == Arg(w).lesson IN
         IF lesson[l].status \in {"none", "completed"} THEN Refuse(w)
         ELSE /\ lesson' = [lesson EXCEPT ![l].future = Arg(w).future]
              /\ Goto(w, "hook")
              /\ UNCHANGED <<session, active, plan, cycles, family, Steady>>

(* archiveStudentFromRecurringSession                                      *)
WithoutStudent(s) ==
    LET rest == session.members \ {s} IN
    IF ~ session.active \/ s \notin session.members THEN session
    ELSE IF rest = {} THEN [session EXCEPT !.active = FALSE]
    ELSE [session EXCEPT !.members = rest,
                         !.payer = IF @ = s THEN Nobody ELSE @]

ArchiveStudent(w) ==
    /\ Is(w, "student.archive")
    /\ LET s == Arg(w).student IN
         /\ active' = active \ {s}
         /\ IF s \in active THEN SetSession(WithoutStudent(s))
            ELSE UNCHANGED <<session, orphaned>>
    /\ Goto(w, "hook")
    /\ UNCHANGED <<lesson, plan, cycles, family, pending, Aside, owed>>

RestoreStudent(w) ==
    /\ Is(w, "student.restore")
    /\ active' = active \union {Arg(w).student}
    /\ Goto(w, "hook")
    /\ UNCHANGED <<lesson, session, plan, cycles, family, Steady>>

ArchiveSession(w) ==
    /\ Is(w, "session.archive")
    /\ SetSession([session EXCEPT !.active = FALSE])
    /\ Goto(w, "hook")
    /\ UNCHANGED <<lesson, active, plan, cycles, family, pending, Aside, owed>>

RestoreSession(w) ==
    /\ Is(w, "session.restore")
    /\ SetSession([session EXCEPT !.active = TRUE])
    /\ Goto(w, "hook")
    /\ UNCHANGED <<lesson, active, plan, cycles, family, pending, Aside, owed>>

(* session.details.update: members and payer are locked by history.        *)
DetailsAllowed(m) ==
    /\ m.members \subseteq active
    /\ session.active
    /\ SessionHasHistory => m.members = session.members /\ m.payer = session.payer

UpdateDetails(w) ==
    /\ Is(w, "session.details.update")
    /\ IF ~ DetailsAllowed(Arg(w)) THEN Refuse(w)
       ELSE /\ SetSession([session EXCEPT !.members = Arg(w).members, !.payer = Arg(w).payer])
            /\ Goto(w, "hook")
            /\ UNCHANGED <<lesson, active, plan, cycles, family, pending, Aside, owed>>

-----------------------------------------------------------------------------
(* billing.configure                                                       *)

ConfigureAllowed(s, m) ==
    LET c == Last(cycles[s]) IN
    /\ plan[s].mode # "none" /\ HasBillingHistory(s) => plan[s].mode = m.mode
    /\ m.mode = "package" =>
         IF cycles[s] = << >> THEN m.opening <= m.size
         ELSE /\ m.opening <= c.limit
              /\ m.opening # c.opening => ~ c.locked /\ Real(c) = 0

BeginConfigure(w) ==
    /\ Is(w, "billing.configure")
    /\ LET m == Arg(w)
           s == m.student
           change == m.mode = "package" /\ cycles[s] # << >> /\ Last(cycles[s]).opening # m.opening
       IN IF ~ ConfigureAllowed(s, m) THEN Refuse(w)
          ELSE /\ job' = [job EXCEPT ![w].pc = IF change THEN "opening" ELSE "plan",
                                     ![w].at = Len(cycles[s]), ![w].affected = {s}]
               /\ UNCHANGED <<data, Steady>>

(* updateOpeningProgress: the UPDATE repeats the two locks in its WHERE.   *)
SetOpening(w) ==
    /\ At(w, "opening")
    /\ LET m == Arg(w)
           c == cycles[m.student][job[w].at]
       IN IF c.locked \/ Real(c) > 0 THEN Refuse(w)
          ELSE /\ cycles' = [cycles EXCEPT ![m.student][job[w].at] =
                                [@ EXCEPT !.opening = m.opening,
                                          !.status = IF m.opening = c.limit THEN "due" ELSE "open"]]
               /\ torn' = torn \union ({<<m.student, job[w].at>>}
                                        \intersect UNION {Numbering(v) : v \in Workers})
               /\ Goto(w, "plan")
               /\ UNCHANGED <<lesson, session, active, plan, family, NotTorn>>

UpsertPlan(w) ==
    /\ At(w, "plan")
    /\ LET m == Arg(w) IN
         /\ plan' = [plan EXCEPT ![m.student] =
                        [mode |-> m.mode, size |-> IF m.mode = "package" THEN m.size ELSE 0]]
         /\ orphaned' = orphaned \union {p \in owed : /\ p[2] = m.student /\ m.mode # "package"
                                                     /\ Linked(p[2], p[1]) = {}}
         /\ Goto(w, IF m.mode = "package" /\ job[w].at = 0 THEN "first" ELSE "family")
    /\ UNCHANGED <<lesson, session, active, cycles, family, pending, Aside, owed>>

(* INSERT OR IGNORE of sequence_no 1.                                      *)
FirstCycle(w) ==
    /\ At(w, "first")
    /\ LET m == Arg(w) IN
         cycles' = IF cycles[m.student] # << >> THEN cycles
                   ELSE [cycles EXCEPT ![m.student] = <<NewCycle(m.size, m.opening)>>]
    /\ Goto(w, "family")
    /\ UNCHANGED <<lesson, session, active, plan, family, Steady>>

-----------------------------------------------------------------------------
(* occurrence.complete                                                     *)

BeginComplete(w) ==
    /\ Is(w, "occurrence.complete")
    /\ LET l == Arg(w).lesson IN
         IF lesson[l].future THEN Refuse(w)
         ELSE /\ lesson' = IF lesson[l].status # "none" THEN lesson
                           ELSE [lesson EXCEPT ![l].status = "scheduled"]
              /\ Goto(w, "look")
              /\ UNCHANGED <<session, active, plan, cycles, family, Steady>>

(* OccurrencesService.complete up to its first write: a lesson already     *)
(* completed is repaired, any other is completed with the members seen.    *)
CompletionRefused(l, present) ==
    \/ ~ session.active
    \/ lesson[l].status = "cancelled"
    \/ /\ ~ Completed(l)
       /\ ~ present \subseteq session.members \/ (session.members # {} /\ present = {})

(* Mutated form of Look: a lesson already completed is left as it is.      *)
LookOnce(w) ==
    /\ At(w, "look")
    /\ IF CompletionRefused(Arg(w).lesson, Arg(w).present) THEN Refuse(w)
       ELSE LET charge == BillingStudents(Arg(w).present) IN
            /\ job' = [job EXCEPT ![w].pc = IF Completed(Arg(w).lesson) THEN "affected" ELSE "attend",
                                  ![w].members = session.members, ![w].todo = SetToSeq(charge)]
            /\ UNCHANGED <<data, Steady>>

Look(w) ==
    /\ At(w, "look")
    /\ LET l == Arg(w).lesson
           again == Completed(l)
           charge == BillingStudents(IF again THEN lesson[l].attended ELSE Arg(w).present)
       IN IF CompletionRefused(l, Arg(w).present) THEN Refuse(w)
          ELSE /\ job' = [job EXCEPT ![w].pc = IF ~ again THEN "attend"
                                               ELSE IF charge = {} THEN "affected" ELSE "link",
                                     ![w].members = session.members,
                                     ![w].todo = SetToSeq(charge)]
               /\ UNCHANGED <<data, Steady>>

(* One batch: the status changes only if the lesson is still to be given,  *)
(* the attendance rows are replaced in any case, and only then is it seen  *)
(* that the status did not change.                                         *)
Attend(w) ==
    /\ At(w, "attend")
    /\ LET l == Arg(w).lesson
           given == lesson[l].status = "scheduled"
           rows == [lesson[l] EXCEPT !.roster = job[w].members, !.attended = Arg(w).present]
       IN /\ lesson' = [lesson EXCEPT ![l] = IF given THEN [rows EXCEPT !.status = "completed"] ELSE rows]
          /\ job' = [job EXCEPT ![w] =
                        IF ~ given THEN Idle
                        ELSE [@ EXCEPT !.pc = IF job[w].todo = << >> THEN "affected" ELSE "link"]]
          /\ pending' = IF given THEN pending ELSE PendingWithout(Arg(w))
          /\ owed' = IF ~ given THEN owed
                     ELSE owed \union {<<l, s>> : s \in {x \in ToSet(job[w].todo) : plan[x].mode = "package"}}
    /\ UNCHANGED <<session, active, plan, cycles, family, Aside, orphaned>>

-----------------------------------------------------------------------------
(* BillingService.recordCompletedOccurrence, for one student after another *)

(* The job once it is done with the first student.                         *)
NextStudent(j) ==
    [j EXCEPT !.todo = Tail(@), !.try = 1, !.pc = IF Len(j.todo) = 1 THEN "affected" ELSE "link"]

Now(w) == Head(job[w].todo)

(* The loop starts again, at most MaxAttempts times.                       *)
TryAgain(w) ==
    IF job[w].try = MaxAttempts THEN GiveUp(w)
    ELSE /\ job' = [job EXCEPT ![w].try = @ + 1, ![w].pc = "link"]
         /\ UNCHANGED <<data, Steady>>

(* getPlan and getCycleForOccurrence.                                      *)
FindLink(w) ==
    /\ At(w, "link")
    /\ LET s == Now(w)
           hit == Linked(s, Arg(w).lesson)
       IN job' = [job EXCEPT ![w] =
                    IF plan[s].mode # "package" THEN NextStudent(@)
                    ELSE IF hit = {} THEN [@ EXCEPT !.pc = "open"]
                    ELSE LET k == Min(hit) IN
                         IF Full(cycles[s][k]) /\ cycles[s][k].status = "open"
                         THEN [@ EXCEPT !.pc = "due", !.at = k]
                         ELSE NextStudent(@)]
    /\ UNCHANGED <<data, Steady>>

(* getOpenCycle: the open cycle with the highest number.  After creating   *)
(* one ("reread") there is an error if there is none, and the loop starts  *)
(* again.                                                                  *)
FindOpenCycle(w) ==
    /\ At(w, "open") \/ At(w, "reread")
    /\ LET s == Now(w)
           k == Max(OpenCycles(s))
           c == cycles[s][k]
           pos == c.opening + Real(c) + 1
       IN IF OpenCycles(s) = {}
          THEN IF At(w, "reread") THEN TryAgain(w)
               ELSE /\ job' = [job EXCEPT ![w].pc = "create", ![w].at = Len(cycles[s]) + 1]
                    /\ UNCHANGED <<data, Steady>>
          ELSE IF pos > c.limit THEN TryAgain(w)
          ELSE /\ job' = [job EXCEPT ![w].pc = "add", ![w].at = k, ![w].pos = pos]
               /\ UNCHANGED <<data, Steady>>

(* createCycle: INSERT OR IGNORE, (student_id, sequence_no) is unique.     *)
CreateCycle(w) ==
    /\ At(w, "create")
    /\ LET s == Now(w) IN
         cycles' = IF job[w].at \in DOMAIN cycles[s] THEN cycles
                   ELSE [cycles EXCEPT ![s] = Append(@, NewCycle(plan[s].size, 0))]
    /\ Goto(w, "reread")
    /\ UNCHANGED <<lesson, session, active, plan, family, Steady>>

Positions(c) == {x.pos : x \in c.links}

(* The conditions of the INSERT ... SELECT in addOccurrenceToCycle; a      *)
(* position that is taken violates UNIQUE (billing_cycle_id, position).    *)
MayAdd(c, pos) ==
    /\ c.status = "open"
    /\ pos = Used(c) + 1
    /\ pos <= c.limit

(* Mutated form of AddToCycle: the next place is taken without its limit.  *)
AddToCycleUnchecked(w) ==
    /\ At(w, "add")
    /\ cycles' = [cycles EXCEPT ![Now(w)][job[w].at].links =
                     @ \union {[lesson |-> Arg(w).lesson,
                                pos |-> Used(cycles[Now(w)][job[w].at]) + 1]}]
    /\ Goto(w, "lock")
    /\ UNCHANGED <<lesson, session, active, plan, family, Steady>>

AddToCycle(w) ==
    /\ At(w, "add")
    /\ LET s == Now(w)
           k == job[w].at
           c == cycles[s][k]
           l == Arg(w).lesson
           pos == job[w].pos
       IN IF k \in Linked(s, l)
          THEN /\ job' = [job EXCEPT ![w] = IF pos = c.limit THEN [@ EXCEPT !.pc = "due"]
                                            ELSE NextStudent(@)]
               /\ UNCHANGED <<data, Steady>>
          ELSE IF ~ MayAdd(c, pos) THEN TryAgain(w)
          ELSE IF pos \in Positions(c) THEN GiveUp(w)
          ELSE /\ cycles' = [cycles EXCEPT ![s][k].links = @ \union {[lesson |-> l, pos |-> pos]}]
               /\ Goto(w, "lock")
               /\ UNCHANGED <<lesson, session, active, plan, family, Steady>>

LockOpening(w) ==
    /\ At(w, "lock")
    /\ LET s == Now(w) IN
         /\ cycles' = [cycles EXCEPT ![s][job[w].at].locked = TRUE]
         /\ job' = [job EXCEPT ![w] = IF @.pos = cycles[s][@.at].limit
                                      THEN [@ EXCEPT !.pc = "due"] ELSE NextStudent(@)]
    /\ UNCHANGED <<lesson, session, active, plan, family, Steady>>

MarkCycleDue(w) ==
    /\ At(w, "due")
    /\ LET s == Now(w) IN
         cycles' = IF cycles[s][job[w].at].status # "open" THEN cycles
                   ELSE [cycles EXCEPT ![s][job[w].at] = [@ EXCEPT !.status = "due", !.locked = TRUE]]
    /\ job' = [job EXCEPT ![w] = NextStudent(@)]
    /\ UNCHANGED <<lesson, session, active, plan, family, Steady>>

(* The students whose family has to be reconciled after a completion.      *)
FindAffected(w) ==
    /\ At(w, "affected")
    /\ LET l == Arg(w).lesson IN
         job' = [job EXCEPT ![w].pc = "family",
                            ![w].affected = lesson[l].roster \union {s \in Students : Linked(s, l) # {}}]
    /\ UNCHANGED <<data, Steady>>

-----------------------------------------------------------------------------
(* reopenCompletedOccurrence                                               *)

BeginReopen(w) ==
    /\ Is(w, "occurrence.reopen")
    /\ LET l == Arg(w).lesson
           charged == UNION {{<<s, k, cycles[s][k].opening>> : k \in Linked(s, l)} : s \in Students}
       IN IF lesson[l].status \in {"none", "cancelled"} THEN Refuse(w)
          ELSE /\ job' = [job EXCEPT ![w].pc = IF Completed(l) THEN "unlink" ELSE "hook",
                                     ![w].todo = SetToSeq(charged),
                                     ![w].affected = lesson[l].attended \union {x[1] : x \in charged}]
               /\ halted' = (halted \/ (~ Completed(l) /\ Arg(w) \in partial))
               /\ UNCHANGED <<setup, data, pending, tried, sent, failures, overlaps, owed, orphaned,
                              torn, raced, partial>>

(* Mutated form of WithoutLesson: the links stay.                          *)
LinksKept(c, l) == c

WithoutLesson(c, l) == [c EXCEPT !.links = {x \in @ : x.lesson # l}]

NextCycle(j) ==
    [j EXCEPT !.todo = Tail(@), !.at = 0, !.pc = IF Len(j.todo) = 1 THEN "unattend" ELSE "shift"]

(* Mutated form of Unlink: the places that are left are not renumbered.    *)
UnlinkOnly(w) ==
    /\ At(w, "unlink")
    /\ cycles' = [s \in Students |->
                     [k \in DOMAIN cycles[s] |-> WithoutLesson(cycles[s][k], Arg(w).lesson)]]
    /\ owed' = {p \in owed : p[1] # Arg(w).lesson}
    /\ orphaned' = {p \in orphaned : p[1] # Arg(w).lesson}
    /\ Goto(w, "unattend")
    /\ UNCHANGED <<lesson, session, active, plan, family, pending, Aside>>

Unlink(w) ==
    /\ At(w, "unlink")
    /\ LET l == Arg(w).lesson IN
         /\ cycles' = [s \in Students |->
                          [k \in DOMAIN cycles[s] |-> WithoutLesson(cycles[s][k], l)]]
         /\ owed' = {p \in owed : p[1] # l}
         /\ orphaned' = {p \in orphaned : p[1] # l}
    /\ job' = [job EXCEPT ![w].pc = IF job[w].todo = << >> THEN "unattend" ELSE "shift"]
    /\ UNCHANGED <<lesson, session, active, plan, family, pending, Aside>>

(* The cycle w is at, while another worker is numbering it.                *)
Contested(w) ==
    {x \in Numbering(w) : \E v \in Workers \ {w} : At(v, "renumber") /\ <<Now(v)[1], Now(v)[2]>> = x}

(* Positions move out of the way, one row after the other; one that meets  *)
(* a row still to move violates UNIQUE ...                                 *)
ShiftPositions(w) ==
    /\ At(w, "shift")
    /\ LET s == Now(w)[1]
           k == Now(w)[2]
       IN \/ (\E x, y \in cycles[s][k].links : y.pos = x.pos + Shift) /\ GiveUp(w)
          \/ /\ cycles' = [cycles EXCEPT ![s][k].links = {[x EXCEPT !.pos = @ + Shift] : x \in @}]
             /\ torn' = torn \union Contested(w)
             /\ Goto(w, "places")
             /\ UNCHANGED <<lesson, session, active, plan, family, NotTorn>>

(* ... the links that are left are read ...                                *)
ReadPlaces(w) ==
    /\ At(w, "places")
    /\ job' = [job EXCEPT ![w].pc = "renumber", ![w].at = 0,
                          ![w].left = cycles[Now(w)[1]][Now(w)[2]].links]
    /\ torn' = torn \union Contested(w)
    /\ UNCHANGED <<data, NotTorn>>

(* ... and numbered again from the opening progress, one after the other   *)
(* in their order; a place that is taken violates UNIQUE.                  *)
Renumber(w) ==
    /\ At(w, "renumber")
    /\ LET s == Now(w)[1]
           k == Now(w)[2]
           pos == Now(w)[3] + job[w].at + 1
       IN \/ job[w].left = {} /\ Goto(w, "settle") /\ UNCHANGED <<data, Steady>>
          \/ \E row \in job[w].left :
               LET own == {x \in cycles[s][k].links : x.lesson = row.lesson}
                   rest == cycles[s][k].links \ own
               IN /\ \A y \in job[w].left : row.pos <= y.pos
                  /\ IF own # {} /\ pos \in {x.pos : x \in rest} THEN GiveUp(w)
                     ELSE /\ cycles' = [cycles EXCEPT ![s][k].links =
                                           rest \union {[x EXCEPT !.pos = pos] : x \in own}]
                          /\ job' = [job EXCEPT ![w].at = @ + 1, ![w].left = @ \ {row}]
                          /\ UNCHANGED <<lesson, session, active, plan, family, Steady>>

SettleCycle(w) ==
    /\ At(w, "settle")
    /\ LET s == Now(w)[1]
           k == Now(w)[2]
           done == Now(w)[3] + job[w].at >= cycles[s][k].limit
       IN cycles' = [cycles EXCEPT ![s][k] =
                        [@ EXCEPT !.status = IF done THEN "due" ELSE "open", !.locked = TRUE]]
    /\ job' = [job EXCEPT ![w] = NextCycle(@)]
    /\ UNCHANGED <<lesson, session, active, plan, family, Steady>>

Unattend(w) ==
    /\ At(w, "unattend")
    /\ lesson' = [lesson EXCEPT ![Arg(w).lesson] =
                    [@ EXCEPT !.status = "scheduled", !.roster = {}, !.attended = {}]]
    /\ Goto(w, "family")
    /\ UNCHANGED <<session, active, plan, cycles, family, Steady>>

-----------------------------------------------------------------------------
(* reconcileFamilyAccountsForStudents                                      *)

Required ==
    IF Setups[setup].counting = "shared_occurrence" THEN {Setups[setup].primary} ELSE Family

FamilyComplete(k) == \A s \in Required : k \in DOMAIN cycles[s] /\ Full(cycles[s][k])

FamilyCycles == UNION {DOMAIN cycles[s] : s \in Required}

(* Progress and the account's own cycles are read once.                    *)
ReadFamily(w) ==
    /\ At(w, "family")
    /\ job' = [job EXCEPT ![w] =
                  IF job[w].affected \intersect Family = {} \/ FamilyCycles = {}
                  THEN [@ EXCEPT !.pc = "hook"]
                  ELSE [@ EXCEPT !.pc = "account", !.at = 1, !.pos = Max(FamilyCycles),
                                 !.rows = Len(family),
                                 !.full = {k \in FamilyCycles : FamilyComplete(k)}]]
    /\ UNCHANGED <<data, Steady>>

(* A plain INSERT: (billing_account_id, sequence_no) is unique.            *)
InsertFamilyCycle(w) ==
    /\ At(w, "account")
    /\ LET k == job[w].at IN
         IF k <= job[w].rows THEN Goto(w, "settleFamily") /\ UNCHANGED <<data, Steady>>
         ELSE IF k \in DOMAIN family THEN GiveUp(w)
         ELSE /\ family' = Append(family, "open")
              /\ Goto(w, "settleFamily")
              /\ UNCHANGED <<lesson, session, active, plan, cycles, Steady>>

(* Mutated form of SettleFamilyCycle: a cycle once due stays due.          *)
SettleFamilyOnce(w) ==
    /\ At(w, "settleFamily")
    /\ LET k == job[w].at IN
         /\ family' = [family EXCEPT ![k] = IF k \in job[w].full THEN "due" ELSE @]
         /\ job' = [job EXCEPT ![w].at = k + 1,
                               ![w].pc = IF k = job[w].pos THEN "hook" ELSE "account"]
    /\ UNCHANGED <<lesson, session, active, plan, cycles, Steady>>

SettleFamilyCycle(w) ==
    /\ At(w, "settleFamily")
    /\ LET k == job[w].at IN
         /\ family' = [family EXCEPT ![k] = IF k \in job[w].full THEN "due" ELSE "open"]
         /\ job' = [job EXCEPT ![w].at = k + 1,
                               ![w].pc = IF k = job[w].pos THEN "hook" ELSE "account"]
    /\ UNCHANGED <<lesson, session, active, plan, cycles, Steady>>

-----------------------------------------------------------------------------
(* financialReconcileSyncHook and the end of a mutation                    *)

BeginHook(w) ==
    /\ At(w, "hook")
    /\ job' = [job EXCEPT ![w].pc = "normalize",
                          ![w].todo = IF Arg(w).op = "billing.configure" THEN <<Arg(w).student>>
                                      ELSE SetToSeq(Students)]
    /\ UNCHANGED <<data, Steady>>

(* Mutated form of Normalized: the status is left to the other handlers.   *)
NotNormalized(c) == c

Normalized(c) == [c EXCEPT !.status = IF Full(c) THEN "due" ELSE "open"]

(* normalizeCycles: each UPDATE depends on its own cycle only.             *)
NormalizeCycles(w) ==
    /\ At(w, "normalize")
    /\ LET s == Now(w) IN
         cycles' = [cycles EXCEPT ![s] = [k \in DOMAIN @ |-> Normalized(@[k])]]
    /\ job' = [job EXCEPT ![w].todo = Tail(@), ![w].pc = IF Len(job[w].todo) = 1 THEN "done" ELSE @]
    /\ UNCHANGED <<lesson, session, active, plan, family, Steady>>

(* The idempotency key is marked done and the device gets its answer.      *)
Answer(w) ==
    /\ At(w, "done")
    /\ job' = [job EXCEPT ![w] = Idle]
    /\ pending' = PendingWithout(Arg(w))
    /\ UNCHANGED <<data, Aside, owed, orphaned>>

-----------------------------------------------------------------------------
Work(w) ==
    \/ Cancel(w) \/ Restore(w) \/ Reschedule(w)
    \/ ArchiveStudent(w) \/ RestoreStudent(w)
    \/ ArchiveSession(w) \/ RestoreSession(w) \/ UpdateDetails(w)
    \/ BeginConfigure(w) \/ SetOpening(w) \/ UpsertPlan(w) \/ FirstCycle(w)
    \/ BeginComplete(w) \/ Look(w) \/ Attend(w)
    \/ FindLink(w) \/ FindOpenCycle(w) \/ CreateCycle(w) \/ AddToCycle(w)
    \/ LockOpening(w) \/ MarkCycleDue(w) \/ FindAffected(w)
    \/ BeginReopen(w) \/ Unlink(w) \/ ShiftPositions(w) \/ ReadPlaces(w) \/ Renumber(w)
    \/ SettleCycle(w) \/ Unattend(w)
    \/ ReadFamily(w) \/ InsertFamilyCycle(w) \/ SettleFamilyCycle(w)
    \/ BeginHook(w) \/ NormalizeCycles(w) \/ Answer(w)

Quiet == pending = << >> /\ Busy = {}

(* Devices may stop sending.                                               *)
Rest == sent = MaxMutations /\ Quiet /\ UNCHANGED vars

Next == Send \/ Rest \/ \E w \in Workers : Take(w) \/ TakeOver(w) \/ Work(w) \/ Fail(w)

Spec == Init /\ [][Next]_vars

-----------------------------------------------------------------------------
(* Properties                                                              *)

(* Two workers overlapped, and a mutation was left unfinished: the other   *)
(* worker, or a refusal of its repetition, may drop it like that.          *)
Disturbed == overlaps > 0 /\ partial # {}

(* No two lessons share a place of a package, whoever competes for it, and *)
(* unless two workers were at one lesson (the link of a lesson reopened by *)
(* the other one counts as a place taken, but does not keep the opening    *)
(* progress from being raised) a package never holds more lessons than it  *)
(* has places (addOccurrenceToCycle, updateOpeningProgress).               *)
NeverOverfilled ==
    \A s \in Students : \A k \in DOMAIN cycles[s] :
        LET c == cycles[s][k] IN
        /\ raced = {} => Used(c) <= c.limit
        /\ \A x, y \in c.links : x.pos = y.pos => x = y

(* When nothing is left to do, a package is open exactly while it has      *)
(* places left: failed and repeated work leaves no package stuck, and      *)
(* neither does work that overlaps, as long as not both happen.            *)
StatusTellsProgress ==
    Quiet /\ ~ Disturbed =>
        \A s \in Students : \A k \in DOMAIN cycles[s] :
            (cycles[s][k].status = "open") = ~ Full(cycles[s][k])

(* When nothing is left to do, the places of a package are numbered from   *)
(* its opening progress without a gap (each place has its share of the     *)
(* price), unless a worker stopped while a reopened lesson was being       *)
(* removed, another one touched what it was numbering (for a lesson        *)
(* reopened at once, or with a new opening progress), or two workers were  *)
(* at one lesson.                                                          *)
PlacesHaveNoGap ==
    Quiet /\ raced = {} => \A s \in Students : \A k \in DOMAIN cycles[s] :
                <<s, k>> \notin torn =>
                    LET c == cycles[s][k] IN Positions(c) = (c.opening + 1) .. Used(c)

(* When nothing is left to do, every lesson a student with a package has   *)
(* attended has taken a place, unless the student left the session or the  *)
(* package before the completion could be repeated, or work both           *)
(* overlapped and failed.                                                  *)
AttendanceIsCharged ==
    Quiet /\ ~ Disturbed => \A p \in owed : p \in orphaned \/ Linked(p[2], p[1]) # {}

(* When nothing is left to do, the family owes a shared package exactly    *)
(* when every member it counts has filled theirs, unless a mutation was    *)
(* cut short before it came to the family and its repetition did not, or   *)
(* two workers overlapped (what one has read of the family, the other may  *)
(* change before it is written).                                           *)
FamilyFollowsMembers ==
    Quiet /\ ~ halted /\ overlaps = 0 =>
        \A k \in DOMAIN family : (family[k] = "due") = FamilyComplete(k)

Ledger == INSTANCE LessonLedger WITH
    held <- {l \in Lessons : Completed(l)},
    Packages <- Nat,
    charges <- UNION {UNION {{<<x.lesson, s, k>> : x \in cycles[s][k].links} :
                             k \in DOMAIN cycles[s]} : s \in Students}

(* As long as no two workers handled one lesson at once, every step of a   *)
(* worker is a step of the ledger: each student is charged once for a      *)
(* lesson that is held, and reopening it takes its charges back first.     *)
LedgerSpec == Ledger!Init /\ [][raced' = {} => Ledger!Next]_(Ledger!ledger)

=============================================================================
