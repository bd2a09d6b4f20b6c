------------------------ MODULE PackageBillingProofs ------------------------
(***************************************************************************)
(* Proofs about PackageBilling, for any number of students, lessons,       *)
(* workers and mutations: a package never holds more lessons than it has   *)
(* places, and the handlers take the steps of LessonLedger, as long as no  *)
(* two workers are at one lesson; and the places of a package have no gap. *)
(***************************************************************************)
EXTENDS PackageBilling, FiniteSetTheorems, SequenceTheorems, TLAPS

JobFields == {"pc", "m", "todo", "try", "at", "pos", "members", "affected", "left",
              "rows", "full"}

(* Where the handler of occurrence.complete is once the lesson is held ... *)
Charging == {"link", "open", "reread", "create", "add", "lock", "due", "affected"}

(* ... and once it has seen that the student is not charged yet.           *)
Choosing == {"open", "reread", "create", "add"}

(* Where the handler of occurrence.reopen is once it has begun to undo ... *)
Reopening == {"unlink", "shift", "places", "renumber", "settle", "unattend"}

(* ... and once the links of the lesson are gone.                          *)
Unlinked == Reopening \ {"unlink"}

(* ... and while it numbers the places of a package.                       *)
Numbered == {"shift", "places", "renumber", "settle"}

(* Where a worker may be for which mutation.                               *)
Serves(pc, m) ==
    /\ pc # "idle"
    /\ pc \in Charging \union {"look", "attend"} => m.op = "occurrence.complete"
    /\ pc \in Reopening => m.op = "occurrence.reopen"
    /\ pc \in {"opening", "plan", "first"} => m.op = "billing.configure"

JobWellFormed(j) ==
    \/ j = Idle
    \/ /\ DOMAIN j = JobFields
       /\ j.m \in Mutations /\ Serves(j.pc, j.m)

JobInv ==
    /\ DOMAIN job = Workers
    /\ \A w \in Workers : JobWellFormed(job[w])

TablesInv ==
    /\ setup \in DOMAIN Setups
    /\ pending \in Seq(Mutations)
    /\ DOMAIN lesson = Lessons
    /\ \A l \in Lessons : DOMAIN lesson[l] = {"status", "roster", "attended", "future"}
    /\ plan \in [Students -> [mode : {"none", "per_session", "package"}, size : Nat]]

TypeInv == JobInv /\ TablesInv

(* An opening progress that is still to be written fits its package; a     *)
(* worker that numbers places knows of which packages.                     *)
OpeningFits(w) ==
    LET m == job[w].m IN
    /\ job[w].pc = "opening" =>
          /\ job[w].at \in DOMAIN cycles[m.student]
          /\ m.opening <= cycles[m.student][job[w].at].limit
    /\ job[w].pc = "plan" /\ m.mode = "package" /\ job[w].at = 0 => m.opening <= m.size
    /\ job[w].pc = "first" => m.opening <= m.size
    /\ job[w].pc = "renumber" => job[w].at \in Nat
    /\ job[w].pc \in Numbered \union {"unlink"} => job[w].todo \in Seq(Students \X Nat \X Nat)
    /\ job[w].pc \in Numbered => job[w].todo # << >>

OpeningInv == \A w \in Workers : OpeningFits(w)

(* What a worker knows about the lesson it is at.                          *)
LessonKnown(w) ==
    LET l == job[w].m.lesson IN
    /\ job[w].pc \in Charging \union Reopening => Completed(l)
    /\ job[w].pc \in Choosing /\ Now(w) \in Students => Linked(Now(w), l) = {}
    /\ job[w].pc \in Unlinked => \A s \in Students : Linked(s, l) = {}

(* One worker at a lesson; and links only of lessons that are held.        *)
LessonInv ==
    raced = {} =>
        /\ \A v, w \in Busy :
              v # w => job[v].m.lesson \notin Lessons \/ job[v].m.lesson # job[w].m.lesson
        /\ \A s \in Students : \A l \in Lessons : Linked(s, l) # {} => Completed(l)
        /\ \A w \in Workers : LessonKnown(w)

(* A package as the tables allow it: no two lessons share a place, and no  *)
(* lesson has two.                                                         *)
Sound(c) ==
    /\ c \in PackageRow /\ IsFiniteSet(c.links)
    /\ \A x, y \in c.links : x.pos = y.pos => x = y
    /\ \A x, y \in c.links : x.lesson = y.lesson => x = y

Fits(c) == Used(c) <= c.limit

PackagesInv ==
    /\ cycles \in [Students -> Seq(PackageRow)]
    /\ \A s \in Students : \A k \in DOMAIN cycles[s] :
          Sound(cycles[s][k]) /\ (raced = {} => Fits(cycles[s][k]))

BillingInv == TypeInv /\ OpeningInv /\ LessonInv /\ PackagesInv

-----------------------------------------------------------------------------
(* What the steps do                                                       *)

(* Worker w goes from one of the first places to one of the others, or     *)
(* ends, at the same mutation; the other workers stay where they are.      *)
Moves(w, from, to) ==
    /\ job[w].pc \in from
    /\ DOMAIN job' = Workers
    /\ \A v \in Workers : v # w => job'[v] = job[v]
    /\ \/ job'[w] = Idle
       \/ /\ DOMAIN job'[w] = JobFields /\ job'[w].m = job[w].m
          /\ job'[w].pc \in to

(* A job that is not idle has all its fields.                              *)
LEMMA Working ==
    ASSUME JobInv, NEW w \in Workers, job[w].pc # "idle"
    PROVE  /\ DOMAIN job[w] = JobFields /\ job[w].m \in Mutations
           /\ DOMAIN job = Workers
           /\ job[w].pc \in Charging \union {"look", "attend"} =>
                 job[w].m.op = "occurrence.complete"
           /\ job[w].pc \in Reopening => job[w].m.op = "occurrence.reopen"
           /\ job[w].pc \in {"opening", "plan", "first"} => job[w].m.op = "billing.configure"
  BY DEF JobInv, JobWellFormed, Serves, Idle

(* A worker that ends.                                                     *)
LEMMA EndMoves ==
    ASSUME JobInv, NEW w \in Workers, NEW from, job[w].pc \in from,
           job' = [job EXCEPT ![w] = Idle]
    PROVE  Moves(w, from, {}) /\ job'[w] = Idle
  BY DEF Moves, JobInv

(* A worker that goes to one place.                                        *)
LEMMA GotoMoves ==
    ASSUME JobInv, NEW w \in Workers, NEW from, "idle" \notin from, job[w].pc \in from,
           NEW pc, Goto(w, pc)
    PROVE  /\ Moves(w, from, {pc})
           /\ job'[w].pc = pc /\ job'[w].m = job[w].m
           /\ job'[w].at = job[w].at /\ job'[w].todo = job[w].todo
  <1>1. DOMAIN job[w] = JobFields /\ DOMAIN job = Workers
    BY Working
  <1> QED
    BY <1>1 DEF Moves, Goto, JobFields

(* A worker that goes on with a new list of things to do.                  *)
LEMMA Updated ==
    ASSUME JobInv, NEW w \in Workers, job[w].pc # "idle", NEW place, NEW todo, NEW who,
           \/ job' = [job EXCEPT ![w].pc = place, ![w].members = who, ![w].todo = todo]
           \/ job' = [job EXCEPT ![w].pc = place, ![w].todo = todo, ![w].affected = who]
    PROVE  /\ DOMAIN job' = Workers /\ \A v \in Workers : v # w => job'[v] = job[v]
           /\ DOMAIN job'[w] = JobFields /\ job'[w].pc = place /\ job'[w].m = job[w].m
  <1>1. DOMAIN job[w] = JobFields /\ DOMAIN job = Workers
    BY Working
  <1> QED
    BY <1>1 DEF JobFields

(* The package whose places a worker numbers, and its opening progress.    *)
LEMMA NumberedHead ==
    ASSUME OpeningInv, NEW w \in Workers, job[w].pc \in Numbered
    PROVE  Now(w)[1] \in Students /\ Now(w)[2] \in Nat /\ Now(w)[3] \in Nat
  <1>1. job[w].todo \in Seq(Students \X Nat \X Nat) /\ job[w].todo # << >>
    BY DEF OpeningInv, OpeningFits
  <1>2. Head(job[w].todo) \in Students \X Nat \X Nat
    BY <1>1
  <1> QED
    BY <1>2 DEF Now

(* The operations that are one statement.                                  *)
LEMMA PlainMoves ==
    ASSUME JobInv, NEW w \in Workers
    PROVE  /\ Cancel(w) => Moves(w, {"begin"}, {"hook"})
           /\ Restore(w) => Moves(w, {"begin"}, {"hook"})
           /\ Reschedule(w) => Moves(w, {"begin"}, {"hook"})
           /\ ArchiveStudent(w) => Moves(w, {"begin"}, {"hook"})
           /\ RestoreStudent(w) => Moves(w, {"begin"}, {"hook"})
           /\ ArchiveSession(w) => Moves(w, {"begin"}, {"hook"})
           /\ RestoreSession(w) => Moves(w, {"begin"}, {"hook"})
           /\ UpdateDetails(w) => Moves(w, {"begin"}, {"hook"})
  <1>1. job[w].pc # "idle" => DOMAIN job[w] = JobFields /\ DOMAIN job = Workers
    BY Working
  <1>2. Cancel(w) => Moves(w, {"begin"}, {"hook"})
    BY <1>1 DEF Moves, Cancel, Idle, JobFields, Refuse, SetStatus, Goto, Is, At, Arg
  <1>3. Restore(w) => Moves(w, {"begin"}, {"hook"})
    BY <1>1 DEF Moves, Restore, Idle, JobFields, Refuse, SetStatus, Goto, Is, At, Arg
  <1>4. Reschedule(w) => Moves(w, {"begin"}, {"hook"})
    BY <1>1 DEF Moves, Reschedule, Idle, JobFields, Refuse, SetStatus, Goto, Is, At, Arg
  <1>5. ArchiveStudent(w) => Moves(w, {"begin"}, {"hook"})
    BY <1>1 DEF Moves, ArchiveStudent, Idle, JobFields, Refuse, SetStatus, Goto, Is, At, Arg
  <1>6. RestoreStudent(w) => Moves(w, {"begin"}, {"hook"})
    BY <1>1 DEF Moves, RestoreStudent, Idle, JobFields, Refuse, SetStatus, Goto, Is, At, Arg
  <1>7. ArchiveSession(w) => Moves(w, {"begin"}, {"hook"})
    BY <1>1 DEF Moves, ArchiveSession, Idle, JobFields, Refuse, SetStatus, Goto, Is, At, Arg
  <1>8. RestoreSession(w) => Moves(w, {"begin"}, {"hook"})
    BY <1>1 DEF Moves, RestoreSession, Idle, JobFields, Refuse, SetStatus, Goto, Is, At, Arg
  <1>9. UpdateDetails(w) => Moves(w, {"begin"}, {"hook"})
    BY <1>1 DEF Moves, UpdateDetails, Idle, JobFields, Refuse, SetStatus, Goto, Is, At, Arg
  <1> QED
    BY <1>2, <1>3, <1>4, <1>5, <1>6, <1>7, <1>8, <1>9

(* The steps of billing.configure.                                         *)
LEMMA ConfigureMoves ==
    ASSUME JobInv, NEW w \in Workers
    PROVE  /\ BeginConfigure(w) => /\ Moves(w, {"begin"}, {"opening", "plan"})
                                   /\ Arg(w).op = "billing.configure"
           /\ SetOpening(w) => /\ Moves(w, {"opening"}, {"plan"})
                               /\ job'[w] # Idle => job'[w].at = job[w].at
           /\ UpsertPlan(w) => /\ Moves(w, {"plan"}, {"first", "family"})
                               /\ job'[w].pc = "first" => Arg(w).mode = "package" /\ job[w].at = 0
           /\ FirstCycle(w) => Moves(w, {"first"}, {"family"})
  <1>1. job[w].pc # "idle" => DOMAIN job[w] = JobFields /\ DOMAIN job = Workers
    BY Working
  <1>2. BeginConfigure(w) => /\ Moves(w, {"begin"}, {"opening", "plan"})
                             /\ Arg(w).op = "billing.configure"
    BY <1>1 DEF Moves, BeginConfigure, Idle, JobFields, Refuse, Goto, Is, At, Arg
  <1>3. SetOpening(w) => /\ Moves(w, {"opening"}, {"plan"})
                         /\ job'[w] # Idle => job'[w].at = job[w].at
    BY <1>1 DEF Moves, SetOpening, Idle, JobFields, Refuse, Goto, Is, At, Arg
  <1>4. UpsertPlan(w) => /\ Moves(w, {"plan"}, {"first", "family"})
                         /\ job'[w].pc = "first" => Arg(w).mode = "package" /\ job[w].at = 0
    BY <1>1 DEF Moves, UpsertPlan, Idle, JobFields, Refuse, Goto, Is, At, Arg
  <1>5. FirstCycle(w) => Moves(w, {"first"}, {"family"})
    BY <1>1 DEF Moves, FirstCycle, Idle, JobFields, Refuse, Goto, Is, At, Arg
  <1> QED
    BY <1>2, <1>3, <1>4, <1>5

(* The steps of occurrence.complete around the charges.                    *)
LEMMA CompletionMoves ==
    ASSUME JobInv, NEW w \in Workers
    PROVE  /\ BeginComplete(w) => /\ Moves(w, {"begin"}, {"look"})
                                  /\ Arg(w).op = "occurrence.complete"
           /\ Look(w) => /\ Moves(w, {"look"}, {"attend", "affected", "link"})
                         /\ job'[w].pc \in {"affected", "link"} => Completed(Arg(w).lesson)
           /\ Attend(w) => /\ Moves(w, {"attend"}, {"affected", "link"})
                           /\ job'[w] # Idle => lesson[Arg(w).lesson].status = "scheduled"
           /\ FindAffected(w) => Moves(w, {"affected"}, {"family"})
  <1>1. job[w].pc # "idle" => DOMAIN job[w] = JobFields /\ DOMAIN job = Workers
    BY Working
  <1>2. BeginComplete(w) => /\ Moves(w, {"begin"}, {"look"})
                            /\ Arg(w).op = "occurrence.complete"
    BY <1>1 DEF Moves, BeginComplete, Idle, JobFields, Refuse, Goto, Is, At, Arg
  <1>3. Look(w) => /\ Moves(w, {"look"}, {"attend", "affected", "link"})
                   /\ job'[w].pc \in {"affected", "link"} => Completed(Arg(w).lesson)
    <2> SUFFICES ASSUME Look(w)
            PROVE  /\ Moves(w, {"look"}, {"attend", "affected", "link"})
                   /\ job'[w].pc \in {"affected", "link"} => Completed(Arg(w).lesson)
      OBVIOUS
    <2>1. job[w].pc = "look"
      BY DEF Look, Is, At
    <2>4. w \in Workers
      BY DEF Look, Is
    <2>2. CASE CompletionRefused(Arg(w).lesson, Arg(w).present)
      BY <1>1, <2>1, <2>2 DEF Moves, Look, Refuse, Idle, Is, At, Arg
    <2>3. CASE ~ (CompletionRefused(Arg(w).lesson, Arg(w).present))
      <3>1. PICK place, todo, who :
                 /\ job' = [job EXCEPT ![w].pc = place, ![w].members = who, ![w].todo = todo]
                 /\ place \in {"attend", "affected", "link"}
                 /\ place # "attend" => Completed(Arg(w).lesson)
        BY <2>3 DEF Look, Arg, At
      <3>2. job[w].pc # "idle"
        BY <2>1
      <3>3. /\ DOMAIN job' = Workers /\ \A v \in Workers : v # w => job'[v] = job[v]
            /\ DOMAIN job'[w] = JobFields /\ job'[w].pc = place /\ job'[w].m = job[w].m
        BY <3>1, <3>2, Updated
      <3> QED
        BY <2>1, <2>4, <3>1, <3>3 DEF Moves
    <2> QED
      BY <2>2, <2>3
  <1>4. Attend(w) => /\ Moves(w, {"attend"}, {"affected", "link"})
                     /\ job'[w] # Idle => lesson[Arg(w).lesson].status = "scheduled"
    BY <1>1 DEF Moves, Attend, Idle, JobFields, Refuse, Goto, Is, At, Arg
  <1>5. FindAffected(w) => Moves(w, {"affected"}, {"family"})
    BY <1>1 DEF Moves, FindAffected, Idle, JobFields, Refuse, Goto, Is, At, Arg
  <1> QED
    BY <1>2, <1>3, <1>4, <1>5

(* The steps of a charge.                                                  *)
LEMMA ChargeMoves ==
    ASSUME JobInv, NEW w \in Workers
    PROVE  /\ FindLink(w) => /\ Moves(w, {"link"}, {"open", "due", "affected", "link"})
                             /\ job'[w].pc = "open" => /\ Linked(Now(w), Arg(w).lesson) = {}
                                                       /\ job'[w].todo = job[w].todo
           /\ FindOpenCycle(w) => /\ Moves(w, {"open", "reread"}, {"create", "add", "link"})
                                  /\ job'[w] # Idle => job'[w].todo = job[w].todo
           /\ CreateCycle(w) => /\ Moves(w, {"create"}, {"reread"})
                                /\ job'[w].todo = job[w].todo
           /\ AddToCycle(w) => Moves(w, {"add"}, {"due", "affected", "link", "lock"})
           /\ LockOpening(w) => Moves(w, {"lock"}, {"due", "affected", "link"})
           /\ MarkCycleDue(w) => Moves(w, {"due"}, {"affected", "link"})
  <1>1. job[w].pc # "idle" => DOMAIN job[w] = JobFields /\ DOMAIN job = Workers
    BY Working
  <1>2. FindLink(w) => /\ Moves(w, {"link"}, {"open", "due", "affected", "link"})
                       /\ job'[w].pc = "open" => /\ Linked(Now(w), Arg(w).lesson) = {}
                                                 /\ job'[w].todo = job[w].todo
    BY <1>1 DEF Moves, FindLink, Idle, JobFields, TryAgain, GiveUp, NextStudent, Goto, At, Arg
  <1>3. FindOpenCycle(w) => /\ Moves(w, {"open", "reread"}, {"create", "add", "link"})
                            /\ job'[w] # Idle => job'[w].todo = job[w].todo
    BY <1>1 DEF Moves, FindOpenCycle, Idle, JobFields, TryAgain, GiveUp, NextStudent, Goto, At, Arg
  <1>4. CreateCycle(w) => /\ Moves(w, {"create"}, {"reread"})
                          /\ job'[w].todo = job[w].todo
    BY <1>1 DEF Moves, CreateCycle, Idle, JobFields, TryAgain, GiveUp, NextStudent, Goto, At, Arg
  <1>5. AddToCycle(w) => Moves(w, {"add"}, {"due", "affected", "link", "lock"})
    <2> SUFFICES ASSUME AddToCycle(w)
                 PROVE  Moves(w, {"add"}, {"due", "affected", "link", "lock"})
      OBVIOUS
    <2>1. job[w].pc = "add" /\ DOMAIN job[w] = JobFields /\ DOMAIN job = Workers
      BY <1>1 DEF AddToCycle, At
    <2>2. \/ TryAgain(w) \/ GiveUp(w) \/ Goto(w, "lock")
          \/ job' = [job EXCEPT ![w] = [@ EXCEPT !.pc = "due"]]
          \/ job' = [job EXCEPT ![w] = NextStudent(@)]
      BY DEF AddToCycle
    <2>3. CASE TryAgain(w)
      BY <2>1, <2>3 DEF Moves, Idle, JobFields, TryAgain, GiveUp, Arg
    <2>4. CASE GiveUp(w)
      BY <2>1, <2>4 DEF Moves, Idle, JobFields, GiveUp, Arg
    <2>5. CASE Goto(w, "lock")
      BY <2>1, <2>5 DEF Moves, Idle, JobFields, Goto, Arg
    <2>6. CASE job' = [job EXCEPT ![w] = [@ EXCEPT !.pc = "due"]]
      BY <2>1, <2>6 DEF Moves, Idle, JobFields, Arg
    <2>7. CASE job' = [job EXCEPT ![w] = NextStudent(@)]
      BY <2>1, <2>7 DEF Moves, Idle, JobFields, NextStudent, Arg
    <2> QED
      BY <2>2, <2>3, <2>4, <2>5, <2>6, <2>7
  <1>6. LockOpening(w) => Moves(w, {"lock"}, {"due", "affected", "link"})
    BY <1>1 DEF Moves, LockOpening, Idle, JobFields, TryAgain, GiveUp, NextStudent, Goto, At, Arg
  <1>7. MarkCycleDue(w) => Moves(w, {"due"}, {"affected", "link"})
    BY <1>1 DEF Moves, MarkCycleDue, Idle, JobFields, TryAgain, GiveUp, NextStudent, Goto, At, Arg
  <1> QED
    BY <1>2, <1>3, <1>4, <1>5, <1>6, <1>7

(* The steps of occurrence.reopen.                                         *)
LEMMA ReopenMoves ==
    ASSUME JobInv, NEW w \in Workers
    PROVE  /\ BeginReopen(w) => /\ Moves(w, {"begin"}, {"unlink", "hook"})
                                /\ Arg(w).op = "occurrence.reopen"
                                /\ job'[w].pc = "unlink" => Completed(Arg(w).lesson)
           /\ Unlink(w) => Moves(w, {"unlink"}, {"unattend", "shift"})
           /\ ShiftPositions(w) => Moves(w, {"shift"}, {"places"})
           /\ ReadPlaces(w) => /\ Moves(w, {"places"}, {"renumber"})
                               /\ job'[w].at = 0
           /\ Renumber(w) => /\ Moves(w, {"renumber"}, {"settle", "renumber"})
                             /\ job'[w] # Idle => job'[w].at \in {job[w].at, job[w].at + 1}
           /\ SettleCycle(w) => Moves(w, {"settle"}, {"unattend", "shift"})
           /\ Unattend(w) => Moves(w, {"unattend"}, {"family"})
  <1>1. job[w].pc # "idle" => DOMAIN job[w] = JobFields /\ DOMAIN job = Workers
    BY Working
  <1>2. BeginReopen(w) => /\ Moves(w, {"begin"}, {"unlink", "hook"})
                          /\ Arg(w).op = "occurrence.reopen"
                          /\ job'[w].pc = "unlink" => Completed(Arg(w).lesson)
    <2> SUFFICES ASSUME BeginReopen(w)
            PROVE  /\ Moves(w, {"begin"}, {"unlink", "hook"})
                   /\ Arg(w).op = "occurrence.reopen"
                   /\ job'[w].pc = "unlink" => Completed(Arg(w).lesson)
      OBVIOUS
    <2>1. job[w].pc = "begin"
      BY DEF BeginReopen, Is, At
    <2>4. Arg(w).op = "occurrence.reopen"
      BY DEF BeginReopen, Is
    <2>2. CASE lesson[Arg(w).lesson].status \in {"none", "cancelled"}
      BY <1>1, <2>1, <2>2 DEF Moves, BeginReopen, Refuse, Idle, Is, At, Arg
    <2>3. CASE ~ (lesson[Arg(w).lesson].status \in {"none", "cancelled"})
      <3>1. PICK place, todo, who :
                 /\ job' = [job EXCEPT ![w].pc = place, ![w].todo = todo, ![w].affected = who]
                 /\ place = "hook" \/ (place = "unlink" /\ Completed(Arg(w).lesson))
        <4>1. CASE Completed(Arg(w).lesson)
          <5>1. PICK todo, who :
                   job' = [job EXCEPT ![w].pc = "unlink", ![w].todo = todo, ![w].affected = who]
            BY <2>3, <4>1 DEF BeginReopen
          <5> QED
            BY <4>1, <5>1
        <4>2. CASE ~ Completed(Arg(w).lesson)
          <5>1. PICK todo, who :
                   job' = [job EXCEPT ![w].pc = "hook", ![w].todo = todo, ![w].affected = who]
            BY <2>3, <4>2 DEF BeginReopen
          <5> QED
            BY <4>2, <5>1
        <4> QED
          BY <4>1, <4>2
      <3>2. job[w].pc # "idle"
        BY <2>1
      <3>3. /\ DOMAIN job' = Workers /\ \A v \in Workers : v # w => job'[v] = job[v]
            /\ DOMAIN job'[w] = JobFields /\ job'[w].pc = place /\ job'[w].m = job[w].m
        BY <3>1, <3>2, Updated
      <3> QED
        BY <2>1, <2>4, <3>1, <3>3 DEF Moves
    <2> QED
      BY <2>2, <2>3
  <1>3. Unlink(w) => Moves(w, {"unlink"}, {"unattend", "shift"})
    BY <1>1 DEF Moves, Unlink, Idle, JobFields, Refuse, GiveUp, NextCycle, Goto, Is, At, Arg
  <1>4. ShiftPositions(w) => Moves(w, {"shift"}, {"places"})
    BY <1>1 DEF Moves, ShiftPositions, Idle, JobFields, GiveUp, Goto, At, Arg
  <1>8. ReadPlaces(w) => /\ Moves(w, {"places"}, {"renumber"})
                         /\ job'[w].at = 0
    BY <1>1 DEF Moves, ReadPlaces, Idle, JobFields, At, Arg
  <1>5. Renumber(w) => /\ Moves(w, {"renumber"}, {"settle", "renumber"})
                       /\ job'[w] # Idle => job'[w].at \in {job[w].at, job[w].at + 1}
    <2> SUFFICES ASSUME Renumber(w)
                 PROVE  /\ Moves(w, {"renumber"}, {"settle", "renumber"})
                        /\ job'[w] # Idle => job'[w].at \in {job[w].at, job[w].at + 1}
      OBVIOUS
    <2>1. job[w].pc = "renumber" /\ DOMAIN job[w] = JobFields /\ DOMAIN job = Workers
      BY <1>1 DEF Renumber, At
    <2>2. \/ Goto(w, "settle") \/ GiveUp(w)
          \/ \E row : job' = [job EXCEPT ![w].at = @ + 1, ![w].left = @ \ {row}]
      BY DEF Renumber
    <2> QED
      BY <2>1, <2>2 DEF Moves, Idle, JobFields, GiveUp, Goto
  <1>6. SettleCycle(w) => Moves(w, {"settle"}, {"unattend", "shift"})
    BY <1>1 DEF Moves, SettleCycle, Idle, JobFields, Refuse, GiveUp, NextCycle, Goto, Is, At, Arg
  <1>7. Unattend(w) => Moves(w, {"unattend"}, {"family"})
    BY <1>1 DEF Moves, Unattend, Idle, JobFields, Refuse, GiveUp, NextCycle, Goto, Is, At, Arg
  <1> QED
    BY <1>2, <1>3, <1>4, <1>5, <1>6, <1>7, <1>8

(* A finite set as a sequence.                                             *)
LEMMA SequenceOfSet ==
    ASSUME NEW S, IsFiniteSet(S)
    PROVE  /\ SetToSeq(S) \in Seq(S) /\ ToSet(SetToSeq(S)) = S
           /\ Len(SetToSeq(S)) = Cardinality(S)
           /\ \A i, j \in DOMAIN SetToSeq(S) : SetToSeq(S)[i] = SetToSeq(S)[j] => i = j
  <1> DEFINE n == Cardinality(S)
  <1>1. n \in Nat /\ ExistsBijection(1 .. n, S)
    BY FS_CardinalityType
  <1> HIDE DEF n
  <1>2. PICK f \in Bijection(1 .. n, S) : TRUE
    BY <1>1 DEF ExistsBijection
  <1>3. f \in [1 .. n -> S] /\ IsInjective(f)
    BY <1>2 DEF Bijection, Injection, IsInjective
  <1>4. SetToSeq(S) \in [1 .. n -> S] /\ IsInjective(SetToSeq(S))
    BY <1>3 DEF SetToSeq, n
  <1> HIDE DEF SetToSeq
  <1>5. DOMAIN SetToSeq(S) = 1 .. n /\ Len(SetToSeq(S)) = n /\ SetToSeq(S) \in Seq(S)
    BY <1>1, <1>4
  <1>6. SetToSeq(S) \in Injection(1 .. n, S)
    BY <1>4, <1>5 DEF Injection, IsInjective
  <1>7. /\ IsFiniteSet(1 .. n) /\ Cardinality(1 .. n) = Cardinality(S)
    BY <1>1, FS_Interval DEF n
  <1>8. SetToSeq(S) \in Surjection(1 .. n, S)
    BY <1>6, <1>7, FS_Injection
  <1>9. ToSet(SetToSeq(S)) = S
    BY <1>4, <1>5, <1>8 DEF ToSet, Surjection
  <1> QED
    BY <1>4, <1>5, <1>9 DEF IsInjective, n

(* The packages a lesson is charged to, with their opening progress.       *)
ChargedTo(l) == UNION {{<<s, k, cycles[s][k].opening>> : k \in Linked(s, l)} : s \in Students}

LEMMA ChargedFinite ==
    ASSUME PackagesInv, NEW l
    PROVE  /\ IsFiniteSet(ChargedTo(l))
           /\ ChargedTo(l) \in SUBSET (Students \X Nat \X Nat)
  <1> DEFINE of == [s \in Students |-> {<<s, k, cycles[s][k].opening>> : k \in Linked(s, l)}]
             parts == {of[s] : s \in Students}
  <1>1. ChargedTo(l) = UNION parts
    BY DEF ChargedTo
  <1>2. ASSUME NEW s \in Students
        PROVE  IsFiniteSet(of[s]) /\ of[s] \in SUBSET (Students \X Nat \X Nat)
    <2>1. /\ cycles[s] \in Seq(PackageRow) /\ Linked(s, l) \in SUBSET (1 .. Len(cycles[s]))
          /\ Len(cycles[s]) \in Nat
      BY DEF PackagesInv, Linked
    <2>2. IsFiniteSet(Linked(s, l))
      <3>1. IsFiniteSet(1 .. Len(cycles[s]))
        BY <2>1, FS_Interval
      <3> QED
        BY <2>1, <3>1, FS_Subset
    <2> DEFINE pair == [k \in Linked(s, l) |-> <<s, k, cycles[s][k].opening>>]
    <2>3. pair \in Surjection(Linked(s, l), of[s])
      <3>1. of[s] = {pair[k] : k \in Linked(s, l)}
        OBVIOUS
      <3>2. pair = [k \in Linked(s, l) |-> pair[k]]
        OBVIOUS
      <3> HIDE DEF pair, of
      <3> QED
        BY <3>1, <3>2 DEF Surjection
    <2>4. IsFiniteSet(of[s])
      <3> HIDE DEF pair, of
      <3> QED
        BY <2>2, <2>3, FS_Surjection
    <2>5. \A k \in Linked(s, l) : k \in Nat /\ cycles[s][k].opening \in Nat
      <3> SUFFICES ASSUME NEW k \in Linked(s, l)
                   PROVE  k \in Nat /\ cycles[s][k].opening \in Nat
        OBVIOUS
      <3>1. k \in 1 .. Len(cycles[s]) /\ cycles[s][k] \in PackageRow
        BY <2>1
      <3> QED
        BY <3>1 DEF PackageRow
    <2>6. \A x \in of[s] : x \in Students \X Nat \X Nat
      BY <2>5
    <2> QED
      BY <2>4, <2>6
  <1>3. IsFiniteSet(parts)
    <2>1. of \in Surjection(Students, parts)
      BY DEF Surjection
    <2> HIDE DEF of, parts
    <2> QED
      BY <2>1, FS_Surjection, BillingAssumption
  <1>4. \A T \in parts : IsFiniteSet(T) /\ T \in SUBSET (Students \X Nat \X Nat)
    BY <1>2
  <1> HIDE DEF of, parts
  <1> QED
    BY <1>1, <1>3, <1>4, FS_UNION

(* The packages whose places a worker numbers, one after the other.        *)
LEMMA ReopenTodo ==
    ASSUME JobInv, NEW w \in Workers
    PROVE  /\ BeginReopen(w) /\ job'[w].pc = "unlink" =>
                 /\ job'[w].todo = SetToSeq(ChargedTo(Arg(w).lesson))
                 /\ Completed(Arg(w).lesson)
           /\ Unlink(w) => /\ job'[w].todo = job[w].todo
                           /\ job'[w].pc = IF job[w].todo = << >> THEN "unattend" ELSE "shift"
           /\ ShiftPositions(w) => job'[w] = Idle \/ job'[w].todo = job[w].todo
           /\ ReadPlaces(w) => job'[w].todo = job[w].todo
           /\ Renumber(w) => job'[w] = Idle \/ job'[w].todo = job[w].todo
           /\ SettleCycle(w) =>
                 /\ job'[w].todo = Tail(job[w].todo)
                 /\ job'[w].pc = IF Len(job[w].todo) = 1 THEN "unattend" ELSE "shift"
  <1>1. job[w].pc # "idle" => DOMAIN job[w] = JobFields /\ DOMAIN job = Workers
    BY Working
  <1>2. ASSUME BeginReopen(w), job'[w].pc = "unlink"
        PROVE  /\ job'[w].todo = SetToSeq(ChargedTo(Arg(w).lesson))
               /\ Completed(Arg(w).lesson)
    <2>1. job[w].pc = "begin" /\ DOMAIN job[w] = JobFields /\ DOMAIN job = Workers
      BY <1>1, <1>2 DEF BeginReopen, Is, At
    <2>2. lesson[Arg(w).lesson].status \notin {"none", "cancelled"}
      <3>1. ASSUME lesson[Arg(w).lesson].status \in {"none", "cancelled"}
            PROVE  FALSE
        <4>1. job' = [job EXCEPT ![w] = Idle]
          BY <1>2, <3>1 DEF BeginReopen, Refuse
        <4> QED
          BY <1>2, <2>1, <4>1 DEF Idle
      <3> QED
        BY <3>1
    <2> DEFINE place == IF Completed(Arg(w).lesson) THEN "unlink" ELSE "hook"
               who == lesson[Arg(w).lesson].attended \union {x[1] : x \in ChargedTo(Arg(w).lesson)}
    <2>3. job' = [job EXCEPT ![w].pc = place,
                             ![w].todo = SetToSeq(ChargedTo(Arg(w).lesson)),
                             ![w].affected = who]
      BY <1>2, <2>2 DEF BeginReopen, ChargedTo
    <2> HIDE DEF who
    <2>4. job'[w].pc = place
      <3> HIDE DEF place
      <3> QED
        BY <2>1, <2>3 DEF JobFields
    <2>5. Completed(Arg(w).lesson)
      BY <1>2, <2>4
    <2> HIDE DEF place
    <2> QED
      BY <2>1, <2>3, <2>5 DEF JobFields
  <1>3. ASSUME Unlink(w)
        PROVE  /\ job'[w].todo = job[w].todo
               /\ job'[w].pc = IF job[w].todo = << >> THEN "unattend" ELSE "shift"
    BY <1>1, <1>3 DEF Unlink, At, JobFields
  <1>4. ShiftPositions(w) => job'[w] = Idle \/ job'[w].todo = job[w].todo
    BY <1>1 DEF ShiftPositions, GiveUp, Goto, At, JobFields
  <1>5. ReadPlaces(w) => job'[w].todo = job[w].todo
    BY <1>1 DEF ReadPlaces, At, JobFields
  <1>6. ASSUME Renumber(w)
        PROVE  job'[w] = Idle \/ job'[w].todo = job[w].todo
    <2>1. \/ Goto(w, "settle") \/ GiveUp(w)
          \/ \E row : job' = [job EXCEPT ![w].at = @ + 1, ![w].left = @ \ {row}]
      BY <1>6 DEF Renumber
    <2>2. DOMAIN job[w] = JobFields /\ DOMAIN job = Workers
      BY <1>1, <1>6 DEF Renumber, At
    <2> QED
      BY <2>1, <2>2 DEF GiveUp, Goto, JobFields
  <1>7. ASSUME SettleCycle(w)
        PROVE  /\ job'[w].todo = Tail(job[w].todo)
               /\ job'[w].pc = IF Len(job[w].todo) = 1 THEN "unattend" ELSE "shift"
    BY <1>1, <1>7 DEF SettleCycle, NextCycle, At, JobFields
  <1> QED
    BY <1>2, <1>3, <1>4, <1>5, <1>6, <1>7

(* The steps for the family and of the hook.                               *)
LEMMA FamilyMoves ==
    ASSUME JobInv, NEW w \in Workers
    PROVE  /\ ReadFamily(w) => Moves(w, {"family"}, {"hook", "account"})
           /\ InsertFamilyCycle(w) => Moves(w, {"account"}, {"settleFamily"})
           /\ SettleFamilyCycle(w) => Moves(w, {"settleFamily"}, {"hook", "account"})
           /\ BeginHook(w) => Moves(w, {"hook"}, {"normalize"})
           /\ NormalizeCycles(w) => Moves(w, {"normalize"}, {"normalize", "done"})
           /\ Answer(w) => Moves(w, {"done"}, {})
  <1>1. job[w].pc # "idle" => DOMAIN job[w] = JobFields /\ DOMAIN job = Workers
    BY Working
  <1>2. ReadFamily(w) => Moves(w, {"family"}, {"hook", "account"})
    BY <1>1 DEF Moves, ReadFamily, Idle, JobFields, GiveUp, Goto, At, Arg
  <1>3. InsertFamilyCycle(w) => Moves(w, {"account"}, {"settleFamily"})
    BY <1>1 DEF Moves, InsertFamilyCycle, Idle, JobFields, GiveUp, Goto, At, Arg
  <1>4. SettleFamilyCycle(w) => Moves(w, {"settleFamily"}, {"hook", "account"})
    BY <1>1 DEF Moves, SettleFamilyCycle, Idle, JobFields, GiveUp, Goto, At, Arg
  <1>5. BeginHook(w) => Moves(w, {"hook"}, {"normalize"})
    BY <1>1 DEF Moves, BeginHook, Idle, JobFields, GiveUp, Goto, At, Arg
  <1>6. NormalizeCycles(w) => Moves(w, {"normalize"}, {"normalize", "done"})
    BY <1>1 DEF Moves, NormalizeCycles, Idle, JobFields, GiveUp, Goto, At, Arg
  <1>7. Answer(w) => Moves(w, {"done"}, {})
    BY <1>1 DEF Moves, Answer, Idle, JobFields, GiveUp, Goto, At, Arg
  <1> QED
    BY <1>2, <1>3, <1>4, <1>5, <1>6, <1>7

-----------------------------------------------------------------------------
(* The packages                                                            *)

(* Packages are never removed, and keep their number of places.            *)
LimitsKept ==
    \A s \in Students : \A k \in DOMAIN cycles[s] :
        k \in DOMAIN cycles'[s] /\ cycles'[s][k].limit = cycles[s][k].limit

(* Every lesson is linked to the packages it was linked to.                *)
LinkedKept == \A s \in Students, l \in Lessons : Linked(s, l)' = Linked(s, l)

SameLessons(c, d) == {x.lesson : x \in c.links} = {x.lesson : x \in d.links}

(* Package c is written at place k of student s, if there is such a place. *)
Writes(s, k, c) ==
    /\ \A t \in Students : DOMAIN cycles'[t] = DOMAIN cycles[t]
    /\ \A t \in Students : \A n \in DOMAIN cycles[t] :
          cycles'[t][n] = IF t = s /\ n = k THEN c ELSE cycles[t][n]

(* A step that writes one package, or none, and leaves its lessons alone.  *)
LEMMA OnePackage ==
    ASSUME PackagesInv, raced' = raced, NEW s, NEW k, NEW c,
           cycles' = [cycles EXCEPT ![s][k] = c],
           s \in Students /\ k \in DOMAIN cycles[s] =>
               /\ Sound(c) /\ (raced = {} => Fits(c))
               /\ c.limit = cycles[s][k].limit
    PROVE  PackagesInv' /\ LimitsKept /\ Writes(s, k, c)
  <1>1. \A t \in Students : /\ cycles[t] \in Seq(PackageRow)
                            /\ cycles'[t] = IF t = s THEN [cycles[t] EXCEPT ![k] = c] ELSE cycles[t]
    BY DEF PackagesInv
  <1>2. s \in Students /\ k \in DOMAIN cycles[s] => c \in PackageRow
    BY DEF Sound
  <1>3. \A t \in Students : cycles'[t] \in Seq(PackageRow) /\ DOMAIN cycles'[t] = DOMAIN cycles[t]
    <2> SUFFICES ASSUME NEW t \in Students
                 PROVE  cycles'[t] \in Seq(PackageRow) /\ DOMAIN cycles'[t] = DOMAIN cycles[t]
      OBVIOUS
    <2>1. CASE t = s /\ k \in DOMAIN cycles[s]
      <3>1. [cycles[s] EXCEPT ![k] = c] \in Seq(PackageRow)
        BY <1>1, <1>2, <2>1, ExceptSeq
      <3> QED
        BY <1>1, <2>1, <3>1
    <2>2. CASE t = s /\ k \notin DOMAIN cycles[s]
      <3>1. [cycles[s] EXCEPT ![k] = c] = cycles[s]
        BY <1>1, <2>2
      <3> QED
        BY <1>1, <2>2, <3>1
    <2>3. CASE t # s
      BY <1>1, <2>3
    <2> QED
      BY <2>1, <2>2, <2>3
  <1>4. \A t \in Students : \A n \in DOMAIN cycles[t] :
           cycles'[t][n] = IF t = s /\ n = k THEN c ELSE cycles[t][n]
    BY <1>1
  <1>5. cycles' \in [Students -> Seq(PackageRow)]
    <2>1. DOMAIN cycles' = Students /\ cycles' = [t \in Students |-> cycles'[t]]
      BY DEF PackagesInv
    <2> QED
      BY <1>3, <2>1
  <1>6. \A t \in Students : \A n \in DOMAIN cycles'[t] :
           Sound(cycles'[t][n]) /\ (raced' = {} => Fits(cycles'[t][n]))
    BY <1>3, <1>4 DEF PackagesInv
  <1>7. LimitsKept
    BY <1>3, <1>4 DEF LimitsKept
  <1> QED
    BY <1>3, <1>4, <1>5, <1>6, <1>7 DEF PackagesInv, Writes

(* A step that writes no package.                                          *)
LEMMA NoPackage ==
    ASSUME PackagesInv, raced' = raced, cycles' = cycles
    PROVE  PackagesInv' /\ LimitsKept /\ LinkedKept
  <1>1. PackagesInv' /\ LimitsKept
    BY DEF PackagesInv, LimitsKept
  <1>2. LinkedKept
    BY DEF LinkedKept, Linked
  <1> QED
    BY <1>1, <1>2

(* One package whose lessons stay.                                         *)
LEMMA OnePackageSameLessons ==
    ASSUME PackagesInv, raced' = raced, NEW s, NEW k, NEW c,
           cycles' = [cycles EXCEPT ![s][k] = c],
           s \in Students /\ k \in DOMAIN cycles[s] =>
               /\ Sound(c) /\ (raced = {} => Fits(c))
               /\ c.limit = cycles[s][k].limit
               /\ SameLessons(c, cycles[s][k])
    PROVE  PackagesInv' /\ LimitsKept /\ LinkedKept
  <1>1. PackagesInv' /\ LimitsKept /\ Writes(s, k, c)
    <2>1. s \in Students /\ k \in DOMAIN cycles[s] =>
             Sound(c) /\ (raced = {} => Fits(c)) /\ c.limit = cycles[s][k].limit
      OBVIOUS
    <2> QED
      BY <2>1, OnePackage
  <1>2. ASSUME NEW t \in Students, NEW l \in Lessons
        PROVE  Linked(t, l)' = Linked(t, l)
    <2>1. \A n \in DOMAIN cycles[t] :
             (\E x \in cycles'[t][n].links : x.lesson = l) <=> (\E x \in cycles[t][n].links : x.lesson = l)
      <3> SUFFICES ASSUME NEW n \in DOMAIN cycles[t]
                   PROVE  (\E x \in cycles'[t][n].links : x.lesson = l)
                             <=> (\E x \in cycles[t][n].links : x.lesson = l)
        OBVIOUS
      <3>1. CASE t = s /\ n = k
        <4>1. cycles'[t][n] = c /\ SameLessons(c, cycles[t][n])
          BY <1>1, <3>1 DEF Writes
        <4>2. \A S : (\E x \in S : x.lesson = l) <=> l \in {x.lesson : x \in S}
          OBVIOUS
        <4> QED
          BY <4>1, <4>2 DEF SameLessons
      <3>2. CASE ~ (t = s /\ n = k)
        BY <1>1, <3>2 DEF Writes
      <3> QED
        BY <3>1, <3>2
    <2> QED
      BY <1>1, <2>1 DEF Linked, Writes
  <1> QED
    BY <1>1, <1>2 DEF LinkedKept

(* A package whose places, opening progress and lessons stay.              *)
LEMMA SameLinks ==
    ASSUME NEW c, NEW d, Sound(d), c \in PackageRow,
           c.links = d.links, c.limit = d.limit, c.opening = d.opening
    PROVE  Sound(c) /\ (Fits(d) => Fits(c)) /\ SameLessons(c, d)
  BY DEF Sound, Fits, Used, SameLessons

(* The opening progress of a package is locked (LockOpening).              *)
LEMMA LockKeeps ==
    ASSUME TypeInv, PackagesInv, NEW w \in Workers, LockOpening(w)
    PROVE  PackagesInv' /\ LimitsKept /\ LinkedKept
  <1> DEFINE s == Now(w)
             k == job[w].at
             c == [cycles[s][k] EXCEPT !.locked = TRUE]
  <1>1. raced' = raced /\ cycles' = [cycles EXCEPT ![s][k] = c]
    BY DEF LockOpening, Steady, Aside
  <1>2. s \in Students /\ k \in DOMAIN cycles[s] =>
           /\ Sound(cycles[s][k]) /\ (raced = {} => Fits(cycles[s][k]))
           /\ c \in PackageRow /\ c.links = cycles[s][k].links
           /\ c.limit = cycles[s][k].limit /\ c.opening = cycles[s][k].opening
    BY DEF PackagesInv, Sound, PackageRow
  <1> HIDE DEF s, k, c
  <1> QED
    BY <1>1, <1>2, SameLinks, OnePackageSameLessons

(* A package that is full becomes due (MarkCycleDue).                      *)
LEMMA DueKeeps ==
    ASSUME TypeInv, PackagesInv, NEW w \in Workers, MarkCycleDue(w)
    PROVE  PackagesInv' /\ LimitsKept /\ LinkedKept
  <1> DEFINE s == Now(w)
             k == job[w].at
             c == [cycles[s][k] EXCEPT !.status = "due", !.locked = TRUE]
  <1>1. raced' = raced /\ (cycles' = cycles \/ cycles' = [cycles EXCEPT ![s][k] = c])
    BY DEF MarkCycleDue, Steady, Aside
  <1>2. s \in Students /\ k \in DOMAIN cycles[s] =>
           /\ Sound(cycles[s][k]) /\ (raced = {} => Fits(cycles[s][k]))
           /\ c \in PackageRow /\ c.links = cycles[s][k].links
           /\ c.limit = cycles[s][k].limit /\ c.opening = cycles[s][k].opening
    BY DEF PackagesInv, Sound, PackageRow
  <1> HIDE DEF s, k, c
  <1> QED
    BY <1>1, <1>2, SameLinks, OnePackageSameLessons, NoPackage

(* The status after the places were renumbered (SettleCycle).              *)
LEMMA SettleKeeps ==
    ASSUME TypeInv, PackagesInv, NEW w \in Workers, SettleCycle(w)
    PROVE  PackagesInv' /\ LimitsKept /\ LinkedKept
  <1> DEFINE s == Now(w)[1]
             k == Now(w)[2]
             c(status) == [cycles[s][k] EXCEPT !.status = status, !.locked = TRUE]
  <1>1. /\ raced' = raced
        /\ \E status \in {"open", "due"} : cycles' = [cycles EXCEPT ![s][k] = c(status)]
    <2>1. CASE Now(w)[3] + job[w].at >= cycles[s][k].limit
      BY <2>1 DEF SettleCycle, Steady, Aside
    <2>2. CASE ~ (Now(w)[3] + job[w].at >= cycles[s][k].limit)
      BY <2>2 DEF SettleCycle, Steady, Aside
    <2> QED
      BY <2>1, <2>2
  <1>2. ASSUME s \in Students, k \in DOMAIN cycles[s], NEW status \in {"open", "due"}
        PROVE  /\ Sound(cycles[s][k]) /\ (raced = {} => Fits(cycles[s][k]))
               /\ c(status) \in PackageRow /\ c(status).links = cycles[s][k].links
               /\ c(status).limit = cycles[s][k].limit /\ c(status).opening = cycles[s][k].opening
    <2>1. Sound(cycles[s][k]) /\ (raced = {} => Fits(cycles[s][k])) /\ cycles[s][k] \in PackageRow
      BY <1>2 DEF PackagesInv, Sound
    <2> QED
      BY <1>2, <2>1 DEF PackageRow
  <1> HIDE DEF s, k, c
  <1>3. PICK status \in {"open", "due"} : cycles' = [cycles EXCEPT ![s][k] = c(status)]
    BY <1>1
  <1> QED
    BY <1>1, <1>2, <1>3, SameLinks, OnePackageSameLessons

(* An opening progress is raised only while nothing is linked.             *)
LEMMA OpeningKeeps ==
    ASSUME BillingInv, NEW w \in Workers, SetOpening(w)
    PROVE  PackagesInv' /\ LimitsKept /\ LinkedKept
  <1> USE DEF BillingInv, TypeInv
  <1>1. CASE cycles' = cycles
    <2>1. raced' = raced
      BY DEF SetOpening, Refuse, NotTorn
    <2> QED
      BY <1>1, <2>1, NoPackage
  <1>2. CASE cycles' # cycles
    <2>1. job[w].pc = "opening"
      BY DEF SetOpening, At
    <2>2. PICK m \in Mutations : m = job[w].m /\ m.op = "billing.configure"
      BY <2>1, Working
    <2>3. m.student \in Students /\ m.opening \in Nat
      BY <2>2 DEF Mutations
    <2> DEFINE s == m.student
               k == job[w].at
               c(status) == [cycles[s][k] EXCEPT !.opening = m.opening, !.status = status]
    <2>4. k \in DOMAIN cycles[s] /\ m.opening <= cycles[s][k].limit
      BY <2>1, <2>2 DEF OpeningInv, OpeningFits
    <2>5. ~ (cycles[s][k].locked \/ Real(cycles[s][k]) > 0) /\ raced' = raced
      BY <1>2, <2>2 DEF SetOpening, Refuse, data, Arg, NotTorn
    <2>6. \E status \in {"open", "due"} : cycles' = [cycles EXCEPT ![s][k] = c(status)]
      <3>1. CASE m.opening = cycles[s][k].limit
        BY <1>2, <2>2, <2>5, <3>1 DEF SetOpening, Arg
      <3>2. CASE m.opening # cycles[s][k].limit
        BY <1>2, <2>2, <2>5, <3>2 DEF SetOpening, Arg
      <3> QED
        BY <3>1, <3>2
    <2>7. Sound(cycles[s][k])
      BY <2>3, <2>4 DEF PackagesInv
    <2>8. ASSUME raced = {}  PROVE cycles[s][k].links = {}
      <3>1. \A x \in cycles[s][k].links : Completed(x.lesson)
        <4>1. \A x \in cycles[s][k].links : x.lesson \in Lessons
          BY <2>7 DEF Sound, PackageRow
        <4>2. \A x \in cycles[s][k].links : k \in Linked(s, x.lesson)
          BY <2>4 DEF Linked
        <4> QED
          BY <2>3, <2>8, <4>1, <4>2 DEF LessonInv
      <3>2. {x \in cycles[s][k].links : Completed(x.lesson)} = cycles[s][k].links
        BY <3>1
      <3>3. IsFiniteSet(cycles[s][k].links) /\ Real(cycles[s][k]) = Cardinality(cycles[s][k].links)
        BY <2>7, <3>2 DEF Sound, Real
      <3>4. Cardinality(cycles[s][k].links) = 0
        BY <2>5, <3>3, FS_CardinalityType
      <3> QED
        BY <3>3, <3>4, FS_EmptySet
    <2>9. ASSUME NEW status \in {"open", "due"}
          PROVE  /\ Sound(c(status)) /\ (raced = {} => Fits(c(status)))
                 /\ c(status).limit = cycles[s][k].limit /\ SameLessons(c(status), cycles[s][k])
      <3>1. /\ c(status) \in PackageRow /\ c(status).links = cycles[s][k].links
            /\ c(status).limit = cycles[s][k].limit /\ c(status).opening = m.opening
        BY <2>3, <2>7 DEF Sound, PackageRow
      <3> HIDE DEF c
      <3>2. ASSUME raced = {}  PROVE Fits(c(status))
        <4>1. c(status).links = {} /\ Cardinality({}) = 0
          BY <2>8, <3>1, <3>2, FS_EmptySet
        <4>2. Used(c(status)) = m.opening
          BY <2>3, <3>1, <4>1 DEF Used
        <4> QED
          BY <2>4, <3>1, <4>2 DEF Fits
      <3> QED
        BY <2>7, <3>1, <3>2 DEF Sound, SameLessons
    <2> HIDE DEF s, k, c
    <2>10. PICK status \in {"open", "due"} : cycles' = [cycles EXCEPT ![s][k] = c(status)]
      BY <2>6
    <2> QED
      BY <2>5, <2>9, <2>10, OnePackageSameLessons
  <1> QED
    BY <1>1, <1>2

(* Positions that move out of the way stay apart.                          *)
LEMMA ShiftKeeps ==
    ASSUME BillingInv, NEW w \in Workers, ShiftPositions(w)
    PROVE  PackagesInv' /\ LimitsKept /\ LinkedKept
  <1> USE DEF BillingInv, TypeInv
  <1> DEFINE s == Now(w)[1]
             k == Now(w)[2]
             shifted(x) == [x EXCEPT !.pos = @ + Shift]
             links == {shifted(x) : x \in cycles[s][k].links}
             c == [cycles[s][k] EXCEPT !.links = links]
  <1>1. /\ raced' = raced
        /\ cycles' = cycles \/ cycles' = [cycles EXCEPT ![s][k] = c]
    BY DEF ShiftPositions, GiveUp, data, NotTorn
  <1>2. ASSUME s \in Students, k \in DOMAIN cycles[s]
        PROVE  /\ Sound(c) /\ (raced = {} => Fits(c))
               /\ c.limit = cycles[s][k].limit /\ SameLessons(c, cycles[s][k])
    <2>1. Sound(cycles[s][k]) /\ (raced = {} => Fits(cycles[s][k]))
      BY <1>2 DEF PackagesInv
    <2>2. \A x \in cycles[s][k].links : x \in [lesson : Lessons, pos : Nat]
      BY <2>1 DEF Sound, PackageRow
    <2>3. \A x \in cycles[s][k].links :
             shifted(x) \in [lesson : Lessons, pos : Nat] /\ shifted(x).pos = x.pos + Shift
                /\ shifted(x).lesson = x.lesson
      BY <2>2 DEF Shift
    <2>4. IsFiniteSet(links) /\ Cardinality(links) <= Cardinality(cycles[s][k].links)
      <3>1. IsFiniteSet(cycles[s][k].links)
        BY <2>1 DEF Sound
      <3> DEFINE shift == [x \in cycles[s][k].links |-> shifted(x)]
      <3>2. shift \in Surjection(cycles[s][k].links, links)
        <4>1. \A x \in cycles[s][k].links : shift[x] = shifted(x)
          OBVIOUS
        <4> HIDE DEF shifted
        <4>2. shift \in [cycles[s][k].links -> links]
          OBVIOUS
        <4>3. \A y \in links : \E x \in cycles[s][k].links : shift[x] = y
          BY <4>1
        <4> QED
          BY <4>2, <4>3 DEF Surjection
      <3> HIDE DEF shift, links
      <3> QED
        BY <3>1, <3>2, FS_Surjection
    <2>5. /\ c \in PackageRow /\ c.links = links
          /\ c.limit = cycles[s][k].limit /\ c.opening = cycles[s][k].opening
      <3>1. links \in SUBSET [lesson : Lessons, pos : Nat]
        BY <2>3
      <3> HIDE DEF links
      <3> QED
        BY <2>1, <3>1 DEF Sound, PackageRow
    <2> HIDE DEF c
    <2>6. \A x, y \in links : x.pos = y.pos => x = y
      <3> SUFFICES ASSUME NEW x \in cycles[s][k].links, NEW y \in cycles[s][k].links,
                          shifted(x).pos = shifted(y).pos
                   PROVE  x = y
        OBVIOUS
      <3>1. x.pos + Shift = y.pos + Shift /\ x.pos \in Nat /\ y.pos \in Nat
        BY <2>2, <2>3
      <3> QED
        BY <2>1, <3>1 DEF Shift, Sound
    <2>7. {x.lesson : x \in links} = {x.lesson : x \in cycles[s][k].links}
      <3> HIDE DEF shifted
      <3> QED
        BY <2>3
    <2>10. \A x, y \in links : x.lesson = y.lesson => x = y
      <3> SUFFICES ASSUME NEW x \in cycles[s][k].links, NEW y \in cycles[s][k].links,
                          shifted(x).lesson = shifted(y).lesson
                   PROVE  x = y
        OBVIOUS
      <3> QED
        BY <2>1, <2>3 DEF Sound
    <2> HIDE DEF links
    <2>8. Sound(c) /\ SameLessons(c, cycles[s][k])
      BY <2>4, <2>5, <2>6, <2>7, <2>10 DEF Sound, SameLessons
    <2>9. Fits(cycles[s][k]) => Fits(c)
      <3>1. /\ cycles[s][k].opening \in Nat /\ cycles[s][k].limit \in Nat
            /\ IsFiniteSet(cycles[s][k].links)
        BY <2>1 DEF Sound, PackageRow
      <3>2. Cardinality(cycles[s][k].links) \in Nat /\ Cardinality(links) \in Nat
        BY <2>4, <3>1, FS_CardinalityType
      <3> QED
        BY <2>4, <2>5, <3>1, <3>2 DEF Fits, Used
    <2> QED
      BY <2>1, <2>5, <2>8, <2>9
  <1> HIDE DEF s, k, c
  <1> QED
    BY <1>1, <1>2, OnePackageSameLessons, NoPackage

(* A set of links with one more.                                           *)
LEMMA OneMore ==
    ASSUME NEW S, NEW x, IsFiniteSet(S)
    PROVE  /\ Cardinality(S) \in Nat /\ Cardinality(S \union {x}) \in Nat
           /\ IsFiniteSet(S \union {x})
           /\ Cardinality(S \union {x}) <= Cardinality(S) + 1
  <1>1. IsFiniteSet(S \union {x})
    BY FS_AddElement
  <1>2. Cardinality(S) \in Nat /\ Cardinality(S \union {x}) \in Nat
    BY <1>1, FS_CardinalityType
  <1>3. Cardinality(S \union {x}) = IF x \in S THEN Cardinality(S) ELSE Cardinality(S) + 1
    BY FS_AddElement
  <1> QED
    BY <1>1, <1>2, <1>3

(* A set of links with one of them at another place.                       *)
LEMMA OneMoved ==
    ASSUME NEW S, NEW x \in S, NEW y, IsFiniteSet(S)
    PROVE  /\ IsFiniteSet((S \ {x}) \union {y})
           /\ Cardinality((S \ {x}) \union {y}) <= Cardinality(S)
  <1>1. IsFiniteSet(S \ {x}) /\ Cardinality(S \ {x}) = Cardinality(S) - 1
    BY FS_RemoveElement
  <1>2. /\ IsFiniteSet((S \ {x}) \union {y})
        /\ Cardinality((S \ {x}) \union {y}) \in Nat
        /\ Cardinality((S \ {x}) \union {y}) <= Cardinality(S \ {x}) + 1
    BY <1>1, OneMore
  <1>3. Cardinality(S) \in Nat
    BY FS_CardinalityType
  <1> QED
    BY <1>1, <1>2, <1>3

(* The links of a package once a lesson has another place.                 *)
Moved(links, lsn, pos) ==
    LET own == {x \in links : x.lesson = lsn} IN
    (links \ own) \union {[x EXCEPT !.pos = pos] : x \in own}

(* No other lesson has that place, if the lesson has a link at all.        *)
PlaceFree(links, lsn, pos) ==
    LET own == {x \in links : x.lesson = lsn} IN
    own = {} \/ pos \notin {x.pos : x \in links \ own}

(* A lesson that has no link stays without; the link of one that has, and  *)
(* there is only one, goes to another place.                               *)
LEMMA MovedIs ==
    ASSUME NEW d, Sound(d), NEW lsn, NEW pos \in Nat
    PROVE  /\ {x \in d.links : x.lesson = lsn} = {} => Moved(d.links, lsn, pos) = d.links
           /\ \A x \in d.links : x.lesson = lsn =>
                 Moved(d.links, lsn, pos) = (d.links \ {x}) \union {[x EXCEPT !.pos = pos]}
  <1>1. ASSUME NEW x \in d.links, x.lesson = lsn
        PROVE  Moved(d.links, lsn, pos) = (d.links \ {x}) \union {[x EXCEPT !.pos = pos]}
    <2>1. {y \in d.links : y.lesson = lsn} = {x}
      BY <1>1 DEF Sound
    <2>2. {[y EXCEPT !.pos = pos] : y \in {x}} = {[x EXCEPT !.pos = pos]}
      OBVIOUS
    <2> QED
      BY <2>1, <2>2 DEF Moved
  <1> QED
    BY <1>1 DEF Moved

(* A package whose links are numbered again stays a package of the same    *)
(* lessons.                                                                *)
LEMMA MovedSound ==
    ASSUME NEW d, Sound(d), NEW lsn, NEW pos \in Nat, PlaceFree(d.links, lsn, pos),
           NEW c, c = [d EXCEPT !.links = Moved(d.links, lsn, pos)]
    PROVE  /\ Sound(c) /\ (Fits(d) => Fits(c))
           /\ c.limit = d.limit /\ c.opening = d.opening /\ SameLessons(c, d)
  <1>1. /\ IsFiniteSet(d.links) /\ d.links \in SUBSET [lesson : Lessons, pos : Nat]
        /\ d \in PackageRow /\ d.opening \in Nat /\ d.limit \in Nat
    BY DEF Sound, PackageRow
  <1>2. CASE {x \in d.links : x.lesson = lsn} = {}
    <2>1. c = d
      BY <1>1, <1>2, MovedIs DEF PackageRow
    <2> QED
      BY <2>1 DEF SameLessons
  <1>3. CASE {x \in d.links : x.lesson = lsn} # {}
    <2>1. PICK row \in d.links : row.lesson = lsn
      BY <1>3
    <2> DEFINE moved == [row EXCEPT !.pos = pos]
               links == (d.links \ {row}) \union {moved}
    <2>2. Moved(d.links, lsn, pos) = links
      BY <2>1, MovedIs
    <2>3. /\ moved \in [lesson : Lessons, pos : Nat]
          /\ moved.lesson = row.lesson /\ moved.pos = pos
      BY <1>1
    <2> HIDE DEF moved
    <2>4. \A x \in d.links : x # row => x.pos # pos
      BY <1>3, <2>1 DEF Sound, PlaceFree
    <2>5. IsFiniteSet(links) /\ Cardinality(links) <= Cardinality(d.links)
      BY <1>1, OneMoved
    <2>6. c \in PackageRow /\ c.links = links /\ c.limit = d.limit /\ c.opening = d.opening
      <3>1. links \in SUBSET [lesson : Lessons, pos : Nat]
        BY <1>1, <2>3
      <3> HIDE DEF links
      <3> QED
        BY <1>1, <2>2, <3>1 DEF PackageRow
    <2>7. \A x, y \in links : x.pos = y.pos => x = y
      BY <2>3, <2>4 DEF Sound
    <2>8. \A x, y \in links : x.lesson = y.lesson => x = y
      BY <2>3 DEF Sound
    <2>9. {x.lesson : x \in links} = {x.lesson : x \in d.links}
      BY <2>3
    <2> HIDE DEF links
    <2>10. Sound(c) /\ SameLessons(c, d)
      BY <2>5, <2>6, <2>7, <2>8, <2>9 DEF Sound, SameLessons
    <2>11. Fits(d) => Fits(c)
      <3>1. Cardinality(d.links) \in Nat /\ Cardinality(links) \in Nat
        BY <1>1, <2>5, FS_CardinalityType
      <3> QED
        BY <1>1, <2>5, <2>6, <3>1 DEF Fits, Used
    <2> QED
      BY <2>6, <2>10, <2>11
  <1> QED
    BY <1>2, <1>3

(* A place is given again, one link at a time.                             *)
LEMMA RenumberKeeps ==
    ASSUME BillingInv, NEW w \in Workers, Renumber(w)
    PROVE  PackagesInv' /\ LimitsKept /\ LinkedKept
  <1> USE DEF BillingInv, TypeInv
  <1>1. raced' = raced
    BY DEF Renumber, GiveUp, Steady, Aside
  <1>2. CASE cycles' = cycles
    BY <1>1, <1>2, NoPackage
  <1>3. CASE cycles' # cycles
    <2> DEFINE s == Now(w)[1]
               k == Now(w)[2]
               pos == Now(w)[3] + job[w].at + 1
    <2>1. PICK row \in job[w].left :
             /\ PlaceFree(cycles[s][k].links, row.lesson, pos)
             /\ cycles' = [cycles EXCEPT ![s][k].links = Moved(@, row.lesson, pos)]
      BY <1>3 DEF Renumber, GiveUp, data, Moved, PlaceFree
    <2> DEFINE c == [cycles[s][k] EXCEPT !.links = Moved(@, row.lesson, pos)]
    <2>2. cycles' = [cycles EXCEPT ![s][k] = c]
      BY <2>1
    <2>3. pos \in Nat
      <3>1. job[w].pc = "renumber"
        BY DEF Renumber, At
      <3>2. job[w].at \in Nat /\ Now(w)[3] \in Nat
        BY <3>1, NumberedHead DEF OpeningInv, OpeningFits, Numbered
      <3> QED
        BY <3>2
    <2> HIDE DEF s, k, pos
    <2>4. s \in Students /\ k \in DOMAIN cycles[s] =>
             /\ Sound(c) /\ (raced = {} => Fits(c))
             /\ c.limit = cycles[s][k].limit /\ SameLessons(c, cycles[s][k])
      <3> SUFFICES ASSUME s \in Students, k \in DOMAIN cycles[s]
                   PROVE  /\ Sound(c) /\ (raced = {} => Fits(c))
                          /\ c.limit = cycles[s][k].limit /\ SameLessons(c, cycles[s][k])
        OBVIOUS
      <3>1. Sound(cycles[s][k]) /\ (raced = {} => Fits(cycles[s][k]))
        BY DEF PackagesInv
      <3>2. c = [cycles[s][k] EXCEPT !.links = Moved(cycles[s][k].links, row.lesson, pos)]
        OBVIOUS
      <3> HIDE DEF c
      <3> DEFINE d == cycles[s][k]
      <3>4. Sound(d) /\ c = [d EXCEPT !.links = Moved(d.links, row.lesson, pos)]
        BY <3>1, <3>2
      <3>5. PlaceFree(d.links, row.lesson, pos)
        BY <2>1
      <3> HIDE DEF d
      <3>6. /\ Sound(c) /\ (Fits(d) => Fits(c))
            /\ c.limit = d.limit /\ SameLessons(c, d)
        BY <2>3, <3>4, <3>5, MovedSound
      <3>3. /\ Sound(c) /\ (Fits(cycles[s][k]) => Fits(c))
            /\ c.limit = cycles[s][k].limit /\ SameLessons(c, cycles[s][k])
        BY <3>6 DEF d
      <3> QED
        BY <3>1, <3>3
    <2> HIDE DEF c
    <2> QED
      BY <1>1, <2>2, <2>4, OnePackageSameLessons
  <1> QED
    BY <1>2, <1>3

(* The lesson of worker w has a link more, or no lesson has.               *)
Adds(w) ==
    \A t \in Students, l \in Lessons :
        Linked(t, l)' = IF t = Now(w) /\ l = Arg(w).lesson /\ cycles' # cycles
                        THEN Linked(t, l) \union ({job[w].at} \intersect DOMAIN cycles[t])
                        ELSE Linked(t, l)

(* A place is taken only if there is one, whatever was read before.        *)
LEMMA AddKeeps ==
    ASSUME BillingInv, NEW w \in Workers, AddToCycle(w)
    PROVE  PackagesInv' /\ LimitsKept /\ Adds(w)
  <1> USE DEF BillingInv, TypeInv
  <1>1. raced' = raced
    BY DEF AddToCycle, TryAgain, GiveUp, Steady, Aside
  <1>2. CASE cycles' = cycles
    BY <1>1, <1>2, NoPackage DEF Adds, LinkedKept
  <1>3. CASE cycles' # cycles
    <2> DEFINE s == Now(w)
               k == job[w].at
               d == cycles[s][k]
               pos == job[w].pos
               link == [lesson |-> Arg(w).lesson, pos |-> pos]
               links == d.links \union {link}
               c == [d EXCEPT !.links = links]
    <2>1. /\ MayAdd(d, pos) /\ pos \notin Positions(d) /\ k \notin Linked(s, Arg(w).lesson)
          /\ cycles' = [cycles EXCEPT ![s][k] = c]
      BY <1>3 DEF AddToCycle, TryAgain, GiveUp, data
    <2>2. Arg(w).lesson \in Lessons
      <3>1. job[w].pc = "add"
        BY DEF AddToCycle, At
      <3>2. job[w].m \in Mutations /\ job[w].m.op = "occurrence.complete"
        BY <3>1, Working DEF Charging
      <3> QED
        BY <3>2 DEF Mutations, Arg
    <2>3. ASSUME s \in Students, k \in DOMAIN cycles[s]
          PROVE  /\ Sound(c) /\ Fits(c) /\ c.limit = d.limit
                 /\ c.links = links
      <3>1. Sound(d)
        BY <2>3 DEF PackagesInv
      <3>2. /\ d.opening \in Nat /\ d.limit \in Nat /\ IsFiniteSet(d.links)
            /\ d.links \in SUBSET [lesson : Lessons, pos : Nat]
        BY <3>1 DEF Sound, PackageRow
      <3>10. \A x \in d.links : x.lesson # Arg(w).lesson
        BY <2>1, <2>3 DEF Linked
      <3> HIDE DEF s, k
      <3>3. /\ Cardinality(d.links) \in Nat /\ IsFiniteSet(links)
            /\ Cardinality(links) \in Nat /\ Cardinality(links) <= Cardinality(d.links) + 1
        <4> HIDE DEF d, link
        <4> QED
          BY <3>2, OneMore
      <3>4. pos \in Nat /\ pos = d.opening + Cardinality(d.links) + 1 /\ pos <= d.limit
        <4>1. pos = Used(d) + 1 /\ pos <= d.limit
          BY <2>1 DEF MayAdd
        <4> HIDE DEF pos, d
        <4> QED
          BY <3>2, <3>3, <4>1 DEF Used
      <3>5. /\ link \in [lesson : Lessons, pos : Nat] /\ link.pos = pos
            /\ link.lesson = Arg(w).lesson
        <4> HIDE DEF pos
        <4> QED
          BY <2>2, <3>4
      <3> HIDE DEF link, pos
      <3>6. /\ c \in PackageRow /\ c.links = links /\ c.limit = d.limit /\ c.opening = d.opening
        <4>1. links \in SUBSET [lesson : Lessons, pos : Nat]
          BY <3>2, <3>5
        <4> HIDE DEF links, d
        <4> QED
          BY <3>1, <4>1 DEF Sound, PackageRow
      <3>7. \A x, y \in links : x.pos = y.pos => x = y
        BY <2>1, <3>1, <3>5 DEF Positions, Sound
      <3>11. \A x, y \in links : x.lesson = y.lesson => x = y
        BY <3>1, <3>5, <3>10 DEF Sound
      <3> HIDE DEF c, links, d
      <3>8. Sound(c)
        BY <3>3, <3>6, <3>7, <3>11 DEF Sound
      <3>9. Fits(c)
        BY <3>2, <3>3, <3>4, <3>6 DEF Fits, Used
      <3> QED
        BY <3>6, <3>8, <3>9
    <2> HIDE DEF c
    <2>4. PackagesInv' /\ LimitsKept /\ Writes(s, k, c)
      <3>1. s \in Students /\ k \in DOMAIN cycles[s] =>
               Sound(c) /\ (raced = {} => Fits(c)) /\ c.limit = cycles[s][k].limit
        BY <2>3
      <3> HIDE DEF s, k
      <3> QED
        BY <1>1, <2>1, <3>1, OnePackage
    <2>5. ASSUME NEW t \in Students, NEW l \in Lessons
          PROVE  Linked(t, l)' = IF t = Now(w) /\ l = Arg(w).lesson /\ cycles' # cycles
                                 THEN Linked(t, l) \union ({job[w].at} \intersect DOMAIN cycles[t])
                                 ELSE Linked(t, l)
      <3>1. \A n \in DOMAIN cycles[t] :
               (\E x \in cycles'[t][n].links : x.lesson = l)
                  <=> \/ \E x \in cycles[t][n].links : x.lesson = l
                      \/ t = s /\ n = k /\ l = Arg(w).lesson
        <4> SUFFICES ASSUME NEW n \in DOMAIN cycles[t]
                     PROVE  (\E x \in cycles'[t][n].links : x.lesson = l)
                               <=> \/ \E x \in cycles[t][n].links : x.lesson = l
                                   \/ t = s /\ n = k /\ l = Arg(w).lesson
          OBVIOUS
        <4>1. CASE t = s /\ n = k
          <5>1. cycles'[t][n].links = cycles[t][n].links \union {link}
            BY <2>3, <2>4, <4>1 DEF Writes
          <5>2. link.lesson = Arg(w).lesson
            OBVIOUS
          <5> HIDE DEF s, k, link
          <5> QED
            BY <4>1, <5>1, <5>2
        <4>2. CASE ~ (t = s /\ n = k)
          BY <2>4, <4>2 DEF Writes
        <4> QED
          BY <4>1, <4>2
      <3>2. DOMAIN cycles'[t] = DOMAIN cycles[t]
        BY <2>4 DEF Writes
      <3> QED
        BY <1>3, <3>1, <3>2 DEF Linked
    <2> QED
      BY <2>4, <2>5 DEF Adds
  <1> QED
    BY <1>2, <1>3

(* A package begins with its opening progress and no lessons.              *)
LEMMA NewPackage ==
    ASSUME PackagesInv, raced' = raced, NEW s \in Students, NEW size \in Nat, NEW opening \in Nat,
           opening <= size,
           cycles' = [cycles EXCEPT ![s] = Append(cycles[s], NewCycle(size, opening))]
    PROVE  PackagesInv' /\ LimitsKept /\ LinkedKept
  <1> DEFINE c == NewCycle(size, opening)
  <1>1. c.links = {} /\ c.limit = size /\ c.opening = opening /\ c \in PackageRow
    BY DEF NewCycle, PackageRow
  <1> HIDE DEF c
  <1>2. Sound(c) /\ Fits(c)
    <2>1. IsFiniteSet({}) /\ Cardinality({}) = 0
      BY FS_EmptySet
    <2> QED
      BY <1>1, <2>1 DEF Sound, Fits, Used
  <1>3. \A t \in Students : cycles[t] \in Seq(PackageRow)
    BY DEF PackagesInv
  <1>4. /\ cycles'[s] \in Seq(PackageRow) /\ Len(cycles'[s]) = Len(cycles[s]) + 1
        /\ \A n \in DOMAIN cycles[s] : n \in DOMAIN cycles'[s] /\ cycles'[s][n] = cycles[s][n]
        /\ \A n \in DOMAIN cycles'[s] : n \in DOMAIN cycles[s] \/ cycles'[s][n] = c
    <2>1. cycles'[s] = Append(cycles[s], c)
      BY DEF PackagesInv, c
    <2> QED
      BY <1>1, <1>3, <2>1, AppendProperties
  <1>5. \A t \in Students : t # s => cycles'[t] = cycles[t]
    BY DEF PackagesInv
  <1>6. cycles' \in [Students -> Seq(PackageRow)]
    <2>1. DOMAIN cycles' = Students /\ cycles' = [t \in Students |-> cycles'[t]]
      BY DEF PackagesInv
    <2> QED
      BY <1>3, <1>4, <1>5, <2>1
  <1>7. \A t \in Students : \A n \in DOMAIN cycles'[t] :
           Sound(cycles'[t][n]) /\ (raced' = {} => Fits(cycles'[t][n]))
    <2> SUFFICES ASSUME NEW t \in Students, NEW n \in DOMAIN cycles'[t]
                 PROVE  Sound(cycles'[t][n]) /\ (raced = {} => Fits(cycles'[t][n]))
      OBVIOUS
    <2>1. \/ cycles'[t][n] = c
          \/ n \in DOMAIN cycles[t] /\ cycles'[t][n] = cycles[t][n]
      BY <1>4, <1>5
    <2> QED
      BY <1>2, <2>1 DEF PackagesInv
  <1>8. LimitsKept
    BY <1>4, <1>5 DEF LimitsKept
  <1>9. ASSUME NEW t \in Students, NEW l \in Lessons
        PROVE  Linked(t, l)' = Linked(t, l)
    BY <1>1, <1>4, <1>5 DEF Linked
  <1> QED
    BY <1>6, <1>7, <1>8, <1>9 DEF PackagesInv, LinkedKept

(* The first package of a student (FirstCycle).                            *)
LEMMA FirstKeeps ==
    ASSUME BillingInv, NEW w \in Workers, FirstCycle(w)
    PROVE  PackagesInv' /\ LimitsKept /\ LinkedKept
  <1> USE DEF BillingInv, TypeInv
  <1>1. job[w].pc = "first" /\ raced' = raced
    BY DEF FirstCycle, At, Steady, Aside
  <1>2. PICK m \in Mutations : m = job[w].m /\ m.op = "billing.configure"
    BY <1>1, Working
  <1>3. m.student \in Students /\ m.opening \in Nat /\ m.size \in Nat
    BY <1>2 DEF Mutations
  <1>4. m.opening <= m.size
    BY <1>1, <1>2 DEF OpeningInv, OpeningFits
  <1>5. CASE cycles[m.student] = << >>
    <2>1. cycles' = [cycles EXCEPT ![m.student] = <<NewCycle(m.size, m.opening)>>]
      BY <1>2, <1>5 DEF FirstCycle, Arg
    <2>2. <<NewCycle(m.size, m.opening)>> = Append(cycles[m.student], NewCycle(m.size, m.opening))
      BY <1>5
    <2> QED
      BY <1>1, <1>3, <1>4, <2>1, <2>2, NewPackage
  <1>6. CASE cycles[m.student] # << >>
    <2>1. cycles' = cycles
      BY <1>2, <1>6 DEF FirstCycle, Arg
    <2> QED
      BY <1>1, <2>1, NoPackage
  <1> QED
    BY <1>5, <1>6

(* The next package of a student (CreateCycle).                            *)
LEMMA CreateKeeps ==
    ASSUME BillingInv, NEW w \in Workers, CreateCycle(w)
    PROVE  PackagesInv' /\ LimitsKept /\ LinkedKept
  <1> USE DEF BillingInv, TypeInv
  <1>1. raced' = raced
    BY DEF CreateCycle, Steady, Aside
  <1>2. CASE cycles' = cycles
    BY <1>1, <1>2, NoPackage
  <1>3. CASE cycles' # cycles
    <2>1. cycles' = [cycles EXCEPT ![Now(w)] = Append(cycles[Now(w)], NewCycle(plan[Now(w)].size, 0))]
      BY <1>3 DEF CreateCycle
    <2>2. Now(w) \in Students
      BY <1>3, <2>1 DEF PackagesInv
    <2>3. plan[Now(w)].size \in Nat
      BY <2>2 DEF TablesInv
    <2>4. 0 <= plan[Now(w)].size /\ 0 \in Nat
      BY <2>3
    <2> QED
      BY <1>1, <2>1, <2>2, <2>3, <2>4, NewPackage
  <1> QED
    BY <1>2, <1>3

(* A step that writes packages, and removes none.                          *)
LEMMA AllPackages ==
    ASSUME PackagesInv, raced' = raced, NEW f,
           cycles' = [s \in Students |-> [k \in DOMAIN cycles[s] |-> f[s][k]]],
           \A s \in Students : \A k \in DOMAIN cycles[s] :
               /\ Sound(f[s][k]) /\ (Fits(cycles[s][k]) => Fits(f[s][k]))
               /\ f[s][k].limit = cycles[s][k].limit
    PROVE  /\ PackagesInv' /\ LimitsKept
           /\ \A s \in Students : DOMAIN cycles'[s] = DOMAIN cycles[s]
           /\ \A s \in Students : \A k \in DOMAIN cycles[s] : cycles'[s][k] = f[s][k]
  <1>1. \A s \in Students :
           /\ DOMAIN cycles'[s] = DOMAIN cycles[s]
           /\ \A k \in DOMAIN cycles[s] : cycles'[s][k] = f[s][k]
    OBVIOUS
  <1>2. \A s \in Students : cycles'[s] \in Seq(PackageRow)
    <2> SUFFICES ASSUME NEW s \in Students
                 PROVE  cycles'[s] \in Seq(PackageRow)
      OBVIOUS
    <2>1. cycles[s] \in Seq(PackageRow)
      BY DEF PackagesInv
    <2>2. DOMAIN cycles[s] = 1 .. Len(cycles[s]) /\ Len(cycles[s]) \in Nat
      BY <2>1
    <2>3. cycles'[s] = [k \in 1 .. Len(cycles[s]) |-> f[s][k]]
      BY <2>2
    <2>4. \A k \in 1 .. Len(cycles[s]) : f[s][k] \in PackageRow
      BY <2>2 DEF Sound
    <2> QED
      BY <2>2, <2>3, <2>4
  <1>3. cycles' \in [Students -> Seq(PackageRow)]
    BY <1>2
  <1>4. \A s \in Students : \A k \in DOMAIN cycles'[s] :
           Sound(cycles'[s][k]) /\ (raced' = {} => Fits(cycles'[s][k]))
    BY <1>1 DEF PackagesInv
  <1> QED
    BY <1>1, <1>3, <1>4 DEF PackagesInv, LimitsKept

(* The hook sets statuses only (NormalizeCycles).                          *)
LEMMA NormalizeKeeps ==
    ASSUME BillingInv, NEW w \in Workers, NormalizeCycles(w)
    PROVE  PackagesInv' /\ LimitsKept /\ LinkedKept
  <1> USE DEF BillingInv, TypeInv
  <1> DEFINE f == [s \in Students |-> [k \in DOMAIN cycles[s] |->
                      IF s = Now(w) THEN Normalized(cycles[s][k]) ELSE cycles[s][k]]]
  <1>1. \A c : c \in PackageRow => /\ Normalized(c) \in PackageRow /\ Normalized(c).links = c.links
                                   /\ Normalized(c).limit = c.limit /\ Normalized(c).opening = c.opening
    <2> SUFFICES ASSUME NEW c \in PackageRow
                 PROVE  /\ Normalized(c) \in PackageRow /\ Normalized(c).links = c.links
                        /\ Normalized(c).limit = c.limit /\ Normalized(c).opening = c.opening
      OBVIOUS
    <2>1. CASE Full(c)
      <3>1. Normalized(c) = [c EXCEPT !.status = "due"]
        BY <2>1 DEF Normalized
      <3> QED
        BY <3>1 DEF PackageRow
    <2>2. CASE ~ Full(c)
      <3>1. Normalized(c) = [c EXCEPT !.status = "open"]
        BY <2>2 DEF Normalized
      <3> QED
        BY <3>1 DEF PackageRow
    <2> QED
      BY <2>1, <2>2
  <1>2. ASSUME NEW s \in Students, NEW k \in DOMAIN cycles[s]
        PROVE  /\ Sound(f[s][k]) /\ (Fits(cycles[s][k]) => Fits(f[s][k]))
               /\ f[s][k].limit = cycles[s][k].limit /\ f[s][k].links = cycles[s][k].links
    <2>1. Sound(cycles[s][k]) /\ cycles[s][k] \in PackageRow
      BY DEF PackagesInv, Sound
    <2>2. f[s][k] = cycles[s][k] \/ f[s][k] = Normalized(cycles[s][k])
      OBVIOUS
    <2>3. /\ f[s][k] \in PackageRow /\ f[s][k].links = cycles[s][k].links
          /\ f[s][k].limit = cycles[s][k].limit /\ f[s][k].opening = cycles[s][k].opening
      BY <1>1, <2>1, <2>2
    <2> HIDE DEF f
    <2> QED
      BY <2>1, <2>3, SameLinks
  <1>3. raced' = raced /\ cycles' = [s \in Students |-> [k \in DOMAIN cycles[s] |-> f[s][k]]]
    <2>1. cycles' = [cycles EXCEPT ![Now(w)] =
                        [k \in DOMAIN cycles[Now(w)] |-> Normalized(cycles[Now(w)][k])]]
      BY DEF NormalizeCycles
    <2>2. \A s \in Students : cycles'[s] = [k \in DOMAIN cycles[s] |-> f[s][k]]
      <3> SUFFICES ASSUME NEW s \in Students
                   PROVE  cycles'[s] = [k \in DOMAIN cycles[s] |-> f[s][k]]
        OBVIOUS
      <3>1. CASE s = Now(w)
        BY <2>1, <3>1 DEF PackagesInv
      <3>2. CASE s # Now(w)
        <4>1. cycles'[s] = cycles[s] /\ cycles[s] = [k \in DOMAIN cycles[s] |-> cycles[s][k]]
          BY <2>1, <3>2 DEF PackagesInv
        <4> QED
          BY <3>2, <4>1
      <3> QED
        BY <3>1, <3>2
    <2>3. DOMAIN cycles' = Students /\ cycles' = [s \in Students |-> cycles'[s]]
      BY <2>1 DEF PackagesInv
    <2>4. raced' = raced
      BY DEF NormalizeCycles, Steady, Aside
    <2> QED
      BY <2>2, <2>3, <2>4
  <1> HIDE DEF f
  <1>4. /\ PackagesInv' /\ LimitsKept
        /\ \A s \in Students : DOMAIN cycles'[s] = DOMAIN cycles[s]
        /\ \A s \in Students : \A k \in DOMAIN cycles[s] : cycles'[s][k] = f[s][k]
    BY <1>2, <1>3, AllPackages
  <1>5. ASSUME NEW s \in Students, NEW l \in Lessons
        PROVE  Linked(s, l)' = Linked(s, l)
    BY <1>2, <1>4 DEF Linked
  <1> QED
    BY <1>4, <1>5 DEF LinkedKept

(* The lesson of worker w has no links left, the others keep theirs.       *)
Unlinks(w) ==
    \A s \in Students, l \in Lessons :
        Linked(s, l)' = IF l = Arg(w).lesson THEN {} ELSE Linked(s, l)

(* The packages without the links of a lesson (Unlink).                    *)
LEMMA UnlinkKeeps ==
    ASSUME BillingInv, NEW w \in Workers, Unlink(w)
    PROVE  PackagesInv' /\ LimitsKept /\ Unlinks(w)
  <1> USE DEF BillingInv, TypeInv
  <1> DEFINE lost == Arg(w).lesson
             f == [s \in Students |-> [k \in DOMAIN cycles[s] |-> WithoutLesson(cycles[s][k], lost)]]
  <1>1. ASSUME NEW s \in Students, NEW k \in DOMAIN cycles[s]
        PROVE  /\ Sound(f[s][k]) /\ (Fits(cycles[s][k]) => Fits(f[s][k]))
               /\ f[s][k].limit = cycles[s][k].limit
               /\ f[s][k].links = {x \in cycles[s][k].links : x.lesson # lost}
    <2> DEFINE d == cycles[s][k]
               links == {x \in d.links : x.lesson # lost}
    <2>1. Sound(d) /\ d \in PackageRow
      BY DEF PackagesInv, Sound
    <2>2. f[s][k] = [d EXCEPT !.links = links]
      BY DEF WithoutLesson
    <2> HIDE DEF f, d
    <2>3. links \in SUBSET d.links
      OBVIOUS
    <2>4. d.links \in SUBSET [lesson : Lessons, pos : Nat]
      BY <2>1 DEF PackageRow
    <2>5. links \in SUBSET [lesson : Lessons, pos : Nat]
      BY <2>3, <2>4
    <2>6. IsFiniteSet(links) /\ Cardinality(links) <= Cardinality(d.links)
      BY <2>1, <2>3, FS_Subset DEF Sound
    <2> HIDE DEF links
    <2>7. /\ f[s][k] \in PackageRow /\ f[s][k].links = links
          /\ f[s][k].limit = d.limit /\ f[s][k].opening = d.opening
      BY <2>1, <2>2, <2>5 DEF PackageRow
    <2>8. Sound(f[s][k])
      BY <2>1, <2>3, <2>6, <2>7 DEF Sound
    <2>9. Fits(d) => Fits(f[s][k])
      <3>1. d.opening \in Nat /\ d.limit \in Nat
        BY <2>1 DEF PackageRow
      <3>2. Cardinality(d.links) \in Nat /\ Cardinality(links) \in Nat
        BY <2>1, <2>6, FS_CardinalityType DEF Sound
      <3> QED
        BY <2>6, <2>7, <3>1, <3>2 DEF Fits, Used
    <2> QED
      BY <2>7, <2>8, <2>9 DEF d, links
  <1>2. raced' = raced /\ cycles' = [s \in Students |-> [k \in DOMAIN cycles[s] |-> f[s][k]]]
    BY DEF Unlink, Aside
  <1> HIDE DEF f
  <1>3. /\ PackagesInv' /\ LimitsKept
        /\ \A s \in Students : DOMAIN cycles'[s] = DOMAIN cycles[s]
        /\ \A s \in Students : \A k \in DOMAIN cycles[s] : cycles'[s][k] = f[s][k]
    BY <1>1, <1>2, AllPackages
  <1>4. ASSUME NEW s \in Students, NEW l \in Lessons
        PROVE  Linked(s, l)' = IF l = lost THEN {} ELSE Linked(s, l)
    BY <1>1, <1>3 DEF Linked
  <1> QED
    BY <1>3, <1>4 DEF Unlinks

-----------------------------------------------------------------------------
(* Jobs and tables keep their form                                         *)

(* A worker that moves keeps to the places of its mutation.                *)
LEMMA MoveKeeps ==
    ASSUME JobInv, NEW w \in Workers, NEW from, NEW to, Moves(w, from, to), "idle" \notin from,
           job'[w] # Idle => Serves(job'[w].pc, job[w].m)
    PROVE  /\ JobInv' /\ job[w].pc # "idle" /\ DOMAIN job' = Workers
           /\ \A v \in Workers : v # w => job'[v] = job[v]
           /\ job'[w] = Idle \/ job'[w].m = job[w].m
  <1>1. job[w].m \in Mutations /\ DOMAIN job = Workers
    <2>1. job[w].pc # "idle"
      BY DEF Moves
    <2> QED
      BY <2>1, Working
  <1>2. JobWellFormed(job'[w])
    BY <1>1 DEF Moves, JobWellFormed
  <1>3. \A v \in Workers : v # w => JobWellFormed(job'[v])
    BY DEF Moves, JobInv
  <1>4. DOMAIN job' = Workers
    BY DEF Moves
  <1> QED
    BY <1>2, <1>3, <1>4 DEF JobInv, Moves

(* A worker at its work moves, and the others do not.                      *)
LEMMA WorkMoves ==
    ASSUME JobInv, NEW w \in Workers, Work(w)
    PROVE  /\ JobInv' /\ job[w].pc # "idle" /\ DOMAIN job' = Workers
           /\ \A v \in Workers : v # w => job'[v] = job[v]
           /\ job'[w] = Idle \/ job'[w].m = job[w].m
  <1>1. job[w].pc # "idle" =>
           /\ job[w].pc \in Charging \union {"look", "attend"} => job[w].m.op = "occurrence.complete"
           /\ job[w].pc \in Reopening => job[w].m.op = "occurrence.reopen"
           /\ job[w].pc \in {"opening", "plan", "first"} => job[w].m.op = "billing.configure"
    BY Working
  <1>2. CASE Cancel(w)
    <2>1. Moves(w, {"begin"}, {"hook"})
      BY <1>2, PlainMoves
    <2>2. job'[w] # Idle => Serves(job'[w].pc, job[w].m)
      BY <1>1, <2>1 DEF Moves, Serves, Charging, Reopening
    <2> QED
      BY <2>1, <2>2, MoveKeeps
  <1>3. CASE Restore(w)
    <2>1. Moves(w, {"begin"}, {"hook"})
      BY <1>3, PlainMoves
    <2>2. job'[w] # Idle => Serves(job'[w].pc, job[w].m)
      BY <1>1, <2>1 DEF Moves, Serves, Charging, Reopening
    <2> QED
      BY <2>1, <2>2, MoveKeeps
  <1>4. CASE Reschedule(w)
    <2>1. Moves(w, {"begin"}, {"hook"})
      BY <1>4, PlainMoves
    <2>2. job'[w] # Idle => Serves(job'[w].pc, job[w].m)
      BY <1>1, <2>1 DEF Moves, Serves, Charging, Reopening
    <2> QED
      BY <2>1, <2>2, MoveKeeps
  <1>5. CASE ArchiveStudent(w)
    <2>1. Moves(w, {"begin"}, {"hook"})
      BY <1>5, PlainMoves
    <2>2. job'[w] # Idle => Serves(job'[w].pc, job[w].m)
      BY <1>1, <2>1 DEF Moves, Serves, Charging, Reopening
    <2> QED
      BY <2>1, <2>2, MoveKeeps
  <1>6. CASE RestoreStudent(w)
    <2>1. Moves(w, {"begin"}, {"hook"})
      BY <1>6, PlainMoves
    <2>2. job'[w] # Idle => Serves(job'[w].pc, job[w].m)
      BY <1>1, <2>1 DEF Moves, Serves, Charging, Reopening
    <2> QED
      BY <2>1, <2>2, MoveKeeps
  <1>7. CASE ArchiveSession(w)
    <2>1. Moves(w, {"begin"}, {"hook"})
      BY <1>7, PlainMoves
    <2>2. job'[w] # Idle => Serves(job'[w].pc, job[w].m)
      BY <1>1, <2>1 DEF Moves, Serves, Charging, Reopening
    <2> QED
      BY <2>1, <2>2, MoveKeeps
  <1>8. CASE RestoreSession(w)
    <2>1. Moves(w, {"begin"}, {"hook"})
      BY <1>8, PlainMoves
    <2>2. job'[w] # Idle => Serves(job'[w].pc, job[w].m)
      BY <1>1, <2>1 DEF Moves, Serves, Charging, Reopening
    <2> QED
      BY <2>1, <2>2, MoveKeeps
  <1>9. CASE UpdateDetails(w)
    <2>1. Moves(w, {"begin"}, {"hook"})
      BY <1>9, PlainMoves
    <2>2. job'[w] # Idle => Serves(job'[w].pc, job[w].m)
      BY <1>1, <2>1 DEF Moves, Serves, Charging, Reopening
    <2> QED
      BY <2>1, <2>2, MoveKeeps
  <1>10. CASE BeginConfigure(w)
    <2>1. Moves(w, {"begin"}, {"opening", "plan"})
      BY <1>10, ConfigureMoves
    <2>2. job'[w] # Idle => Serves(job'[w].pc, job[w].m)
      BY <1>1, <1>10, ConfigureMoves, <2>1 DEF Moves, Serves, Charging, Reopening, Arg
    <2> QED
      BY <2>1, <2>2, MoveKeeps
  <1>11. CASE SetOpening(w)
    <2>1. Moves(w, {"opening"}, {"plan"})
      BY <1>11, ConfigureMoves
    <2>2. job'[w] # Idle => Serves(job'[w].pc, job[w].m)
      BY <1>1, <2>1 DEF Moves, Serves, Charging, Reopening
    <2> QED
      BY <2>1, <2>2, MoveKeeps
  <1>12. CASE UpsertPlan(w)
    <2>1. Moves(w, {"plan"}, {"first", "family"})
      BY <1>12, ConfigureMoves
    <2>2. job'[w] # Idle => Serves(job'[w].pc, job[w].m)
      BY <1>1, <2>1 DEF Moves, Serves, Charging, Reopening
    <2> QED
      BY <2>1, <2>2, MoveKeeps
  <1>13. CASE FirstCycle(w)
    <2>1. Moves(w, {"first"}, {"family"})
      BY <1>13, ConfigureMoves
    <2>2. job'[w] # Idle => Serves(job'[w].pc, job[w].m)
      BY <1>1, <2>1 DEF Moves, Serves, Charging, Reopening
    <2> QED
      BY <2>1, <2>2, MoveKeeps
  <1>14. CASE BeginComplete(w)
    <2>1. Moves(w, {"begin"}, {"look"})
      BY <1>14, CompletionMoves
    <2>2. job'[w] # Idle => Serves(job'[w].pc, job[w].m)
      BY <1>1, <1>14, CompletionMoves, <2>1 DEF Moves, Serves, Charging, Reopening, Arg
    <2> QED
      BY <2>1, <2>2, MoveKeeps
  <1>15. CASE Look(w)
    <2>1. Moves(w, {"look"}, {"attend", "affected", "link"})
      BY <1>15, CompletionMoves
    <2>2. job'[w] # Idle => Serves(job'[w].pc, job[w].m)
      BY <1>1, <2>1 DEF Moves, Serves, Charging, Reopening
    <2> QED
      BY <2>1, <2>2, MoveKeeps
  <1>16. CASE Attend(w)
    <2>1. Moves(w, {"attend"}, {"affected", "link"})
      BY <1>16, CompletionMoves
    <2>2. job'[w] # Idle => Serves(job'[w].pc, job[w].m)
      BY <1>1, <2>1 DEF Moves, Serves, Charging, Reopening
    <2> QED
      BY <2>1, <2>2, MoveKeeps
  <1>17. CASE FindAffected(w)
    <2>1. Moves(w, {"affected"}, {"family"})
      BY <1>17, CompletionMoves
    <2>2. job'[w] # Idle => Serves(job'[w].pc, job[w].m)
      BY <1>1, <2>1 DEF Moves, Serves, Charging, Reopening
    <2> QED
      BY <2>1, <2>2, MoveKeeps
  <1>18. CASE FindLink(w)
    <2>1. Moves(w, {"link"}, {"open", "due", "affected", "link"})
      BY <1>18, ChargeMoves
    <2>2. job'[w] # Idle => Serves(job'[w].pc, job[w].m)
      BY <1>1, <2>1 DEF Moves, Serves, Charging, Reopening
    <2> QED
      BY <2>1, <2>2, MoveKeeps
  <1>19. CASE FindOpenCycle(w)
    <2>1. Moves(w, {"open", "reread"}, {"create", "add", "link"})
      BY <1>19, ChargeMoves
    <2>2. job'[w] # Idle => Serves(job'[w].pc, job[w].m)
      BY <1>1, <2>1 DEF Moves, Serves, Charging, Reopening
    <2> QED
      BY <2>1, <2>2, MoveKeeps
  <1>20. CASE CreateCycle(w)
    <2>1. Moves(w, {"create"}, {"reread"})
      BY <1>20, ChargeMoves
    <2>2. job'[w] # Idle => Serves(job'[w].pc, job[w].m)
      BY <1>1, <2>1 DEF Moves, Serves, Charging, Reopening
    <2> QED
      BY <2>1, <2>2, MoveKeeps
  <1>21. CASE AddToCycle(w)
    <2>1. Moves(w, {"add"}, {"due", "affected", "link", "lock"})
      BY <1>21, ChargeMoves
    <2>2. job'[w] # Idle => Serves(job'[w].pc, job[w].m)
      BY <1>1, <2>1 DEF Moves, Serves, Charging, Reopening
    <2> QED
      BY <2>1, <2>2, MoveKeeps
  <1>22. CASE LockOpening(w)
    <2>1. Moves(w, {"lock"}, {"due", "affected", "link"})
      BY <1>22, ChargeMoves
    <2>2. job'[w] # Idle => Serves(job'[w].pc, job[w].m)
      BY <1>1, <2>1 DEF Moves, Serves, Charging, Reopening
    <2> QED
      BY <2>1, <2>2, MoveKeeps
  <1>23. CASE MarkCycleDue(w)
    <2>1. Moves(w, {"due"}, {"affected", "link"})
      BY <1>23, ChargeMoves
    <2>2. job'[w] # Idle => Serves(job'[w].pc, job[w].m)
      BY <1>1, <2>1 DEF Moves, Serves, Charging, Reopening
    <2> QED
      BY <2>1, <2>2, MoveKeeps
  <1>24. CASE BeginReopen(w)
    <2>1. Moves(w, {"begin"}, {"unlink", "hook"})
      BY <1>24, ReopenMoves
    <2>2. job'[w] # Idle => Serves(job'[w].pc, job[w].m)
      BY <1>1, <1>24, ReopenMoves, <2>1 DEF Moves, Serves, Charging, Reopening, Arg
    <2> QED
      BY <2>1, <2>2, MoveKeeps
  <1>25. CASE Unlink(w)
    <2>1. Moves(w, {"unlink"}, {"unattend", "shift"})
      BY <1>25, ReopenMoves
    <2>2. job'[w] # Idle => Serves(job'[w].pc, job[w].m)
      BY <1>1, <2>1 DEF Moves, Serves, Charging, Reopening
    <2> QED
      BY <2>1, <2>2, MoveKeeps
  <1>36. CASE ReadPlaces(w)
    <2>1. Moves(w, {"places"}, {"renumber"})
      BY <1>36, ReopenMoves
    <2>2. job'[w] # Idle => Serves(job'[w].pc, job[w].m)
      BY <1>1, <2>1 DEF Moves, Serves, Charging, Reopening
    <2> QED
      BY <2>1, <2>2, MoveKeeps
  <1>26. CASE ShiftPositions(w)
    <2>1. Moves(w, {"shift"}, {"places"})
      BY <1>26, ReopenMoves
    <2>2. job'[w] # Idle => Serves(job'[w].pc, job[w].m)
      BY <1>1, <2>1 DEF Moves, Serves, Charging, Reopening
    <2> QED
      BY <2>1, <2>2, MoveKeeps
  <1>27. CASE Renumber(w)
    <2>1. Moves(w, {"renumber"}, {"settle", "renumber"})
      BY <1>27, ReopenMoves
    <2>2. job'[w] # Idle => Serves(job'[w].pc, job[w].m)
      BY <1>1, <2>1 DEF Moves, Serves, Charging, Reopening
    <2> QED
      BY <2>1, <2>2, MoveKeeps
  <1>28. CASE SettleCycle(w)
    <2>1. Moves(w, {"settle"}, {"unattend", "shift"})
      BY <1>28, ReopenMoves
    <2>2. job'[w] # Idle => Serves(job'[w].pc, job[w].m)
      BY <1>1, <2>1 DEF Moves, Serves, Charging, Reopening
    <2> QED
      BY <2>1, <2>2, MoveKeeps
  <1>29. CASE Unattend(w)
    <2>1. Moves(w, {"unattend"}, {"family"})
      BY <1>29, ReopenMoves
    <2>2. job'[w] # Idle => Serves(job'[w].pc, job[w].m)
      BY <1>1, <2>1 DEF Moves, Serves, Charging, Reopening
    <2> QED
      BY <2>1, <2>2, MoveKeeps
  <1>30. CASE ReadFamily(w)
    <2>1. Moves(w, {"family"}, {"hook", "account"})
      BY <1>30, FamilyMoves
    <2>2. job'[w] # Idle => Serves(job'[w].pc, job[w].m)
      BY <1>1, <2>1 DEF Moves, Serves, Charging, Reopening
    <2> QED
      BY <2>1, <2>2, MoveKeeps
  <1>31. CASE InsertFamilyCycle(w)
    <2>1. Moves(w, {"account"}, {"settleFamily"})
      BY <1>31, FamilyMoves
    <2>2. job'[w] # Idle => Serves(job'[w].pc, job[w].m)
      BY <1>1, <2>1 DEF Moves, Serves, Charging, Reopening
    <2> QED
      BY <2>1, <2>2, MoveKeeps
  <1>32. CASE SettleFamilyCycle(w)
    <2>1. Moves(w, {"settleFamily"}, {"hook", "account"})
      BY <1>32, FamilyMoves
    <2>2. job'[w] # Idle => Serves(job'[w].pc, job[w].m)
      BY <1>1, <2>1 DEF Moves, Serves, Charging, Reopening
    <2> QED
      BY <2>1, <2>2, MoveKeeps
  <1>33. CASE BeginHook(w)
    <2>1. Moves(w, {"hook"}, {"normalize"})
      BY <1>33, FamilyMoves
    <2>2. job'[w] # Idle => Serves(job'[w].pc, job[w].m)
      BY <1>1, <2>1 DEF Moves, Serves, Charging, Reopening
    <2> QED
      BY <2>1, <2>2, MoveKeeps
  <1>34. CASE NormalizeCycles(w)
    <2>1. Moves(w, {"normalize"}, {"normalize", "done"})
      BY <1>34, FamilyMoves
    <2>2. job'[w] # Idle => Serves(job'[w].pc, job[w].m)
      BY <1>1, <2>1 DEF Moves, Serves, Charging, Reopening
    <2> QED
      BY <2>1, <2>2, MoveKeeps
  <1>35. CASE Answer(w)
    <2>1. Moves(w, {"done"}, {})
      BY <1>35, FamilyMoves
    <2>2. job'[w] # Idle => Serves(job'[w].pc, job[w].m)
      BY <1>1, <2>1 DEF Moves, Serves, Charging, Reopening
    <2> QED
      BY <2>1, <2>2, MoveKeeps
  <1> QED
    BY <1>2, <1>3, <1>4, <1>5, <1>6, <1>7, <1>8, <1>9, <1>10, <1>11, <1>12, <1>13, <1>14, <1>15,
       <1>16, <1>17, <1>18, <1>19, <1>20, <1>21, <1>22, <1>23, <1>24, <1>25, <1>26, <1>27, <1>28,
       <1>29, <1>30, <1>31, <1>32, <1>33, <1>34, <1>35, <1>36 DEF Work

(* Which tables a worker may change at a step.                             *)
LEMMA WorkKeeps ==
    ASSUME NEW w \in Workers, Work(w)
    PROVE  /\ setup' = setup /\ raced' = raced
           /\ pending' = pending \/ pending' = PendingWithout(Arg(w))
           /\ plan' = plan \/ UpsertPlan(w)
           /\ \/ lesson' = lesson
              \/ Cancel(w) \/ Restore(w) \/ Reschedule(w)
              \/ BeginComplete(w) \/ Attend(w) \/ Unattend(w)
           /\ \/ cycles' = cycles
              \/ SetOpening(w) \/ FirstCycle(w) \/ CreateCycle(w) \/ AddToCycle(w)
              \/ LockOpening(w) \/ MarkCycleDue(w) \/ Unlink(w) \/ ShiftPositions(w)
              \/ Renumber(w) \/ SettleCycle(w) \/ NormalizeCycles(w)
  <1> DEFINE Kept == /\ setup' = setup /\ raced' = raced
                     /\ pending' = pending \/ pending' = PendingWithout(Arg(w))
  <1>1. Cancel(w) => Kept /\ plan' = plan /\ cycles' = cycles
    BY DEF Cancel, Refuse, SetStatus, Aside, Steady, data
  <1>2. Restore(w) => Kept /\ plan' = plan /\ cycles' = cycles
    BY DEF Restore, Refuse, SetStatus, Aside, Steady, data
  <1>3. Reschedule(w) => Kept /\ plan' = plan /\ cycles' = cycles
    BY DEF Reschedule, Refuse, Aside, Steady, data
  <1>4. ArchiveStudent(w) => Kept /\ plan' = plan /\ lesson' = lesson /\ cycles' = cycles
    BY DEF ArchiveStudent, SetSession, Aside, Steady, data
  <1>5. RestoreStudent(w) => Kept /\ plan' = plan /\ lesson' = lesson /\ cycles' = cycles
    BY DEF RestoreStudent, Aside, Steady, data
  <1>6. ArchiveSession(w) => Kept /\ plan' = plan /\ lesson' = lesson /\ cycles' = cycles
    BY DEF ArchiveSession, SetSession, Aside, Steady, data
  <1>7. RestoreSession(w) => Kept /\ plan' = plan /\ lesson' = lesson /\ cycles' = cycles
    BY DEF RestoreSession, SetSession, Aside, Steady, data
  <1>8. UpdateDetails(w) => Kept /\ plan' = plan /\ lesson' = lesson /\ cycles' = cycles
    BY DEF UpdateDetails, Refuse, SetSession, Aside, Steady, data
  <1>9. BeginConfigure(w) => Kept /\ plan' = plan /\ lesson' = lesson /\ cycles' = cycles
    BY DEF BeginConfigure, Refuse, Aside, Steady, data
  <1>10. SetOpening(w) => Kept /\ plan' = plan /\ lesson' = lesson
    BY DEF SetOpening, Refuse, Aside, NotTorn, data
  <1>11. UpsertPlan(w) => Kept /\ lesson' = lesson /\ cycles' = cycles
    BY DEF UpsertPlan, Aside, Steady, data
  <1>12. FirstCycle(w) => Kept /\ plan' = plan /\ lesson' = lesson
    BY DEF FirstCycle, Aside, Steady, data
  <1>13. BeginComplete(w) => Kept /\ plan' = plan /\ cycles' = cycles
    BY DEF BeginComplete, Refuse, Aside, Steady, data
  <1>14. Look(w) => Kept /\ plan' = plan /\ lesson' = lesson /\ cycles' = cycles
    BY DEF Look, Refuse, Aside, Steady, data
  <1>15. Attend(w) => Kept /\ plan' = plan /\ cycles' = cycles
    BY DEF Attend, Aside, Steady, data
  <1>16. FindAffected(w) => Kept /\ plan' = plan /\ lesson' = lesson /\ cycles' = cycles
    BY DEF FindAffected, Aside, Steady, data
  <1>17. FindLink(w) => Kept /\ plan' = plan /\ lesson' = lesson /\ cycles' = cycles
    BY DEF FindLink, Aside, Steady, data
  <1>18. FindOpenCycle(w) => Kept /\ plan' = plan /\ lesson' = lesson /\ cycles' = cycles
    BY DEF FindOpenCycle, TryAgain, GiveUp, Aside, Steady, data
  <1>19. CreateCycle(w) => Kept /\ plan' = plan /\ lesson' = lesson
    BY DEF CreateCycle, Aside, Steady, data
  <1>20. AddToCycle(w) => Kept /\ plan' = plan /\ lesson' = lesson
    BY DEF AddToCycle, TryAgain, GiveUp, Aside, Steady, data
  <1>21. LockOpening(w) => Kept /\ plan' = plan /\ lesson' = lesson
    BY DEF LockOpening, Aside, Steady, data
  <1>22. MarkCycleDue(w) => Kept /\ plan' = plan /\ lesson' = lesson
    BY DEF MarkCycleDue, Aside, Steady, data
  <1>23. BeginReopen(w) => Kept /\ plan' = plan /\ lesson' = lesson /\ cycles' = cycles
    BY DEF BeginReopen, Refuse, Aside, Steady, data
  <1>24. Unlink(w) => Kept /\ plan' = plan /\ lesson' = lesson
    BY DEF Unlink, Aside, Steady, data
  <1>25. ShiftPositions(w) => Kept /\ plan' = plan /\ lesson' = lesson
    BY DEF ShiftPositions, GiveUp, NotTorn, data
  <1>39. ReadPlaces(w) => Kept /\ plan' = plan /\ lesson' = lesson /\ cycles' = cycles
    BY DEF ReadPlaces, NotTorn, data
  <1>26. Renumber(w) => Kept /\ plan' = plan /\ lesson' = lesson
    BY DEF Renumber, GiveUp, Aside, Steady, data
  <1>27. SettleCycle(w) => Kept /\ plan' = plan /\ lesson' = lesson
    BY DEF SettleCycle, Aside, Steady, data
  <1>28. Unattend(w) => Kept /\ plan' = plan /\ cycles' = cycles
    BY DEF Unattend, Aside, Steady, data
  <1>29. ReadFamily(w) => Kept /\ plan' = plan /\ lesson' = lesson /\ cycles' = cycles
    BY DEF ReadFamily, Aside, Steady, data
  <1>30. InsertFamilyCycle(w) => Kept /\ plan' = plan /\ lesson' = lesson /\ cycles' = cycles
    BY DEF InsertFamilyCycle, GiveUp, Aside, Steady, data
  <1>31. SettleFamilyCycle(w) => Kept /\ plan' = plan /\ lesson' = lesson /\ cycles' = cycles
    BY DEF SettleFamilyCycle, Aside, Steady, data
  <1>32. BeginHook(w) => Kept /\ plan' = plan /\ lesson' = lesson /\ cycles' = cycles
    BY DEF BeginHook, Aside, Steady, data
  <1>33. NormalizeCycles(w) => Kept /\ plan' = plan /\ lesson' = lesson
    BY DEF NormalizeCycles, Aside, Steady, data
  <1>34. Answer(w) => Kept /\ plan' = plan /\ lesson' = lesson /\ cycles' = cycles
    BY DEF Answer, Aside, Steady, data
  <1> HIDE DEF Kept
  <1>35. Kept
    BY <1>1, <1>2, <1>3, <1>4, <1>5, <1>6, <1>7, <1>8, <1>9, <1>10, <1>11, <1>12, <1>13, <1>14,
       <1>15, <1>16, <1>17, <1>18, <1>19, <1>20, <1>21, <1>22, <1>23, <1>24, <1>25, <1>26,
       <1>27, <1>28, <1>29, <1>30, <1>31, <1>32, <1>33, <1>34, <1>39 DEF Work
  <1>36. plan' = plan \/ UpsertPlan(w)
    BY <1>1, <1>2, <1>3, <1>4, <1>5, <1>6, <1>7, <1>8, <1>9, <1>10, <1>12, <1>13, <1>14, <1>15,
       <1>16, <1>17, <1>18, <1>19, <1>20, <1>21, <1>22, <1>23, <1>24, <1>25, <1>26, <1>27,
       <1>28, <1>29, <1>30, <1>31, <1>32, <1>33, <1>34, <1>39 DEF Work
  <1>37. lesson' = lesson \/ Cancel(w) \/ Restore(w) \/ Reschedule(w) \/ BeginComplete(w) \/
     Attend(w) \/ Unattend(w)
    BY <1>4, <1>5, <1>6, <1>7, <1>8, <1>9, <1>10, <1>11, <1>12, <1>14, <1>16, <1>17, <1>18,
       <1>19, <1>20, <1>21, <1>22, <1>23, <1>24, <1>25, <1>26, <1>27, <1>29, <1>30, <1>31,
       <1>32, <1>33, <1>34, <1>39 DEF Work
  <1>38. cycles' = cycles \/ SetOpening(w) \/ FirstCycle(w) \/ CreateCycle(w) \/ AddToCycle(w)
     \/ LockOpening(w) \/ MarkCycleDue(w) \/ Unlink(w) \/ ShiftPositions(w) \/ Renumber(w) \/
     SettleCycle(w) \/ NormalizeCycles(w)
    BY <1>1, <1>2, <1>3, <1>4, <1>5, <1>6, <1>7, <1>8, <1>9, <1>11, <1>13, <1>14, <1>15, <1>16,
       <1>17, <1>18, <1>23, <1>28, <1>29, <1>30, <1>31, <1>32, <1>34, <1>39 DEF Work
  <1> QED
    BY <1>35, <1>36, <1>37, <1>38 DEF Kept

(* A mutation that has its answer leaves a queue of mutations.             *)
LEMMA PendingShorter ==
    ASSUME pending \in Seq(Mutations), NEW m
    PROVE  PendingWithout(m) \in Seq(Mutations)
  <1>1. CASE m \in ToSet(pending)
    <2> DEFINE i == CHOOSE i \in DOMAIN pending : pending[i] = m
    <2>1. i \in 1 .. Len(pending) /\ Len(pending) \in Nat
      BY <1>1 DEF ToSet
    <2> HIDE DEF i
    <2>2. SubSeq(pending, 1, i - 1) \in Seq(Mutations)
      BY <2>1, SubSeqProperties
    <2>3. SubSeq(pending, i + 1, Len(pending)) \in Seq(Mutations)
      BY <2>1, SubSeqProperties
    <2>4. PendingWithout(m) = SubSeq(pending, 1, i - 1) \o SubSeq(pending, i + 1, Len(pending))
      BY <1>1 DEF PendingWithout, RemoveAt, i
    <2> QED
      BY <2>2, <2>3, <2>4, ConcatProperties
  <1>2. CASE m \notin ToSet(pending)
    BY <1>2 DEF PendingWithout
  <1> QED
    BY <1>1, <1>2

(* The lessons that are held stay the same.                                *)
HeldKept == \A l \in Lessons : Completed(l)' <=> Completed(l)

(* The lesson of worker w is held, is not any more, or nothing changes.    *)
Holds(w) == \A l \in Lessons : Completed(l)' <=> Completed(l) \/ l = Arg(w).lesson
Gives(w) == \A l \in Lessons : Completed(l)' <=> Completed(l) /\ l # Arg(w).lesson

LessonsTyped ==
    /\ DOMAIN lesson = Lessons
    /\ \A l \in Lessons : DOMAIN lesson[l] = {"status", "roster", "attended", "future"}

(* Cancelling, restoring, moving or preparing a lesson.                    *)
LEMMA PlainLessons ==
    ASSUME LessonsTyped, NEW w \in Workers,
           Cancel(w) \/ Restore(w) \/ Reschedule(w) \/ BeginComplete(w)
    PROVE  LessonsTyped' /\ HeldKept
  <1> DEFINE l == Arg(w).lesson
  <1>1. \/ lesson' = lesson
        \/ /\ ~ Completed(l)
           /\ \/ \E status \in {"cancelled", "scheduled"} :
                    lesson' = [lesson EXCEPT ![l].status = status]
              \/ \E future : lesson' = [lesson EXCEPT ![l].future = future]
    <2>1. CASE Cancel(w)
      BY <2>1 DEF Cancel, Refuse, SetStatus, data, Completed
    <2>2. CASE Restore(w)
      BY <2>2 DEF Restore, Refuse, SetStatus, data, Completed
    <2>3. CASE Reschedule(w)
      BY <2>3 DEF Reschedule, Refuse, data, Completed
    <2>4. CASE BeginComplete(w)
      BY <2>4 DEF BeginComplete, Refuse, data, Completed
    <2> QED
      BY <2>1, <2>2, <2>3, <2>4
  <1> HIDE DEF l
  <1>2. CASE lesson' = lesson
    BY <1>2 DEF LessonsTyped, HeldKept, Completed
  <1>3. ASSUME NEW status \in {"cancelled", "scheduled"}, ~ Completed(l),
               lesson' = [lesson EXCEPT ![l].status = status]
        PROVE  LessonsTyped' /\ HeldKept
    BY <1>3 DEF LessonsTyped, HeldKept, Completed
  <1>4. ASSUME NEW future, lesson' = [lesson EXCEPT ![l].future = future]
        PROVE  LessonsTyped' /\ HeldKept
    BY <1>4 DEF LessonsTyped, HeldKept, Completed
  <1> QED
    BY <1>1, <1>2, <1>3, <1>4

(* Writing attendance: the lesson is held if it was still to be given.     *)
LEMMA AttendLessons ==
    ASSUME LessonsTyped, NEW w \in Workers, Attend(w)
    PROVE  /\ LessonsTyped'
           /\ IF lesson[Arg(w).lesson].status = "scheduled" THEN Holds(w) ELSE HeldKept
  <1> DEFINE l == Arg(w).lesson
             m == Arg(w)
  <1>1. CASE lesson[l].status = "scheduled"
    <2>1. lesson' = [lesson EXCEPT ![l] = [lesson[l] EXCEPT !.roster = job[w].members,
                                                            !.attended = m.present,
                                                            !.status = "completed"]]
      BY <1>1 DEF Attend
    <2>2. Holds(w) /\ LessonsTyped'
      BY <2>1 DEF LessonsTyped, Holds, Completed
    <2> QED
      BY <1>1, <2>2
  <1>2. CASE lesson[l].status # "scheduled"
    <2>1. lesson' = [lesson EXCEPT ![l] = [lesson[l] EXCEPT !.roster = job[w].members,
                                                            !.attended = m.present]]
      BY <1>2 DEF Attend
    <2>2. HeldKept /\ LessonsTyped'
      BY <2>1 DEF LessonsTyped, HeldKept, Completed
    <2> QED
      BY <1>2, <2>2
  <1> QED
    BY <1>1, <1>2

(* Taking attendance back.                                                 *)
LEMMA UnattendLessons ==
    ASSUME LessonsTyped, NEW w \in Workers, Unattend(w)
    PROVE  LessonsTyped' /\ Gives(w)
  <1> DEFINE l == Arg(w).lesson
  <1>1. lesson' = [lesson EXCEPT ![l] = [lesson[l] EXCEPT !.status = "scheduled", !.roster = {},
                                                          !.attended = {}]]
    BY DEF Unattend
  <1> QED
    BY <1>1 DEF LessonsTyped, Gives, Completed

(* The tables keep their form at every step of a worker.                   *)
LEMMA WorkTables ==
    ASSUME TypeInv, NEW w \in Workers, Work(w)
    PROVE  TablesInv' /\ (HeldKept \/ Attend(w) \/ Unattend(w))
  <1> USE DEF TypeInv
  <1>1. setup' \in DOMAIN Setups
    BY WorkKeeps DEF TablesInv
  <1>2. pending' \in Seq(Mutations)
    BY WorkKeeps, PendingShorter DEF TablesInv
  <1>3. LessonsTyped' /\ (HeldKept \/ Attend(w) \/ Unattend(w))
    <2>1. LessonsTyped
      BY DEF TablesInv, LessonsTyped
    <2>2. CASE lesson' = lesson
      BY <2>1, <2>2 DEF LessonsTyped, HeldKept, Completed
    <2>3. CASE Cancel(w) \/ Restore(w) \/ Reschedule(w) \/ BeginComplete(w)
      BY <2>1, <2>3, PlainLessons
    <2> QED
      BY <2>1, <2>2, <2>3, WorkKeeps, AttendLessons, UnattendLessons
  <1>4. plan' \in [Students -> [mode : {"none", "per_session", "package"}, size : Nat]]
    <2>1. CASE plan' = plan
      BY <2>1 DEF TablesInv
    <2>2. CASE UpsertPlan(w)
      <3>1. job[w].pc = "plan"
        BY <2>2 DEF UpsertPlan, At
      <3>2. PICK m \in Mutations : m = job[w].m /\ m.op = "billing.configure"
        BY <3>1, Working
      <3>3. m.mode \in {"per_session", "package"} /\ m.size \in Nat
        BY <3>2 DEF Mutations
      <3>4. CASE m.mode = "package"
        <4>1. plan' = [plan EXCEPT ![m.student] = [mode |-> m.mode, size |-> m.size]]
          BY <2>2, <3>2, <3>4 DEF UpsertPlan, Arg
        <4> QED
          BY <3>3, <4>1 DEF TablesInv
      <3>5. CASE m.mode # "package"
        <4>1. plan' = [plan EXCEPT ![m.student] = [mode |-> m.mode, size |-> 0]]
          BY <2>2, <3>2, <3>5 DEF UpsertPlan, Arg
        <4> QED
          BY <3>3, <4>1 DEF TablesInv
      <3> QED
        BY <3>4, <3>5
    <2> QED
      BY <2>1, <2>2, WorkKeeps
  <1> QED
    BY <1>1, <1>2, <1>3, <1>4 DEF TablesInv, LessonsTyped

(* The packages stay sound at every step of a worker.                      *)
LEMMA WorkPackages ==
    ASSUME BillingInv, NEW w \in Workers, Work(w)
    PROVE  /\ PackagesInv' /\ LimitsKept
           /\ LinkedKept \/ (AddToCycle(w) /\ Adds(w)) \/ (Unlink(w) /\ Unlinks(w))
  <1>1. CASE cycles' = cycles
    BY <1>1, WorkKeeps, NoPackage DEF BillingInv
  <1>2. CASE SetOpening(w) \/ FirstCycle(w) \/ CreateCycle(w)
    BY <1>2, OpeningKeeps, FirstKeeps, CreateKeeps
  <1>3. CASE LockOpening(w) \/ MarkCycleDue(w) \/ SettleCycle(w)
    BY <1>3, LockKeeps, DueKeeps, SettleKeeps DEF BillingInv
  <1>4. CASE ShiftPositions(w) \/ Renumber(w) \/ NormalizeCycles(w)
    BY <1>4, ShiftKeeps, RenumberKeeps, NormalizeKeeps
  <1>5. CASE AddToCycle(w) \/ Unlink(w)
    BY <1>5, AddKeeps, UnlinkKeeps
  <1> QED
    BY <1>1, <1>2, <1>3, <1>4, <1>5, WorkKeeps

(* An opening progress that was read fits when it is written.              *)
LEMMA BeginConfigureFits ==
    ASSUME BillingInv, NEW w \in Workers, BeginConfigure(w)
    PROVE  OpeningFits(w)'
  <1> USE DEF BillingInv, TypeInv
  <1>1. job[w].pc = "begin" /\ job[w].m.op = "billing.configure"
    BY DEF BeginConfigure, Is, At, Arg
  <1>2. PICK m \in Mutations : m = job[w].m /\ m.op = "billing.configure"
    BY <1>1, Working
  <1>3. /\ m.student \in Students /\ m.opening \in Nat /\ m.size \in Nat
        /\ DOMAIN job[w] = JobFields /\ DOMAIN job = Workers
    BY <1>1, <1>2, Working DEF Mutations
  <1> DEFINE s == m.student
             change == m.mode = "package" /\ cycles[s] # << >> /\ Last(cycles[s]).opening #
                m.opening
  <1>4. cycles[s] \in Seq(PackageRow)
    BY <1>3 DEF PackagesInv
  <1>5. CASE ~ ConfigureAllowed(s, m)
    BY <1>2, <1>3, <1>5 DEF BeginConfigure, Refuse, Idle, OpeningFits, Arg, Numbered
  <1>6. CASE ConfigureAllowed(s, m)
    <2>1. cycles' = cycles
      BY <1>2, <1>6 DEF BeginConfigure, Arg, data
    <2>2. \/ /\ change
             /\ job' = [job EXCEPT ![w].pc = "opening", ![w].at = Len(cycles[s]), ![w].affected
                = {s}]
          \/ /\ ~ change
             /\ job' = [job EXCEPT ![w].pc = "plan", ![w].at = Len(cycles[s]), ![w].affected =
                {s}]
      BY <1>2, <1>6 DEF BeginConfigure, Arg
    <2>3. job'[w].m = m /\ job'[w].at = Len(cycles[s])
      BY <1>2, <1>3, <2>2 DEF JobFields
    <2>4. \/ change /\ job'[w].pc = "opening"
          \/ ~ change /\ job'[w].pc = "plan"
      BY <1>3, <2>2 DEF JobFields
    <2>5. change => Len(cycles[s]) \in DOMAIN cycles[s] /\ m.opening <=
       cycles[s][Len(cycles[s])].limit
      BY <1>4, <1>6 DEF ConfigureAllowed, Last
    <2>6. m.mode = "package" /\ Len(cycles[s]) = 0 => m.opening <= m.size
      BY <1>4, <1>6 DEF ConfigureAllowed
    <2> HIDE DEF change
    <2> QED
      BY <2>1, <2>3, <2>4, <2>5, <2>6 DEF OpeningFits, Numbered
  <1> QED
    BY <1>5, <1>6

(* Opening progress still to be written keeps fitting its package.         *)
LEMMA WorkOpening ==
    ASSUME BillingInv, NEW w \in Workers, Work(w)
    PROVE  OpeningInv'
  <1> USE DEF BillingInv, TypeInv
  <1>1. ASSUME NEW v \in Workers, v # w
        PROVE  OpeningFits(v)'
    <2>1. job'[v] = job[v] /\ OpeningFits(v)
      BY <1>1, WorkMoves DEF OpeningInv
    <2>2. job[v].pc = "opening" => job[v].m.student \in Students
      BY Working DEF Mutations
    <2> QED
      BY <2>1, <2>2, WorkPackages DEF OpeningFits, LimitsKept
  <1> DEFINE Elsewhere == job'[w].pc \notin {"opening", "plan", "first", "unlink"} \union Numbered
  <1>2. Elsewhere => OpeningFits(w)'
    BY DEF OpeningFits, Numbered
  <1>3. BeginConfigure(w) => OpeningFits(w)'
    BY BeginConfigureFits
  <1>4. SetOpening(w) => OpeningFits(w)'
    <2> SUFFICES ASSUME SetOpening(w)
                 PROVE  OpeningFits(w)'
      OBVIOUS
    <2>1. job[w].pc = "opening" /\ Moves(w, {"opening"}, {"plan"})
      BY ConfigureMoves DEF SetOpening, At
    <2>2. job'[w] # Idle => job'[w].at = job[w].at
      BY ConfigureMoves
    <2>3. job[w].m.student \in Students
      BY <2>1, Working DEF Mutations
    <2>4. job[w].at # 0
      <3>1. job[w].at \in DOMAIN cycles[job[w].m.student]
        BY <2>1 DEF OpeningInv, OpeningFits
      <3>2. cycles[job[w].m.student] \in Seq(PackageRow)
        BY <2>3 DEF PackagesInv
      <3> QED
        BY <3>1, <3>2
    <2> QED
      BY <2>1, <2>2, <2>4 DEF Moves, OpeningFits, Idle, Numbered
  <1>5. UpsertPlan(w) => OpeningFits(w)'
    <2> SUFFICES ASSUME UpsertPlan(w)
                 PROVE  OpeningFits(w)'
      OBVIOUS
    <2>1. job[w].pc = "plan" /\ Moves(w, {"plan"}, {"first", "family"})
      BY ConfigureMoves DEF UpsertPlan, At
    <2>2. job'[w].pc = "first" => job[w].m.mode = "package" /\ job[w].at = 0
      BY ConfigureMoves DEF Arg
    <2>3. job'[w].pc = "first" => job[w].m.opening <= job[w].m.size
      BY <2>1, <2>2 DEF OpeningInv, OpeningFits
    <2> QED
      BY <2>1, <2>3 DEF Moves, OpeningFits, Idle, Numbered
  <1>6. ASSUME ShiftPositions(w) \/ ReadPlaces(w)
        PROVE  OpeningFits(w)'
    <2>1. /\ job[w].pc \in Numbered
          /\ \/ job'[w] = Idle
             \/ job'[w].pc = "places" /\ job'[w].todo = job[w].todo
             \/ job'[w].pc = "renumber" /\ job'[w].at = 0 /\ job'[w].todo = job[w].todo
      BY <1>6, ReopenMoves, ReopenTodo DEF Moves, Numbered
    <2>2. job[w].todo \in Seq(Students \X Nat \X Nat) /\ job[w].todo # << >>
      BY <2>1 DEF OpeningInv, OpeningFits
    <2> QED
      BY <2>1, <2>2 DEF OpeningFits, Idle, Numbered
  <1>7. ASSUME Renumber(w)
        PROVE  OpeningFits(w)'
    <2>1. /\ job[w].pc = "renumber" /\ Moves(w, {"renumber"}, {"settle", "renumber"})
          /\ job'[w] # Idle => job'[w].at \in {job[w].at, job[w].at + 1}
          /\ job'[w] = Idle \/ job'[w].todo = job[w].todo
      BY <1>7, ReopenMoves, ReopenTodo DEF Renumber, At
    <2>2. /\ job[w].at \in Nat
          /\ job[w].todo \in Seq(Students \X Nat \X Nat) /\ job[w].todo # << >>
      BY <2>1 DEF OpeningInv, OpeningFits, Numbered
    <2> QED
      BY <2>1, <2>2 DEF Moves, OpeningFits, Idle, Numbered
  <1>15. ASSUME BeginReopen(w)
         PROVE  OpeningFits(w)'
    <2>1. Moves(w, {"begin"}, {"unlink", "hook"})
      BY <1>15, ReopenMoves
    <2>2. CASE job'[w].pc = "unlink"
      <3>1. job'[w].todo = SetToSeq(ChargedTo(Arg(w).lesson))
        BY <1>15, <2>2, ReopenTodo
      <3>2. job'[w].todo \in Seq(ChargedTo(Arg(w).lesson))
        BY <3>1, ChargedFinite, SequenceOfSet
      <3>3. job'[w].todo \in Seq(Students \X Nat \X Nat)
        BY <3>2, ChargedFinite
      <3> QED
        BY <2>2, <3>3 DEF OpeningFits, Numbered
    <2>3. CASE job'[w].pc # "unlink"
      <3>1. Elsewhere
        BY <2>1, <2>3 DEF Moves, Idle, Numbered
      <3> HIDE DEF Elsewhere
      <3> QED
        BY <1>2, <3>1
    <2> QED
      BY <2>2, <2>3
  <1>16. ASSUME Unlink(w)
         PROVE  OpeningFits(w)'
    <2>1. /\ job[w].pc = "unlink" /\ job'[w].todo = job[w].todo
          /\ job'[w].pc = IF job[w].todo = << >> THEN "unattend" ELSE "shift"
      BY <1>16, ReopenTodo DEF Unlink, At
    <2>2. job[w].todo \in Seq(Students \X Nat \X Nat)
      BY <2>1 DEF OpeningInv, OpeningFits
    <2>3. CASE job[w].todo = << >>
      BY <2>1, <2>3 DEF OpeningFits, Numbered
    <2>4. CASE job[w].todo # << >>
      BY <2>1, <2>2, <2>4 DEF OpeningFits, Numbered
    <2> QED
      BY <2>3, <2>4
  <1>17. ASSUME SettleCycle(w)
         PROVE  OpeningFits(w)'
    <2>1. /\ job[w].pc = "settle" /\ job'[w].todo = Tail(job[w].todo)
          /\ job'[w].pc = IF Len(job[w].todo) = 1 THEN "unattend" ELSE "shift"
      BY <1>17, ReopenTodo DEF SettleCycle, At
    <2>2. job[w].todo \in Seq(Students \X Nat \X Nat) /\ job[w].todo # << >>
      BY <2>1 DEF OpeningInv, OpeningFits, Numbered
    <2>3. CASE Len(job[w].todo) = 1
      BY <2>1, <2>3 DEF OpeningFits, Numbered
    <2>4. CASE Len(job[w].todo) # 1
      <3> DEFINE T == Students \X Nat \X Nat
      <3>3. job[w].todo \in Seq(T) /\ job[w].todo # << >>
        BY <2>2
      <3> HIDE DEF T
      <3>4. /\ Tail(job[w].todo) \in Seq(T)
            /\ Len(Tail(job[w].todo)) = Len(job[w].todo) - 1 /\ Len(job[w].todo) \in Nat \ {0}
        BY <3>3, HeadTailProperties
      <3>1. /\ Tail(job[w].todo) \in Seq(Students \X Nat \X Nat)
            /\ Len(Tail(job[w].todo)) = Len(job[w].todo) - 1 /\ Len(job[w].todo) \in Nat \ {0}
        BY <3>4 DEF T
      <3>2. Tail(job[w].todo) # << >>
        <4>1. Len(Tail(job[w].todo)) # 0
          BY <2>4, <3>1
        <4>2. Len(<< >>) = 0
          OBVIOUS
        <4> QED
          BY <4>1, <4>2, Zenon
      <3> QED
        BY <2>1, <2>4, <3>1, <3>2 DEF OpeningFits, Numbered
    <2> QED
      BY <2>3, <2>4
  <1>8. Cancel(w) \/ Restore(w) \/ Reschedule(w) \/ ArchiveStudent(w) \/ RestoreStudent(w) \/
     ArchiveSession(w) \/ RestoreSession(w) \/ UpdateDetails(w) => Elsewhere
    BY PlainMoves DEF Moves, Idle, Numbered
  <1>9. FirstCycle(w) => Elsewhere
    BY ConfigureMoves DEF Moves, Idle, Numbered
  <1>10. BeginComplete(w) \/ Look(w) \/ Attend(w) \/ FindAffected(w) => Elsewhere
    BY CompletionMoves DEF Moves, Idle, Numbered
  <1>11. FindLink(w) \/ FindOpenCycle(w) \/ CreateCycle(w) \/ AddToCycle(w) \/ LockOpening(w) \/
     MarkCycleDue(w) => Elsewhere
    BY ChargeMoves DEF Moves, Idle, Numbered
  <1>12. Unattend(w) => Elsewhere
    BY ReopenMoves DEF Moves, Idle, Numbered
  <1>13. ReadFamily(w) \/ InsertFamilyCycle(w) \/ SettleFamilyCycle(w) \/ BeginHook(w) \/
     NormalizeCycles(w) \/ Answer(w) => Elsewhere
    BY FamilyMoves DEF Moves, Idle, Numbered
  <1> HIDE DEF Elsewhere
  <1>14. OpeningFits(w)'
    BY <1>2, <1>3, <1>4, <1>5, <1>6, <1>7, <1>8, <1>9, <1>10, <1>11, <1>12, <1>13,
       <1>15, <1>16, <1>17 DEF Work
  <1> QED
    BY <1>1, <1>14 DEF OpeningInv

(* A mutation that is charged or taken back names a lesson.                *)
LEMMA AtLesson ==
    ASSUME JobInv, NEW w \in Workers,
           job[w].pc \in Charging \union Reopening \union {"look", "attend"}
    PROVE  job[w].m.lesson \in Lessons
  <1>1. job[w].m \in Mutations /\ job[w].m.op \in {"occurrence.complete", "occurrence.reopen"}
    BY Working DEF Charging, Reopening
  <1>2. PICK m \in Mutations : m = job[w].m /\ m.op \in {"occurrence.complete", "occurrence.reopen"}
    BY <1>1
  <1>3. m.lesson \in Lessons
    BY <1>2 DEF Mutations
  <1> QED
    BY <1>2, <1>3

(* Links change only where a charge is added or taken back, and lessons    *)
(* are held or given back only where attendance is written.                *)
LEMMA Untouched ==
    ASSUME BillingInv, NEW w \in Workers, Work(w)
    PROVE  /\ job[w].pc \notin {"add", "unlink"} => LinkedKept
           /\ job[w].pc \notin {"attend", "unattend"} => HeldKept
           /\ job[w].pc = "add" => LinkedKept \/ (AddToCycle(w) /\ Adds(w))
           /\ job[w].pc = "unlink" => LinkedKept \/ (Unlink(w) /\ Unlinks(w))
           /\ job[w].pc = "attend" => HeldKept \/ Holds(w)
           /\ job[w].pc = "unattend" => HeldKept \/ Gives(w)
  <1>1. LinkedKept \/ (AddToCycle(w) /\ Adds(w)) \/ (Unlink(w) /\ Unlinks(w))
    BY WorkPackages
  <1>2. HeldKept \/ Attend(w) \/ Unattend(w)
    BY WorkTables DEF BillingInv
  <1>3. LessonsTyped
    BY DEF BillingInv, TypeInv, TablesInv, LessonsTyped
  <1>4. /\ AddToCycle(w) => job[w].pc = "add"
        /\ Unlink(w) => job[w].pc = "unlink"
        /\ Attend(w) => job[w].pc = "attend"
        /\ Unattend(w) => job[w].pc = "unattend"
    BY DEF AddToCycle, Unlink, Attend, Unattend, At
  <1>5. Attend(w) => HeldKept \/ Holds(w)
    BY <1>3, AttendLessons
  <1>6. Unattend(w) => Gives(w)
    BY <1>3, UnattendLessons
  <1> QED
    BY <1>1, <1>2, <1>4, <1>5, <1>6

(* What worker w knows stays so while it goes on.                          *)
LEMMA OwnLesson ==
    ASSUME BillingInv, NEW w \in Workers, Work(w), raced = {}
    PROVE  LessonKnown(w)'
  <1> SUFFICES ASSUME NEW l, l = job[w].m.lesson
               PROVE  LessonKnown(w)'
    OBVIOUS
  <1> DEFINE Elsewhere == job'[w].pc \notin Charging \union Reopening
  <1> USE DEF BillingInv, TypeInv
  <1>0. Elsewhere => LessonKnown(w)'
    BY DEF LessonKnown, Choosing, Unlinked, Charging, Reopening
  <1>1. LessonKnown(w)
    BY DEF LessonInv
  <1>2. job[w].pc \in Charging \union Reopening \union {"look", "attend"} => l \in Lessons
    BY AtLesson
  <1>3. job'[w] = Idle \/ job'[w].m.lesson = l
    BY WorkMoves
  <1>4. Idle.pc = "idle"
    BY DEF Idle
  <1>5. Look(w) => LessonKnown(w)'
    <2> SUFFICES ASSUME Look(w)
                 PROVE  LessonKnown(w)'
      OBVIOUS
    <2>1. job[w].pc = "look" /\ Moves(w, {"look"}, {"attend", "affected", "link"})
      BY CompletionMoves DEF Look, At
    <2>2. job'[w].pc \in {"affected", "link"} => Completed(l)
      BY CompletionMoves DEF Arg
    <2>3. HeldKept
      BY <2>1, Untouched
    <2> QED
      BY <1>2, <1>3, <1>4, <2>1, <2>2, <2>3
         DEF Moves, LessonKnown, HeldKept, Choosing, Unlinked, Charging, Reopening
  <1>6. Attend(w) => LessonKnown(w)'
    <2> SUFFICES ASSUME Attend(w)
                 PROVE  LessonKnown(w)'
      OBVIOUS
    <2>1. job[w].pc = "attend" /\ Moves(w, {"attend"}, {"affected", "link"})
      BY CompletionMoves DEF Attend, At
    <2>2. CASE job'[w] = Idle
      BY <1>0, <1>4, <2>2 DEF Charging, Reopening
    <2>3. CASE job'[w] # Idle
      <3>1. lesson[l].status = "scheduled"
        BY <2>3, CompletionMoves DEF Arg
      <3>2. Holds(w)
        BY <3>1, AttendLessons DEF TablesInv, LessonsTyped, Arg
      <3>3. Completed(l)'
        BY <1>2, <2>1, <3>2 DEF Holds, Arg
      <3> QED
        BY <1>3, <1>4, <2>1, <3>3
           DEF Moves, LessonKnown, Choosing, Unlinked, Charging, Reopening
    <2> QED
      BY <2>2, <2>3
  <1>7. ASSUME FindLink(w) \/ FindOpenCycle(w) \/ CreateCycle(w)
        PROVE  LessonKnown(w)'
    <2>1. /\ job[w].pc \in {"link", "open", "reread", "create"}
          /\ job'[w] = Idle \/ job'[w].pc \in Charging
      BY <1>7, ChargeMoves DEF Moves, Charging
    <2>2. LinkedKept /\ HeldKept
      BY <2>1, Untouched
    <2>3. Completed(l) /\ l \in Lessons
      BY <1>1, <1>2, <2>1 DEF LessonKnown, Charging
    <2>4. job'[w].pc \in Choosing => /\ job'[w].todo = job[w].todo
                                     /\ job[w].pc = "link" => Linked(Now(w), l) = {}
      BY <1>4, <1>7, ChargeMoves DEF Moves, Choosing, Arg
    <2>5. job'[w].pc \in Choosing /\ Now(w) \in Students => Linked(Now(w), l) = {}
      BY <1>1, <2>1, <2>4 DEF LessonKnown, Choosing
    <2>6. job'[w].pc \in Choosing => Now(w)' = Now(w)
      BY <2>4 DEF Now
    <2>7. ASSUME job'[w].pc \in Choosing, NEW s \in Students, s = Now(w)'
          PROVE  Linked(s, l)' = {}
      BY <2>2, <2>3, <2>5, <2>6, <2>7 DEF LinkedKept
    <2>8. Completed(l)'
      BY <2>2, <2>3 DEF HeldKept
    <2>9. job'[w].pc \notin Reopening
      BY <1>4, <2>1 DEF Charging, Reopening
    <2> QED
      BY <1>0, <1>3, <1>4, <2>1, <2>7, <2>8, <2>9 DEF LessonKnown, Charging, Reopening, Unlinked
  <1>8. ASSUME AddToCycle(w) \/ LockOpening(w) \/ MarkCycleDue(w)
        PROVE  LessonKnown(w)'
    <2>1. /\ job[w].pc \in {"add", "lock", "due"}
          /\ job'[w] = Idle \/ job'[w].pc \in {"due", "affected", "link", "lock"}
      BY <1>8, ChargeMoves DEF Moves
    <2>2. HeldKept
      BY <2>1, Untouched
    <2>3. Completed(l) /\ l \in Lessons
      BY <1>1, <1>2, <2>1 DEF LessonKnown, Charging
    <2> QED
      BY <1>3, <1>4, <2>1, <2>2, <2>3
         DEF LessonKnown, HeldKept, Choosing, Unlinked, Charging, Reopening
  <1>9. BeginReopen(w) => LessonKnown(w)'
    <2> SUFFICES ASSUME BeginReopen(w)
                 PROVE  LessonKnown(w)'
      OBVIOUS
    <2>1. job[w].pc = "begin" /\ Moves(w, {"begin"}, {"unlink", "hook"})
      BY ReopenMoves DEF Moves
    <2>2. job'[w].pc = "unlink" => Completed(l)
      BY ReopenMoves DEF Arg
    <2>3. HeldKept
      BY <2>1, Untouched
    <2>4. l \in Lessons
      <3>1. job[w].m \in Mutations /\ job[w].m.op = "occurrence.reopen"
        BY <2>1, Working, ReopenMoves DEF Arg
      <3>2. PICK m \in Mutations : m = job[w].m /\ m.op = "occurrence.reopen"
        BY <3>1
      <3>3. m.lesson \in Lessons
        BY <3>2 DEF Mutations
      <3> QED
        BY <3>2, <3>3
    <2> QED
      BY <1>3, <1>4, <2>1, <2>2, <2>3, <2>4
         DEF Moves, LessonKnown, HeldKept, Choosing, Unlinked, Charging, Reopening
  <1>10. Unlink(w) => LessonKnown(w)'
    <2> SUFFICES ASSUME Unlink(w)
                 PROVE  LessonKnown(w)'
      OBVIOUS
    <2>1. job[w].pc = "unlink" /\ Moves(w, {"unlink"}, {"unattend", "shift"})
      BY ReopenMoves DEF Moves
    <2>2. HeldKept
      BY <2>1, Untouched
    <2>3. Completed(l) /\ l \in Lessons
      BY <1>1, <1>2, <2>1 DEF LessonKnown, Reopening
    <2>4. \A s \in Students : Linked(s, l)' = {}
      BY <2>3, UnlinkKeeps DEF Unlinks, Arg
    <2> QED
      BY <1>3, <1>4, <2>1, <2>2, <2>3, <2>4
         DEF Moves, LessonKnown, HeldKept, Choosing, Unlinked, Charging, Reopening
  <1>11. ASSUME ShiftPositions(w) \/ ReadPlaces(w) \/ Renumber(w) \/ SettleCycle(w)
         PROVE  LessonKnown(w)'
    <2>1. /\ job[w].pc \in Numbered
          /\ job'[w] = Idle \/ job'[w].pc \in Unlinked
      BY <1>11, ReopenMoves DEF Moves, Unlinked, Reopening, Numbered
    <2>2. LinkedKept /\ HeldKept
      BY <2>1, Untouched DEF Numbered
    <2>3. Completed(l) /\ l \in Lessons /\ \A s \in Students : Linked(s, l) = {}
      BY <1>1, <1>2, <2>1 DEF LessonKnown, Reopening, Unlinked, Numbered
    <2>4. Completed(l)' /\ \A s \in Students : Linked(s, l)' = {}
      BY <2>2, <2>3 DEF LinkedKept, HeldKept
    <2>5. job'[w].pc \notin Choosing
      BY <1>4, <2>1 DEF Unlinked, Reopening, Choosing
    <2>6. CASE job'[w] = Idle
      BY <1>0, <1>4, <2>6 DEF Charging, Reopening
    <2>7. CASE job'[w].pc \in Unlinked /\ job'[w].m.lesson = l
      BY <2>4, <2>5, <2>7 DEF LessonKnown
    <2> QED
      BY <1>3, <1>4, <2>1, <2>6, <2>7
  <1>12. BeginComplete(w) \/ FindAffected(w) => Elsewhere
    BY CompletionMoves DEF Moves, Idle, Charging, Reopening
  <1>13. Cancel(w) \/ Restore(w) \/ Reschedule(w) \/ ArchiveStudent(w) \/ RestoreStudent(w)
            \/ ArchiveSession(w) \/ RestoreSession(w) \/ UpdateDetails(w) => Elsewhere
    BY PlainMoves DEF Moves, Idle, Charging, Reopening
  <1>14. BeginConfigure(w) \/ SetOpening(w) \/ UpsertPlan(w) \/ FirstCycle(w) => Elsewhere
    BY ConfigureMoves DEF Moves, Idle, Charging, Reopening
  <1>15. Unattend(w) => Elsewhere
    BY ReopenMoves DEF Moves, Idle, Charging, Reopening
  <1>16. ReadFamily(w) \/ InsertFamilyCycle(w) \/ SettleFamilyCycle(w) \/ BeginHook(w)
            \/ NormalizeCycles(w) \/ Answer(w) => Elsewhere
    BY FamilyMoves DEF Moves, Idle, Charging, Reopening
  <1> HIDE DEF Elsewhere
  <1> QED
    BY <1>0, <1>5, <1>6, <1>7, <1>8, <1>9, <1>10, <1>11, <1>12, <1>13, <1>14, <1>15, <1>16 DEF Work

(* What worker v knows stays so while worker w is at another lesson.       *)
LEMMA OtherLesson ==
    ASSUME BillingInv, NEW w \in Workers, Work(w), raced = {}, NEW v \in Workers, v # w
    PROVE  LessonKnown(v)'
  <1> SUFFICES ASSUME NEW l, l = job[v].m.lesson
               PROVE  LessonKnown(v)'
    OBVIOUS
  <1> USE DEF BillingInv, TypeInv
  <1>1. LessonKnown(v) /\ job'[v] = job[v]
    BY WorkMoves DEF LessonInv
  <1>2. CASE job[v].pc \notin Charging \union Reopening
    BY <1>1, <1>2 DEF LessonKnown, Choosing, Unlinked, Charging, Reopening
  <1>3. CASE job[v].pc \in Charging \union Reopening
    <2>1. l \in Lessons
      BY <1>3, AtLesson
    <2>2. v \in Busy /\ w \in Busy
      BY <1>3, WorkMoves DEF Busy, At, Charging, Reopening
    <2>3. l # Arg(w).lesson
      BY <2>1, <2>2 DEF LessonInv, Arg
    <2>4. Completed(l)' <=> Completed(l)
      BY <2>1, <2>3, Untouched DEF HeldKept, Holds, Gives
    <2>5. \A s \in Students : Linked(s, l)' = Linked(s, l)
      BY <2>1, <2>3, Untouched DEF LinkedKept, Adds, Unlinks
    <2>6. Now(v)' = Now(v)
      BY <1>1 DEF Now
    <2> QED
      BY <1>1, <2>4, <2>5, <2>6 DEF LessonKnown
  <1> QED
    BY <1>2, <1>3

(* Only lessons that are held have links.                                  *)
LEMMA LinksHeld ==
    ASSUME BillingInv, NEW w \in Workers, Work(w), raced = {},
           NEW s \in Students, NEW l \in Lessons, Linked(s, l)' # {}
    PROVE  Completed(l)'
  <1> USE DEF BillingInv, TypeInv
  <1>1. (Linked(s, l) # {} => Completed(l)) /\ LessonKnown(w)
    BY DEF LessonInv
  <1>2. CASE job[w].pc = "add"
    <2>1. HeldKept /\ Completed(Arg(w).lesson)
      BY <1>1, <1>2, Untouched DEF LessonKnown, Charging, Arg
    <2>2. Linked(s, l) # {} \/ l = Arg(w).lesson
      BY <1>2, Untouched DEF LinkedKept, Adds
    <2> QED
      BY <1>1, <2>1, <2>2 DEF HeldKept
  <1>3. CASE job[w].pc = "unlink"
    <2>1. HeldKept
      BY <1>3, Untouched
    <2>2. Linked(s, l) # {}
      BY <1>3, Untouched DEF LinkedKept, Unlinks
    <2> QED
      BY <1>1, <2>1, <2>2 DEF HeldKept
  <1>4. CASE job[w].pc = "attend"
    <2>1. LinkedKept /\ (HeldKept \/ Holds(w))
      BY <1>4, Untouched
    <2> QED
      BY <1>1, <2>1 DEF LinkedKept, HeldKept, Holds
  <1>5. CASE job[w].pc = "unattend"
    <2>1. LinkedKept /\ (HeldKept \/ Gives(w))
      BY <1>5, Untouched
    <2>2. Linked(s, Arg(w).lesson) = {}
      BY <1>1, <1>5 DEF LessonKnown, Unlinked, Reopening, Arg
    <2> QED
      BY <1>1, <2>1, <2>2 DEF LinkedKept, HeldKept, Gives
  <1>6. CASE job[w].pc \notin {"add", "unlink", "attend", "unattend"}
    <2>1. LinkedKept /\ HeldKept
      BY <1>6, Untouched
    <2> QED
      BY <1>1, <2>1 DEF LinkedKept, HeldKept
  <1> QED
    BY <1>2, <1>3, <1>4, <1>5, <1>6

(* One worker at a lesson, and links of held lessons only.                 *)
LEMMA WorkLessons ==
    ASSUME BillingInv, NEW w \in Workers, Work(w)
    PROVE  LessonInv'
  <1> USE DEF BillingInv, TypeInv
  <1> SUFFICES ASSUME raced' = {}
               PROVE  /\ \A v, u \in Busy' : v # u => \/ job'[v].m.lesson \notin Lessons
                                                      \/ job'[v].m.lesson # job'[u].m.lesson
                      /\ \A s \in Students : \A l \in Lessons : Linked(s, l)' # {} => Completed(l)'
                      /\ \A v \in Workers : LessonKnown(v)'
    BY DEF LessonInv
  <1>1. raced = {}
    BY WorkKeeps
  <1>2. \A v \in Busy' : v \in Busy /\ job'[v].m = job[v].m
    BY WorkMoves DEF Busy, At, Idle
  <1>3. \A v, u \in Busy :
           v # u => job[v].m.lesson \notin Lessons \/ job[v].m.lesson # job[u].m.lesson
    BY <1>1 DEF LessonInv
  <1> QED
    BY <1>1, <1>2, <1>3, OwnLesson, OtherLesson, LinksHeld

-----------------------------------------------------------------------------
(* Every step                                                              *)

(* A step that only ends jobs or begins new ones.                          *)
LEMMA OnlyJobs ==
    ASSUME BillingInv, UNCHANGED <<setup, lesson, cycles, plan>>, raced' = {} => raced = {},
           pending' \in Seq(Mutations), DOMAIN job' = Workers,
           \A v \in Workers :
              \/ job'[v] = job[v]
              \/ job'[v] = Idle
              \/ DOMAIN job'[v] = JobFields /\ job'[v].pc = "begin" /\ job'[v].m \in Mutations,
           raced' = {} => \A v, u \in Busy' :
              v # u => job'[v].m.lesson \notin Lessons \/ job'[v].m.lesson # job'[u].m.lesson
    PROVE  BillingInv'
  <1> USE DEF BillingInv, TypeInv
  <1>1. JobInv'
    <2>1. \A v \in Workers : JobWellFormed(job'[v])
      <3> SUFFICES ASSUME NEW v \in Workers
                   PROVE  JobWellFormed(job'[v])
        OBVIOUS
      <3>1. CASE job'[v] = job[v]
        BY <3>1 DEF JobInv
      <3>2. CASE job'[v] = Idle
        BY <3>2 DEF JobWellFormed
      <3>3. CASE DOMAIN job'[v] = JobFields /\ job'[v].pc = "begin" /\ job'[v].m \in Mutations
        BY <3>3 DEF JobWellFormed, Serves, Charging, Reopening
      <3> QED
        BY <3>1, <3>2, <3>3
    <2> QED
      BY <2>1 DEF JobInv
  <1>2. TablesInv'
    BY DEF TablesInv
  <1>3. PackagesInv'
    BY DEF PackagesInv
  <1>4. \A v \in Workers : job'[v] = job[v] \/ job'[v].pc \in {"idle", "begin"}
    BY DEF Idle
  <1>5. OpeningInv'
    <2> SUFFICES ASSUME NEW v \in Workers
                 PROVE  OpeningFits(v)'
      BY DEF OpeningInv
    <2>1. CASE job'[v] = job[v]
      BY <2>1 DEF OpeningInv, OpeningFits
    <2>2. CASE job'[v].pc \in {"idle", "begin"}
      BY <2>2 DEF OpeningFits, Numbered
    <2> QED
      BY <1>4, <2>1, <2>2
  <1>6. ASSUME raced' = {}, NEW v \in Workers
        PROVE  LessonKnown(v)'
    <2>1. CASE job'[v] = job[v]
      BY <1>6, <2>1 DEF LessonInv, LessonKnown, Linked, Completed, Now
    <2>2. CASE job'[v].pc \in {"idle", "begin"}
      BY <2>2 DEF LessonKnown, Charging, Reopening, Choosing, Unlinked
    <2> QED
      BY <1>4, <2>1, <2>2
  <1>7. raced' = {} => \A s \in Students : \A l \in Lessons : Linked(s, l)' # {} => Completed(l)'
    BY DEF LessonInv, Linked, Completed
  <1>8. LessonInv'
    BY <1>6, <1>7 DEF LessonInv
  <1> QED
    BY <1>1, <1>2, <1>3, <1>5, <1>8

(* A worker that has begun a mutation.                                     *)
LEMMA StartMoves ==
    ASSUME DOMAIN job = Workers, NEW w \in Workers, NEW m, Start(w, m)
    PROVE  /\ DOMAIN job' = Workers /\ \A v \in Workers : v # w => job'[v] = job[v]
           /\ DOMAIN job'[w] = JobFields /\ job'[w].pc = "begin" /\ job'[w].m = m
  BY DEF Start, JobFields

(* A device sends a mutation.                                              *)
LEMMA SendKeeps ==
    ASSUME BillingInv, Send
    PROVE  BillingInv'
  <1> USE DEF BillingInv, TypeInv
  <1>1. PICK m \in Commands : pending' = Append(pending, m)
    BY DEF Send
  <1>2. m \in Mutations
    BY BillingAssumption DEF TablesInv, Commands
  <1>3. pending' \in Seq(Mutations)
    BY <1>1, <1>2 DEF TablesInv
  <1>4. UNCHANGED <<setup, lesson, cycles, plan, raced, job>>
    BY DEF Send, data, history
  <1>5. raced' = {} => \A v, u \in Busy' :
           v # u => job'[v].m.lesson \notin Lessons \/ job'[v].m.lesson # job'[u].m.lesson
    BY <1>4 DEF LessonInv, Busy, At
  <1> QED
    BY <1>3, <1>4, <1>5, OnlyJobs DEF JobInv

(* A worker takes the next mutation.                                       *)
LEMMA TakeKeeps ==
    ASSUME BillingInv, NEW w \in Workers, Take(w)
    PROVE  BillingInv'
  <1> USE DEF BillingInv, TypeInv
  <1>1. PICK i \in DOMAIN pending : Start(w, pending[i])
    BY DEF Take
  <1>2. pending[i] \in Mutations
    BY <1>1 DEF TablesInv
  <1>3. UNCHANGED <<setup, lesson, cycles, plan, raced, pending>>
    BY DEF Take, data, history
  <1>4. /\ DOMAIN job' = Workers /\ \A v \in Workers : v # w => job'[v] = job[v]
        /\ DOMAIN job'[w] = JobFields /\ job'[w].pc = "begin" /\ job'[w].m = pending[i]
    BY <1>1, StartMoves DEF JobInv
  <1>5. Busy' = {w}
    BY <1>4 DEF Take, Busy, At
  <1> QED
    BY <1>2, <1>3, <1>4, <1>5, OnlyJobs DEF TablesInv

(* A worker begins beside one that has outlived its lease.                 *)
LEMMA TakeOverKeeps ==
    ASSUME BillingInv, NEW w \in Workers, TakeOver(w)
    PROVE  BillingInv'
  <1> USE DEF BillingInv, TypeInv
  <1>1. PICK m \in ToSet(pending) :
           /\ Start(w, m)
           /\ raced' = raced \union {l \in Lessons : l = m.lesson /\ \E v \in Busy : Arg(v).lesson = l}
    BY DEF TakeOver
  <1>2. m \in Mutations
    BY <1>1 DEF TablesInv, ToSet
  <1>3. UNCHANGED <<setup, lesson, cycles, plan, pending>>
    BY DEF TakeOver, data
  <1>4. /\ DOMAIN job' = Workers /\ \A v \in Workers : v # w => job'[v] = job[v]
        /\ DOMAIN job'[w] = JobFields /\ job'[w].pc = "begin" /\ job'[w].m = m
    BY <1>1, StartMoves DEF JobInv
  <1>5. raced' = {} =>
           raced = {} /\ \A v \in Busy : m.lesson \notin Lessons \/ job[v].m.lesson # m.lesson
    BY <1>1 DEF Arg
  <1>6. Busy' = Busy \union {w} /\ w \notin Busy
    BY <1>4 DEF TakeOver, Busy, At
  <1>7. raced' = {} => \A v, u \in Busy' :
           v # u => job'[v].m.lesson \notin Lessons \/ job'[v].m.lesson # job'[u].m.lesson
    <2> SUFFICES ASSUME raced' = {}, NEW v \in Busy', NEW u \in Busy', v # u
                 PROVE  job'[v].m.lesson \notin Lessons \/ job'[v].m.lesson # job'[u].m.lesson
      OBVIOUS
    <2>1. v \in Workers /\ u \in Workers
      BY DEF Busy
    <2>2. CASE v = w
      BY <1>4, <1>5, <1>6, <2>1, <2>2
    <2>3. CASE u = w
      BY <1>4, <1>5, <1>6, <2>1, <2>3
    <2>4. CASE v # w /\ u # w
      BY <1>4, <1>5, <1>6, <2>1, <2>4 DEF LessonInv
    <2> QED
      BY <2>2, <2>3, <2>4
  <1> QED
    BY <1>2, <1>3, <1>4, <1>5, <1>7, OnlyJobs DEF TablesInv

(* A worker dies, or a statement fails.                                    *)
LEMMA FailKeeps ==
    ASSUME BillingInv, NEW w \in Workers, Fail(w)
    PROVE  BillingInv'
  <1> USE DEF BillingInv, TypeInv
  <1>1. UNCHANGED <<setup, lesson, cycles, plan, pending, raced>>
    BY DEF Fail, data
  <1>2. job' = [job EXCEPT ![w] = Idle] /\ DOMAIN job = Workers
    BY DEF Fail, JobInv
  <1>3. DOMAIN job' = Workers /\ job'[w] = Idle /\ \A v \in Workers : v # w => job'[v] = job[v]
    BY <1>2
  <1>4. \A v \in Busy' : v \in Busy /\ job'[v] = job[v]
    BY <1>3 DEF Busy, At, Idle
  <1>5. raced' = {} => \A v, u \in Busy' :
           v # u => job'[v].m.lesson \notin Lessons \/ job'[v].m.lesson # job'[u].m.lesson
    BY <1>1, <1>4 DEF LessonInv
  <1> QED
    BY <1>1, <1>3, <1>5, OnlyJobs DEF TablesInv

(* The workspaces to start with.                                           *)
LEMMA InitBilling == Init => BillingInv
  <1> SUFFICES ASSUME Init
               PROVE  BillingInv
    OBVIOUS
  <1>1. /\ setup \in DOMAIN Setups /\ raced = {} /\ pending = << >>
        /\ job = [w \in Workers |-> Idle]
        /\ cycles = Setups[setup].cycles /\ plan = Setups[setup].plan
        /\ lesson = [l \in Lessons |->
                        [status |-> "none", roster |-> {}, attended |-> {}, future |-> FALSE]]
    BY DEF Init
  <1>2. /\ plan \in [Students -> [mode : {"none", "per_session", "package"}, size : Nat]]
        /\ cycles \in [Students -> Seq({c \in PackageRow : c.links = {} /\ c.opening <= c.limit})]
    BY <1>1, BillingAssumption
  <1>3. \A w \in Workers : job[w] = Idle /\ job[w].pc = "idle"
    BY <1>1 DEF Idle
  <1>4. TypeInv
    <2>1. JobInv
      BY <1>1 DEF JobInv, JobWellFormed
    <2>2. TablesInv
      BY <1>1, <1>2 DEF TablesInv
    <2> QED
      BY <2>1, <2>2 DEF TypeInv
  <1>5. OpeningInv
    BY <1>3 DEF OpeningInv, OpeningFits, Numbered
  <1>6. \A s \in Students : \A k \in DOMAIN cycles[s] :
           /\ cycles[s][k] \in PackageRow /\ cycles[s][k].links = {}
           /\ cycles[s][k].opening <= cycles[s][k].limit
    <2> SUFFICES ASSUME NEW s \in Students, NEW k \in DOMAIN cycles[s]
                 PROVE  cycles[s][k] \in {c \in PackageRow : c.links = {} /\ c.opening <= c.limit}
      OBVIOUS
    <2>1. cycles[s] \in Seq({c \in PackageRow : c.links = {} /\ c.opening <= c.limit})
      BY <1>2
    <2> QED
      BY <2>1
  <1>7. LessonInv
    <2>1. Busy = {}
      BY <1>3 DEF Busy, At
    <2>2. \A s \in Students : \A l \in Lessons : Linked(s, l) = {}
      BY <1>6 DEF Linked
    <2>3. \A w \in Workers : LessonKnown(w)
      BY <1>3 DEF LessonKnown, Charging, Reopening, Choosing, Unlinked
    <2> QED
      BY <2>1, <2>2, <2>3 DEF LessonInv
  <1>8. PackagesInv
    <2>1. cycles \in [Students -> Seq(PackageRow)]
      <3>1. \A s \in Students : cycles[s] \in Seq(PackageRow)
        <4> SUFFICES ASSUME NEW s \in Students
                     PROVE  cycles[s] \in Seq(PackageRow)
          OBVIOUS
        <4>1. cycles[s] \in Seq({c \in PackageRow : c.links = {} /\ c.opening <= c.limit})
          BY <1>2
        <4> QED
          BY <4>1
      <3> QED
        BY <1>2, <3>1
    <2>2. ASSUME NEW s \in Students, NEW k \in DOMAIN cycles[s]
          PROVE  Sound(cycles[s][k]) /\ Fits(cycles[s][k])
      <3>1. PICK c \in PackageRow : c = cycles[s][k] /\ c.links = {} /\ c.opening <= c.limit
        BY <1>6
      <3>2. IsFiniteSet(c.links) /\ Cardinality(c.links) = 0
        BY <3>1, FS_EmptySet
      <3>3. c.opening \in Nat
        BY DEF PackageRow
      <3> QED
        BY <3>1, <3>2, <3>3 DEF Sound, Fits, Used
    <2> QED
      BY <2>1, <2>2 DEF PackagesInv
  <1> QED
    BY <1>4, <1>5, <1>7, <1>8 DEF BillingInv

(* Every step keeps the invariant.                                         *)
LEMMA BillingStep == BillingInv /\ [Next]_vars => BillingInv'
  <1> SUFFICES ASSUME BillingInv, [Next]_vars
               PROVE  BillingInv'
    OBVIOUS
  <1>1. CASE UNCHANGED vars
    <2>1. UNCHANGED <<setup, lesson, cycles, plan, raced, pending, job>>
      BY <1>1 DEF vars, data, history
    <2>2. raced' = {} => \A v, u \in Busy' :
             v # u => job'[v].m.lesson \notin Lessons \/ job'[v].m.lesson # job'[u].m.lesson
      BY <2>1 DEF BillingInv, LessonInv, Busy, At
    <2> QED
      BY <2>1, <2>2, OnlyJobs DEF BillingInv, TypeInv, JobInv, TablesInv
  <1>2. CASE Send
    BY <1>2, SendKeeps
  <1>3. ASSUME NEW w \in Workers, Work(w)
        PROVE  BillingInv'
    <2>1. JobInv' /\ TablesInv'
      BY <1>3, WorkMoves, WorkTables DEF BillingInv, TypeInv
    <2> QED
      BY <1>3, <2>1, WorkOpening, WorkLessons, WorkPackages DEF BillingInv, TypeInv
  <1>4. ASSUME NEW w \in Workers, Take(w) \/ TakeOver(w) \/ Fail(w)
        PROVE  BillingInv'
    BY <1>4, TakeKeeps, TakeOverKeeps, FailKeeps
  <1> QED
    BY <1>1, <1>2, <1>3, <1>4 DEF Next, Rest

(* Whatever a worker has read of a package, what it writes later fits the  *)
(* tables as they are by then: every job is where its mutation may be, an  *)
(* opening progress still to be written fits, no two places are the same,  *)
(* and a worker alone at a lesson knows whether it is held and linked.     *)
THEOREM BillingInvariant == Spec => []BillingInv
  BY InitBilling, BillingStep, PTL DEF Spec

(* No package holds more lessons than it has places, unless two workers    *)
(* were at one lesson, and no two of its lessons share a place, for any    *)
(* number of students, lessons and workers, however often work fails, is   *)
(* repeated or overlaps (addOccurrenceToCycle, updateOpeningProgress,      *)
(* reopenCompletedOccurrence).                                             *)
THEOREM NeverOverfilledHolds == Spec => []NeverOverfilled
  <1>1. BillingInv => NeverOverfilled
    BY DEF BillingInv, PackagesInv, NeverOverfilled, Sound, Fits
  <1> QED
    BY <1>1, BillingInvariant, PTL

-----------------------------------------------------------------------------
(* The ledger                                                              *)

HeldLessons == {l \in Lessons : Completed(l)}

Charges == UNION {UNION {{<<x.lesson, s, k>> : x \in cycles[s][k].links} :
                         k \in DOMAIN cycles[s]} : s \in Students}

(* The steps of the ledger, in the terms of the packages.                  *)
LEMMA LedgerSteps ==
    ASSUME NEW l \in Lessons
    PROVE  /\ Ledger!ledger = <<HeldLessons, Charges>>
           /\ (Ledger!Init <=> HeldLessons = {} /\ Charges = {})
           /\ l \notin HeldLessons /\ HeldLessons' = HeldLessons \union {l} /\ Charges' = Charges
                 => Ledger!Next
           /\ (/\ l \in HeldLessons /\ (\A c \in Charges : c[1] # l)
               /\ HeldLessons' = HeldLessons \ {l} /\ Charges' = Charges)
                 => Ledger!Next
  <1>1. Ledger!ledger = <<HeldLessons, Charges>>
    BY DEF Ledger!ledger, HeldLessons, Charges
  <1>2. Ledger!Init <=> HeldLessons = {} /\ Charges = {}
    BY DEF Ledger!Init, HeldLessons, Charges
  <1>3. ASSUME l \notin HeldLessons, HeldLessons' = HeldLessons \union {l}, Charges' = Charges
        PROVE  Ledger!Next
    <2>1. Ledger!Hold(l)
      BY <1>3, Zenon DEF Ledger!Hold, HeldLessons, Charges
    <2> QED
      BY <2>1, Zenon DEF Ledger!Next
  <1>4. ASSUME l \in HeldLessons, \A c \in Charges : c[1] # l,
               HeldLessons' = HeldLessons \ {l}, Charges' = Charges
        PROVE  Ledger!Next
    <2>1. {c \in Charges : c[1] = l} = {}
      BY <1>4
    <2>2. Ledger!ChargesOf(l) = {c \in Charges : c[1] = l}
      BY Zenon DEF Ledger!ChargesOf, Charges
    <2>3. Ledger!GiveBack(l)
      BY <1>4, <2>1, <2>2, Zenon DEF Ledger!GiveBack, HeldLessons, Charges
    <2> QED
      BY <2>3, Zenon DEF Ledger!Next
  <1> QED
    BY <1>1, <1>2, <1>3, <1>4

(* The steps of the ledger that change its charges.                        *)
LEMMA LedgerCharges ==
    ASSUME NEW l \in Lessons, l \in HeldLessons, HeldLessons' = HeldLessons
    PROVE  /\ Charges' = {c \in Charges : c[1] # l} => Ledger!Next
           /\ \A s \in Students, k \in Nat :
                 (/\ \A c \in Charges : c[1] = l => c[2] # s
                  /\ Charges' = Charges \union {<<l, s, k>>})
                 => Ledger!Next
  <1>1. Ledger!ChargesOf(l) = {c \in Charges : c[1] = l}
    BY Zenon DEF Ledger!ChargesOf, Charges
  <1>2. ASSUME Charges' = {c \in Charges : c[1] # l}
        PROVE  Ledger!Next
    <2>1. Charges' = Charges \ {c \in Charges : c[1] = l}
      BY <1>2
    <2>2. Ledger!Discharge(l)
      BY <1>1, <2>1, Zenon DEF Ledger!Discharge, HeldLessons, Charges
    <2> QED
      BY <2>2, Zenon DEF Ledger!Next
  <1>3. ASSUME NEW s \in Students, NEW k \in Nat, \A c \in Charges : c[1] = l => c[2] # s,
               Charges' = Charges \union {<<l, s, k>>}
        PROVE  Ledger!Next
    <2>1. \A c \in {c \in Charges : c[1] = l} : c[2] # s
      BY <1>3
    <2>2. \E c \in Charges' : c[1] = l /\ c[2] = s /\ c[3] \in Nat /\ Charges' = Charges \union {c}
      <3>1. <<l, s, k>> \in Charges'
        BY <1>3
      <3>2. <<l, s, k>>[1] = l /\ <<l, s, k>>[2] = s /\ <<l, s, k>>[3] \in Nat
        OBVIOUS
      <3> QED
        BY <1>3, <3>1, <3>2, Zenon
    <2>3. Ledger!Charge(l, s)
      BY <1>1, <2>1, <2>2, Zenon DEF Ledger!Charge, HeldLessons, Charges
    <2> QED
      BY <2>3, Zenon DEF Ledger!Next
  <1> QED
    BY <1>2, <1>3

(* The charges are the links.                                              *)
LEMMA ChargesAreLinks ==
    ASSUME PackagesInv
    PROVE  \A c : c \in Charges <=>
              \E s \in Students, l \in Lessons : \E k \in Linked(s, l) : c = <<l, s, k>>
  <1> SUFFICES ASSUME NEW c
               PROVE  c \in Charges <=>
                         \E s \in Students, l \in Lessons : \E k \in Linked(s, l) : c = <<l, s, k>>
    OBVIOUS
  <1>1. c \in Charges <=> \E s \in Students : \E k \in DOMAIN cycles[s] :
                             \E x \in cycles[s][k].links : c = <<x.lesson, s, k>>
    BY DEF Charges
  <1>2. \A s \in Students : \A k \in DOMAIN cycles[s] : \A x \in cycles[s][k].links :
           x.lesson \in Lessons
    BY DEF PackagesInv, Sound, PackageRow
  <1> QED
    BY <1>1, <1>2 DEF Linked

(* The same of the state that a step leads to.                             *)
LEMMA ChargesWillBeLinks ==
    ASSUME PackagesInv'
    PROVE  \A c : c \in Charges' <=>
              \E s \in Students, l \in Lessons : \E k \in Linked(s, l)' : c = <<l, s, k>>
  <1> SUFFICES ASSUME NEW c
               PROVE  c \in Charges' <=>
                         \E s \in Students, l \in Lessons : \E k \in Linked(s, l)' : c = <<l, s, k>>
    OBVIOUS
  <1>1. c \in Charges' <=> \E s \in Students : \E k \in DOMAIN cycles'[s] :
                             \E x \in cycles'[s][k].links : c = <<x.lesson, s, k>>
    BY DEF Charges
  <1>2. \A s \in Students : \A k \in DOMAIN cycles'[s] : \A x \in cycles'[s][k].links :
           x.lesson \in Lessons
    BY DEF PackagesInv, Sound, PackageRow
  <1> QED
    BY <1>1, <1>2 DEF Linked

(* A step that leaves links or lessons alone leaves the ledger alone.      *)
LEMMA SameCharges ==
    ASSUME PackagesInv, PackagesInv'
    PROVE  /\ LinkedKept => Charges' = Charges
           /\ HeldKept => HeldLessons' = HeldLessons
  <1>1. ASSUME LinkedKept
        PROVE  Charges' = Charges
    <2>1. \A c : c \in Charges' <=>
             \E s \in Students, l \in Lessons : \E k \in Linked(s, l)' : c = <<l, s, k>>
      BY ChargesWillBeLinks
    <2> QED
      BY <1>1, <2>1, ChargesAreLinks DEF LinkedKept
  <1> QED
    BY <1>1 DEF HeldKept, HeldLessons

(* A worker alone at its lesson takes a step of the ledger, or none.       *)
LEMMA WorkLedger ==
    ASSUME BillingInv, NEW w \in Workers, Work(w), raced = {}
    PROVE  Ledger!Next \/ (Charges' = Charges /\ HeldLessons' = HeldLessons)
  <1> SUFFICES ASSUME NEW lost, lost = job[w].m.lesson
               PROVE  Ledger!Next \/ (Charges' = Charges /\ HeldLessons' = HeldLessons)
    OBVIOUS
  <1> USE DEF BillingInv, TypeInv
  <1>1. PackagesInv /\ PackagesInv' /\ LessonKnown(w)
    BY WorkPackages DEF LessonInv
  <1>2. /\ LinkedKept => Charges' = Charges
        /\ HeldKept => HeldLessons' = HeldLessons
    BY <1>1, SameCharges
  <1>3. /\ \A c : c \in Charges <=>
              \E s \in Students, l \in Lessons : \E k \in Linked(s, l) : c = <<l, s, k>>
        /\ \A c : c \in Charges' <=>
              \E s \in Students, l \in Lessons : \E k \in Linked(s, l)' : c = <<l, s, k>>
    BY <1>1, ChargesAreLinks, ChargesWillBeLinks
  <1>4. CASE job[w].pc = "add"
    <2>1. /\ lost \in Lessons /\ Completed(lost) /\ HeldKept
          /\ Now(w) \in Students => Linked(Now(w), lost) = {}
      BY <1>1, <1>4, AtLesson, Untouched DEF LessonKnown, Charging, Choosing
    <2>2. CASE LinkedKept
      BY <1>2, <2>1, <2>2
    <2>3. CASE ~ LinkedKept
      <3>1. Adds(w)
        BY <1>4, <2>3, Untouched
      <3>2. PICK s, k : s = Now(w) /\ k = job[w].at
        OBVIOUS
      <3>3. /\ cycles' # cycles /\ s \in Students /\ k \in DOMAIN cycles[s]
            /\ \A t \in Students, l \in Lessons :
                  Linked(t, l)' = IF t = s /\ l = lost THEN Linked(t, l) \union {k} ELSE Linked(t, l)
        BY <2>3, <3>1, <3>2 DEF Adds, LinkedKept, Arg
      <3>4. k \in Nat
        BY <3>3 DEF PackagesInv
      <3>5. \A c \in Charges : c[1] = lost => c[2] # s
        BY <1>3, <2>1, <3>2, <3>3
      <3>6. Charges' = Charges \union {<<lost, s, k>>}
        <4>1. ASSUME NEW c \in Charges'
              PROVE  c \in Charges \union {<<lost, s, k>>}
          <5>1. PICK t \in Students, l \in Lessons : \E n \in Linked(t, l)' : c = <<l, t, n>>
            BY <1>3, <4>1
          <5>2. PICK n \in Linked(t, l)' : c = <<l, t, n>>
            BY <5>1
          <5>3. n \in Linked(t, l) \/ (t = s /\ l = lost /\ n = k)
            BY <3>3, <5>2
          <5> QED
            BY <1>3, <5>2, <5>3
        <4>2. ASSUME NEW c \in Charges
              PROVE  c \in Charges'
          <5>1. PICK t \in Students, l \in Lessons : \E n \in Linked(t, l) : c = <<l, t, n>>
            BY <1>3, <4>2
          <5>2. \E n \in Linked(t, l)' : c = <<l, t, n>>
            BY <3>3, <5>1
          <5> QED
            BY <1>3, <5>1, <5>2
        <4>3. <<lost, s, k>> \in Charges'
          <5>1. k \in Linked(s, lost)'
            BY <2>1, <3>3
          <5> QED
            BY <1>3, <2>1, <3>3, <5>1
        <4> QED
          BY <4>1, <4>2, <4>3
      <3>7. lost \in HeldLessons /\ HeldLessons' = HeldLessons
        BY <1>2, <2>1 DEF HeldLessons
      <3> QED
        BY <2>1, <3>3, <3>4, <3>5, <3>6, <3>7, LedgerCharges
    <2> QED
      BY <2>2, <2>3
  <1>5. CASE job[w].pc = "unlink"
    <2>1. lost \in Lessons /\ Completed(lost) /\ HeldKept
      BY <1>1, <1>5, AtLesson, Untouched DEF LessonKnown, Reopening
    <2>2. CASE LinkedKept
      BY <1>2, <2>1, <2>2
    <2>3. CASE Unlinks(w)
      <3>1. \A s \in Students, l \in Lessons :
               Linked(s, l)' = IF l = lost THEN {} ELSE Linked(s, l)
        BY <2>3 DEF Unlinks, Arg
      <3>2. Charges' = {c \in Charges : c[1] # lost}
        <4>1. ASSUME NEW c \in Charges'
              PROVE  c \in Charges /\ c[1] # lost
          <5>1. PICK t \in Students, l \in Lessons : \E n \in Linked(t, l)' : c = <<l, t, n>>
            BY <1>3, <4>1
          <5>2. l # lost /\ \E n \in Linked(t, l) : c = <<l, t, n>>
            BY <3>1, <5>1
          <5> QED
            BY <1>3, <5>2
        <4>2. ASSUME NEW c \in Charges, c[1] # lost
              PROVE  c \in Charges'
          <5>1. PICK t \in Students, l \in Lessons : \E n \in Linked(t, l) : c = <<l, t, n>>
            BY <1>3, <4>2
          <5>2. \E n \in Linked(t, l)' : c = <<l, t, n>>
            BY <3>1, <4>2, <5>1
          <5> QED
            BY <1>3, <5>1, <5>2
        <4> QED
          BY <4>1, <4>2
      <3>3. lost \in HeldLessons /\ HeldLessons' = HeldLessons
        BY <1>2, <2>1 DEF HeldLessons
      <3> QED
        BY <2>1, <3>2, <3>3, LedgerCharges
    <2> QED
      BY <1>5, <2>2, <2>3, Untouched
  <1>6. CASE job[w].pc = "attend"
    <2>1. LinkedKept /\ (HeldKept \/ Holds(w)) /\ lost \in Lessons
      BY <1>6, AtLesson, Untouched
    <2>2. CASE HeldKept \/ Completed(lost)
      BY <1>2, <2>1, <2>2 DEF HeldKept, Holds, Arg
    <2>3. CASE Holds(w) /\ ~ Completed(lost)
      <3>1. lost \notin HeldLessons /\ HeldLessons' = HeldLessons \union {lost}
        BY <2>1, <2>3 DEF Holds, HeldLessons, Arg
      <3> QED
        BY <1>2, <2>1, <3>1, LedgerSteps
    <2> QED
      BY <2>1, <2>2, <2>3
  <1>7. CASE job[w].pc = "unattend"
    <2>1. /\ LinkedKept /\ (HeldKept \/ Gives(w)) /\ lost \in Lessons /\ Completed(lost)
          /\ \A s \in Students : Linked(s, lost) = {}
      BY <1>1, <1>7, AtLesson, Untouched DEF LessonKnown, Reopening, Unlinked
    <2>2. CASE HeldKept
      BY <1>2, <2>1, <2>2
    <2>3. CASE Gives(w)
      <3>1. lost \in HeldLessons /\ HeldLessons' = HeldLessons \ {lost}
        BY <2>1, <2>3 DEF Gives, HeldLessons, Arg
      <3>2. \A c \in Charges : c[1] # lost
        BY <1>3, <2>1
      <3> QED
        BY <1>2, <2>1, <3>1, <3>2, LedgerSteps
    <2> QED
      BY <2>1, <2>2, <2>3
  <1>8. CASE job[w].pc \notin {"add", "unlink", "attend", "unattend"}
    BY <1>2, <1>8, Untouched
  <1> QED
    BY <1>4, <1>5, <1>6, <1>7, <1>8

(* The ledger is empty to begin with.                                      *)
LEMMA LedgerInit == Init => Ledger!Init
  <1> SUFFICES ASSUME Init
               PROVE  HeldLessons = {} /\ Charges = {}
    BY Zenon DEF Ledger!Init, HeldLessons, Charges
  <1>1. \A l \in Lessons : ~ Completed(l)
    BY DEF Init, Completed
  <1>2. \A s \in Students : \A l \in Lessons : Linked(s, l) = {}
    BY <1>1, InitBilling DEF BillingInv, LessonInv, Init
  <1>3. PackagesInv
    BY InitBilling DEF BillingInv
  <1> QED
    BY <1>1, <1>2, <1>3, ChargesAreLinks DEF HeldLessons

(* Every step is a step of the ledger, or none for it.                     *)
LEMMA LedgerStep ==
    BillingInv /\ [Next]_vars => [raced' = {} => Ledger!Next]_(Ledger!ledger)
  <1> SUFFICES ASSUME BillingInv, [Next]_vars, raced' = {}
               PROVE  Ledger!Next \/ (Charges' = Charges /\ HeldLessons' = HeldLessons)
    <2>1. Ledger!ledger = <<HeldLessons, Charges>>
      BY DEF Ledger!ledger, HeldLessons, Charges
    <2>2. Ledger!ledger' = <<HeldLessons, Charges>>'
      BY DEF Ledger!ledger, HeldLessons, Charges
    <2> QED
      BY <2>1, <2>2
  <1>1. ASSUME UNCHANGED <<lesson, cycles>>
        PROVE  Charges' = Charges /\ HeldLessons' = HeldLessons
    BY <1>1 DEF Charges, HeldLessons, Completed
  <1>2. CASE UNCHANGED vars \/ Send
    BY <1>1, <1>2 DEF vars, Send, data
  <1>3. ASSUME NEW w \in Workers, Take(w) \/ TakeOver(w) \/ Fail(w)
        PROVE  UNCHANGED <<lesson, cycles>>
    BY <1>3 DEF Take, TakeOver, Fail, data
  <1>4. ASSUME NEW w \in Workers, Work(w)
        PROVE  Ledger!Next \/ (Charges' = Charges /\ HeldLessons' = HeldLessons)
    <2>1. raced = {}
      BY <1>4, WorkKeeps
    <2> QED
      BY <1>4, <2>1, WorkLedger
  <1> QED
    BY <1>1, <1>2, <1>3, <1>4 DEF Next, Rest

(* The handlers implement the ledger: as long as no two workers were at    *)
(* one lesson, each step of one charges a student that is not charged yet  *)
(* for a lesson that is held, takes back all charges of a lesson, counts a *)
(* lesson as given or, once it has no charges, as not given, or does       *)
(* nothing of the kind, wherever workers die and whatever is repeated.     *)
THEOREM LessonLedgerImplemented == Spec => LedgerSpec
  <1>1. BillingInv /\ [Next]_vars => [raced' = {} => Ledger!Next]_(Ledger!ledger)
    BY LedgerStep
  <1> QED
    BY <1>1, LedgerInit, BillingInvariant, PTL DEF Spec, LedgerSpec

-----------------------------------------------------------------------------
(* Places without a gap                                                    *)

Pairs(todo) == {<<x[1], x[2]>> : x \in ToSet(todo)}

(* The packages whose places worker w has still to number from scratch.    *)
Owes(w) ==
    IF job[w].pc \in {"shift", "places"} THEN Pairs(job[w].todo)
    ELSE IF job[w].pc \in {"renumber", "settle"} THEN Pairs(Tail(job[w].todo))
    ELSE {}

Renumbers(w, s, k) == job[w].pc = "renumber" /\ Now(w)[1] = s /\ Now(w)[2] = k

Contiguous(c) == Positions(c) = (c.opening + 1) .. Used(c)

(* The first places are numbered, the rows of left are still to come, and  *)
(* what was linked since follows after the places that are kept for them.  *)
HalfNumbered(c, left, at) ==
    /\ left \in SUBSET c.links
    /\ at + Cardinality(left) <= Cardinality(c.links)
    /\ {x.pos : x \in c.links \ left} =
          ((c.opening + 1) .. (c.opening + at))
             \union ((c.opening + at + Cardinality(left) + 1) .. Used(c))

(* The places of a package have no gap, or some worker will see to that.   *)
InPlace(s, k) ==
    \/ \E w \in Workers : <<s, k>> \in Owes(w)
    \/ \E w \in Workers :
          Renumbers(w, s, k) /\ HalfNumbered(cycles[s][k], job[w].left, job[w].at)
    \/ Contiguous(cycles[s][k]) /\ \A w \in Workers : ~ Renumbers(w, s, k)

OneNumbers(s, k) ==
    \A v, w \in Workers : Renumbers(v, s, k) /\ Renumbers(w, s, k) => v = w

(* What a worker that reopens a lesson has read of its packages.           *)
ReadRight(w) ==
    LET l == job[w].m.lesson
        todo == job[w].todo
    IN /\ job[w].pc = "unlink" =>
             \A s \in Students : \A k : k \in Linked(s, l) <=> <<s, k>> \in Pairs(todo)
       /\ job[w].pc \in Numbered \union {"unlink"} =>
             \A x \in ToSet(todo) : <<x[1], x[2]>> \notin torn =>
                /\ x[2] \in DOMAIN cycles[x[1]]
                /\ x[3] = cycles[x[1]][x[2]].opening

GapInv ==
    raced = {} =>
        /\ \A w \in Workers : ReadRight(w)
        /\ \A s \in Students : \A k \in DOMAIN cycles[s] :
              <<s, k>> \notin torn => InPlace(s, k) /\ OneNumbers(s, k)

(* A package without lessons has no gap.                                   *)
LEMMA EmptyContiguous ==
    ASSUME NEW c, c.links = {}, c.opening \in Nat
    PROVE  Contiguous(c)
  <1>1. Positions(c) = {}
    BY DEF Positions
  <1>2. Used(c) = c.opening
    BY FS_EmptySet DEF Used
  <1> QED
    BY <1>1, <1>2 DEF Contiguous

(* What is not yet numbered is all there is at first.                      *)
LEMMA HalfBegins ==
    ASSUME NEW c, Sound(c)
    PROVE  HalfNumbered(c, c.links, 0)
  <1>1. c.opening \in Nat /\ IsFiniteSet(c.links) /\ Cardinality(c.links) \in Nat
    BY FS_CardinalityType DEF Sound, PackageRow
  <1>2. {x.pos : x \in c.links \ c.links} = {}
    OBVIOUS
  <1>3. Used(c) = c.opening + Cardinality(c.links)
    BY DEF Used
  <1> HIDE DEF Used
  <1> QED
    BY <1>1, <1>2, <1>3 DEF HalfNumbered

(* When no row is left the places have no gap.                             *)
LEMMA HalfEnds ==
    ASSUME NEW c, Sound(c), NEW at \in Nat, HalfNumbered(c, {}, at)
    PROVE  Contiguous(c)
  <1>1. c.opening \in Nat /\ IsFiniteSet(c.links) /\ Cardinality(c.links) \in Nat
    BY FS_CardinalityType DEF Sound, PackageRow
  <1>2. Cardinality({}) = 0 /\ c.links \ {} = c.links
    BY FS_EmptySet
  <1>3. Positions(c) = ((c.opening + 1) .. (c.opening + at))
                          \union ((c.opening + at + 1) .. Used(c))
    BY <1>1, <1>2 DEF HalfNumbered, Positions
  <1>4. at <= Cardinality(c.links) /\ Used(c) = c.opening + Cardinality(c.links)
    BY <1>1, <1>2 DEF HalfNumbered, Used
  <1> QED
    BY <1>1, <1>3, <1>4 DEF Contiguous

(* A row that gets its number leaves the rest as they were.                *)
LEMMA HalfGoesOn ==
    ASSUME NEW c, Sound(c), NEW left, NEW at \in Nat, HalfNumbered(c, left, at), NEW row \in left,
           NEW d, d.links = Moved(c.links, row.lesson, c.opening + at + 1), d.opening = c.opening
    PROVE  HalfNumbered(d, left \ {row}, at + 1)
  <1> DEFINE pos == c.opening + at + 1
             moved == [row EXCEPT !.pos = pos]
             rest == c.links \ {row}
  <1>1. /\ c.opening \in Nat /\ IsFiniteSet(c.links) /\ Cardinality(c.links) \in Nat
        /\ c.links \in SUBSET [lesson : Lessons, pos : Nat] /\ pos \in Nat
    BY FS_CardinalityType DEF Sound, PackageRow
  <1>2. left \in SUBSET c.links /\ row \in c.links /\ IsFiniteSet(left) /\ Cardinality(left) \in Nat
    BY <1>1, FS_Subset, FS_CardinalityType DEF HalfNumbered
  <1>3. d.links = rest \union {moved}
    <2>1. d.links = Moved(c.links, row.lesson, pos)
      OBVIOUS
    <2>2. pos \in Nat /\ row \in c.links
      BY <1>1, <1>2
    <2> HIDE DEF pos
    <2>3. PICK lsn : lsn = row.lesson
      OBVIOUS
    <2>4. Moved(c.links, lsn, pos) = (c.links \ {row}) \union {[row EXCEPT !.pos = pos]}
      BY <2>2, <2>3, MovedIs
    <2> QED
      BY <2>1, <2>3, <2>4
  <1>4. moved.lesson = row.lesson /\ moved.pos = pos
    BY <1>1, <1>2
  <1> HIDE DEF moved, pos
  <1>5. \A x \in rest : x.lesson # row.lesson
    BY <1>2 DEF Sound
  <1>6. moved \notin rest
    BY <1>4, <1>5
  <1>7. /\ IsFiniteSet(rest) /\ Cardinality(rest) = Cardinality(c.links) - 1
        /\ Cardinality(left \ {row}) = Cardinality(left) - 1
    BY <1>1, <1>2, FS_RemoveElement
  <1> HIDE DEF rest
  <1>8. Cardinality(rest \union {moved}) = Cardinality(c.links)
    <2>1. Cardinality(rest \union {moved}) = Cardinality(rest) + 1
      BY <1>6, <1>7, FS_AddElement
    <2> QED
      BY <1>1, <1>7, <2>1
  <1>9. Used(d) = Used(c) /\ Used(c) = c.opening + Cardinality(c.links)
    BY <1>3, <1>8 DEF Used
  <1>10. left \ {row} \in SUBSET d.links
    BY <1>2, <1>3 DEF rest
  <1>11. at + 1 + Cardinality(left \ {row}) = at + Cardinality(left)
    BY <1>2, <1>7
  <1>12. d.links \ (left \ {row}) = (c.links \ left) \union {moved}
    <2>1. moved \notin left \ {row}
      BY <1>2, <1>6 DEF rest
    <2> QED
      BY <1>2, <1>3, <2>1 DEF rest
  <1>13. {x.pos : x \in d.links \ (left \ {row})} = {x.pos : x \in c.links \ left} \union {pos}
    BY <1>4, <1>12
  <1>14. {x.pos : x \in c.links \ left} =
            ((c.opening + 1) .. (c.opening + at))
               \union ((c.opening + at + Cardinality(left) + 1) .. Used(c))
    BY DEF HalfNumbered
  <1>15. ((c.opening + 1) .. (c.opening + at)) \union {pos} =
            (c.opening + 1) .. (c.opening + (at + 1))
    BY <1>1 DEF pos
  <1>16. c.opening + (at + 1) + Cardinality(left \ {row}) + 1 =
            c.opening + at + Cardinality(left) + 1
    <2> DEFINE n == Cardinality(left)
               m == Cardinality(left \ {row})
    <2>1. n \in Nat /\ m = n - 1
      BY <1>2, <1>7
    <2> HIDE DEF n, m
    <2> QED
      BY <1>1, <2>1 DEF n, m
  <1>17. {x.pos : x \in d.links \ (left \ {row})} =
            ((d.opening + 1) .. (d.opening + (at + 1)))
               \union ((d.opening + (at + 1) + Cardinality(left \ {row}) + 1) .. Used(d))
    <2> DEFINE A == (c.opening + 1) .. (c.opening + at)
               B == (c.opening + at + Cardinality(left) + 1) .. Used(c)
    <2>1. {x.pos : x \in d.links \ (left \ {row})} = A \union B \union {pos}
      BY <1>13, <1>14
    <2>2. A \union B \union {pos} = ((c.opening + 1) .. (c.opening + (at + 1))) \union B
      <3>1. A \union {pos} = (c.opening + 1) .. (c.opening + (at + 1))
        BY <1>15
      <3> HIDE DEF A, B
      <3> QED
        BY <3>1
    <2>3. B = (d.opening + (at + 1) + Cardinality(left \ {row}) + 1) .. Used(d)
      BY <1>9, <1>16
    <2> QED
      BY <2>1, <2>2, <2>3
  <1>18. at + 1 + Cardinality(left \ {row}) <= Cardinality(d.links)
    BY <1>3, <1>8, <1>11 DEF HalfNumbered
  <1> QED
    BY <1>10, <1>17, <1>18 DEF HalfNumbered

(* A lesson that is linked takes the next place.                           *)
LEMMA NextPlace ==
    ASSUME NEW c, Sound(c), NEW link, link \notin c.links, link.pos = Used(c) + 1,
           NEW d, d.links = c.links \union {link}, d.opening = c.opening
    PROVE  /\ Contiguous(c) => Contiguous(d)
           /\ \A left : \A at \in Nat : HalfNumbered(c, left, at) => HalfNumbered(d, left, at)
  <1>1. c.opening \in Nat /\ IsFiniteSet(c.links) /\ Cardinality(c.links) \in Nat
    BY FS_CardinalityType DEF Sound, PackageRow
  <1>2. Cardinality(d.links) = Cardinality(c.links) + 1
    BY <1>1, FS_AddElement
  <1>3. Used(d) = Used(c) + 1 /\ Used(c) = c.opening + Cardinality(c.links)
    BY <1>1, <1>2 DEF Used
  <1>4. Contiguous(c) => Contiguous(d)
    <2>1. Positions(d) = Positions(c) \union {link.pos}
      BY DEF Positions
    <2>2. ((c.opening + 1) .. Used(c)) \union {Used(c) + 1} = (c.opening + 1) .. (Used(c) + 1)
      BY <1>1, <1>3
    <2> QED
      BY <1>3, <2>1, <2>2 DEF Contiguous
  <1>5. ASSUME NEW left, NEW at \in Nat, HalfNumbered(c, left, at)
        PROVE  HalfNumbered(d, left, at)
    <2>1. left \in SUBSET c.links /\ at + Cardinality(left) <= Cardinality(c.links)
      BY <1>5 DEF HalfNumbered
    <2>2. Cardinality(left) \in Nat
      BY <1>1, <2>1, FS_Subset, FS_CardinalityType
    <2>3. d.links \ left = (c.links \ left) \union {link}
      BY <2>1
    <2>4. {x.pos : x \in d.links \ left} = {x.pos : x \in c.links \ left} \union {Used(c) + 1}
      BY <2>3
    <2> DEFINE A == (c.opening + 1) .. (c.opening + at)
               from == c.opening + at + Cardinality(left) + 1
    <2>5. {x.pos : x \in c.links \ left} = A \union (from .. Used(c))
      BY <1>5 DEF HalfNumbered
    <2>6. from \in Nat /\ from <= Used(c) + 1 /\ Used(c) \in Nat
      BY <1>1, <1>3, <2>1, <2>2
    <2>7. (from .. Used(c)) \union {Used(c) + 1} = from .. (Used(c) + 1)
      <3> HIDE DEF from
      <3> QED
        BY <2>6
    <2>8. {x.pos : x \in d.links \ left} = A \union (from .. Used(d))
      <3> HIDE DEF A, from
      <3> QED
        BY <1>3, <2>4, <2>5, <2>7
    <2> QED
      BY <1>1, <1>2, <2>1, <2>2, <2>8 DEF HalfNumbered
  <1> QED
    BY <1>4, <1>5


(* The steps that touch the places of a package at all.                    *)
LEMMA WrittenIs ==
    ASSUME PackagesInv, NEW a, NEW b, NEW c, cycles' = [cycles EXCEPT ![a][b] = c],
           NEW s \in Students, NEW k \in DOMAIN cycles[s]
    PROVE  \/ s = a /\ k = b /\ cycles'[s][k] = c
           \/ ~ (s = a /\ k = b) /\ cycles'[s][k] = cycles[s][k]
  <1>1. cycles[s] \in Seq(PackageRow) /\ DOMAIN cycles = Students
    BY DEF PackagesInv
  <1>2. cycles'[s] = IF s = a THEN [cycles[s] EXCEPT ![b] = c] ELSE cycles[s]
    BY <1>1
  <1> QED
    BY <1>1, <1>2

SamePlaces(s, k) ==
    /\ cycles'[s][k].links = cycles[s][k].links
    /\ cycles'[s][k].opening = cycles[s][k].opening

(* Only these steps change what the places of a package follow from.       *)
LEMMA WorkPlaces ==
    ASSUME BillingInv, NEW w \in Workers, Work(w),
           NEW s \in Students, NEW k \in DOMAIN cycles[s]
    PROVE  \/ SamePlaces(s, k)
           \/ Unlink(w)
           \/ AddToCycle(w) /\ cycles' # cycles /\ s = Now(w) /\ k = job[w].at
           \/ SetOpening(w) /\ cycles' # cycles /\ s = Arg(w).student /\ k = job[w].at
           \/ /\ ShiftPositions(w) \/ Renumber(w)
              /\ s = Now(w)[1] /\ k = Now(w)[2]
  <1> USE DEF BillingInv
  <1>1. CASE cycles' = cycles
    BY <1>1 DEF SamePlaces
  <1>2. ASSUME LockOpening(w)
        PROVE  SamePlaces(s, k)
    <2> DEFINE a == Now(w)
               b == job[w].at
               c == [cycles[a][b] EXCEPT !.locked = TRUE]
    <2>1. cycles' = [cycles EXCEPT ![a][b] = c]
      BY <1>2 DEF LockOpening
    <2>2. cycles[s][k] \in PackageRow
      BY DEF PackagesInv
    <2> HIDE DEF a, b, c
    <2>3. \/ s = a /\ k = b /\ cycles'[s][k] = c
          \/ cycles'[s][k] = cycles[s][k]
      BY <2>1, WrittenIs
    <2>4. s = a /\ k = b => c.links = cycles[s][k].links /\ c.opening = cycles[s][k].opening
      BY <2>2 DEF PackageRow, c
    <2> QED
      BY <2>3, <2>4 DEF SamePlaces
  <1>9. ASSUME cycles' # cycles, MarkCycleDue(w)
        PROVE  SamePlaces(s, k)
    <2> DEFINE a == Now(w)
               b == job[w].at
               c == [cycles[a][b] EXCEPT !.status = "due", !.locked = TRUE]
    <2>1. cycles' = [cycles EXCEPT ![a][b] = c]
      BY <1>9 DEF MarkCycleDue
    <2>2. cycles[s][k] \in PackageRow
      BY DEF PackagesInv
    <2> HIDE DEF a, b, c
    <2>3. \/ s = a /\ k = b /\ cycles'[s][k] = c
          \/ cycles'[s][k] = cycles[s][k]
      BY <2>1, WrittenIs
    <2>4. s = a /\ k = b => c.links = cycles[s][k].links /\ c.opening = cycles[s][k].opening
      BY <2>2 DEF PackageRow, c
    <2> QED
      BY <2>3, <2>4 DEF SamePlaces
  <1>3. ASSUME SettleCycle(w)
        PROVE  SamePlaces(s, k)
    <2> DEFINE a == Now(w)[1]
               b == Now(w)[2]
               done == Now(w)[3] + job[w].at >= cycles[a][b].limit
               status == IF done THEN "due" ELSE "open"
               c == [cycles[a][b] EXCEPT !.status = status, !.locked = TRUE]
    <2>1. cycles' = [cycles EXCEPT ![a][b] = c]
      BY <1>3 DEF SettleCycle
    <2>2. cycles[s][k] \in PackageRow
      BY DEF PackagesInv
    <2> HIDE DEF a, b, status, c
    <2>3. \/ s = a /\ k = b /\ cycles'[s][k] = c
          \/ cycles'[s][k] = cycles[s][k]
      BY <2>1, WrittenIs
    <2>4. s = a /\ k = b => c.links = cycles[s][k].links /\ c.opening = cycles[s][k].opening
      BY <2>2 DEF PackageRow, c
    <2> QED
      BY <2>3, <2>4 DEF SamePlaces
  <1>4. ASSUME FirstCycle(w) \/ CreateCycle(w)
        PROVE  SamePlaces(s, k)
    <2>1. \/ cycles' = cycles
          \/ \E t, c : cycles' = [cycles EXCEPT ![t] = Append(cycles[t], c)]
          \/ \E t, c : cycles[t] = << >> /\ cycles' = [cycles EXCEPT ![t] = <<c>>]
      BY <1>4 DEF FirstCycle, CreateCycle
    <2>2. cycles[s] \in Seq(PackageRow) /\ DOMAIN cycles = Students /\ k \in 1 .. Len(cycles[s])
      BY DEF PackagesInv
    <2>3. \A c : Append(cycles[s], c)[k] = cycles[s][k]
      BY <2>2
    <2>4. cycles[s] # << >>
      BY <2>2
    <2>5. cycles'[s][k] = cycles[s][k]
      <3>1. ASSUME NEW t, NEW c, cycles' = [cycles EXCEPT ![t] = Append(cycles[t], c)]
            PROVE  cycles'[s][k] = cycles[s][k]
        <4>1. cycles'[s] = IF s = t THEN Append(cycles[s], c) ELSE cycles[s]
          BY <2>2, <3>1
        <4> QED
          BY <2>3, <4>1
      <3>2. ASSUME NEW t, NEW c, cycles[t] = << >>, cycles' = [cycles EXCEPT ![t] = <<c>>]
            PROVE  cycles'[s][k] = cycles[s][k]
        BY <2>2, <2>4, <3>2
      <3> QED
        BY <2>1, <3>1, <3>2
    <2> QED
      BY <2>5 DEF SamePlaces
  <1>5. ASSUME NormalizeCycles(w)
        PROVE  SamePlaces(s, k)
    <2>1. cycles' = [cycles EXCEPT ![Now(w)] =
                        [n \in DOMAIN cycles[Now(w)] |-> Normalized(cycles[Now(w)][n])]]
      BY <1>5 DEF NormalizeCycles
    <2>2. cycles[s][k] \in PackageRow /\ DOMAIN cycles = Students
      BY DEF PackagesInv
    <2>3. cycles'[s][k] = cycles[s][k] \/ cycles'[s][k] = Normalized(cycles[s][k])
      <3>1. CASE s = Now(w)
        <4>1. cycles'[s] = [n \in DOMAIN cycles[s] |-> Normalized(cycles[s][n])]
          BY <2>1, <2>2, <3>1
        <4> QED
          BY <4>1
      <3>2. CASE s # Now(w)
        BY <2>1, <2>2, <3>2
      <3> QED
        BY <3>1, <3>2
    <2>4. Normalized(cycles[s][k]) = [cycles[s][k] EXCEPT !.status = "due"]
             \/ Normalized(cycles[s][k]) = [cycles[s][k] EXCEPT !.status = "open"]
      BY DEF Normalized
    <2> QED
      BY <2>2, <2>3, <2>4 DEF SamePlaces, PackageRow
  <1>6. ASSUME AddToCycle(w), cycles' # cycles, ~ (s = Now(w) /\ k = job[w].at)
        PROVE  SamePlaces(s, k)
    <2>1. \E c : cycles' = [cycles EXCEPT ![Now(w)][job[w].at] = c]
      BY <1>6 DEF AddToCycle, TryAgain, GiveUp, data
    <2> QED
      BY <1>6, <2>1, WrittenIs DEF SamePlaces
  <1>7. ASSUME SetOpening(w), cycles' # cycles, ~ (s = Arg(w).student /\ k = job[w].at)
        PROVE  SamePlaces(s, k)
    <2>1. \E c : cycles' = [cycles EXCEPT ![Arg(w).student][job[w].at] = c]
      BY <1>7 DEF SetOpening, Refuse, data
    <2> QED
      BY <1>7, <2>1, WrittenIs DEF SamePlaces
  <1>8. ASSUME ShiftPositions(w) \/ Renumber(w), cycles' # cycles,
               ~ (s = Now(w)[1] /\ k = Now(w)[2])
        PROVE  SamePlaces(s, k)
    <2>1. \E c : cycles' = [cycles EXCEPT ![Now(w)[1]][Now(w)[2]] = c]
      BY <1>8 DEF ShiftPositions, Renumber, GiveUp, data
    <2> QED
      BY <1>8, <2>1, WrittenIs DEF SamePlaces
  <1> QED
    BY <1>1, <1>2, <1>3, <1>4, <1>5, <1>6, <1>7, <1>8, <1>9, WorkKeeps

(* A package that is new has no lessons.                                   *)
LEMMA NewPlaces ==
    ASSUME BillingInv, NEW w \in Workers, Work(w),
           NEW s \in Students, NEW k \in DOMAIN cycles'[s], k \notin DOMAIN cycles[s]
    PROVE  (FirstCycle(w) \/ CreateCycle(w)) /\ Contiguous(cycles'[s][k])
  <1> USE DEF BillingInv
  <1>1. PackagesInv'
    BY WorkPackages
  <1>2. CASE FirstCycle(w) \/ CreateCycle(w)
    <2>1. \/ cycles' = cycles
          \/ \E t, size, opening :
                cycles' = [cycles EXCEPT ![t] = Append(cycles[t], NewCycle(size, opening))]
          \/ \E t, size, opening :
                cycles[t] = << >> /\ cycles' = [cycles EXCEPT ![t] = <<NewCycle(size, opening)>>]
      BY <1>2 DEF FirstCycle, CreateCycle
    <2>2. cycles[s] \in Seq(PackageRow) /\ DOMAIN cycles = Students
      BY DEF PackagesInv
    <2>3. \A c : \A n \in DOMAIN Append(cycles[s], c) :
             n \in DOMAIN cycles[s] \/ Append(cycles[s], c)[n] = c
      BY <2>2
    <2>4. \E size, opening : cycles'[s][k] = NewCycle(size, opening)
      <3>1. ASSUME NEW t, NEW size, NEW opening,
                   cycles' = [cycles EXCEPT ![t] = Append(cycles[t], NewCycle(size, opening))]
            PROVE  cycles'[s][k] = NewCycle(size, opening)
        <4>1. cycles'[s] = IF s = t THEN Append(cycles[s], NewCycle(size, opening)) ELSE cycles[s]
          BY <2>2, <3>1
        <4> HIDE DEF NewCycle
        <4> QED
          BY <2>3, <4>1
      <3>2. ASSUME NEW t, NEW size, NEW opening, cycles[t] = << >>,
                   cycles' = [cycles EXCEPT ![t] = <<NewCycle(size, opening)>>]
            PROVE  cycles'[s][k] = NewCycle(size, opening)
        <4>1. s = t /\ cycles'[s] = <<NewCycle(size, opening)>>
          BY <2>2, <3>2
        <4>2. k = 1
          BY <4>1
        <4> QED
          BY <4>1, <4>2
      <3>3. cycles' # cycles
        OBVIOUS
      <3>4. CASE \E t, size, opening :
                    cycles' = [cycles EXCEPT ![t] = Append(cycles[t], NewCycle(size, opening))]
        BY <3>1, <3>4
      <3>5. CASE \E t, size, opening :
                    cycles[t] = << >> /\ cycles' = [cycles EXCEPT ![t] = <<NewCycle(size, opening)>>]
        BY <3>2, <3>5
      <3> QED
        BY <2>1, <3>3, <3>4, <3>5
    <2>5. cycles'[s][k].links = {}
      BY <2>4 DEF NewCycle
    <2>7. Sound(cycles'[s][k])
      BY <1>1 DEF PackagesInv
    <2>6. cycles'[s][k].opening \in Nat
      BY <2>7 DEF Sound, PackageRow
    <2> QED
      BY <1>2, <2>5, <2>6, EmptyContiguous
  <1>3. CASE ~ (FirstCycle(w) \/ CreateCycle(w))
    <2>1. /\ DOMAIN cycles = Students
          /\ \A t \in Students : cycles[t] = [n \in DOMAIN cycles[t] |-> cycles[t][n]]
      BY DEF PackagesInv
    <2>2. LockOpening(w) \/ MarkCycleDue(w) \/ SettleCycle(w) =>
             DOMAIN cycles'[s] = DOMAIN cycles[s]
      BY <2>1 DEF LockOpening, MarkCycleDue, SettleCycle
    <2>3. SetOpening(w) \/ AddToCycle(w) => DOMAIN cycles'[s] = DOMAIN cycles[s]
      BY <2>1 DEF SetOpening, AddToCycle, Refuse, TryAgain, GiveUp, data
    <2>4. ShiftPositions(w) => DOMAIN cycles'[s] = DOMAIN cycles[s]
      BY <2>1 DEF ShiftPositions, GiveUp, data
    <2>5. Renumber(w) => DOMAIN cycles'[s] = DOMAIN cycles[s]
      BY <2>1 DEF Renumber, GiveUp, data
    <2>6. Unlink(w) => DOMAIN cycles'[s] = DOMAIN cycles[s]
      BY DEF Unlink
    <2>7. NormalizeCycles(w) => DOMAIN cycles'[s] = DOMAIN cycles[s]
      BY <2>1 DEF NormalizeCycles
    <2>8. DOMAIN cycles'[s] = DOMAIN cycles[s]
      BY <1>3, <2>2, <2>3, <2>4, <2>5, <2>6, <2>7, WorkKeeps
    <2> QED
      BY <2>8
  <1> QED
    BY <1>2, <1>3

(* What is torn stays so.                                                  *)
LEMMA TornGrows ==
    ASSUME NEW w \in Workers, Work(w)
    PROVE  torn \in SUBSET torn'
  <1>1. Cancel(w) => torn \in SUBSET torn'
    BY DEF Cancel, Refuse, SetStatus, Aside, Steady
  <1>2. Restore(w) => torn \in SUBSET torn'
    BY DEF Restore, Refuse, SetStatus, Aside, Steady
  <1>3. Reschedule(w) => torn \in SUBSET torn'
    BY DEF Reschedule, Refuse, Aside, Steady
  <1>4. ArchiveStudent(w) => torn \in SUBSET torn'
    BY DEF ArchiveStudent, SetSession, Aside, Steady
  <1>5. RestoreStudent(w) => torn \in SUBSET torn'
    BY DEF RestoreStudent, Aside, Steady
  <1>6. ArchiveSession(w) => torn \in SUBSET torn'
    BY DEF ArchiveSession, SetSession, Aside, Steady
  <1>7. RestoreSession(w) => torn \in SUBSET torn'
    BY DEF RestoreSession, SetSession, Aside, Steady
  <1>8. UpdateDetails(w) => torn \in SUBSET torn'
    BY DEF UpdateDetails, Refuse, SetSession, Aside, Steady
  <1>9. BeginConfigure(w) => torn \in SUBSET torn'
    BY DEF BeginConfigure, Refuse, Aside, Steady
  <1>10. SetOpening(w) => torn \in SUBSET torn'
    BY DEF SetOpening, Refuse, Aside, Steady
  <1>11. UpsertPlan(w) => torn \in SUBSET torn'
    BY DEF UpsertPlan, Aside, Steady
  <1>12. FirstCycle(w) => torn \in SUBSET torn'
    BY DEF FirstCycle, Aside, Steady
  <1>13. BeginComplete(w) => torn \in SUBSET torn'
    BY DEF BeginComplete, Refuse, Aside, Steady
  <1>14. Look(w) => torn \in SUBSET torn'
    BY DEF Look, Refuse, Aside, Steady
  <1>15. Attend(w) => torn \in SUBSET torn'
    BY DEF Attend, Aside, Steady
  <1>16. FindAffected(w) => torn \in SUBSET torn'
    BY DEF FindAffected, Aside, Steady
  <1>17. FindLink(w) => torn \in SUBSET torn'
    BY DEF FindLink, Aside, Steady
  <1>18. FindOpenCycle(w) => torn \in SUBSET torn'
    BY DEF FindOpenCycle, TryAgain, GiveUp, Aside, Steady
  <1>19. CreateCycle(w) => torn \in SUBSET torn'
    BY DEF CreateCycle, Aside, Steady
  <1>20. AddToCycle(w) => torn \in SUBSET torn'
    BY DEF AddToCycle, TryAgain, GiveUp, Aside, Steady
  <1>21. LockOpening(w) => torn \in SUBSET torn'
    BY DEF LockOpening, Aside, Steady
  <1>22. MarkCycleDue(w) => torn \in SUBSET torn'
    BY DEF MarkCycleDue, Aside, Steady
  <1>23. BeginReopen(w) => torn \in SUBSET torn'
    BY DEF BeginReopen, Refuse, Aside, Steady
  <1>24. Unlink(w) => torn \in SUBSET torn'
    BY DEF Unlink, Aside, Steady
  <1>25. ShiftPositions(w) => torn \in SUBSET torn'
    BY DEF ShiftPositions, GiveUp, Aside, Steady
  <1>26. ReadPlaces(w) => torn \in SUBSET torn'
    BY DEF ReadPlaces, Aside, Steady
  <1>27. Renumber(w) => torn \in SUBSET torn'
    BY DEF Renumber, GiveUp, Aside, Steady
  <1>28. SettleCycle(w) => torn \in SUBSET torn'
    BY DEF SettleCycle, Aside, Steady
  <1>29. Unattend(w) => torn \in SUBSET torn'
    BY DEF Unattend, Aside, Steady
  <1>30. ReadFamily(w) => torn \in SUBSET torn'
    BY DEF ReadFamily, Aside, Steady
  <1>31. InsertFamilyCycle(w) => torn \in SUBSET torn'
    BY DEF InsertFamilyCycle, GiveUp, Aside, Steady
  <1>32. SettleFamilyCycle(w) => torn \in SUBSET torn'
    BY DEF SettleFamilyCycle, Aside, Steady
  <1>33. BeginHook(w) => torn \in SUBSET torn'
    BY DEF BeginHook, Aside, Steady
  <1>34. NormalizeCycles(w) => torn \in SUBSET torn'
    BY DEF NormalizeCycles, Aside, Steady
  <1>35. Answer(w) => torn \in SUBSET torn'
    BY DEF Answer, Aside, Steady
  <1> QED
    BY <1>1, <1>2, <1>3, <1>4, <1>5, <1>6, <1>7, <1>8, <1>9, <1>10, <1>11, <1>12, <1>13,
       <1>14, <1>15, <1>16, <1>17, <1>18, <1>19, <1>20, <1>21, <1>22, <1>23, <1>24, <1>25,
       <1>26, <1>27, <1>28, <1>29, <1>30, <1>31, <1>32, <1>33, <1>34, <1>35 DEF Work

(* Where the handler of occurrence.reopen goes.                            *)
LEMMA ReopenAt ==
    ASSUME JobInv, NEW w \in Workers, Work(w)
    PROVE  /\ job[w].pc = "unlink" => Unlink(w)
           /\ job[w].pc = "shift" => ShiftPositions(w)
           /\ job[w].pc = "places" => ReadPlaces(w)
           /\ job[w].pc = "renumber" => Renumber(w)
           /\ job[w].pc = "settle" => SettleCycle(w)
           /\ job[w].pc \notin Numbered \union {"unlink"} =>
                 job'[w].pc \notin Numbered /\ (job'[w].pc = "unlink" => BeginReopen(w))
  <1> DEFINE Elsewhere == /\ job[w].pc \notin Numbered \union {"unlink"}
                          /\ job'[w].pc \notin Numbered \union {"unlink"}
  <1>1. Idle.pc = "idle"
    BY DEF Idle
  <1>2. Cancel(w) \/ Restore(w) \/ Reschedule(w) \/ ArchiveStudent(w) \/ RestoreStudent(w)
           \/ ArchiveSession(w) \/ RestoreSession(w) \/ UpdateDetails(w) => Elsewhere
    BY <1>1, PlainMoves DEF Moves, Numbered
  <1>3. BeginConfigure(w) \/ SetOpening(w) \/ UpsertPlan(w) \/ FirstCycle(w) => Elsewhere
    BY <1>1, ConfigureMoves DEF Moves, Numbered
  <1>4. BeginComplete(w) \/ Look(w) \/ Attend(w) \/ FindAffected(w) => Elsewhere
    BY <1>1, CompletionMoves DEF Moves, Numbered
  <1>5. FindLink(w) \/ FindOpenCycle(w) \/ CreateCycle(w) \/ AddToCycle(w) \/ LockOpening(w)
           \/ MarkCycleDue(w) => Elsewhere
    BY <1>1, ChargeMoves DEF Moves, Numbered
  <1>6. ReadFamily(w) \/ InsertFamilyCycle(w) \/ SettleFamilyCycle(w) \/ BeginHook(w)
           \/ NormalizeCycles(w) \/ Answer(w) => Elsewhere
    BY <1>1, FamilyMoves DEF Moves, Numbered
  <1>7. Unattend(w) => Elsewhere
    BY <1>1, ReopenMoves DEF Moves, Numbered
  <1>8. BeginReopen(w) => job[w].pc = "begin" /\ job'[w].pc \notin Numbered
    BY <1>1, ReopenMoves DEF Moves, Numbered
  <1>9. /\ Unlink(w) => job[w].pc = "unlink"
        /\ ShiftPositions(w) => job[w].pc = "shift"
        /\ ReadPlaces(w) => job[w].pc = "places"
        /\ Renumber(w) => job[w].pc = "renumber"
        /\ SettleCycle(w) => job[w].pc = "settle"
    BY DEF Unlink, ShiftPositions, ReadPlaces, Renumber, SettleCycle, At
  <1>10. Elsewhere => /\ job[w].pc \notin {"unlink", "shift", "places", "renumber", "settle"}
                      /\ job'[w].pc \notin Numbered /\ job'[w].pc # "unlink"
    BY DEF Numbered
  <1> HIDE DEF Elsewhere
  <1> QED
    BY <1>2, <1>3, <1>4, <1>5, <1>6, <1>7, <1>8, <1>9, <1>10, Zenon DEF Work, Numbered

(* The first package of a list, and the others.                            *)
LEMMA PairsSplit ==
    ASSUME NEW todo \in Seq(Students \X Nat \X Nat), todo # << >>
    PROVE  /\ ToSet(todo) = {Head(todo)} \union ToSet(Tail(todo))
           /\ Pairs(todo) = {<<Head(todo)[1], Head(todo)[2]>>} \union Pairs(Tail(todo))
  <1> DEFINE T == Students \X Nat \X Nat
  <1>1. todo \in Seq(T)
    OBVIOUS
  <1> HIDE DEF T
  <1>2. /\ Len(todo) \in Nat \ {0} /\ Head(todo) = todo[1]
        /\ Tail(todo) \in Seq(T) /\ Len(Tail(todo)) = Len(todo) - 1
        /\ \A i \in 1 .. Len(Tail(todo)) : Tail(todo)[i] = todo[i + 1]
    BY <1>1, HeadTailProperties
  <1>3. ToSet(todo) = {Head(todo)} \union ToSet(Tail(todo))
    <2>1. DOMAIN todo = 1 .. Len(todo) /\ DOMAIN Tail(todo) = 1 .. (Len(todo) - 1)
      BY <1>1, <1>2
    <2>2. ASSUME NEW i \in 1 .. Len(todo), i # 1
          PROVE  i - 1 \in 1 .. (Len(todo) - 1) /\ Tail(todo)[i - 1] = todo[i]
      <3>1. i - 1 \in 1 .. (Len(todo) - 1) /\ (i - 1) + 1 = i
        BY <1>2, <2>2
      <3> QED
        BY <1>2, <3>1
    <2>3. ASSUME NEW i \in 1 .. (Len(todo) - 1)
          PROVE  i + 1 \in 1 .. Len(todo) /\ Tail(todo)[i] = todo[i + 1]
      BY <1>2
    <2>4. 1 \in 1 .. Len(todo)
      BY <1>2
    <2>5. ToSet(todo) = {todo[i] : i \in 1 .. Len(todo)}
      BY <2>1 DEF ToSet
    <2>6. ToSet(Tail(todo)) = {Tail(todo)[i] : i \in 1 .. (Len(todo) - 1)}
      BY <2>1 DEF ToSet
    <2>7. ASSUME NEW i \in 1 .. Len(todo)
          PROVE  todo[i] = todo[1] \/ todo[i] \in ToSet(Tail(todo))
      <3>1. CASE i # 1
        BY <2>2, <2>6, <3>1
      <3> QED
        BY <3>1
    <2>8. ASSUME NEW i \in 1 .. (Len(todo) - 1)
          PROVE  Tail(todo)[i] \in ToSet(todo)
      BY <2>3, <2>5
    <2>9. todo[1] \in ToSet(todo)
      BY <2>4, <2>5
    <2> QED
      BY <1>2, <2>5, <2>6, <2>7, <2>8, <2>9
  <1> QED
    BY <1>3 DEF Pairs

(* What a worker still has to number is among what it would leave torn.    *)
LEMMA OwesNumbering ==
    ASSUME OpeningInv, NEW w \in Workers
    PROVE  /\ Owes(w) \in SUBSET Numbering(w)
           /\ job[w].pc \in Numbered => Numbering(w) = Pairs(job[w].todo)
           /\ \A s, k : Renumbers(w, s, k) => <<s, k>> \in Numbering(w)
           /\ job[w].pc \notin Numbered => Owes(w) = {} /\ \A s, k : ~ Renumbers(w, s, k)
  <1>1. CASE job[w].pc \in Numbered
    <2>1. job[w].todo \in Seq(Students \X Nat \X Nat) /\ job[w].todo # << >>
      BY <1>1 DEF OpeningInv, OpeningFits
    <2>2. Numbering(w) = Pairs(job[w].todo)
      BY <1>1 DEF Numbering, Numbered, Pairs
    <2>3. Pairs(job[w].todo) = {<<Now(w)[1], Now(w)[2]>>} \union Pairs(Tail(job[w].todo))
      BY <2>1, PairsSplit DEF Now
    <2> QED
      BY <1>1, <2>2, <2>3 DEF Owes, Renumbers
  <1>2. CASE job[w].pc \notin Numbered
    BY <1>2 DEF Owes, Renumbers, Numbered
  <1> QED
    BY <1>1, <1>2

(* What a worker does to the package whose places it numbers.              *)
LEMMA ReopenSteps ==
    ASSUME JobInv, NEW w \in Workers
    PROVE  /\ GiveUp(w) => /\ job' = [job EXCEPT ![w] = Idle] /\ cycles' = cycles
                           /\ torn' = torn \union Numbering(w)
           /\ ShiftPositions(w) =>
                 \/ GiveUp(w)
                 \/ job'[w].pc = "places" /\ job'[w].todo = job[w].todo
           /\ ReadPlaces(w) =>
                 /\ job'[w].pc = "renumber" /\ job'[w].at = 0 /\ job'[w].todo = job[w].todo
                 /\ job'[w].left = cycles[Now(w)[1]][Now(w)[2]].links
                 /\ cycles' = cycles /\ torn' = torn \union Contested(w)
           /\ Renumber(w) =>
                 \/ GiveUp(w)
                 \/ /\ job[w].left = {} /\ cycles' = cycles
                    /\ job'[w].pc = "settle" /\ job'[w].todo = job[w].todo
                 \/ \E row \in job[w].left :
                       /\ job'[w].pc = "renumber" /\ job'[w].todo = job[w].todo
                       /\ job'[w].at = job[w].at + 1 /\ job'[w].left = job[w].left \ {row}
                       /\ cycles' = [cycles EXCEPT ![Now(w)[1]][Now(w)[2]].links =
                             Moved(@, row.lesson, Now(w)[3] + job[w].at + 1)]
  <1>1. job[w].pc # "idle" => DOMAIN job[w] = JobFields /\ DOMAIN job = Workers
    BY Working
  <1>2. GiveUp(w) => /\ job' = [job EXCEPT ![w] = Idle] /\ cycles' = cycles
                     /\ torn' = torn \union Numbering(w)
    BY DEF GiveUp, data
  <1>3. ASSUME ShiftPositions(w)
        PROVE  \/ GiveUp(w)
               \/ job'[w].pc = "places" /\ job'[w].todo = job[w].todo
    <2>1. GiveUp(w) \/ Goto(w, "places")
      BY <1>3 DEF ShiftPositions
    <2> QED
      BY <1>1, <1>3, <2>1 DEF ShiftPositions, At, Goto, JobFields
  <1>4. ASSUME ReadPlaces(w)
        PROVE  /\ job'[w].pc = "renumber" /\ job'[w].at = 0 /\ job'[w].todo = job[w].todo
               /\ job'[w].left = cycles[Now(w)[1]][Now(w)[2]].links
               /\ cycles' = cycles /\ torn' = torn \union Contested(w)
    BY <1>1, <1>4 DEF ReadPlaces, At, JobFields, data
  <1>5. ASSUME Renumber(w)
        PROVE  \/ GiveUp(w)
               \/ /\ job[w].left = {} /\ cycles' = cycles
                  /\ job'[w].pc = "settle" /\ job'[w].todo = job[w].todo
               \/ \E row \in job[w].left :
                     /\ job'[w].pc = "renumber" /\ job'[w].todo = job[w].todo
                     /\ job'[w].at = job[w].at + 1 /\ job'[w].left = job[w].left \ {row}
                     /\ cycles' = [cycles EXCEPT ![Now(w)[1]][Now(w)[2]].links =
                           Moved(@, row.lesson, Now(w)[3] + job[w].at + 1)]
    <2>1. job[w].pc = "renumber" /\ DOMAIN job[w] = JobFields /\ DOMAIN job = Workers
      BY <1>1, <1>5 DEF Renumber, At
    <2>2. \/ GiveUp(w)
          \/ job[w].left = {} /\ Goto(w, "settle") /\ cycles' = cycles
          \/ \E row \in job[w].left :
                /\ job' = [job EXCEPT ![w].at = @ + 1, ![w].left = @ \ {row}]
                /\ cycles' = [cycles EXCEPT ![Now(w)[1]][Now(w)[2]].links =
                      Moved(@, row.lesson, Now(w)[3] + job[w].at + 1)]
      BY <1>5 DEF Renumber, Moved, data
    <2>3. CASE job[w].left = {} /\ Goto(w, "settle") /\ cycles' = cycles
      BY <2>1, <2>3 DEF Goto, JobFields
    <2>4. ASSUME NEW row \in job[w].left, job' = [job EXCEPT ![w].at = @ + 1, ![w].left = @ \ {row}]
          PROVE  /\ job'[w].pc = "renumber" /\ job'[w].todo = job[w].todo
                 /\ job'[w].at = job[w].at + 1 /\ job'[w].left = job[w].left \ {row}
      BY <2>1, <2>4 DEF JobFields
    <2> QED
      BY <2>2, <2>3, <2>4
  <1> QED
    BY <1>2, <1>3, <1>4, <1>5

(* Places follow from the links and the opening progress alone.            *)
LEMMA SameHalf ==
    ASSUME NEW c, NEW d, c.links = d.links, c.opening = d.opening
    PROVE  /\ Contiguous(c) <=> Contiguous(d)
           /\ \A left, at : HalfNumbered(c, left, at) <=> HalfNumbered(d, left, at)
  <1>1. Used(c) = Used(d) /\ Positions(c) = Positions(d)
    BY DEF Used, Positions
  <1> QED
    BY <1>1 DEF Contiguous, HalfNumbered

(* A package at which worker w does nothing.                               *)
LEMMA Undisturbed ==
    ASSUME NEW s, NEW k, NEW w \in Workers, \A v \in Workers : v # w => job'[v] = job[v],
           SamePlaces(s, k), InPlace(s, k), OneNumbers(s, k),
           <<s, k>> \in Owes(w) => <<s, k>> \in Owes(w)',
           ~ Renumbers(w, s, k), ~ Renumbers(w, s, k)'
    PROVE  InPlace(s, k)' /\ OneNumbers(s, k)'
  <1>1. \A v \in Workers : v # w => /\ Owes(v)' = Owes(v)
                                    /\ Renumbers(v, s, k)' <=> Renumbers(v, s, k)
                                    /\ job'[v].left = job[v].left /\ job'[v].at = job[v].at
    BY DEF Owes, Renumbers, Now
  <1>2. /\ Contiguous(cycles'[s][k]) <=> Contiguous(cycles[s][k])
        /\ \A left, at :
              HalfNumbered(cycles'[s][k], left, at) <=> HalfNumbered(cycles[s][k], left, at)
    BY SameHalf DEF SamePlaces
  <1>3. InPlace(s, k)'
    <2>1. CASE \E v \in Workers : <<s, k>> \in Owes(v)
      BY <1>1, <2>1 DEF InPlace
    <2>2. CASE \E v \in Workers :
                  Renumbers(v, s, k) /\ HalfNumbered(cycles[s][k], job[v].left, job[v].at)
      <3>1. PICK v \in Workers :
               Renumbers(v, s, k) /\ HalfNumbered(cycles[s][k], job[v].left, job[v].at)
        BY <2>2
      <3>2. v # w
        BY <3>1
      <3>3. Renumbers(v, s, k)' /\ HalfNumbered(cycles'[s][k], job'[v].left, job'[v].at)
        BY <1>1, <1>2, <3>1, <3>2
      <3> QED
        BY <3>3 DEF InPlace
    <2>3. CASE Contiguous(cycles[s][k]) /\ \A v \in Workers : ~ Renumbers(v, s, k)
      <3>1. \A v \in Workers : ~ Renumbers(v, s, k)'
        BY <1>1, <2>3
      <3> QED
        BY <1>2, <2>3, <3>1 DEF InPlace
    <2> QED
      BY <2>1, <2>2, <2>3 DEF InPlace
  <1>4. OneNumbers(s, k)'
    <2> SUFFICES ASSUME NEW v \in Workers, NEW u \in Workers,
                        Renumbers(v, s, k)', Renumbers(u, s, k)'
                 PROVE  v = u
      BY DEF OneNumbers
    <2>1. v # w /\ u # w
      OBVIOUS
    <2> QED
      BY <1>1, <2>1 DEF OneNumbers
  <1> QED
    BY <1>3, <1>4

(* A package whose places some worker will number from scratch.            *)
LEMMA StillOwed ==
    ASSUME NEW s, NEW k, NEW v \in Workers, <<s, k>> \in Owes(v)',
           NEW w \in Workers, \A u \in Workers : u # w => job'[u] = job[u],
           OneNumbers(s, k), Renumbers(w, s, k)' => Renumbers(w, s, k)
    PROVE  InPlace(s, k)' /\ OneNumbers(s, k)'
  <1>1. InPlace(s, k)'
    BY DEF InPlace
  <1>2. \A u \in Workers : Renumbers(u, s, k)' => Renumbers(u, s, k)
    BY DEF Renumbers, Now
  <1> QED
    BY <1>1, <1>2 DEF OneNumbers

(* A package that takes a lesson.                                          *)
LEMMA AddInPlace ==
    ASSUME BillingInv, NEW w \in Workers, AddToCycle(w), cycles' # cycles,
           NEW s \in Students, NEW k \in DOMAIN cycles[s], s = Now(w), k = job[w].at,
           \A v \in Workers : v # w => job'[v] = job[v],
           job[w].pc \notin Numbered, job'[w].pc \notin Numbered,
           InPlace(s, k), OneNumbers(s, k)
    PROVE  InPlace(s, k)' /\ OneNumbers(s, k)'
  <1> USE DEF BillingInv
  <1> DEFINE c == cycles[s][k]
             pos == job[w].pos
             link == [lesson |-> Arg(w).lesson, pos |-> pos]
             row == [c EXCEPT !.links = c.links \union {link}]
             d == cycles'[s][k]
  <1>1. /\ pos = Used(c) + 1 /\ pos \notin Positions(c)
        /\ cycles' = [cycles EXCEPT ![s][k] = row]
    BY DEF AddToCycle, TryAgain, GiveUp, data, MayAdd
  <1>2. Sound(c)
    BY DEF PackagesInv
  <1>3. d = row
    <2>1. cycles' = [cycles EXCEPT ![s][k] = row]
      BY <1>1
    <2> HIDE DEF row, pos, link
    <2>2. DOMAIN cycles = Students
      BY DEF PackagesInv
    <2>3. cycles'[s] = [cycles[s] EXCEPT ![k] = row]
      BY <2>1, <2>2
    <2> QED
      BY <2>3
  <1>4. d.links = c.links \union {link} /\ d.opening = c.opening
    <2>1. c \in PackageRow
      BY <1>2 DEF Sound
    <2> HIDE DEF c, link, d
    <2> QED
      BY <1>3, <2>1 DEF PackageRow
  <1>5. link.pos = Used(c) + 1
    BY <1>1
  <1>6. link \notin c.links
    <2>1. link.pos = pos
      OBVIOUS
    <2> HIDE DEF link, pos, c
    <2> QED
      BY <1>1, <2>1 DEF Positions
  <1> HIDE DEF link, c, d
  <1>7. /\ Contiguous(c) => Contiguous(d)
        /\ \A left : \A at \in Nat : HalfNumbered(c, left, at) => HalfNumbered(d, left, at)
    BY <1>2, <1>4, <1>5, <1>6, NextPlace
  <1>8. \A v \in Workers : /\ Owes(v)' = Owes(v)
                           /\ Renumbers(v, s, k)' <=> Renumbers(v, s, k)
                           /\ Renumbers(v, s, k) =>
                                 /\ job'[v].left = job[v].left /\ job'[v].at = job[v].at
                                 /\ job[v].at \in Nat
    BY DEF Owes, Renumbers, Now, Numbered, OpeningInv, OpeningFits
  <1>9. InPlace(s, k)'
    <2>1. CASE \E v \in Workers : <<s, k>> \in Owes(v)
      BY <1>8, <2>1 DEF InPlace
    <2>2. CASE \E v \in Workers : Renumbers(v, s, k) /\ HalfNumbered(c, job[v].left, job[v].at)
      <3>1. PICK v \in Workers : Renumbers(v, s, k) /\ HalfNumbered(c, job[v].left, job[v].at)
        BY <2>2
      <3>2. Renumbers(v, s, k)' /\ HalfNumbered(d, job'[v].left, job'[v].at)
        BY <1>7, <1>8, <3>1
      <3> QED
        BY <3>2 DEF InPlace, d
    <2>3. CASE Contiguous(c) /\ \A v \in Workers : ~ Renumbers(v, s, k)
      BY <1>7, <1>8, <2>3 DEF InPlace, d
    <2> QED
      BY <2>1, <2>2, <2>3 DEF InPlace, c
  <1>10. OneNumbers(s, k)'
    BY <1>8 DEF OneNumbers
  <1> QED
    BY <1>9, <1>10

(* An opening progress changes only while the package has no lessons.      *)
LEMMA OpeningEmpty ==
    ASSUME BillingInv, NEW w \in Workers, SetOpening(w), cycles' # cycles, raced = {},
           NEW s \in Students, NEW k \in DOMAIN cycles[s], s = Arg(w).student, k = job[w].at
    PROVE  cycles[s][k].links = {}
  <1> USE DEF BillingInv
  <1>4. ~ Real(cycles[s][k]) > 0
    BY DEF SetOpening, Refuse, data
  <1>5. cycles[s][k].links = {}
    <2>1. Sound(cycles[s][k])
      BY DEF PackagesInv
    <2>2. \A x \in cycles[s][k].links : x.lesson \in Lessons /\ k \in Linked(s, x.lesson)
      BY <2>1 DEF Sound, PackageRow, Linked
    <2>3. \A x \in cycles[s][k].links : Completed(x.lesson)
      BY <2>2 DEF LessonInv
    <2>4. {x \in cycles[s][k].links : Completed(x.lesson)} = cycles[s][k].links
      BY <2>3
    <2>5. IsFiniteSet(cycles[s][k].links) /\ Real(cycles[s][k]) = Cardinality(cycles[s][k].links)
      BY <2>1, <2>4 DEF Sound, Real
    <2>6. Cardinality(cycles[s][k].links) = 0
      BY <1>4, <2>5, FS_CardinalityType
    <2> QED
      BY <2>5, <2>6, FS_EmptySet
  <1> QED
    BY <1>5

(* A package whose opening progress changes, while nobody numbers it.      *)
LEMMA OpeningInPlace ==
    ASSUME BillingInv, NEW w \in Workers, SetOpening(w), cycles' # cycles, raced = {},
           NEW s \in Students, NEW k \in DOMAIN cycles[s], s = Arg(w).student, k = job[w].at,
           \A v \in Workers : v # w => job'[v] = job[v], <<s, k>> \notin torn',
           job[w].pc \notin Numbered, job'[w].pc \notin Numbered
    PROVE  InPlace(s, k)' /\ OneNumbers(s, k)'
  <1> USE DEF BillingInv
  <1>1. \A v \in Workers : <<s, k>> \notin Numbering(v)
    BY DEF SetOpening, Refuse, data
  <1>2. \A v \in Workers : ~ Renumbers(v, s, k)'
    <2>1. \A v \in Workers : ~ Renumbers(v, s, k)
      BY <1>1, OwesNumbering
    <2> QED
      BY <2>1 DEF Renumbers, Now, Numbered
  <1>3. LinkedKept /\ PackagesInv'
    BY OpeningKeeps
  <1>5. cycles[s][k].links = {}
    BY OpeningEmpty
  <1>6. k \in DOMAIN cycles'[s]
    BY WorkPackages DEF LimitsKept, Work
  <1>7. Sound(cycles'[s][k])
    BY <1>3, <1>6 DEF PackagesInv
  <1>8. cycles'[s][k].links = {}
    <2>1. \A x \in cycles'[s][k].links : x.lesson \in Lessons /\ k \in Linked(s, x.lesson)'
      BY <1>6, <1>7 DEF Sound, PackageRow, Linked
    <2>2. \A l \in Lessons : Linked(s, l)' = Linked(s, l)
      BY <1>3 DEF LinkedKept
    <2>3. \A x \in cycles'[s][k].links : k \in Linked(s, x.lesson)
      BY <2>1, <2>2
    <2>4. \A l : k \notin Linked(s, l)
      BY <1>5 DEF Linked
    <2> QED
      BY <2>3, <2>4
  <1>9. Contiguous(cycles'[s][k])
    <2>1. cycles'[s][k].opening \in Nat
      BY <1>7 DEF Sound, PackageRow
    <2> QED
      BY <1>8, <2>1, EmptyContiguous
  <1> QED
    BY <1>2, <1>9 DEF InPlace, OneNumbers

(* A package that is read before it is numbered.                           *)
LEMMA ReadInPlace ==
    ASSUME BillingInv, NEW w \in Workers, ReadPlaces(w),
           NEW s \in Students, NEW k \in DOMAIN cycles[s],
           \A v \in Workers : v # w => job'[v] = job[v], <<s, k>> \notin torn',
           InPlace(s, k), OneNumbers(s, k)
    PROVE  InPlace(s, k)' /\ OneNumbers(s, k)'
  <1> USE DEF BillingInv
  <1>1. /\ job[w].pc = "places" /\ job'[w].pc = "renumber" /\ job'[w].at = 0
        /\ job'[w].todo = job[w].todo
        /\ job'[w].left = cycles[Now(w)[1]][Now(w)[2]].links
        /\ cycles' = cycles /\ torn' = torn \union Contested(w)
    BY ReopenSteps DEF TypeInv, ReadPlaces, At
  <1>2. job[w].todo \in Seq(Students \X Nat \X Nat) /\ job[w].todo # << >>
    BY <1>1 DEF OpeningInv, OpeningFits, Numbered
  <1>3. /\ Owes(w) = {<<Now(w)[1], Now(w)[2]>>} \union Pairs(Tail(job[w].todo))
        /\ Owes(w)' = Pairs(Tail(job[w].todo))
        /\ Renumbers(w, s, k)' <=> Now(w)[1] = s /\ Now(w)[2] = k
        /\ Now(w)' = Now(w) /\ ~ Renumbers(w, s, k)
    BY <1>1, <1>2, PairsSplit DEF Owes, Renumbers, Now
  <1>4. CASE Now(w)[1] = s /\ Now(w)[2] = k
    <2>1. \A v \in Workers \ {w} : ~ Renumbers(v, s, k)
      <3>1. <<s, k>> \notin Contested(w)
        BY <1>1
      <3>2. <<s, k>> \in Numbering(w)
        <4>1. Numbering(w) = Pairs(job[w].todo)
          BY <1>1, OwesNumbering DEF Numbered
        <4>2. <<s, k>> \in Pairs(job[w].todo)
          BY <1>2, <1>4, PairsSplit DEF Now
        <4> QED
          BY <4>1, <4>2
      <3> QED
        BY <1>4, <3>1, <3>2 DEF Contested, Renumbers, At
    <2>2. OneNumbers(s, k)'
      BY <2>1 DEF OneNumbers, Renumbers, Now
    <2>3. HalfNumbered(cycles[s][k], cycles[s][k].links, 0)
      BY HalfBegins DEF PackagesInv
    <2>4. Renumbers(w, s, k)' /\ HalfNumbered(cycles'[s][k], job'[w].left, job'[w].at)
      BY <1>1, <1>3, <1>4, <2>3
    <2> QED
      BY <2>2, <2>4 DEF InPlace
  <1>5. CASE ~ (Now(w)[1] = s /\ Now(w)[2] = k)
    <2>1. <<s, k>> \in Owes(w) => <<s, k>> \in Owes(w)'
      BY <1>3, <1>5
    <2>2. SamePlaces(s, k)
      BY <1>1 DEF SamePlaces
    <2> QED
      BY <1>3, <1>5, <2>1, <2>2, Undisturbed
  <1> QED
    BY <1>4, <1>5

(* The opening progress a worker numbers from is the one of the package.   *)
LEMMA ReadOpening ==
    ASSUME OpeningInv, NEW w \in Workers, ReadRight(w), job[w].pc \in Numbered,
           <<Now(w)[1], Now(w)[2]>> \notin torn
    PROVE  /\ Now(w)[2] \in DOMAIN cycles[Now(w)[1]]
           /\ Now(w)[3] = cycles[Now(w)[1]][Now(w)[2]].opening
  <1> DEFINE T == Students \X Nat \X Nat
  <1>1. job[w].todo \in Seq(T) /\ job[w].todo # << >>
    BY DEF OpeningInv, OpeningFits
  <1> HIDE DEF T
  <1>2. 1 \in DOMAIN job[w].todo /\ Now(w) = job[w].todo[1]
    BY <1>1 DEF Now
  <1>3. Now(w) \in ToSet(job[w].todo)
    BY <1>2 DEF ToSet
  <1> QED
    BY <1>3 DEF ReadRight

(* A package whose next place is numbered.                                 *)
LEMMA RenumberInPlace ==
    ASSUME BillingInv, NEW w \in Workers, Renumber(w), ReadRight(w),
           NEW s \in Students, NEW k \in DOMAIN cycles[s],
           \A v \in Workers : v # w => job'[v] = job[v],
           <<s, k>> \notin torn, <<s, k>> \notin torn',
           InPlace(s, k), OneNumbers(s, k)
    PROVE  InPlace(s, k)' /\ OneNumbers(s, k)'
  <1> USE DEF BillingInv
  <1>1. job[w].pc = "renumber" /\ job[w].at \in Nat
    BY DEF Renumber, At, OpeningInv, OpeningFits
  <1>2. Sound(cycles[s][k])
    BY DEF PackagesInv
  <1>3. CASE GiveUp(w)
    <2>1. torn' = torn \union Numbering(w) /\ cycles' = cycles /\ job'[w] = Idle
      BY <1>3, ReopenSteps DEF TypeInv, JobInv
    <2>2. <<s, k>> \notin Owes(w) /\ ~ Renumbers(w, s, k)
      BY <2>1, OwesNumbering
    <2>3. ~ Renumbers(w, s, k)' /\ SamePlaces(s, k)
      BY <2>1 DEF Renumbers, Idle, SamePlaces
    <2> QED
      BY <2>2, <2>3, Undisturbed
  <1>4. CASE /\ job[w].left = {} /\ cycles' = cycles
             /\ job'[w].pc = "settle" /\ job'[w].todo = job[w].todo
    <2>1. Owes(w)' = Owes(w) /\ ~ Renumbers(w, s, k)' /\ SamePlaces(s, k)
      BY <1>1, <1>4 DEF Owes, Renumbers, SamePlaces
    <2>2. CASE ~ Renumbers(w, s, k)
      BY <2>1, <2>2, Undisturbed
    <2>3. CASE Renumbers(w, s, k)
      <3>1. CASE \E v \in Workers : <<s, k>> \in Owes(v)
        <4>1. PICK v \in Workers : <<s, k>> \in Owes(v)
          BY <3>1
        <4>2. <<s, k>> \in Owes(v)'
          BY <2>1, <4>1 DEF Owes
        <4> QED
          BY <2>1, <4>2, StillOwed
      <3>2. CASE \E v \in Workers :
                    Renumbers(v, s, k) /\ HalfNumbered(cycles[s][k], job[v].left, job[v].at)
        <4>1. HalfNumbered(cycles[s][k], {}, job[w].at)
          BY <1>4, <2>3, <3>2 DEF OneNumbers
        <4>2. Contiguous(cycles'[s][k])
          BY <1>1, <1>2, <1>4, <4>1, HalfEnds
        <4>3. \A v \in Workers : ~ Renumbers(v, s, k)'
          BY <2>1, <2>3 DEF OneNumbers, Renumbers, Now
        <4> QED
          BY <4>2, <4>3 DEF InPlace, OneNumbers
      <3> QED
        BY <2>3, <3>1, <3>2 DEF InPlace
    <2> QED
      BY <2>2, <2>3
  <1>5. ASSUME NEW row \in job[w].left,
               job'[w].pc = "renumber", job'[w].todo = job[w].todo,
               job'[w].at = job[w].at + 1, job'[w].left = job[w].left \ {row},
               cycles' = [cycles EXCEPT ![Now(w)[1]][Now(w)[2]].links =
                             Moved(@, row.lesson, Now(w)[3] + job[w].at + 1)]
        PROVE  InPlace(s, k)' /\ OneNumbers(s, k)'
    <2>1. /\ Owes(w)' = Owes(w)
          /\ Renumbers(w, s, k)' <=> Renumbers(w, s, k)
      BY <1>1, <1>5 DEF Owes, Renumbers, Now
    <2>2. CASE ~ (Now(w)[1] = s /\ Now(w)[2] = k)
      <3>1. \E c : cycles' = [cycles EXCEPT ![Now(w)[1]][Now(w)[2]] = c]
        BY <1>5
      <3>2. SamePlaces(s, k)
        BY <2>2, <3>1, WrittenIs DEF SamePlaces
      <3>3. ~ Renumbers(w, s, k)
        BY <2>2 DEF Renumbers
      <3> QED
        BY <2>1, <3>2, <3>3, Undisturbed
    <2>3. CASE Now(w)[1] = s /\ Now(w)[2] = k
      <3>1. CASE \E v \in Workers : <<s, k>> \in Owes(v)
        <4>1. PICK v \in Workers : <<s, k>> \in Owes(v)
          BY <3>1
        <4>2. <<s, k>> \in Owes(v)'
          BY <2>1, <4>1 DEF Owes
        <4> QED
          BY <2>1, <4>2, StillOwed
      <3>2. CASE \E v \in Workers :
                    Renumbers(v, s, k) /\ HalfNumbered(cycles[s][k], job[v].left, job[v].at)
        <4>1. Renumbers(w, s, k)
          BY <1>1, <2>3 DEF Renumbers
        <4>2. HalfNumbered(cycles[s][k], job[w].left, job[w].at)
          BY <3>2, <4>1 DEF OneNumbers
        <4>3. Now(w)[3] = cycles[s][k].opening
          BY <1>1, <2>3, ReadOpening DEF Numbered
        <4> DEFINE c == cycles[s][k]
                   links == Moved(c.links, row.lesson, c.opening + job[w].at + 1)
        <4>4. cycles'[s][k] = [c EXCEPT !.links = links]
          <5>1. DOMAIN cycles = Students
            BY DEF PackagesInv
          <5>2. cycles' = [cycles EXCEPT ![s][k].links =
                              Moved(@, row.lesson, cycles[s][k].opening + job[w].at + 1)]
            BY <1>5, <2>3, <4>3
          <5>3. cycles'[s] = [cycles[s] EXCEPT ![k] = [c EXCEPT !.links = links]]
            BY <5>1, <5>2
          <5> QED
            BY <5>3
        <4>5. cycles'[s][k].links = links /\ cycles'[s][k].opening = c.opening
          <5>1. c \in PackageRow
            BY <1>2 DEF Sound
          <5> HIDE DEF links, c
          <5> QED
            BY <4>4, <5>1 DEF PackageRow
        <4>6. HalfNumbered(cycles'[s][k], job[w].left \ {row}, job[w].at + 1)
          <5> DEFINE d == cycles'[s][k]
          <5>1. /\ d.links = Moved(c.links, row.lesson, c.opening + job[w].at + 1)
                /\ d.opening = c.opening
            BY <4>5
          <5>2. HalfNumbered(c, job[w].left, job[w].at) /\ Sound(c)
            BY <1>2, <4>2
          <5> HIDE DEF d, c
          <5>3. HalfNumbered(d, job[w].left \ {row}, job[w].at + 1)
            BY <1>1, <1>5, <5>1, <5>2, HalfGoesOn
          <5> QED
            BY <5>3 DEF d
        <4>7. Renumbers(w, s, k)' /\ HalfNumbered(cycles'[s][k], job'[w].left, job'[w].at)
          BY <1>5, <2>1, <4>1, <4>6
        <4>8. \A v \in Workers : Renumbers(v, s, k)' <=> Renumbers(v, s, k)
          BY <2>1 DEF Renumbers, Now
        <4> QED
          BY <4>7, <4>8 DEF InPlace, OneNumbers
      <3>3. Renumbers(w, s, k)
        BY <1>1, <2>3 DEF Renumbers
      <3> QED
        BY <3>1, <3>2, <3>3 DEF InPlace
    <2> QED
      BY <2>2, <2>3
  <1> QED
    <2>1. \/ GiveUp(w)
          \/ /\ job[w].left = {} /\ cycles' = cycles
             /\ job'[w].pc = "settle" /\ job'[w].todo = job[w].todo
          \/ \E row \in job[w].left :
                /\ job'[w].pc = "renumber" /\ job'[w].todo = job[w].todo
                /\ job'[w].at = job[w].at + 1 /\ job'[w].left = job[w].left \ {row}
                /\ cycles' = [cycles EXCEPT ![Now(w)[1]][Now(w)[2]].links =
                      Moved(@, row.lesson, Now(w)[3] + job[w].at + 1)]
      BY ReopenSteps DEF TypeInv
    <2> QED
      BY <1>3, <1>4, <1>5, <2>1

(* A package whose places move out of the way.                             *)
LEMMA ShiftInPlace ==
    ASSUME BillingInv, NEW w \in Workers, ShiftPositions(w),
           NEW s \in Students, NEW k \in DOMAIN cycles[s],
           \A v \in Workers : v # w => job'[v] = job[v], <<s, k>> \notin torn',
           InPlace(s, k), OneNumbers(s, k)
    PROVE  InPlace(s, k)' /\ OneNumbers(s, k)'
  <1> USE DEF BillingInv
  <1>1. job[w].pc = "shift"
    BY DEF ShiftPositions, At
  <1>2. CASE GiveUp(w)
    <2>1. torn' = torn \union Numbering(w) /\ cycles' = cycles /\ job'[w] = Idle
      BY <1>2, ReopenSteps DEF TypeInv, JobInv
    <2>2. <<s, k>> \notin Owes(w) /\ ~ Renumbers(w, s, k)
      BY <2>1, OwesNumbering
    <2>3. ~ Renumbers(w, s, k)' /\ SamePlaces(s, k)
      BY <2>1 DEF Renumbers, Idle, SamePlaces
    <2> QED
      BY <2>2, <2>3, Undisturbed
  <1>3. CASE job'[w].pc = "places" /\ job'[w].todo = job[w].todo
    <2>1. Owes(w)' = Owes(w) /\ ~ Renumbers(w, s, k) /\ ~ Renumbers(w, s, k)'
      BY <1>1, <1>3 DEF Owes, Renumbers
    <2>2. CASE Now(w)[1] = s /\ Now(w)[2] = k
      <3>1. <<s, k>> \in Owes(w)
        <4>1. job[w].todo \in Seq(Students \X Nat \X Nat) /\ job[w].todo # << >>
          BY <1>1 DEF OpeningInv, OpeningFits, Numbered
        <4> QED
          BY <1>1, <2>2, <4>1, PairsSplit DEF Owes, Now
      <3> QED
        BY <2>1, <3>1, StillOwed
    <2>3. CASE ~ (Now(w)[1] = s /\ Now(w)[2] = k)
      <3>1. cycles' = cycles \/ \E c : cycles' = [cycles EXCEPT ![Now(w)[1]][Now(w)[2]] = c]
        BY DEF ShiftPositions, GiveUp, data
      <3>2. SamePlaces(s, k)
        <4>1. CASE cycles' = cycles
          BY <4>1 DEF SamePlaces
        <4>2. CASE \E c : cycles' = [cycles EXCEPT ![Now(w)[1]][Now(w)[2]] = c]
          BY <2>3, <4>2, WrittenIs DEF SamePlaces
        <4> QED
          BY <3>1, <4>1, <4>2
      <3> QED
        BY <2>1, <3>2, Undisturbed
    <2> QED
      BY <2>2, <2>3
  <1> QED
    BY <1>2, <1>3, ReopenSteps DEF TypeInv

(* A package that loses a lesson, or is settled.                           *)
LEMMA UnlinkInPlace ==
    ASSUME BillingInv, NEW w \in Workers, Unlink(w), ReadRight(w),
           NEW s \in Students, NEW k \in DOMAIN cycles[s],
           \A v \in Workers : v # w => job'[v] = job[v],
           InPlace(s, k), OneNumbers(s, k)
    PROVE  InPlace(s, k)' /\ OneNumbers(s, k)'
  <1> USE DEF BillingInv
  <1>1. /\ job[w].pc = "unlink" /\ job'[w].todo = job[w].todo
        /\ job'[w].pc = IF job[w].todo = << >> THEN "unattend" ELSE "shift"
    BY ReopenTodo DEF TypeInv, Unlink, At
  <1>2. Owes(w) = {} /\ ~ Renumbers(w, s, k) /\ ~ Renumbers(w, s, k)'
    BY <1>1 DEF Owes, Renumbers
  <1> DEFINE l == Arg(w).lesson
  <1>3. k \in Linked(s, l) <=> <<s, k>> \in Pairs(job[w].todo)
    BY <1>1 DEF ReadRight, Arg
  <1>4. CASE k \in Linked(s, l)
    <2>1. job[w].todo # << >>
      BY <1>3, <1>4 DEF Pairs, ToSet
    <2>2. <<s, k>> \in Owes(w)'
      BY <1>1, <1>3, <1>4, <2>1 DEF Owes
    <2> QED
      BY <1>2, <2>2, StillOwed
  <1>5. CASE k \notin Linked(s, l)
    <2>1. cycles'[s][k] = [cycles[s][k] EXCEPT !.links = {x \in cycles[s][k].links : x.lesson # l}]
      BY DEF Unlink, WithoutLesson
    <2>2. {x \in cycles[s][k].links : x.lesson # l} = cycles[s][k].links
      BY <1>5 DEF Linked
    <2>3. cycles[s][k] \in PackageRow
      BY DEF PackagesInv
    <2>4. SamePlaces(s, k)
      <3> HIDE DEF l
      <3> QED
        BY <2>1, <2>2, <2>3 DEF SamePlaces, PackageRow
    <2> QED
      BY <1>2, <2>4, Undisturbed
  <1> QED
    BY <1>4, <1>5

LEMMA SettleInPlace ==
    ASSUME BillingInv, NEW w \in Workers, SettleCycle(w), NEW s, NEW k, SamePlaces(s, k),
           \A v \in Workers : v # w => job'[v] = job[v],
           InPlace(s, k), OneNumbers(s, k)
    PROVE  InPlace(s, k)' /\ OneNumbers(s, k)'
  <1> USE DEF BillingInv
  <1>1. /\ job[w].pc = "settle" /\ job'[w].todo = Tail(job[w].todo)
        /\ job'[w].pc = IF Len(job[w].todo) = 1 THEN "unattend" ELSE "shift"
    BY ReopenTodo DEF TypeInv, SettleCycle, At
  <1>2. ~ Renumbers(w, s, k) /\ ~ Renumbers(w, s, k)' /\ Owes(w) = Pairs(Tail(job[w].todo))
    BY <1>1 DEF Owes, Renumbers
  <1>3. Len(job[w].todo) = 1 => Pairs(Tail(job[w].todo)) = {}
    <2> DEFINE T == Students \X Nat \X Nat
    <2>1. job[w].todo \in Seq(T) /\ job[w].todo # << >>
      BY <1>1 DEF OpeningInv, OpeningFits, Numbered
    <2> HIDE DEF T
    <2>2. Tail(job[w].todo) \in Seq(T) /\ Len(Tail(job[w].todo)) = Len(job[w].todo) - 1
      BY <2>1, HeadTailProperties
    <2>3. Len(job[w].todo) = 1 => DOMAIN Tail(job[w].todo) = {}
      <3>1. DOMAIN Tail(job[w].todo) = 1 .. Len(Tail(job[w].todo))
        BY <2>2
      <3>2. Len(job[w].todo) = 1 => Len(Tail(job[w].todo)) = 0
        BY <2>2
      <3>3. 1 .. 0 = {}
        OBVIOUS
      <3> QED
        BY <3>1, <3>2, <3>3
    <2> QED
      BY <2>3 DEF Pairs, ToSet
  <1>4. <<s, k>> \in Owes(w) => <<s, k>> \in Owes(w)'
    BY <1>1, <1>2, <1>3 DEF Owes
  <1> QED
    BY <1>2, <1>4, Undisturbed

(* An opening progress changes only where it is set.                       *)
LEMMA OpeningStays ==
    ASSUME BillingInv, NEW w \in Workers, Work(w),
           NEW s \in Students, NEW k \in DOMAIN cycles[s]
    PROVE  \/ cycles'[s][k].opening = cycles[s][k].opening
           \/ SetOpening(w) /\ cycles' # cycles /\ s = Arg(w).student /\ k = job[w].at
  <1> USE DEF BillingInv
  <1>1. cycles[s][k] \in PackageRow /\ DOMAIN cycles = Students
    BY DEF PackagesInv
  <1>2. \A links : [cycles[s][k] EXCEPT !.links = links].opening = cycles[s][k].opening
    BY <1>1 DEF PackageRow
  <1>3. ASSUME Unlink(w)
        PROVE  cycles'[s][k].opening = cycles[s][k].opening
    <2>1. \E links : cycles'[s][k] = [cycles[s][k] EXCEPT !.links = links]
      BY <1>3 DEF Unlink, WithoutLesson
    <2> QED
      BY <1>2, <2>1
  <1>4. ASSUME NEW a, NEW b, NEW links, s = a, k = b,
               cycles' = [cycles EXCEPT ![a][b].links = links]
        PROVE  cycles'[s][k].opening = cycles[s][k].opening
    <2>1. cycles'[s] = [cycles[s] EXCEPT ![k] = [cycles[s][k] EXCEPT !.links = links]]
      BY <1>1, <1>4
    <2>2. cycles'[s][k] = [cycles[s][k] EXCEPT !.links = links]
      BY <2>1
    <2> QED
      BY <1>2, <2>2
  <1>5. ASSUME AddToCycle(w), cycles' # cycles, s = Now(w), k = job[w].at
        PROVE  cycles'[s][k].opening = cycles[s][k].opening
    <2>1. \E links : cycles' = [cycles EXCEPT ![Now(w)][job[w].at].links = links]
      BY <1>5 DEF AddToCycle, TryAgain, GiveUp, data
    <2> QED
      BY <1>4, <1>5, <2>1
  <1>6. ASSUME ShiftPositions(w) \/ Renumber(w), s = Now(w)[1], k = Now(w)[2]
        PROVE  cycles'[s][k].opening = cycles[s][k].opening
    <2>1. \/ cycles' = cycles
          \/ \E links : cycles' = [cycles EXCEPT ![Now(w)[1]][Now(w)[2]].links = links]
      BY <1>6 DEF ShiftPositions, Renumber, GiveUp, data
    <2>2. CASE cycles' = cycles
      BY <2>2
    <2>3. CASE \E links : cycles' = [cycles EXCEPT ![Now(w)[1]][Now(w)[2]].links = links]
      <3>1. PICK links : cycles' = [cycles EXCEPT ![Now(w)[1]][Now(w)[2]].links = links]
        BY <2>3
      <3> QED
        BY <1>4, <1>6, <3>1
    <2> QED
      BY <2>1, <2>2, <2>3
  <1> QED
    BY <1>3, <1>5, <1>6, WorkPlaces DEF SamePlaces

(* Where worker w has its list of packages from.                           *)
LEMMA TodoKept ==
    ASSUME BillingInv, NEW w \in Workers, Work(w), job'[w].pc \in Numbered \union {"unlink"},
           ~ BeginReopen(w)
    PROVE  /\ job[w].pc \in Numbered \union {"unlink"} /\ job'[w].pc # "unlink"
           /\ ToSet(job'[w].todo) \in SUBSET ToSet(job[w].todo)
  <1> USE DEF BillingInv, TypeInv
  <1>1. job[w].pc \in Numbered \union {"unlink"}
    BY ReopenAt DEF Numbered
  <1>2. job'[w] # Idle
    BY DEF Idle, Numbered
  <1>3. Idle.pc = "idle"
    BY DEF Idle
  <1>4. CASE job[w].pc = "settle"
    <2>1. /\ job'[w].todo = Tail(job[w].todo)
          /\ job'[w].pc = IF Len(job[w].todo) = 1 THEN "unattend" ELSE "shift"
      BY <1>4, ReopenAt, ReopenTodo
    <2>2. job[w].todo \in Seq(Students \X Nat \X Nat) /\ job[w].todo # << >>
      BY <1>4 DEF OpeningInv, OpeningFits, Numbered
    <2> QED
      BY <1>1, <2>1, <2>2, PairsSplit
  <1>5. CASE job[w].pc # "settle"
    <2>1. Unlink(w) \/ ShiftPositions(w) \/ ReadPlaces(w) \/ Renumber(w)
      BY <1>1, <1>5, ReopenAt DEF Numbered
    <2>2. job'[w].todo = job[w].todo
      BY <1>2, <2>1, ReopenTodo
    <2>3. job'[w].pc # "unlink"
      BY <1>3, <2>1, ReopenMoves DEF Moves
    <2> QED
      BY <1>1, <2>2, <2>3
  <1> QED
    BY <1>4, <1>5

(* What was read of the packages of a lesson stays true.                   *)
LEMMA ReadRightStep ==
    ASSUME BillingInv, NEW w \in Workers, Work(w), raced = {}, NEW v \in Workers, ReadRight(v)
    PROVE  ReadRight(v)'
  <1> USE DEF BillingInv, TypeInv
  <1> SUFFICES ASSUME NEW l, l = job'[v].m.lesson, NEW todo, todo = job'[v].todo
               PROVE  ReadRight(v)'
    OBVIOUS
  <1>1. CASE v = w /\ BeginReopen(w)
    <2>1. job[w].pc = "begin"
      BY <1>1 DEF BeginReopen, Is, At
    <2>2. cycles' = cycles
      BY <1>1 DEF BeginReopen, Refuse, data
    <2>3. job'[w].pc \notin Numbered
      BY <2>1, ReopenAt DEF Numbered
    <2>4. ASSUME job'[w].pc = "unlink"
          PROVE  /\ \A s \in Students : \A k : k \in Linked(s, l)' <=> <<s, k>> \in Pairs(todo)
                 /\ \A x \in ToSet(todo) : /\ x[2] \in DOMAIN cycles'[x[1]]
                                           /\ x[3] = cycles'[x[1]][x[2]].opening
      <3>1. todo = SetToSeq(ChargedTo(Arg(w).lesson)) /\ l = Arg(w).lesson
        BY <1>1, <2>4, ReopenTodo, WorkMoves DEF Arg, Idle
      <3>2. ToSet(todo) = ChargedTo(l)
        BY <3>1, ChargedFinite, SequenceOfSet
      <3>3. \A x : x \in ToSet(todo) <=>
               \E s \in Students : \E k \in Linked(s, l) : x = <<s, k, cycles[s][k].opening>>
        BY <3>2 DEF ChargedTo
      <3>4. ASSUME NEW s \in Students, NEW k
            PROVE  k \in Linked(s, l) <=> <<s, k>> \in Pairs(todo)
        <4>1. ASSUME k \in Linked(s, l)
              PROVE  <<s, k>> \in Pairs(todo)
          <5>1. <<s, k, cycles[s][k].opening>> \in ToSet(todo)
            BY <3>3, <4>1
          <5> QED
            BY <5>1 DEF Pairs
        <4>2. ASSUME <<s, k>> \in Pairs(todo)
              PROVE  k \in Linked(s, l)
          <5>1. PICK x \in ToSet(todo) : x[1] = s /\ x[2] = k
            BY <4>2 DEF Pairs
          <5> QED
            BY <3>3, <5>1
        <4> QED
          BY <4>1, <4>2
      <3>5. \A s : Linked(s, l)' = Linked(s, l)
        BY <2>2 DEF Linked
      <3>6. \A x \in ToSet(todo) : x[2] \in DOMAIN cycles[x[1]] /\ x[3] = cycles[x[1]][x[2]].opening
        BY <3>3 DEF Linked
      <3> QED
        BY <2>2, <3>4, <3>5, <3>6
    <2> QED
      BY <1>1, <2>3, <2>4 DEF ReadRight
  <1>2. CASE ~ (v = w /\ BeginReopen(w))
    <2>1. ASSUME job'[v].pc = "unlink"
          PROVE  \A s \in Students : \A k : k \in Linked(s, l)' <=> <<s, k>> \in Pairs(todo)
      <3>1. v # w
        BY <1>2, <2>1, TodoKept
      <3>2. job'[v] = job[v]
        BY <3>1, WorkMoves
      <3>3. l \in Lessons
        BY <2>1, <3>2, AtLesson DEF Reopening
      <3>4. v \in Busy /\ w \in Busy
        BY <2>1, <3>2, WorkMoves DEF Busy, At
      <3>5. l # Arg(w).lesson
        BY <3>1, <3>2, <3>3, <3>4 DEF LessonInv, Arg
      <3>6. \A s \in Students : Linked(s, l)' = Linked(s, l)
        BY <3>3, <3>5, Untouched DEF LinkedKept, Adds, Unlinks
      <3> QED
        BY <2>1, <3>2, <3>6 DEF ReadRight
    <2>2. ASSUME job'[v].pc \in Numbered \union {"unlink"}, NEW x \in ToSet(todo),
                 <<x[1], x[2]>> \notin torn'
          PROVE  x[2] \in DOMAIN cycles'[x[1]] /\ x[3] = cycles'[x[1]][x[2]].opening
      <3>1. job[v].pc \in Numbered \union {"unlink"} /\ x \in ToSet(job[v].todo)
        <4>1. CASE v = w
          BY <1>2, <2>2, <4>1, TodoKept
        <4>2. CASE v # w
          BY <2>2, <4>2, WorkMoves
        <4> QED
          BY <4>1, <4>2
      <3>2. <<x[1], x[2]>> \notin torn
        BY <2>2, TornGrows
      <3>3. x[2] \in DOMAIN cycles[x[1]] /\ x[3] = cycles[x[1]][x[2]].opening
        BY <3>1, <3>2 DEF ReadRight
      <3>4. x[1] \in Students
        <4>1. job[v].todo \in Seq(Students \X Nat \X Nat)
          BY <3>1 DEF OpeningInv, OpeningFits
        <4>2. x \in Students \X Nat \X Nat
          BY <3>1, <4>1 DEF ToSet
        <4> QED
          BY <4>2
      <3>5. x[2] \in DOMAIN cycles'[x[1]]
        BY <3>3, <3>4, WorkPackages DEF LimitsKept
      <3>6. ASSUME SetOpening(w), cycles' # cycles, x[1] = Arg(w).student, x[2] = job[w].at
            PROVE  FALSE
        <4>1. CASE job[v].pc \in Numbered
          <5>1. <<x[1], x[2]>> \in Numbering(v)
            BY <3>1, <4>1, OwesNumbering DEF Pairs
          <5>2. torn' = torn \union ({<<Arg(w).student, job[w].at>>}
                                       \intersect UNION {Numbering(u) : u \in Workers})
            BY <3>6 DEF SetOpening, Refuse, data
          <5> QED
            BY <2>2, <3>6, <5>1, <5>2
        <4>2. CASE job[v].pc = "unlink"
          <5>1. <<x[1], x[2]>> \in Pairs(job[v].todo)
            BY <3>1 DEF Pairs
          <5>2. x[2] \in Linked(x[1], job[v].m.lesson)
            BY <3>4, <4>2, <5>1 DEF ReadRight
          <5>3. cycles[x[1]][x[2]].links # {}
            BY <5>2 DEF Linked
          <5> QED
            BY <3>3, <3>4, <3>6, <5>3, OpeningEmpty
        <4> QED
          BY <3>1, <4>1, <4>2
      <3>7. cycles'[x[1]][x[2]].opening = cycles[x[1]][x[2]].opening
        BY <3>3, <3>4, <3>6, OpeningStays
      <3> QED
        BY <3>3, <3>5, <3>7
    <2> QED
      BY <2>1, <2>2 DEF ReadRight
  <1> QED
    BY <1>1, <1>2

(* A package that is there before and after a worker's step.               *)
LEMMA OldInPlace ==
    ASSUME BillingInv, GapInv, NEW w \in Workers, Work(w), raced = {},
           NEW s \in Students, NEW k \in DOMAIN cycles[s], <<s, k>> \notin torn'
    PROVE  InPlace(s, k)' /\ OneNumbers(s, k)'
  <1> USE DEF BillingInv, TypeInv
  <1>1. <<s, k>> \notin torn
    BY TornGrows
  <1>2. InPlace(s, k) /\ OneNumbers(s, k) /\ ReadRight(w)
    BY <1>1 DEF GapInv
  <1>3. \A v \in Workers : v # w => job'[v] = job[v]
    BY WorkMoves
  <1>4. CASE job[w].pc \notin Numbered \union {"unlink"}
    <2>1. job'[w].pc \notin Numbered
      BY <1>4, ReopenAt
    <2>2. /\ Owes(w) = {} /\ ~ Renumbers(w, s, k) /\ ~ Renumbers(w, s, k)'
      BY <1>4, <2>1 DEF Owes, Renumbers, Numbered
    <2>3. CASE SamePlaces(s, k)
      BY <1>2, <1>3, <2>2, <2>3, Undisturbed
    <2>4. CASE AddToCycle(w) /\ cycles' # cycles /\ s = Now(w) /\ k = job[w].at
      BY <1>2, <1>3, <1>4, <2>1, <2>4, AddInPlace
    <2>5. CASE SetOpening(w) /\ cycles' # cycles /\ s = Arg(w).student /\ k = job[w].at
      BY <1>3, <1>4, <2>1, <2>5, OpeningInPlace
    <2>6. ~ (Unlink(w) \/ ShiftPositions(w) \/ Renumber(w))
      BY <1>4 DEF Unlink, ShiftPositions, Renumber, At, Numbered
    <2> QED
      BY <2>3, <2>4, <2>5, <2>6, WorkPlaces
  <1>5. CASE job[w].pc = "unlink"
    BY <1>2, <1>3, <1>5, ReopenAt, UnlinkInPlace
  <1>6. CASE job[w].pc = "shift"
    BY <1>2, <1>3, <1>6, ReopenAt, ShiftInPlace
  <1>7. CASE job[w].pc = "places"
    BY <1>2, <1>3, <1>7, ReopenAt, ReadInPlace
  <1>8. CASE job[w].pc = "renumber"
    BY <1>1, <1>2, <1>3, <1>8, ReopenAt, RenumberInPlace
  <1>9. CASE job[w].pc = "settle"
    <2>1. SettleCycle(w)
      BY <1>9, ReopenAt
    <2>2. SamePlaces(s, k)
      <3>1. ~ (Unlink(w) \/ ShiftPositions(w) \/ Renumber(w) \/ AddToCycle(w) \/ SetOpening(w))
        BY <1>9 DEF Unlink, ShiftPositions, Renumber, AddToCycle, SetOpening, At
      <3> QED
        BY <3>1, WorkPlaces
    <2> QED
      BY <1>2, <1>3, <2>1, <2>2, SettleInPlace
  <1> QED
    BY <1>4, <1>5, <1>6, <1>7, <1>8, <1>9 DEF Numbered

(* A package that is created.                                              *)
LEMMA NewInPlace ==
    ASSUME BillingInv, GapInv, NEW w \in Workers, Work(w), raced = {},
           NEW s \in Students, NEW k \in DOMAIN cycles'[s], k \notin DOMAIN cycles[s],
           <<s, k>> \notin torn'
    PROVE  InPlace(s, k)' /\ OneNumbers(s, k)'
  <1> USE DEF BillingInv, TypeInv
  <1>1. Contiguous(cycles'[s][k]) /\ (FirstCycle(w) \/ CreateCycle(w))
    BY NewPlaces
  <1>2. job'[w].pc \notin Numbered
    <2>1. job[w].pc \notin Numbered \union {"unlink"}
      BY <1>1 DEF FirstCycle, CreateCycle, At, Numbered
    <2> QED
      BY <2>1, ReopenAt
  <1>3. ASSUME NEW v \in Workers
        PROVE  ~ Renumbers(v, s, k)'
    <2>1. CASE v = w
      BY <1>2, <2>1 DEF Renumbers, Numbered
    <2>2. CASE v # w
      <3>1. SUFFICES ASSUME Renumbers(v, s, k)'
                     PROVE  FALSE
        OBVIOUS
      <3>2. job'[v] = job[v]
        BY <2>2, WorkMoves
      <3>3. job[v].pc \in Numbered /\ Now(v)[1] = s /\ Now(v)[2] = k
        BY <3>1, <3>2 DEF Renumbers, Now, Numbered
      <3>4. <<s, k>> \notin torn /\ ReadRight(v)
        BY TornGrows DEF GapInv
      <3> QED
        BY <3>3, <3>4, ReadOpening
    <2> QED
      BY <2>1, <2>2
  <1> QED
    BY <1>1, <1>3 DEF InPlace, OneNumbers

(* A step that only begins or ends a job.                                  *)
LEMMA JobInPlace ==
    ASSUME BillingInv, GapInv, NEW w \in Workers, cycles' = cycles, torn \in SUBSET torn',
           raced' = {} => raced = {}, \A v \in Workers : v # w => job'[v] = job[v],
           job'[w].pc \in {"idle", "begin"}, Numbering(w) \in SUBSET torn'
    PROVE  GapInv'
  <1> USE DEF BillingInv
  <1> SUFFICES ASSUME raced' = {}
               PROVE  /\ \A v \in Workers : ReadRight(v)'
                      /\ \A s \in Students : \A k \in DOMAIN cycles'[s] :
                            <<s, k>> \notin torn' => InPlace(s, k)' /\ OneNumbers(s, k)'
    BY DEF GapInv
  <1>1. ASSUME NEW v \in Workers
        PROVE  ReadRight(v)'
    <2>1. CASE v = w
      BY <2>1 DEF ReadRight, Numbered
    <2>2. CASE v # w
      <3>1. job'[v] = job[v] /\ ReadRight(v)
        BY <2>2 DEF GapInv
      <3> QED
        BY <3>1 DEF ReadRight, Linked
    <2> QED
      BY <2>1, <2>2
  <1>2. ASSUME NEW s \in Students, NEW k \in DOMAIN cycles'[s], <<s, k>> \notin torn'
        PROVE  InPlace(s, k)' /\ OneNumbers(s, k)'
    <2>1. InPlace(s, k) /\ OneNumbers(s, k)
      BY <1>2 DEF GapInv
    <2>2. <<s, k>> \notin Owes(w) /\ ~ Renumbers(w, s, k)
      BY <1>2, OwesNumbering
    <2>3. ~ Renumbers(w, s, k)' /\ SamePlaces(s, k)
      BY DEF Renumbers, SamePlaces
    <2> QED
      BY <2>1, <2>2, <2>3, Undisturbed
  <1> QED
    BY <1>1, <1>2

(* To begin with no package has lessons.                                   *)
LEMMA InitGap == Init => GapInv
  <1> SUFFICES ASSUME Init
               PROVE  GapInv
    OBVIOUS
  <1>1. \A w \in Workers : job[w].pc = "idle"
    BY DEF Init, Idle
  <1>2. \A w \in Workers : ReadRight(w) /\ \A s, k : ~ Renumbers(w, s, k)
    BY <1>1 DEF ReadRight, Renumbers, Numbered
  <1>3. ASSUME NEW s \in Students, NEW k \in DOMAIN cycles[s]
        PROVE  Contiguous(cycles[s][k])
    <2>1. cycles[s] \in Seq({c \in PackageRow : c.links = {} /\ c.opening <= c.limit})
      BY BillingAssumption DEF Init
    <2>2. cycles[s][k] \in {c \in PackageRow : c.links = {} /\ c.opening <= c.limit}
      BY <2>1
    <2>3. cycles[s][k].links = {} /\ cycles[s][k].opening \in Nat
      BY <2>2 DEF PackageRow
    <2> QED
      BY <2>3, EmptyContiguous
  <1> QED
    BY <1>2, <1>3 DEF GapInv, InPlace, OneNumbers

(* Every step keeps the places in order.                                   *)
LEMMA GapStep == BillingInv /\ GapInv /\ [Next]_vars => GapInv'
  <1> SUFFICES ASSUME BillingInv, GapInv, [Next]_vars
               PROVE  GapInv'
    OBVIOUS
  <1> USE DEF BillingInv, TypeInv, JobInv
  <1>1. CASE UNCHANGED <<job, cycles, torn, raced>>
    BY <1>1 DEF GapInv, ReadRight, Linked, InPlace, OneNumbers, Renumbers, Owes, Now
  <1>2. CASE UNCHANGED vars \/ Send
    BY <1>1, <1>2 DEF vars, Send, data, history
  <1>3. ASSUME NEW w \in Workers, Take(w) \/ TakeOver(w)
        PROVE  GapInv'
    <2>1. PICK m : Start(w, m)
      BY <1>3 DEF Take, TakeOver
    <2>2. /\ \A v \in Workers : v # w => job'[v] = job[v]
          /\ job'[w].pc = "begin"
      BY <2>1, StartMoves
    <2>3. cycles' = cycles /\ torn' = torn /\ (raced' = {} => raced = {})
      BY <1>3 DEF Take, TakeOver, data, history
    <2>4. Numbering(w) = {}
      BY <1>3 DEF Take, TakeOver, Busy, At, Numbering
    <2> QED
      BY <2>2, <2>3, <2>4, JobInPlace
  <1>4. ASSUME NEW w \in Workers, Fail(w)
        PROVE  GapInv'
    <2>1. /\ job' = [job EXCEPT ![w] = Idle] /\ cycles' = cycles /\ raced' = raced
          /\ torn' = torn \union Numbering(w)
      BY <1>4 DEF Fail, data
    <2>2. job'[w] = Idle /\ \A v \in Workers : v # w => job'[v] = job[v]
      BY <2>1
    <2>3. job'[w].pc = "idle"
      BY <2>2 DEF Idle
    <2> QED
      BY <2>1, <2>2, <2>3, JobInPlace
  <1>5. ASSUME NEW w \in Workers, Work(w)
        PROVE  GapInv'
    <2> SUFFICES ASSUME raced' = {}
                 PROVE  /\ \A v \in Workers : ReadRight(v)'
                        /\ \A s \in Students : \A k \in DOMAIN cycles'[s] :
                              <<s, k>> \notin torn' => InPlace(s, k)' /\ OneNumbers(s, k)'
      BY DEF GapInv
    <2>1. raced = {}
      BY <1>5, WorkKeeps
    <2>2. \A v \in Workers : ReadRight(v)'
      BY <1>5, <2>1, ReadRightStep DEF GapInv
    <2>3. ASSUME NEW s \in Students, NEW k \in DOMAIN cycles'[s], <<s, k>> \notin torn'
          PROVE  InPlace(s, k)' /\ OneNumbers(s, k)'
      BY <1>5, <2>1, <2>3, OldInPlace, NewInPlace
    <2> QED
      BY <2>2, <2>3
  <1> QED
    BY <1>2, <1>3, <1>4, <1>5 DEF Next, Rest

(* When nothing is left to do the places of a package go from its opening  *)
(* progress on without a gap, for any number of students, lessons and      *)
(* workers, wherever lessons were completed and reopened meanwhile, unless *)
(* the numbering of that package was cut off or disturbed, or two workers  *)
(* were at one lesson (addOccurrenceToCycle, reopenCompletedOccurrence).   *)
THEOREM PlacesHaveNoGapHolds == Spec => []PlacesHaveNoGap
  <1>1. GapInv => PlacesHaveNoGap
    <2> SUFFICES ASSUME GapInv, Quiet, raced = {}, NEW s \in Students, NEW k \in DOMAIN cycles[s],
                        <<s, k>> \notin torn
                 PROVE  Contiguous(cycles[s][k])
      BY DEF PlacesHaveNoGap, Contiguous
    <2>1. \A w \in Workers : job[w].pc = "idle"
      BY DEF Quiet, Busy, At
    <2> QED
      BY <2>1 DEF GapInv, InPlace, Owes, Renumbers
  <1> QED
    BY <1>1, InitGap, GapStep, BillingInvariant, PTL DEF Spec

=============================================================================
