-------------------------- MODULE MCPackageBilling --------------------------
EXTENDS PackageBilling, TLC

CONSTANTS s1, s2, l1, l2, w1, w2

Both == {s1, s2}

Complete(l, P) == [op |-> "occurrence.complete", lesson |-> l, present |-> P]
OnLesson(op, l) == [op |-> op, lesson |-> l]
Reschedule_(l, f) == [op |-> "occurrence.reschedule", lesson |-> l, future |-> f]
OnStudent(op, s) == [op |-> op, lesson |-> Nobody, student |-> s]
OnSession(op) == [op |-> op, lesson |-> Nobody]
Details(P, s) == [op |-> "session.details.update", lesson |-> Nobody, members |-> P, payer |-> s]
Configure(s, mode, size, n) ==
    [op |-> "billing.configure", lesson |-> Nobody, student |-> s, mode |-> mode, size |-> size, opening |-> n]

Package(size) == [mode |-> "package", size |-> size]

(* Two students share the lessons; one has a package half used before.     *)
SharedSession == [active |-> TRUE, members |-> Both, payer |-> Nobody]
SharedPlan == (s1 :> Package(2)) @@ (s2 :> [mode |-> "none", size |-> 0])
SharedCycles == (s1 :> <<NewCycle(2, 1)>>) @@ (s2 :> << >>)

SharedCommands ==
    {Complete(l, Both) : l \in {l1, l2}} \union {Complete(l2, {s2})}
    \union {OnLesson("occurrence.reopen", l1), OnLesson("occurrence.cancel", l1),
            OnLesson("occurrence.restore", l1), Reschedule_(l1, TRUE)}
    \union {OnStudent("student.archive", s2), OnStudent("student.restore", s2),
            OnSession("session.archive"), OnSession("session.restore")}
    \union {Details(Both, s1), Configure(s2, "package", 1, 0)}

Shared ==
    [session |-> SharedSession, plan |-> SharedPlan, cycles |-> SharedCycles,
     family |-> Both, counting |-> "per_member_quota", primary |-> s1,
     commands |-> SharedCommands, mutations |-> 3, failures |-> 1, overlaps |-> 0]

(* One student: lessons that compete for the last place of a package.      *)
SoleSession == [active |-> TRUE, members |-> {s1}, payer |-> Nobody]
SolePlan == (s1 :> Package(2)) @@ (s2 :> [mode |-> "none", size |-> 0])
HalfUsed == (s1 :> <<NewCycle(2, 1)>>) @@ (s2 :> << >>)

SoleCommands ==
    {Complete(l, {s1}) : l \in Lessons}
    \union {OnLesson("occurrence.reopen", l1)}
    \union {Configure(s1, "package", 2, n) : n \in {0, 3}}

Sole ==
    [session |-> SoleSession, plan |-> SolePlan, cycles |-> HalfUsed,
     family |-> {}, counting |-> "per_member_quota", primary |-> s1,
     commands |-> SoleCommands, mutations |-> 4, failures |-> 0, overlaps |-> 1]

(* The same, and one of the workers may die or one statement fail.         *)
Crashing ==
    [Sole EXCEPT !.mutations = 3, !.failures = 1,
                 !.commands = @ \union {OnSession("session.archive"), Configure(s1, "package", 2, 2)}]

(* Two students, and a worker that overlaps the next.                      *)
Overlapping == [Shared EXCEPT !.mutations = 2, !.overlaps = 1]

MCSetups == [shared |-> Shared, overlapping |-> Overlapping, sole |-> Sole, crashing |-> Crashing]

(* Workers differ by name only.                                            *)
WorkerSymmetry == Permutations(Workers)
=============================================================================
