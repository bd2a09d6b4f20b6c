----------------------------- MODULE LocalRows -----------------------------
(***************************************************************************)
(* The rows a device edits and the server's handlers for the same edits:   *)
(* expenses, other income and cash checks (client/finance), students and   *)
(* recurring sessions (client/tutoring, adapters/indexeddb), clients,      *)
(* appointments and their collections (client/appointments), the activity  *)
(* log with its undo (client/activity, client/control), and the handlers   *)
(* of server/sync that replay the queued mutations on D1.                  *)
(*                                                                         *)
(* A local command reads its row in one IndexedDB transaction, computes    *)
(* the new row, and in a second transaction writes it with an activity     *)
(* event and two queued mutations: its own and activity.record.  Tabs      *)
(* share the rows, so between the two another tab may write and a snapshot *)
(* may arrive.  The server never sees the computed row of a student        *)
(* archive or the reading it was based on: it decides again, by its own    *)
(* date.  The module asks whether it decides the same.                     *)
(*                                                                         *)
(* Abstractions: a row's plain fields are one value, the number of the     *)
(* command that wrote them; a session's hour is one slot, two confirmed    *)
(* sessions conflict when they share it; an appointment's day has come, by *)
(* each side's date, or has not; the reads of one command are one step; a  *)
(* push with its settlement is one step, and the tabs of a device do not   *)
(* synchronise at once (SyncProtocol has the faults between the steps).    *)
(***************************************************************************)
EXTENDS Integers, FiniteSets, Sequences, SequencesExt, FiniteSetsExt

CONSTANTS Expenses, Incomes, Checks,      \* ids of finance rows
          Students, Sessions,             \* ids of tutoring rows
          Clients, Appointments, Receipts,\* ids of appointment rows
          Known,          \* the ids that exist at the start
          Lived,          \* the sessions with attendance history
          Slots,          \* the hours of the week sessions may take
          SessionForms,   \* what the session form may submit
          AppointmentForms, \* what the appointment form may submit
          Statuses,       \* the statuses the buttons set
          Nobody,
          Tabs,           \* the browser tabs that have the workspace open
          Desks,          \* what a user works on: sets of ids
          MaxCommands,    \* bound on commands, the other device's included
          MaxForeign,     \* bound on changes of another device
          MaxRetries,     \* bound on dead letters tried again
          RetryKinds      \* the kinds of those dead letters

Entries == Expenses \union Incomes \union Checks
Numbers == 1..MaxCommands

ASSUME IdsAssumption ==
    /\ Nobody \notin Students \union Clients \union Appointments
    /\ Lived \subseteq Sessions
    /\ MaxCommands \in Nat /\ MaxForeign \in Nat /\ MaxRetries \in Nat
    /\ \A form \in SessionForms : form.members \subseteq Students
    /\ \A form \in AppointmentForms : form.client \in Clients \union {Nobody}
    /\ Appointments \intersect Known # {} => Clients \intersect Known # {}

VARIABLES
    device,    \* the rows in IndexedDB
    outbox,    \* the queue of mutations, dead letters included
    cmd,       \* the command each tab has in progress
    begun,     \* number of commands begun
    made,      \* number of commands written
    snap,      \* the snapshot fetched and not yet applied
    server,    \* the rows in D1
    revision,  \* the workspace's revision: the other device's changes; a
               \* push of this device advances it together with base
    base,      \* the revision in the device's cloud link
    desk,      \* the ids this behaviour works on
    retries,   \* number of dead letters tried again
    behind,    \* another device changed rows this one has not pulled
    doubtful   \* rows whose agreement nothing in the code promises

cloudVars == <<server, revision, base, behind>>
boundVars == <<desk, retries>>
vars == <<boundVars, device, outbox, cmd, begun, made, snap, cloudVars, doubtful>>

-----------------------------------------------------------------------------
(* Rows.                                                                   *)

Entry(state, val) == [state |-> state, val |-> val]

Session(state, members, payer, expected, slot, val) ==
    [state |-> state, members |-> members, payer |-> payer,
     expected |-> expected, slot |-> slot, val |-> val]

NoSession == Session("absent", {}, Nobody, 1, 0, 0)

(* due: the sides, "device" and "workspace", by whose date the day of the  *)
(* appointment has come.                                                   *)
Appointment(state, client, due, val, status) ==
    [state |-> state, client |-> client, due |-> due, val |-> val,
     status |-> status]

NoAppointment == Appointment("absent", Nobody, {}, 0, "scheduled")

Receipt(state, client, appointment) ==
    [state |-> state, client |-> client, appointment |-> appointment]

NoReceipt == Receipt("absent", Nobody, Nobody)

NoRow == [state |-> "absent", val |-> 0]

(* An activity event: the row it is about, what happened, the row before.  *)
Event(table, id, action, before, undoable) ==
    [table |-> table, id |-> id, action |-> action, before |-> before,
     undoable |-> undoable, undone |-> FALSE]

NoEvent == Event("none", Nobody, "none", NoRow, FALSE)

NoCommand == [step |-> "idle", puts |-> {}, mutation |-> [kind |-> "none"],
              event |-> NoEvent, mark |-> 0, stale |-> FALSE]

NoSnapshot == [rev |-> -1]

Live(s, table, id) == s[table][id].state \in {"live", "active"}

-----------------------------------------------------------------------------
(* A queued mutation: its module's entity, operation, row id and payload.  *)
Mutation(kind, op, id, row) ==
    [kind |-> kind, op |-> op, id |-> id, row |-> row, dead |-> FALSE]

Record(n, event) == Mutation("event", "record", n, event)

TableOf(kind) == IF kind \in {"expense", "income", "cash"} THEN "entry" ELSE kind

(* The rows a mutation is about and the rows the server looks at for it.   *)
Touched(m) ==
    {<<TableOf(m.kind), m.id>>} \union
    (IF m.kind = "student" /\ m.op = "archive"
     THEN {<<"session", x>> : x \in Sessions} ELSE {})

Used(m) ==
    Touched(m) \union
    CASE m.kind = "session" ->
           {<<"student", s>> : s \in m.row.members}
           \union {<<"session", x>> : x \in Sessions}
      [] m.kind = "appointment" ->
           {<<"client", m.row.client>>}
           \union {<<"receipt", r>> : r \in Receipts}
      [] m.kind = "receipt" ->
           {<<"client", m.row.client>>, <<"appointment", m.row.appointment>>}
      [] OTHER -> {}

-----------------------------------------------------------------------------
(* The device lets an appointment be completed by its own date, localToday;*)
(* the server asks for the date in the workspace's zone, which it fixes to *)
(* Europe/London (workspaceToday).  East of it there are hours in which    *)
(* the day has come for the device only.                                   *)
Early(m) ==
    m.kind = "appointment" /\ m.row.status = "completed" /\ "workspace" \notin m.row.due

(* A mutation that rests on a doubtful row leaves doubtful rows behind.     *)
Spreading(doubts, m) ==
    IF m.dead \/ Used(m) \intersect doubts = {} THEN doubts
    ELSE doubts \union Touched(m)

Spread(doubts, queue) == FoldLeft(Spreading, doubts, queue)

-----------------------------------------------------------------------------
Archived(session, s) ==
    LET remaining == session.members \ {s} IN
    IF session.state # "active" \/ s \notin session.members THEN session
    ELSE IF remaining = {} THEN [session EXCEPT !.state = "archived"]
    ELSE [session EXCEPT
            !.members = remaining,
            !.payer = IF @ = s THEN Nobody ELSE @,
            !.expected = Max({1, Cardinality(remaining), @ - 1})]

(* schedule-conflict.ts: an active session that already takes the slot.    *)
Conflict(s, x, slot) ==
    /\ slot # 0
    /\ \E y \in Sessions \ {x} :
         s.session[y].state = "active" /\ s.session[y].slot = slot

(* The fields attendance history locks.                                    *)
FinanceChanged(current, form) ==
    \/ form.members # current.members
    \/ form.payer # current.payer
    \/ form.expected # current.expected

(* SessionsService.updateDetails, run by the device and by the server.     *)
DetailsRefusal(s, x, form) ==
    LET current == s.session[x] IN
    IF current.state = "absent" THEN "SESSION_NOT_FOUND"
    ELSE IF current.state = "archived" THEN "SESSION_ARCHIVED"
    ELSE IF form.slot # current.slot /\ Conflict(s, x, form.slot)
         THEN "SCHEDULE_CONFLICT"
    ELSE IF x \in Lived /\ FinanceChanged(current, form)
         THEN "SESSION_FINANCE_LOCKED_BY_HISTORY"
    ELSE "accepted"

\* Mutated form of Linked: only another client's collection counts.
LinkedToClient(s, a) ==
    \E r \in Receipts : /\ s.receipt[r].state = "live"
                        /\ s.receipt[r].appointment = a
                        /\ s.receipt[r].client # s.appointment[a].client

(* A live collection is linked to the appointment.                         *)
Linked(s, a) ==
    \E r \in Receipts :
      s.receipt[r].state = "live" /\ s.receipt[r].appointment = a

Historical(row) == [client |-> row.client, due |-> row.due, val |-> row.val]

-----------------------------------------------------------------------------
(* The server's handlers: what they refuse, then what they change.         *)

ExpenseRefusal(s, m) ==
    IF m.op = "create" THEN "accepted"
    ELSE IF s.entry[m.id].state = "absent" THEN "EXPENSE_NOT_FOUND"
    ELSE IF m.op = "update" /\ s.entry[m.id].state = "deleted"
         THEN "EXPENSE_DELETED"
    ELSE "accepted"

(* UPDATE ... WHERE the row is there and, for an edit, not deleted.        *)
FoundEntry(s, m) ==
    \/ m.op = "create"
    \/ Live(s, "entry", m.id)
    \/ s.entry[m.id].state = "deleted" /\ m.op # "update"

IncomeRefusal(s, m) ==
    IF FoundEntry(s, m) THEN "accepted" ELSE "INCOME_NOT_FOUND"

CashRefusal(s, m) ==
    IF FoundEntry(s, m) THEN "accepted" ELSE "CASH_CHECK_NOT_FOUND"

StudentRefusal(s, m) ==
    IF m.op = "create" \/ s.student[m.id].state # "absent"
    THEN "accepted" ELSE "STUDENT_NOT_FOUND"

SessionRefusal(s, m) ==
    IF m.op = "create" THEN "accepted"
    ELSE IF m.op = "archive"
         THEN IF s.session[m.id].state = "absent" THEN "SESSION_NOT_FOUND"
              ELSE "accepted"
    ELSE IF \E x \in m.row.members : ~Live(s, "student", x)
         THEN "STUDENT_NOT_FOUND"
    ELSE DetailsRefusal(s, m.id, m.row)

AppointmentRefusal(s, m) ==
    LET current == s.appointment[m.id] IN
    IF Early(m)
    THEN "FUTURE_APPOINTMENT_COMPLETION_NOT_ALLOWED"
    ELSE IF m.row.client # Nobody /\ ~Live(s, "client", m.row.client)
    THEN "CLIENT_NOT_FOUND"
    ELSE IF /\ current.state = "live"
            /\ current.status = "completed" /\ m.row.status = "completed"
            /\ Historical(current) # Historical(m.row)
    THEN "COMPLETED_APPOINTMENT_REQUIRES_REOPEN"
    ELSE IF /\ current.state = "live" /\ current.client # m.row.client
            /\ Linked(s, m.id)
    THEN "APPOINTMENT_CLIENT_LOCKED_BY_COLLECTION"
    ELSE "accepted"

(* validatePayer and validateSourceLink.                                   *)
ReceiptRefusal(s, m) ==
    IF ~Live(s, "client", m.row.client) THEN "CLIENT_NOT_FOUND"
    ELSE IF m.row.appointment = Nobody THEN "accepted"
    ELSE IF ~Live(s, "appointment", m.row.appointment)
         THEN "APPOINTMENT_NOT_FOUND"
    ELSE IF s.appointment[m.row.appointment].client # m.row.client
         THEN "RECEIPT_SOURCE_PAYER_MISMATCH"
    ELSE "accepted"

EventRefusal(s, m) ==
    IF m.op = "record" \/ s.event[m.id] # NoEvent THEN "accepted"
    ELSE "ACTIVITY_NOT_FOUND"

Refusal(s, m) ==
    CASE m.kind = "expense" -> ExpenseRefusal(s, m)
      [] m.kind = "income" -> IncomeRefusal(s, m)
      [] m.kind = "cash" -> CashRefusal(s, m)
      [] m.kind = "student" -> StudentRefusal(s, m)
      [] m.kind = "session" -> SessionRefusal(s, m)
      [] m.kind = "appointment" -> AppointmentRefusal(s, m)
      [] m.kind = "receipt" -> ReceiptRefusal(s, m)
      [] m.kind = "event" -> EventRefusal(s, m)
      [] OTHER -> "accepted"

(* TERMINAL_MUTATION_ERRORS: what a retry could not change.  The others    *)
(* leave the mutation in the queue.                                        *)
Terminal == {"STUDENT_NOT_FOUND", "SESSION_NOT_FOUND", "SESSION_ARCHIVED",
             "SCHEDULE_CONFLICT", "SESSION_FINANCE_LOCKED_BY_HISTORY",
             "COMPLETED_APPOINTMENT_REQUIRES_REOPEN",
             "FUTURE_APPOINTMENT_COMPLETION_NOT_ALLOWED"}

(* INSERT unless the row exists.                                           *)
Inserted(s, table, id, row) ==
    IF s[table][id].state = "absent" THEN [s EXCEPT ![table][id] = row] ELSE s

EntryEffect(s, m) ==
    CASE m.op = "create" -> Inserted(s, "entry", m.id, m.row)
      [] m.op = "update" -> [s EXCEPT !.entry[m.id].val = m.row.val]
      [] m.op = "delete" -> [s EXCEPT !.entry[m.id].state = "deleted"]
      [] m.op = "restore" -> [s EXCEPT !.entry[m.id].state = "live"]

\* Mutated form of ArchiveEffect: the handler archives a session that loses
\* any of its students.
ArchiveDeactivates(s, id) ==
    [s EXCEPT
       !.student[id].state = "archived",
       !.session = [x \in Sessions |->
          IF s.session[x].state = "active" /\ id \in s.session[x].members
          THEN [s.session[x] EXCEPT !.state = "archived"] ELSE s.session[x]]]

(* The server archives the student in its own sessions, in one batch.      *)
ArchiveEffect(s, id) ==
    IF s.student[id].state = "archived" THEN s
    ELSE [s EXCEPT
            !.student[id].state = "archived",
            !.session = [x \in Sessions |-> Archived(s.session[x], id)]]

StudentEffect(s, m) ==
    CASE m.op = "create" -> Inserted(s, "student", m.id, m.row)
      [] m.op = "update" -> [s EXCEPT !.student[m.id].val = m.row.val]
      [] m.op = "archive" -> ArchiveEffect(s, m.id)
      [] m.op = "restore" -> [s EXCEPT !.student[m.id].state = "active"]

SessionEffect(s, m) ==
    CASE m.op = "create" -> Inserted(s, "session", m.id, m.row)
      [] m.op = "details" ->
           [s EXCEPT !.session[m.id] = m.row]
      [] m.op = "archive" -> [s EXCEPT !.session[m.id].state = "archived"]

EventEffect(s, m) ==
    IF m.op = "undo"
    THEN [s EXCEPT !.event[m.id].undone = TRUE, !.event[m.id].undoable = FALSE]
    ELSE IF s.event[m.id] = NoEvent THEN [s EXCEPT !.event[m.id] = m.row] ELSE s

Effect(s, m) ==
    CASE TableOf(m.kind) = "entry" -> EntryEffect(s, m)
      [] m.kind = "student" -> StudentEffect(s, m)
      [] m.kind = "session" -> SessionEffect(s, m)
      [] m.kind = "event" -> EventEffect(s, m)
      [] m.kind = "receipt" -> Inserted(s, "receipt", m.id, m.row)
      [] OTHER -> [s EXCEPT ![m.kind][m.id] = m.row]   \* ... ON CONFLICT UPDATE

-----------------------------------------------------------------------------
Init ==
    /\ device =
         [entry |-> [e \in Entries |->
             IF e \in Known THEN Entry("live", 0) ELSE NoRow],
          student |-> [x \in Students |->
             IF x \in Known THEN Entry("active", 0) ELSE NoRow],
          session |-> [x \in Sessions |->
             IF x \in Known
             THEN Session("active", Students \intersect Known,
                          CHOOSE p \in Students \intersect Known : TRUE,
                          Cardinality(Students \intersect Known), 1, 0)
             ELSE NoSession],
          client |-> [c \in Clients |->
             IF c \in Known THEN Entry("active", 0) ELSE NoRow],
          appointment |-> [a \in Appointments |->
             IF a \in Known
             THEN Appointment("live", CHOOSE c \in Clients \intersect Known :
                                        TRUE, {"device", "workspace"}, 0, "scheduled")
             ELSE NoAppointment],
          receipt |-> [r \in Receipts |-> NoReceipt],
          event |-> [n \in Numbers |-> NoEvent]]
    /\ server = device
    /\ outbox = <<>>
    /\ cmd = [b \in Tabs |-> NoCommand]
    /\ begun = 0 /\ made = 0
    /\ snap = NoSnapshot
    /\ revision = 0 /\ base = 0
    /\ behind = FALSE
    /\ desk \in Desks
    /\ retries = 0
    /\ doubtful = {}

-----------------------------------------------------------------------------
(* Begin, in a tab at rest: the row was read, the guards passed, the new   *)
(* rows are computed.  mark is the event an undo will mark.                *)
Begin(puts, mutation, event, mark) ==
    /\ begun + revision < MaxCommands
    /\ mutation.id \in desk
    /\ begun' = begun + 1
    /\ \E b \in Tabs :
         /\ cmd[b].step = "idle"
         /\ cmd' = [cmd EXCEPT ![b] =
              [NoCommand EXCEPT !.step = "write", !.puts = puts,
                 !.mutation = mutation, !.event = event, !.mark = mark]]
    /\ UNCHANGED <<boundVars, device, outbox, made, snap, cloudVars, doubtful>>

(* client/finance: add, update, delete and restore of the three kinds.     *)
Put1(kind, op, id, row, event, mark) ==
    Begin({<<TableOf(kind), id, row>>}, Mutation(kind, op, id, row), event, mark)

(* An id that no row has, nor a row another tab is about to write.         *)
Unused(table, id) ==
    /\ device[table][id].state = "absent"
    /\ \A p \in UNION {cmd[b].puts : b \in Tabs} : p[2] # id

AddEntry(kind, e) ==
    /\ Unused("entry", e)
    /\ Put1(kind, "create", e, Entry("live", begun + 1),
            Event("entry", e, "created", NoRow, FALSE), 0)

UpdateEntry(kind, e, val, mark) ==
    LET current == device.entry[e] IN
    /\ current.state = "live"
    /\ Put1(kind, "update", e, [current EXCEPT !.val = val],
            Event("entry", e, "updated", current, TRUE), mark)

DeleteEntry(kind, e) ==
    LET current == device.entry[e] IN
    /\ current.state = "live"
    /\ Put1(kind, "delete", e, [current EXCEPT !.state = "deleted"],
            Event("entry", e, "deleted", current, TRUE), 0)

RestoreEntry(kind, e, mark) ==
    LET current == device.entry[e] IN
    /\ current.state = "deleted"
    /\ Put1(kind, "restore", e, [current EXCEPT !.state = "live"],
            Event("entry", e, "restored", current, FALSE), mark)

AddLocalExpense == \E e \in Expenses : AddEntry("expense", e)
UpdateLocalExpense == \E e \in Expenses : UpdateEntry("expense", e, begun + 1, 0)
DeleteLocalExpense == \E e \in Expenses : DeleteEntry("expense", e)
RestoreLocalExpense == \E e \in Expenses : RestoreEntry("expense", e, 0)

AddLocalOtherIncome == \E e \in Incomes : AddEntry("income", e)
UpdateLocalOtherIncome == \E e \in Incomes : UpdateEntry("income", e, begun + 1, 0)
DeleteLocalOtherIncome == \E e \in Incomes : DeleteEntry("income", e)
RestoreLocalOtherIncome == \E e \in Incomes : RestoreEntry("income", e, 0)

AddLocalCashCheck == \E e \in Checks : AddEntry("cash", e)
UpdateLocalCashCheck == \E e \in Checks : UpdateEntry("cash", e, begun + 1, 0)
DeleteLocalCashCheck == \E e \in Checks : DeleteEntry("cash", e)
RestoreLocalCashCheck == \E e \in Checks : RestoreEntry("cash", e, 0)

(* client/tutoring/student-corrections.ts and the students' repository.    *)
CreateStudent ==
    \E x \in Students :
      /\ Unused("student", x)
      /\ Put1("student", "create", x, Entry("active", begun + 1),
              Event("student", x, "created", NoRow, FALSE), 0)

UpdateStudent(x, val, mark) ==
    LET current == device.student[x] IN
    /\ current.state # "absent"
    /\ Put1("student", "update", x, [current EXCEPT !.val = val],
            Event("student", x, "updated", current, TRUE), mark)

UpdateLocalStudent == \E x \in Students : UpdateStudent(x, begun + 1, 0)

ArchiveLocalStudent ==
    \E x \in Students :
      LET current == device.student[x]
          row == [current EXCEPT !.state = "archived"]
      IN  /\ current.state = "active"
          /\ Begin({<<"student", x, row>>} \union
                   {<<"session", y, Archived(device.session[y], x)>> :
                      y \in {z \in Sessions : Archived(device.session[z], x)
                                                # device.session[z]}},
                   Mutation("student", "archive", x, row),
                   Event("student", x, "archived", current, FALSE), 0)

RestoreLocalStudent ==
    \E x \in Students :
      LET current == device.student[x] IN
      /\ current.state = "archived"
      /\ Put1("student", "restore", x, [current EXCEPT !.state = "active"],
              Event("student", x, "restored", current, FALSE), 0)

(* SessionsService over the IndexedDB repository.  The form lists the      *)
(* active students and those already in the session.                       *)
FormRow(form) ==
    Session("active", form.members, form.payer, form.expected, form.slot,
            begun + 1)

CreateSession ==
    \E x \in Sessions, form \in SessionForms :
      /\ Unused("session", x)
      /\ \A s \in form.members : Live(device, "student", s)
      /\ ~Conflict(device, x, form.slot)
      /\ Put1("session", "create", x, FormRow(form),
              Event("session", x, "created", NoRow, FALSE), 0)

UpdateDetails ==
    \E x \in Sessions, form \in SessionForms :
      /\ \A s \in form.members \ device.session[x].members :
           Live(device, "student", s)
      /\ DetailsRefusal(device, x, form) = "accepted"
      /\ Put1("session", "details", x, FormRow(form),
              Event("session", x, "details.updated", NoRow, FALSE), 0)

ArchiveSession ==
    \E x \in Sessions :
      LET row == [device.session[x] EXCEPT !.state = "archived"] IN
      /\ device.session[x].state = "active"
      /\ Put1("session", "archive", x, row,
              Event("session", x, "archive", NoRow, FALSE), 0)

(* client/appointments/local.ts.                                           *)
CreateAppointmentClient ==
    \E c \in Clients :
      /\ Unused("client", c)
      /\ Put1("client", "upsert", c, Entry("active", begun + 1),
              Event("client", c, "created", NoRow, FALSE), 0)

RequireClient(c) == c # Nobody => Live(device, "client", c)

PutAppointment(a, row) ==
    Put1("appointment", "upsert", a, row,
         Event("appointment", a, "upsert", NoRow, FALSE), 0)

CreateAppointment ==
    \E a \in Appointments, form \in AppointmentForms :
      /\ Unused("appointment", a)
      /\ RequireClient(form.client)
      /\ PutAppointment(a, Appointment("live", form.client, form.due,
                                       begun + 1, "scheduled"))

\* Mutated form of ClientFree: the device looks only at the new client.
ClientFreeOnce(a, client) == device.appointment[a].client # Nobody

(* canChangeAppointmentClient: a collection keeps the appointment's client.*)
ClientFree(a, client) ==
    device.appointment[a].client # client => ~Linked(device, a)

UpdateAppointment ==
    \E a \in Appointments, form \in AppointmentForms :
      LET current == device.appointment[a]
          next == [current EXCEPT
                     !.client = form.client, !.due = form.due,
                     !.val = IF form.edits THEN begun + 1 ELSE @]
      IN  /\ current.state = "live"
          /\ RequireClient(form.client)
          /\ ClientFree(a, form.client)
          /\ current.status = "completed" => Historical(next) = Historical(current)
          /\ PutAppointment(a, next)

SetAppointmentStatus ==
    \E a \in Appointments, status \in Statuses :
      LET current == device.appointment[a] IN
      /\ current.state = "live" /\ current.status # status
      /\ status = "completed" => "device" \in current.due
      /\ PutAppointment(a, [current EXCEPT !.status = status])

CollectAppointmentPayment ==
    \E r \in Receipts, c \in Clients, a \in Appointments \union {Nobody} :
      /\ Unused("receipt", r)
      /\ Live(device, "client", c)
      /\ a # Nobody => /\ Live(device, "appointment", a)
                       /\ device.appointment[a].client = c
      /\ Put1("receipt", "create", r, Receipt("live", c, a),
              Event("receipt", r, "created", NoRow, FALSE), 0)

-----------------------------------------------------------------------------
(* undoActivityEvent: a command that compensates, then the mark.           *)

KindOf(e) == CASE e \in Expenses -> "expense"
               [] e \in Incomes -> "income"
               [] OTHER -> "cash"

CanUndo(n) == device.event[n].undoable /\ ~device.event[n].undone

(* The tab that undoes event n goes on to mark it.                         *)
Marks(n) ==
    /\ \E b \in Tabs :
         /\ cmd[b].step = "idle"
         /\ cmd' = [cmd EXCEPT ![b] = [NoCommand EXCEPT !.step = "mark", !.mark = n]]
    /\ UNCHANGED <<boundVars, device, outbox, begun, made, snap, cloudVars>>

\* Mutated form of CompensatesFirst: the event is marked, then compensated.
MarksFirst(n) == Marks(n) /\ UNCHANGED doubtful

CompensatesFirst(n) ==
    LET event == device.event[n] IN
    \/ /\ event.table = "entry" /\ event.action = "updated"
       /\ UpdateEntry(KindOf(event.id), event.id, event.before.val, n)
    \/ /\ event.table = "student" /\ event.action = "updated"
       /\ UpdateStudent(event.id, event.before.val, n)
    \/ /\ event.table = "entry" /\ event.action = "deleted"
       /\ RestoreEntry(KindOf(event.id), event.id, n)
    \/ (* Nothing to restore: the command returns and the event is marked. *)
       /\ event.table = "entry" /\ event.action = "deleted"
       /\ device.entry[event.id].state = "live"
       /\ Marks(n)
       /\ doubtful' = doubtful \union {<<"event", n>>}

UndoActivityEvent == \E n \in Numbers : CanUndo(n) /\ CompensatesFirst(n)

(* The second half: rows, event and both mutations in one transaction.     *)
Written(puts) ==
    LET Of(table) == {p \in puts : p[1] = table}
        Patch(table, f) ==
          [id \in DOMAIN f |->
             IF \E p \in Of(table) : p[2] = id
             THEN (CHOOSE p \in Of(table) : p[2] = id)[3] ELSE f[id]]
    IN  [t \in DOMAIN device |-> Patch(t, device[t])]

Queued(c, n) == <<c.mutation, Record(n, c.event)>>

(* Rows are replaced under a command that has used them: it is stale.      *)
Overtaken(c, rows) ==
    /\ c.step = "write"
    /\ \E d \in Used(c.mutation) :
         d[2] \in DOMAIN device[d[1]] /\ rows[d[1]][d[2]] # device[d[1]][d[2]]

Under(c, rows) == [c EXCEPT !.stale = @ \/ Overtaken(c, rows)]

(* What is left of a command once it has written.                          *)
Rest(c) ==
    IF c.mark = 0 THEN NoCommand
    ELSE [NoCommand EXCEPT !.step = "mark", !.mark = c.mark]

(* Nothing in the code promises that the server agrees with a command that *)
(* was overtaken, or that came before the workspace's date.                *)
Doubted(c) == IF c.stale \/ Early(c.mutation) THEN Touched(c.mutation) ELSE {}

Write(b) ==
    /\ cmd[b].step = "write" /\ made < MaxCommands
    /\ made' = made + 1
    /\ device' = [Written(cmd[b].puts) EXCEPT !.event[made + 1] = cmd[b].event]
    /\ outbox' = outbox \o Queued(cmd[b], made + 1)
    /\ cmd' = [u \in Tabs |-> IF u = b THEN Rest(cmd[u]) ELSE Under(cmd[u], device')]
    /\ doubtful' = Spread(doubtful \union Doubted(cmd[b]), <<cmd[b].mutation>>)
    /\ UNCHANGED <<boundVars, begun, snap, cloudVars>>

(* markActivityUndone, one transaction.                                    *)
MarkActivityUndone(b) ==
    /\ cmd[b].step = "mark"
    /\ cmd' = [cmd EXCEPT ![b] = NoCommand]
    /\ LET n == cmd[b].mark IN
       IF device.event[n].undone \/ device.event[n] = NoEvent
       THEN UNCHANGED <<device, outbox>>
       ELSE /\ device' = [device EXCEPT !.event[n].undone = TRUE,
                                        !.event[n].undoable = FALSE]
            /\ outbox' = Append(outbox, Mutation("event", "undo", n, NoRow))
    /\ UNCHANGED <<boundVars, begun, made, snap, cloudVars, doubtful>>

(* A tab is closed: what it had not written is gone, and the snapshot too  *)
(* if it was this tab's.                                                   *)
CloseTab(b) ==
    /\ cmd[b].step # "idle" \/ snap # NoSnapshot
    /\ cmd' = [cmd EXCEPT ![b] = NoCommand]
    /\ snap' \in {snap, NoSnapshot}
    /\ UNCHANGED <<boundVars, device, outbox, begun, made, cloudVars, doubtful>>

-----------------------------------------------------------------------------
(* The device and the cloud.                                               *)

(* listPendingSyncMutations: dead letters are not pushed.                  *)
Waiting == {m \in ToSet(outbox) : ~m.dead}

(* One mutation on what the others left.  A refused one changes nothing and *)
(* stays in the queue, as a dead letter if a retry could not change it.    *)
Handled(acc, m) ==
    LET refusal == Refusal(acc.db, m) IN
    IF m.dead THEN [acc EXCEPT !.left = Append(@, m)]
    ELSE IF refusal = "accepted" THEN [acc EXCEPT !.db = Effect(acc.db, m)]
    ELSE [acc EXCEPT
            !.refused = @ \union {m},
            !.left = Append(@, [m EXCEPT !.dead = refusal \in Terminal])]

Replay(s, queue) ==
    FoldLeft(Handled, [db |-> s, refused |-> {}, left |-> <<>>], queue)

(* POST push and the settlement of its results.                            *)
Push ==
    /\ snap = NoSnapshot
    /\ Waiting # {}
    /\ IF base # revision
       THEN /\ outbox' = [k \in DOMAIN outbox |->
                            [outbox[k] EXCEPT !.dead = TRUE]]
            /\ doubtful' = doubtful \union
                 UNION {Touched(m) : m \in ToSet(outbox)}
            /\ base' = revision
            /\ UNCHANGED server
       ELSE LET outcome == Replay(server, outbox) IN
            /\ server' = outcome.db
            /\ outbox' = outcome.left
            /\ UNCHANGED <<base, doubtful>>
    /\ UNCHANGED <<boundVars, device, cmd, begun, made, snap, revision, behind>>

FetchSnapshot ==
    /\ snap = NoSnapshot
    /\ Waiting = {}
    /\ snap' = [rev |-> revision, rows |-> server]
    /\ UNCHANGED <<boundVars, device, outbox, cmd, begun, made, cloudVars, doubtful>>

(* Active sessions of archived students: session.create does not look at   *)
(* its members, session.details.update does and will refuse them.          *)
Misbooked(s) ==
    {<<"session", x>> : x \in {y \in Sessions :
       /\ s.session[y].state = "active"
       /\ \E p \in s.session[y].members : ~Live(s, "student", p)}}

(* Rows are replaced; activity events are merged, the server's on top.     *)
Pulled ==
    [snap.rows EXCEPT !.event = [n \in Numbers |->
       IF @[n] = NoEvent THEN device.event[n] ELSE @[n]]]

ApplySnapshot ==
    /\ snap # NoSnapshot
    /\ device' = Pulled
    /\ base' = snap.rev
    /\ behind' = (snap.rev # revision)
    /\ snap' = NoSnapshot
    /\ doubtful' = Spread({d \in doubtful : d[1] = "event"}
                          \union Misbooked(snap.rows)
                          \union UNION {Touched(m) : m \in Waiting},
                          outbox)
    /\ cmd' = [b \in Tabs |-> Under(cmd[b], Pulled)]
    /\ UNCHANGED <<boundVars, outbox, begun, made, server, revision>>

(* A dead letter is tried again, in its old place.                         *)
RetryDeadLetter ==
    \E k \in DOMAIN outbox :
      /\ outbox[k].dead /\ outbox[k].kind \in RetryKinds
      /\ retries < MaxRetries /\ retries' = retries + 1
      /\ outbox' = [outbox EXCEPT ![k].dead = FALSE]
      /\ doubtful' = Spread(doubtful \union Touched(outbox[k]), outbox')
      /\ UNCHANGED <<device, cmd, begun, made, snap, cloudVars, desk>>

(* Another device of the account pushed one change the server accepted.    *)
OthersAppointment(a, c) ==
    Mutation("appointment", "upsert", a,
             Appointment("live", c, {"device", "workspace"}, MaxCommands + 1,
                         "scheduled"))

OthersMutations ==
    {Mutation(KindOf(e), op, e, Entry("live", MaxCommands + 1)) :
       e \in Entries, op \in {"update", "delete"}}
    \union {Mutation("student", "archive", x, NoRow) : x \in Students}
    \union {OthersAppointment(a, c) : a \in Appointments, c \in Clients}
    \union {Mutation("receipt", "create", r, Receipt("live", c, a)) :
              r \in Receipts, c \in Clients, a \in Appointments}

ForeignChange ==
    /\ revision < MaxForeign /\ begun + revision < MaxCommands
    /\ \E m \in OthersMutations :
         /\ m.id \in desk /\ Refusal(server, m) = "accepted"
         /\ server[TableOf(m.kind)][m.id].state = "absent" => m.kind = "receipt"
         /\ server' = Effect(server, m)
    /\ revision' = revision + 1
    /\ behind' = TRUE
    /\ UNCHANGED <<boundVars, device, outbox, cmd, begun, made, snap, base, doubtful>>

Sync == Push \/ FetchSnapshot \/ ApplySnapshot

Next ==
    \/ AddLocalExpense \/ UpdateLocalExpense
    \/ DeleteLocalExpense \/ RestoreLocalExpense
    \/ AddLocalOtherIncome \/ UpdateLocalOtherIncome
    \/ DeleteLocalOtherIncome \/ RestoreLocalOtherIncome
    \/ AddLocalCashCheck \/ UpdateLocalCashCheck
    \/ DeleteLocalCashCheck \/ RestoreLocalCashCheck
    \/ CreateStudent \/ UpdateLocalStudent
    \/ ArchiveLocalStudent \/ RestoreLocalStudent
    \/ CreateSession \/ UpdateDetails \/ ArchiveSession
    \/ CreateAppointmentClient \/ CreateAppointment \/ UpdateAppointment
    \/ SetAppointmentStatus \/ CollectAppointmentPayment
    \/ UndoActivityEvent
    \/ \E b \in Tabs : Write(b) \/ MarkActivityUndone(b) \/ CloseTab(b)
    \/ Sync \/ RetryDeadLetter \/ ForeignChange

Spec == Init /\ [][Next]_vars

-----------------------------------------------------------------------------
(* Properties.                                                             *)

(* The device knows every change of the other devices.                     *)
Informed == ~behind /\ base = revision

(* What the device's guards allowed, the server's handlers accept when the *)
(* queue is replayed: no local edit is refused later, unless it rests on a *)
(* doubtful row: one that a snapshot or another tab replaced while the     *)
(* command was computing, one of a dead letter, or an appointment that was *)
(* completed before the workspace's date (Early).                          *)
NothingRefused ==
    Informed => \A m \in Replay(server, outbox).refused :
                  Used(m) \intersect doubtful # {}

(* Replaying the queue on the server's rows gives exactly the rows and the *)
(* activity events the device shows: the two sides decide the same, a      *)
(* student's archive included, whose sessions the server works out anew.   *)
ServerAgrees ==
    Informed =>
      LET then == Replay(server, outbox).db IN
      \A t \in DOMAIN device : \A id \in DOMAIN device[t] :
        <<t, id>> \in doubtful \/ then[t][id] = device[t][id]

(* A collection linked to an appointment is its client's, on the server,   *)
(* whatever the devices did and in whatever order their edits arrived.     *)
CollectionKeepsItsClient ==
    \A r \in Receipts :
      LET row == server.receipt[r] IN
      row.state = "live" /\ row.appointment # Nobody =>
        server.appointment[row.appointment].client = row.client

(* An event shown as undone was compensated by a later event on its row,   *)
(* unless there was nothing to restore: a tab closed between the two       *)
(* halves leaves the event undoable.                                       *)
UndoneMeansCompensated ==
    \A n \in Numbers :
      device.event[n].undone /\ <<"event", n>> \notin doubtful =>
        \E k \in (n + 1)..MaxCommands :
          /\ device.event[k].id = device.event[n].id
          /\ device.event[k].action =
               IF device.event[n].action = "deleted" THEN "restored" ELSE "updated"

=============================================================================
