--------------------------- MODULE LessonCalendar ---------------------------
(***************************************************************************)
(* The lessons of a week on the device: which ones the calendar shows,     *)
(* recording, cancelling, moving, restoring and reopening one, the place   *)
(* each recorded lesson takes in a student's package, and what the server  *)
(* makes of the queued mutations (client/tutoring/attendance-*.ts,         *)
(* client/simple/v2/utils.ts, server/sync/tutoring.sync.ts).               *)
(*                                                                         *)
(* A recurring session has a lesson every week.  A lesson gets a row only  *)
(* when something happens to it, keyed by the session and the day it was   *)
(* first planned for; a moved lesson keeps that day and shows on another.  *)
(* The screen knows the rows as they were when it was last drawn; another  *)
(* tab, or the background synchronisation, may have changed them since.    *)
(*                                                                         *)
(* Recording is one IndexedDB transaction.  The other commands take two:   *)
(* one finds the row, or inserts it, and one writes the row computed from  *)
(* what the first had read.                                                *)
(*                                                                         *)
(* The device knows the date by its own clock, the server by the time zone *)
(* of the workspace, which the code fixes to Europe/London: east of it the *)
(* device is a day ahead for some hours, west of it a day behind.          *)
(*                                                                         *)
(* Abstractions: days are numbers within one month and weeks are short;    *)
(* the server's handlers are single steps (PackageBilling has their        *)
(* statements); a push with its settlement is one step (SyncProtocol);     *)
(* the money is LocalMoney's.                                              *)
(***************************************************************************)
EXTENDS Integers, FiniteSets, Sequences, SequencesExt, FiniteSetsExt

CONSTANTS Sessions, Students, Nobody,
          Weekday,      \* the day of the week of each session
          WeekLength, LastDay,
          Setups,       \* who takes part, who pays and how, the rows both
                        \* sides know at the start, whether the device is
                        \* east of the workspace's time zone, and the bound
                        \* on commands begun
          MoveTargets,  \* the days the move form may submit
          MaxRows,      \* bound on occurrence ids
          MaxForeign    \* bound on changes of another device

Dates == 1..LastDay
Ids == 1..MaxRows

ASSUME CalendarAssumption ==
    /\ WeekLength \in Nat \ {0} /\ LastDay \in Nat \ {0}
    /\ Weekday \in [Sessions -> 0..(WeekLength - 1)]
    /\ Nobody \notin Students
    /\ MoveTargets \subseteq Dates

VARIABLES
    setup,       \* members, payers and plans of this behaviour
    today,       \* the date on the device, localTodayIso
    workspaceToday, \* the date in the workspace's time zone
    device,      \* occurrence rows and package cycles in IndexedDB
    screen,      \* the rows when the screen was last drawn
    cmd,         \* a command between its two transactions
    outbox,      \* mutations not yet pushed
    server,      \* the same rows and cycles in D1
    revision,    \* changes of the other device
    base,        \* those the device's cloud link knows of
    behind,      \* the device has not pulled all of them
    used,        \* occurrence ids given out
    made,        \* commands begun
    unannounced, \* rows ensureOccurrence inserted, unknown to the server
    doubtful,    \* slots whose agreement nothing in the code promises
    crossed      \* a write was computed from rows changed meanwhile

bounds == <<setup, today, workspaceToday, made>>
cloud == <<server, revision, base, behind>>
vars == <<bounds, device, screen, cmd, outbox, cloud, used, unannounced,
          doubtful, crossed>>

Row(x, date, to, status, present) ==
    [session |-> x, date |-> date, to |-> to, status |-> status,
     present |-> present]

NoCommand == [step |-> "idle"]

Slot(row) == <<row.session, row.date>>

Effective(row) == IF row.to = 0 THEN row.date ELSE row.to

Put(f, k, v) == [i \in DOMAIN f \union {k} |-> IF i = k THEN v ELSE f[i]]

-----------------------------------------------------------------------------
(* Who is billed, and the places of a package.                             *)

Members(x) == setup.members[x]

BillingStudentIds(x, present) ==
    IF setup.basis[x] = "total_session" /\ setup.payer[x] \in Members(x)
    THEN {setup.payer[x]} ELSE present \intersect Members(x)

Packaged(x, present) ==
    {s \in BillingStudentIds(x, present) : setup.mode[s] = "package"}

Cycle(opening, links) ==
    [opening |-> opening, links |-> links, count |-> 0,
     status |-> IF opening >= setup.size THEN "due" ELSE "open"]

FirstCycles ==
    [s \in Students |-> IF setup.mode[s] = "package"
                        THEN <<Cycle(setup.opening, {})>> ELSE <<>>]

OpenCycles(cs) == {k \in DOMAIN cs : cs[k].status = "open"}
LinkedIn(cs, o) == {k \in DOMAIN cs : \E link \in cs[k].links : link[1] = o}

(* A place in the latest open cycle, or in a new one.                      *)
TakePlace(cs, o) ==
    IF LinkedIn(cs, o) # {} THEN cs
    ELSE LET all == IF OpenCycles(cs) = {} THEN Append(cs, Cycle(0, {})) ELSE cs
             k == Max(OpenCycles(all))
             c == all[k]
             pos == c.opening + c.count + 1
         IN  [all EXCEPT ![k] =
                [c EXCEPT !.links = @ \union {<<o, pos>>}, !.count = @ + 1,
                          !.status = IF pos >= setup.size THEN "due" ELSE "open"]]

TakePlaces(cycles, who, o) ==
    [s \in Students |-> IF s \in who THEN TakePlace(cycles[s], o) ELSE cycles[s]]

(* Mutated form of Renumbered: the later places are not moved up.          *)
NotRenumbered(c, o) == {link \in c.links : link[1] # o}

(* The cycle without the lesson, the later places moved up.                *)
Renumbered(c, o) ==
    LET rest == {link \in c.links : link[1] # o}
        rank(link) == Cardinality({m \in rest : m[2] <= link[2]})
    IN  {<<link[1], c.opening + rank(link)>> : link \in rest}

GivePlaceBack(c, o) ==
    LET n == Cardinality({link \in c.links : link[1] # o}) IN
    [c EXCEPT !.links = Renumbered(c, o), !.count = n,
              !.status = IF c.opening + n >= setup.size THEN "due" ELSE "open"]

GivePlacesBack(cycles, o) ==
    [s \in Students |-> [k \in DOMAIN cycles[s] |->
       IF k \in LinkedIn(cycles[s], o) THEN GivePlaceBack(cycles[s][k], o)
       ELSE cycles[s][k]]]

-----------------------------------------------------------------------------
(* What a day's screen shows: the sessions of that weekday, each with its  *)
(* row if it has one, unless moved away, and the lessons moved here.  An   *)
(* entry is a session and a row id, 0 for none.                            *)

RowsOf(rows, x, d) == {r \in DOMAIN rows : Slot(rows[r]) = <<x, d>>}

MovedTo(rows, x, d) == {r \in DOMAIN rows : rows[r].session = x /\ rows[r].to = d}

RegularEntries(rows, d) ==
    {<<x, r>> \in Sessions \X (Ids \union {0}) :
       /\ Weekday[x] = d % WeekLength
       /\ IF r = 0 THEN RowsOf(rows, x, d) = {}
          ELSE r \in RowsOf(rows, x, d) /\ rows[r].to \in {0, d}}

Entries(rows, d) ==
    RegularEntries(rows, d)
    \union {<<rows[r].session, r>> :
              r \in {q \in DOMAIN rows : rows[q].to = d /\ rows[q].date # d}}

StatusOf(rows, entry) ==
    IF entry[2] = 0 THEN "scheduled" ELSE rows[entry[2]].status

(* The row a command works on: the one the screen named or, when it named  *)
(* none, a lesson moved to that day before the day's own one.              *)
Match(rows, x, d, r) ==
    IF r # 0 THEN {r} \intersect DOMAIN rows
    ELSE IF MovedTo(rows, x, d) # {} THEN MovedTo(rows, x, d)
    ELSE RowsOf(rows, x, d)

-----------------------------------------------------------------------------
(* Mutations and the server's handlers.                                    *)
Mutation(op, id, x, date, to, present) ==
    [op |-> op, id |-> id, session |-> x, date |-> date, to |-> to,
     present |-> present]

SimpleRefusal(s, m) ==
    IF m.id \notin DOMAIN s.rows THEN "OCCURRENCE_NOT_FOUND"
    ELSE IF s.rows[m.id].status = "completed"
    THEN "COMPLETED_REQUIRES_CORRECTION_FLOW" ELSE "accepted"

CompleteRefusal(s, m) ==
    LET old == {s.rows[r] : r \in RowsOf(s.rows, m.session, m.date)} IN
    IF IF old = {} THEN m.date > workspaceToday
       ELSE \E row \in old : Effective(row) > workspaceToday
    THEN "FUTURE_ATTENDANCE_NOT_ALLOWED"
    ELSE IF \E row \in old : row.status = "cancelled"
    THEN "OCCURRENCE_STATE_INVALID" ELSE "accepted"

ReopenRefusal(s, m) ==
    IF m.id \notin DOMAIN s.rows THEN "OCCURRENCE_NOT_FOUND"
    ELSE IF s.rows[m.id].status \notin {"completed", "scheduled"}
    THEN "OCCURRENCE_STATE_INVALID" ELSE "accepted"

Refusal(s, m) ==
    CASE m.op = "complete" -> CompleteRefusal(s, m)
      [] m.op = "reopen" -> ReopenRefusal(s, m)
      [] OTHER -> SimpleRefusal(s, m)

(* Mutated form of CompleteEffect: the row is looked up by its id alone.   *)
CompleteEffectById(s, m) ==
    LET row == IF m.id \in DOMAIN s.rows THEN s.rows[m.id]
               ELSE Row(m.session, m.date, 0, "scheduled", {})
    IN  [rows |-> Put(s.rows, m.id,
                      [row EXCEPT !.status = "completed", !.present = m.present]),
         cycles |-> TakePlaces(s.cycles, Packaged(m.session, m.present), m.id)]

(* The lesson is looked up by session and day; a new row takes the id the  *)
(* device gave it.  One that is already recorded keeps its attendance.     *)
CompleteEffect(s, m) ==
    LET old == RowsOf(s.rows, m.session, m.date)
        id == IF old = {} THEN m.id ELSE CHOOSE r \in old : TRUE
        row == IF old = {} THEN Row(m.session, m.date, 0, "scheduled", {})
               ELSE s.rows[id]
        present == IF row.status = "completed" THEN row.present ELSE m.present
    IN  [rows |-> Put(s.rows, id,
                      [row EXCEPT !.status = "completed", !.present = present]),
         cycles |-> TakePlaces(s.cycles, Packaged(m.session, present), id)]

ReopenEffect(s, m) ==
    IF s.rows[m.id].status = "scheduled" THEN s
    ELSE [rows |-> [s.rows EXCEPT ![m.id].status = "scheduled",
                                  ![m.id].present = {}],
          cycles |-> GivePlacesBack(s.cycles, m.id)]

(* Moving sets the day only: a cancelled lesson stays cancelled.           *)
Effect(s, m) ==
    CASE m.op = "complete" -> CompleteEffect(s, m)
      [] m.op = "reopen" -> ReopenEffect(s, m)
      [] m.op = "cancel" -> [s EXCEPT !.rows[m.id].status = "cancelled"]
      [] m.op = "restore" -> [s EXCEPT !.rows[m.id].status = "scheduled"]
      [] m.op = "reschedule" -> [s EXCEPT !.rows[m.id].to = m.to]

Replay(s, queue) ==
    FoldLeft(LAMBDA acc, m :
               IF Refusal(acc.db, m) = "accepted"
               THEN [acc EXCEPT !.db = Effect(acc.db, m)]
               ELSE [acc EXCEPT !.refused = @ \union {m}],
             [db |-> s, refused |-> {}], queue)

-----------------------------------------------------------------------------
(* Commands.  They start from an entry of the screen.                      *)

Begun ==
    /\ cmd = NoCommand /\ made < setup.commands
    /\ made' = made + 1
    /\ UNCHANGED <<setup, today, workspaceToday, cloud>>

(* The tab reads its data again when a command has ended.                  *)
Refresh == screen' = IF cmd' = NoCommand THEN device'.rows ELSE screen

NewId == used + 1

Fits(cycles, who, o) ==
    \A s \in who : \A k \in OpenCycles(cycles[s]) :
      LinkedIn(cycles[s], o) = {} =>
        cycles[s][k].opening + cycles[s][k].count < setup.size

(* completeLocalSession, one transaction.  A lesson already recorded only  *)
(* has its money looked at again.  Nothing promises that the server agrees *)
(* about one that was cancelled, that has lost its row, or whose day has   *)
(* not come in the workspace.                                              *)
Complete(x, r, d, present) ==
    LET rows == device.rows
        found == Match(rows, x, d, r)
    IN
    \/ /\ \E o \in found : rows[o].status = "completed"
       /\ UNCHANGED <<device, cmd, outbox, used, unannounced, doubtful, crossed>>
    \/ \E o \in IF found = {} THEN {NewId} ELSE found :
         LET old == IF found = {} THEN Row(x, d, 0, "scheduled", {}) ELSE rows[o]
             who == Packaged(x, present)
         IN
         /\ old.status # "completed" /\ o <= MaxRows
         /\ Fits(device.cycles, who, o)
         /\ device' = [rows |-> Put(rows, o, [old EXCEPT !.status = "completed",
                                                         !.present = present]),
                       cycles |-> TakePlaces(device.cycles, who, o)]
         /\ outbox' = Append(outbox, Mutation("complete", o, x, old.date, 0, present))
         /\ used' = IF found = {} THEN NewId ELSE used
         /\ unannounced' = unannounced \ {o}
         /\ doubtful' = IF \/ old.status = "cancelled" \/ (found = {} /\ r # 0)
                           \/ Effective(old) > workspaceToday
                        THEN doubtful \union {Slot(old)} ELSE doubtful
         /\ UNCHANGED <<cmd, crossed>>

(* The buttons and the collection form of a lesson card.                   *)
CompleteSession ==
    /\ Begun
    /\ \E d \in 1..today : \E e \in Entries(screen, d) :
         \/ /\ StatusOf(screen, e) = "scheduled"
            /\ \E present \in SUBSET Members(e[1]) \ {{}} :
                 Complete(e[1], e[2], d, present)
         \/ /\ StatusOf(screen, e) = "completed"
            /\ Complete(e[1], e[2], d, Members(e[1]))
    /\ Refresh

(* ensureOccurrence, and the checks after it.                              *)
Refuses(op, status) ==
    \/ status = "completed"
    \/ op = "cancel" /\ status = "cancelled"
    \/ op = "restore" /\ status = "scheduled"

EnsureOccurrence(op, x, r, d, to) ==
    LET found == Match(device.rows, x, d, r) IN
    \E o \in IF found = {} THEN {NewId} ELSE found :
      LET row == IF found = {} THEN Row(x, d, 0, "scheduled", {})
                 ELSE device.rows[o]
      IN
      /\ o <= MaxRows
      /\ device' = [device EXCEPT !.rows = Put(@, o, row)]
      /\ used' = IF found = {} THEN NewId ELSE used
      /\ unannounced' = IF found = {} THEN unannounced \union {o} ELSE unannounced
      /\ cmd' = IF Refuses(op, row.status) THEN NoCommand
                ELSE [step |-> "write", op |-> op, id |-> o, row |-> row, to |-> to]
      /\ doubtful' = IF found = {} /\ r # 0 THEN doubtful \union {<<x, d>>}
                     ELSE doubtful
      /\ UNCHANGED <<outbox, crossed>>

Touch(op, statuses, targets) ==
    /\ Begun
    /\ \E d \in Dates : \E e \in Entries(screen, d) : \E to \in targets :
         /\ StatusOf(screen, e) \in statuses
         /\ EnsureOccurrence(op, e[1], e[2], d, to)
    /\ Refresh

CancelOccurrence == Touch("cancel", {"scheduled"}, {0})
RestoreOccurrence == Touch("restore", {"cancelled", "missed"}, {0})
RescheduleOccurrence ==
    Touch("reschedule", {"scheduled", "cancelled", "missed"}, MoveTargets)

(* writeSimpleOccurrenceMutation: the row as it was read, changed.         *)
Changed(c) ==
    CASE c.op = "cancel" -> [c.row EXCEPT !.status = "cancelled"]
      [] c.op = "restore" -> [c.row EXCEPT !.status = "scheduled"]
      [] c.op = "reschedule" ->
           [c.row EXCEPT !.to = c.to,
                         !.status = IF @ = "cancelled" THEN "scheduled" ELSE @]

Overtaken == cmd.id \notin DOMAIN device.rows \/ device.rows[cmd.id] # cmd.row

WriteOccurrence ==
    /\ cmd.step = "write"
    /\ device' = [device EXCEPT !.rows = Put(@, cmd.id, Changed(cmd))]
    /\ outbox' = Append(outbox, Mutation(cmd.op, cmd.id, cmd.row.session,
                                         cmd.row.date, cmd.to, {}))
    /\ doubtful' = IF \/ cmd.id \in unannounced \/ Overtaken
                      \/ cmd.op = "reschedule" /\ cmd.row.status = "cancelled"
                   THEN doubtful \union {Slot(cmd.row)} ELSE doubtful
    /\ crossed' = (crossed \/ Overtaken)
    /\ cmd' = NoCommand
    /\ Refresh
    /\ UNCHANGED <<bounds, cloud, used, unannounced>>

(* reopenLocalOccurrence: a student with a package and no place for this   *)
(* lesson sends the user to the cloud.                                     *)
CorrectionRequiresSync(x, o) ==
    /\ \E s \in Members(x) : device.cycles[s] # <<>>
    /\ \A s \in Students : LinkedIn(device.cycles[s], o) = {}

BeginReopen ==
    /\ Begun
    /\ \E d \in Dates : \E e \in Entries(screen, d) :
         /\ StatusOf(screen, e) = "completed"
         /\ e[2] \in DOMAIN device.rows
         /\ device.rows[e[2]].status = "completed"
         /\ ~CorrectionRequiresSync(e[1], e[2])
         /\ cmd' = [step |-> "reopen", id |-> e[2], row |-> device.rows[e[2]],
                    cycles |-> device.cycles]
    /\ UNCHANGED <<device, screen, outbox, used, unannounced, doubtful, crossed>>

(* The cycles as they were read, without the lesson; places of lessons     *)
(* recorded meanwhile stay in the store.                                   *)
RewrittenCycles ==
    LET new == GivePlacesBack(cmd.cycles, cmd.id)
        Touched(s) == LinkedIn(cmd.cycles[s], cmd.id)
        Names(c) == {link[1] : link \in c.links}
        Merged(s, k) ==
          [new[s][k] EXCEPT !.links = @ \union
             {link \in device.cycles[s][k].links :
                link[1] \notin Names(cmd.cycles[s][k])}]
    IN  [s \in Students |-> [k \in DOMAIN device.cycles[s] |->
           IF k \in Touched(s) THEN Merged(s, k) ELSE device.cycles[s][k]]]

ReopenOvertaken == Overtaken \/ device.cycles # cmd.cycles

WriteReopen ==
    /\ cmd.step = "reopen"
    /\ device' = [rows |-> Put(device.rows, cmd.id,
                               [cmd.row EXCEPT !.status = "scheduled",
                                               !.present = {}]),
                  cycles |-> RewrittenCycles]
    /\ outbox' = Append(outbox, Mutation("reopen", cmd.id, cmd.row.session,
                                         cmd.row.date, 0, {}))
    /\ doubtful' = IF ReopenOvertaken THEN doubtful \union {Slot(cmd.row)}
                   ELSE doubtful
    /\ crossed' = (crossed \/ ReopenOvertaken)
    /\ cmd' = NoCommand
    /\ Refresh
    /\ UNCHANGED <<bounds, cloud, used, unannounced>>

(* The tab is closed between the two transactions, and opened again.       *)
CloseTab ==
    /\ cmd # NoCommand
    /\ cmd' = NoCommand
    /\ screen' = device.rows
    /\ UNCHANGED <<bounds, device, outbox, cloud, used, unannounced, doubtful,
                   crossed>>

(* Another tab records a lesson; this one does not see it until it draws   *)
(* its screen again.                                                       *)
OtherTab ==
    /\ made < setup.commands
    /\ made' = made + 1
    /\ \E d \in 1..today : \E e \in Entries(device.rows, d) :
         Complete(e[1], e[2], d, Members(e[1]))
    /\ UNCHANGED <<setup, today, workspaceToday, screen, cloud>>

Redraw ==
    /\ cmd = NoCommand /\ screen # device.rows
    /\ screen' = device.rows
    /\ UNCHANGED <<bounds, device, cmd, outbox, cloud, used, unannounced,
                   doubtful, crossed>>

(* Midnight on the device and in the workspace, a few hours apart: east of *)
(* it the device's comes first.                                            *)
NextDay ==
    /\ IF setup.east = (today = workspaceToday)
       THEN /\ today < LastDay
            /\ today' = today + 1 /\ UNCHANGED workspaceToday
       ELSE /\ workspaceToday < LastDay
            /\ workspaceToday' = workspaceToday + 1 /\ UNCHANGED today
    /\ UNCHANGED <<setup, made, device, screen, cmd, outbox, cloud, used,
                   unannounced, doubtful, crossed>>

-----------------------------------------------------------------------------
(* The device and the cloud.                                               *)

(* A refused mutation is a dead letter and is not pushed again.  A push    *)
(* from an older revision is refused as a whole.                           *)
Push ==
    /\ outbox # <<>>
    /\ outbox' = <<>>
    /\ IF base # revision
       THEN /\ doubtful' = doubtful \union
                 {<<outbox[k].session, outbox[k].date>> : k \in DOMAIN outbox}
            /\ base' = revision
            /\ UNCHANGED <<server, crossed>>
       ELSE /\ server' = Replay(server, outbox).db
            /\ UNCHANGED <<base, doubtful, crossed>>
    /\ UNCHANGED <<bounds, device, screen, cmd, revision, behind, used,
                   unannounced>>

Pull ==
    /\ outbox = <<>>
    /\ device' = server
    /\ base' = revision
    /\ behind' = FALSE
    /\ doubtful' = {} /\ crossed' = FALSE /\ unannounced' = {}
    /\ UNCHANGED <<bounds, screen, cmd, outbox, server, revision, used>>

(* Another device recorded, cancelled, moved or reopened a lesson.         *)
OthersMutations ==
    {Mutation("complete", NewId, x, d, 0, Members(x)) :
       x \in Sessions, d \in 1..workspaceToday}
    \union {Mutation(op, r, server.rows[r].session, server.rows[r].date,
                     IF op = "reschedule" THEN LastDay ELSE 0, {}) :
              op \in {"cancel", "restore", "reschedule", "reopen"},
              r \in DOMAIN server.rows}

ForeignChange ==
    /\ revision < MaxForeign /\ NewId <= MaxRows
    /\ \E m \in OthersMutations :
         /\ m.op = "complete" => Weekday[m.session] = m.date % WeekLength
         /\ Refusal(server, m) = "accepted"
         /\ server' = Effect(server, m)
         /\ server' # server
         /\ used' = IF m.op = "complete" THEN NewId ELSE used
    /\ revision' = revision + 1
    /\ behind' = TRUE
    /\ UNCHANGED <<bounds, device, screen, cmd, outbox, base, unannounced,
                   doubtful, crossed>>

Init ==
    /\ setup \in Setups
    /\ today = 1 /\ workspaceToday = 1
    /\ server = [rows |-> setup.rows, cycles |-> FirstCycles]
    /\ used = Cardinality(DOMAIN setup.rows)
    /\ device = server
    /\ screen = device.rows
    /\ cmd = NoCommand
    /\ outbox = <<>>
    /\ revision = 0 /\ base = 0 /\ behind = FALSE
    /\ made = 0
    /\ unannounced = {} /\ doubtful = {} /\ crossed = FALSE

Next ==
    \/ CompleteSession \/ CancelOccurrence \/ RestoreOccurrence
    \/ RescheduleOccurrence \/ WriteOccurrence
    \/ BeginReopen \/ WriteReopen \/ CloseTab \/ OtherTab
    \/ Redraw \/ NextDay \/ Push \/ Pull \/ ForeignChange

Spec == Init /\ [][Next]_vars

-----------------------------------------------------------------------------
(* Properties.                                                             *)

Informed == ~behind /\ base = revision

Told(rows) ==
    {row \in {rows[r] : r \in DOMAIN rows} :
       /\ row.status # "scheduled" \/ row.to # 0
       /\ Slot(row) \notin doubtful}

(* Replaying the queue on the server gives the lessons the device shows,   *)
(* attendance, moves and package progress included, and refuses nothing,   *)
(* except on lessons whose row the server was never told of or does not    *)
(* treat alike, or whose day had not come in the workspace: see doubtful.  *)
ServerAgrees ==
    Informed =>
      LET then == Replay(server, outbox) IN
      /\ Told(device.rows) = Told(then.db.rows)
      /\ \A m \in then.refused : <<m.session, m.date>> \in doubtful
      /\ doubtful = {} => \A s \in Students :
                            [k \in DOMAIN device.cycles[s] |-> device.cycles[s][k].count]
                            = [k \in DOMAIN then.db.cycles[s] |-> then.db.cycles[s][k].count]

(* On the device every recorded lesson has one place in a package of each  *)
(* student it is billed to and no other lesson has any; the places follow  *)
(* each other from the opening progress, and a package asks for its money  *)
(* when and only when they fill it - however lessons were recorded and     *)
(* taken back, unless a write overran another tab's.                       *)
PlacesFollowLessons ==
    crossed \/ \A s \in Students :
      LET cs == device.cycles[s]
          billed == {o \in DOMAIN device.rows :
                       /\ device.rows[o].status = "completed"
                       /\ s \in Packaged(device.rows[o].session,
                                         device.rows[o].present)}
      IN
      /\ \A o \in Ids : Cardinality(LinkedIn(cs, o)) = IF o \in billed THEN 1 ELSE 0
      /\ \A k \in DOMAIN cs :
           /\ {link[2] : link \in cs[k].links}
                = (cs[k].opening + 1)..(cs[k].opening + cs[k].count)
           /\ cs[k].count = Cardinality(cs[k].links)
           /\ (cs[k].status = "due") = (cs[k].opening + cs[k].count >= setup.size)

=============================================================================
