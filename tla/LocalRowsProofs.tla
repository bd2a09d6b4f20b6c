-------------------------- MODULE LocalRowsProofs --------------------------
(***************************************************************************)
(* What LocalRows promises, for any number of rows, tabs, commands, changes*)
(* of other devices and retries.                                           *)
(***************************************************************************)
EXTENDS LocalRows, TLAPS

Replays == INSTANCE FoldTheorems WITH Step <- Handled
Spreads == INSTANCE FoldTheorems WITH Step <- Spreading

-----------------------------------------------------------------------------
(* What is in the state.                                                   *)

Tables == {"entry", "student", "session", "client", "appointment", "receipt",
           "event"}

IdsOf(t) ==
    CASE t = "entry" -> Entries
      [] t = "student" -> Students
      [] t = "session" -> Sessions
      [] t = "client" -> Clients
      [] t = "appointment" -> Appointments
      [] t = "receipt" -> Receipts
      [] t = "event" -> Numbers

(* The rows of the tables; what a row's fields may hold is said only where *)
(* a proof asks for it.                                                    *)
Plain(r) == r = [state |-> r.state, val |-> r.val]

IsSession(r) ==
    /\ r = Session(r.state, r.members, r.payer, r.expected, r.slot, r.val)
    /\ r.members \subseteq Students
    /\ r.state \in {"absent", "active", "archived"}

IsAppointment(r) ==
    /\ r = Appointment(r.state, r.client, r.due, r.val, r.status)
    /\ r.state \in {"absent", "live"} /\ r.client \in Clients \union {Nobody}

IsReceipt(r) ==
    /\ r = Receipt(r.state, r.client, r.appointment)
    /\ r.client \in Clients \union {Nobody}
    /\ r.appointment \in Appointments \union {Nobody}

IsEvent(v) ==
    /\ v = [table |-> v.table, id |-> v.id, action |-> v.action,
            before |-> v.before, undoable |-> v.undoable, undone |-> v.undone]
    /\ v.table = "entry" => v.id \in Entries
    /\ v.table = "student" => v.id \in Students

IsRow(t, id, r) ==
    \/ t = "entry" /\ id \in Entries /\ Plain(r)
    \/ t = "student" /\ id \in Students /\ Plain(r)
    \/ t = "session" /\ id \in Sessions /\ IsSession(r)
    \/ t = "client" /\ id \in Clients /\ Plain(r)
    \/ t = "appointment" /\ id \in Appointments /\ IsAppointment(r)
    \/ t = "receipt" /\ id \in Receipts /\ IsReceipt(r)
    \/ t = "event" /\ id \in Numbers /\ IsEvent(r)

(* The rows of one side, the device's or the server's.                     *)
IsDb(s) ==
    /\ s = [t \in Tables |-> s[t]]
    /\ \A t \in Tables : /\ s[t] = [id \in IdsOf(t) |-> s[t][id]]
                         /\ \A id \in IdsOf(t) : IsRow(t, id, s[t][id])

IsMutation(m) ==
    /\ m = [kind |-> m.kind, op |-> m.op, id |-> m.id, row |-> m.row,
            dead |-> m.dead]
    /\ m.dead \in BOOLEAN
    /\ \/ /\ m.kind \in {"expense", "income", "cash"}
          /\ m.op \in {"create", "update", "delete", "restore"}
          /\ IsRow("entry", m.id, m.row)
       \/ /\ m.kind = "student"
          /\ m.op \in {"create", "update", "archive", "restore"}
          /\ IsRow("student", m.id, m.row)
       \/ /\ m.kind = "session" /\ m.op \in {"create", "details", "archive"}
          /\ IsRow("session", m.id, m.row)
       \/ /\ m.kind = "client" /\ m.op = "upsert" /\ m.row.state = "active"
          /\ IsRow("client", m.id, m.row)
       \/ /\ m.kind = "appointment" /\ m.op = "upsert" /\ m.row.state = "live"
          /\ IsRow("appointment", m.id, m.row)
       \/ /\ m.kind = "receipt" /\ m.op = "create" /\ m.row.state = "live"
          /\ m.row.client \in Clients
          /\ IsRow("receipt", m.id, m.row)
       \/ /\ m.kind = "event" /\ m.op = "record" /\ m.row # NoEvent
          /\ IsRow("event", m.id, m.row)
       \/ m.kind = "event" /\ m.op = "undo" /\ m.id \in Numbers

IsQueue(q) == q \in Seq(ToSet(q)) /\ \A m \in ToSet(q) : IsMutation(m)

IsCommand(c) ==
    /\ c = [step |-> c.step, puts |-> c.puts, mutation |-> c.mutation,
            event |-> c.event, mark |-> c.mark, stale |-> c.stale]
    /\ c.step \in {"idle", "write", "mark"}
    /\ c.mark \in Nat /\ c.stale \in BOOLEAN
    /\ c.mark # 0 => c.mark \in Numbers
    /\ c.step = "mark" => c.mark # 0

(* The rows a command puts are rows of its mutation.                       *)
IsBegun(c) ==
    /\ IsMutation(c.mutation) /\ c.mutation.kind # "event" /\ ~c.mutation.dead
    /\ \A p \in c.puts :
         /\ p = <<p[1], p[2], p[3]>> /\ p[1] # "event"
         /\ p[1] = "client" => p[3].state = "active"
         /\ IsRow(p[1], p[2], p[3]) /\ <<p[1], p[2]>> \in Touched(c.mutation)
    /\ IsEvent(c.event) /\ ~c.event.undone /\ c.event.table # "none"

IsTab(c) == IsCommand(c) /\ (c.step = "write" => IsBegun(c))

(* TypeInv: what the variables hold; a snapshot is no newer than D1.       *)
TypeInv ==
    /\ IsDb(device) /\ IsDb(server) /\ IsQueue(outbox)
    /\ cmd = [b \in Tabs |-> cmd[b]] /\ \A b \in Tabs : IsTab(cmd[b])
    /\ made \in Nat /\ made <= MaxCommands /\ revision \in Nat
    /\ snap # NoSnapshot => /\ snap = [rev |-> snap.rev, rows |-> snap.rows]
                            /\ IsDb(snap.rows)
                            /\ snap.rev \in Nat /\ snap.rev <= revision

-----------------------------------------------------------------------------
(* The inductive invariants.                                               *)

(* A live collection's appointment is live and its client's, and the       *)
(* client of a live appointment is there.                                  *)
Sound(s) ==
    /\ \A r \in Receipts :
         LET row == s.receipt[r] IN
         row.state = "live" /\ row.appointment # Nobody =>
           /\ s.appointment[row.appointment].state = "live"
           /\ s.appointment[row.appointment].client = row.client
    /\ \A a \in Appointments :
         LET row == s.appointment[a] IN
         row.state = "live" /\ row.client # Nobody =>
           Live(s, "client", row.client)

ServerInv == Sound(server) /\ (snap # NoSnapshot => Sound(snap.rows))

SameEvent(v, w) ==
    /\ v.table = w.table /\ v.id = w.id
    /\ v.action = w.action /\ v.before = w.before

(* What compensates an event: the undo's own command.                      *)
Answers(log, k, n) ==
    /\ log[k].id = log[n].id
    /\ log[k].action = IF log[n].action = "deleted" THEN "restored" ELSE "updated"

Compensated(log, D, n) ==
    /\ log[n] # NoEvent
    /\ <<"event", n>> \in D \/ \E k \in (n + 1)..MaxCommands : Answers(log, k, n)

(* Another copy of the activity log knows what the device's knows, at most.*)
Faithful(e, log, D) ==
    \A n \in Numbers :
       /\ e[n] # NoEvent => log[n] # NoEvent /\ SameEvent(e[n], log[n])
       /\ e[n].undone => Compensated(log, D, n)

(* So does the queue.                                                      *)
Reported(m, log, D) ==
    /\ m.kind = "event" /\ m.op = "record" =>
         log[m.id] # NoEvent /\ SameEvent(m.row, log[m.id]) /\ ~m.row.undone
    /\ m.kind = "event" /\ m.op = "undo" => Compensated(log, D, m.id)

(* The row an undo's event is about, and what the undo's own event says.   *)
Undoes(log, e, mark) ==
    mark # 0 =>
      /\ mark \in Numbers /\ log[mark] # NoEvent /\ e.id = log[mark].id
      /\ e.action = IF log[mark].action = "deleted" THEN "restored" ELSE "updated"

(* A tab marks what was compensated; its command compensates what it will  *)
(* mark.                                                                   *)
Ordered(c, log, D) ==
    /\ c.step = "mark" => Compensated(log, D, c.mark)
    /\ c.step = "write" => Undoes(log, c.event, c.mark)

EventInv ==
    /\ \A n \in Numbers :
         device.event[n] # NoEvent => n <= made /\ device.event[n].table # "none"
    /\ Faithful(device.event, device.event, doubtful)
    /\ Faithful(server.event, device.event, doubtful)
    /\ snap # NoSnapshot => Faithful(snap.rows.event, device.event, doubtful)
    /\ \A m \in ToSet(outbox) : Reported(m, device.event, doubtful)
    /\ \A b \in Tabs : Ordered(cmd[b], device.event, doubtful)

(* What the device knows of the server's log, of its revision and of the   *)
(* rows of the snapshot it holds.                                          *)
KnownInv ==
    /\ base # revision => behind
    /\ snap # NoSnapshot /\ snap.rev = revision => snap.rows = server
    /\ snap # NoSnapshot =>
         \A n \in Numbers : snap.rows.event[n] # NoEvent => server.event[n] # NoEvent
    /\ \A n \in Numbers :
         device.event[n] # NoEvent /\ <<"event", n>> \notin doubtful =>
           \/ server.event[n] # NoEvent
           \/ \E m \in Waiting : m.kind = "event" /\ m.op = "record" /\ m.id = n

(* What the server's handlers would find missing on the device.            *)
Misses(s, x, p) ==
    /\ s.session[x].state = "active" /\ p \in s.session[x].members
    /\ ~Live(s, "student", p)

Unserved(s, a) ==
    /\ s.appointment[a].state = "live" /\ s.appointment[a].client # Nobody
    /\ ~Live(s, "client", s.appointment[a].client)

Booked(s, D) ==
    /\ \A x \in Sessions, p \in Students : Misses(s, x, p) =>
         <<"session", x>> \in D \/ <<"student", p>> \in D
    /\ \A a \in Appointments : Unserved(s, a) => <<"appointment", a>> \in D

BookedInv == Booked(device, doubtful)

(* The rows a command puts are the ones the server's handler would make of *)
(* the rows d.                                                             *)
Makes(d, puts, m) ==
    \A t \in Tables \ {"event"} : \A id \in IdsOf(t) :
      /\ (\A p \in puts : ~(p[1] = t /\ p[2] = id)) => Effect(d, m)[t][id] = d[t][id]
      /\ \A p \in puts : p[1] = t /\ p[2] = id => Effect(d, m)[t][id] = p[3]

(* The handler would accept the mutation there, the doubtful cases apart.  *)
Accepts(d, m) ==
    /\ \/ Refusal(d, m) = "accepted"
       \/ Early(m)
       \/ /\ m.kind = "session" /\ m.op = "details"
          /\ \E p \in m.row.members : Misses(d, m.id, p)
       \/ /\ m.kind = "appointment" /\ Unserved(d, m.id)
          /\ m.row.client = d.appointment[m.id].client
    /\ m.kind = "session" /\ m.op = "create" =>
         \A p \in m.row.members : Live(d, "student", p)

Decides(d, puts, m) == Makes(d, puts, m) /\ Accepts(d, m)

(* A command that was not overtaken is decided on both sides alike.        *)
Settled(c, d) == c.step = "write" /\ ~c.stale => Decides(d, c.puts, c.mutation)

CommandInv == \A b \in Tabs : Settled(cmd[b], device)

Agrees(D, a, b) ==
    \A t \in Tables : \A id \in IdsOf(t) :
      <<t, id>> \in D \/ a[t][id] = b[t][id]

(* ServerAgrees and NothingRefused, for the rows nothing cast doubt on.    *)
Level(o, d, D) ==
    /\ Agrees(D, o.db, d)
    /\ \A m \in o.refused : Touched(m) \subseteq D

AgreeInv == Informed => Level(Replay(server, outbox), device, doubtful)

-----------------------------------------------------------------------------
(* The folds, one mutation at a time.                                      *)

Start(s) == [db |-> s, refused |-> {}, left |-> <<>>]

(* The first j mutations of a queue, and what they leave of s and of D.    *)
First(q, j) == SubSeq(q, 1, j)
After(s, q, j) == Replay(s, First(q, j))
SpreadTo(D, q, j) == Spread(D, First(q, j))

(* A replay is a fold of Handled over the queue.                           *)
LEMMA ReplayFolds == ASSUME NEW s, NEW q PROVE Replay(s, q) = Replays!Fold(Start(s), q)
  BY DEF Replay, Start, Replays!Fold, Replays!FoldLeft, Replays!MapThenFoldSet, Replays!Max,
     FoldLeft, MapThenFoldSet, Max

(* Doubt spreads as a fold of Spreading over the queue.                    *)
LEMMA SpreadFolds == ASSUME NEW D, NEW q PROVE Spread(D, q) = Spreads!Fold(D, q)
  BY DEF Spread, Spreads!Fold, Spreads!FoldLeft, Spreads!MapThenFoldSet, Spreads!Max,
     FoldLeft, MapThenFoldSet, Max

(* The prefixes of a queue, each one element longer than the last.         *)
LEMMA Queues ==
    ASSUME NEW q, IsQueue(q)
    PROVE  /\ Len(q) \in Nat /\ First(q, 0) = <<>> /\ First(q, Len(q)) = q
           /\ DOMAIN q = 1..Len(q) /\ q \in Seq(ToSet(q))
           /\ \A j \in 0..(Len(q) - 1) :
                /\ First(q, j) \in Seq(ToSet(q)) /\ q[j + 1] \in ToSet(q)
                /\ First(q, j + 1) = Append(First(q, j), q[j + 1])
  <1>1. q \in Seq(ToSet(q))
    BY DEF IsQueue
  <1>2. Len(q) \in Nat /\ DOMAIN q = 1..Len(q) /\ \A i \in 1..Len(q) : q[i] \in ToSet(q)
    BY <1>1
  <1> HIDE DEF IsQueue
  <1> DEFINE S == ToSet(q)
  <1> HIDE DEF S
  <1>3. q \in Seq(S)
    BY <1>1 DEF S
  <1>4. First(q, 0) = <<>> /\ First(q, Len(q)) = q
    BY <1>3 DEF First
  <1>5. \A j \in 0..(Len(q) - 1) :
          /\ First(q, j) \in Seq(S) /\ q[j + 1] \in S
          /\ First(q, j + 1) = Append(First(q, j), q[j + 1])
    BY <1>2, <1>3 DEF First
  <1> QED
    BY <1>1, <1>2, <1>4, <1>5 DEF S

(* A replay goes mutation by mutation.                                     *)
LEMMA ReplaySteps ==
    ASSUME NEW s, NEW q, IsQueue(q)
    PROVE  /\ After(s, q, 0) = Start(s) /\ After(s, q, Len(q)) = Replay(s, q)
           /\ \A j \in 0..(Len(q) - 1) : After(s, q, j + 1) = Handled(After(s, q, j), q[j + 1])
  <1>1. After(s, q, 0) = Start(s)
    BY Queues, ReplayFolds, Replays!FoldEmpty DEF After
  <1>2. After(s, q, Len(q)) = Replay(s, q)
    BY Queues DEF After
  <1>3. ASSUME NEW j \in 0..(Len(q) - 1)
        PROVE  After(s, q, j + 1) = Handled(After(s, q, j), q[j + 1])
    <2>1. Replays!Fold(Start(s), Append(First(q, j), q[j + 1]))
            = Handled(Replays!Fold(Start(s), First(q, j)), q[j + 1])
      BY Queues, Replays!FoldAppend
    <2> QED
      BY <2>1, Queues, ReplayFolds DEF After
  <1> QED
    BY <1>1, <1>2, <1>3

(* Doubt spreads mutation by mutation.                                     *)
LEMMA SpreadSteps ==
    ASSUME NEW D, NEW q, IsQueue(q)
    PROVE  /\ SpreadTo(D, q, 0) = D /\ SpreadTo(D, q, Len(q)) = Spread(D, q)
           /\ \A j \in 0..(Len(q) - 1) :
                SpreadTo(D, q, j + 1) = Spreading(SpreadTo(D, q, j), q[j + 1])
  <1>1. SpreadTo(D, q, 0) = D
    BY Queues, SpreadFolds, Spreads!FoldEmpty DEF SpreadTo
  <1>2. SpreadTo(D, q, Len(q)) = Spread(D, q)
    BY Queues DEF SpreadTo
  <1>3. ASSUME NEW j \in 0..(Len(q) - 1)
        PROVE  SpreadTo(D, q, j + 1) = Spreading(SpreadTo(D, q, j), q[j + 1])
    <2>1. Spreads!Fold(D, Append(First(q, j), q[j + 1]))
            = Spreading(Spreads!Fold(D, First(q, j)), q[j + 1])
      BY Queues, Spreads!FoldAppend
    <2> QED
      BY <2>1, Queues, SpreadFolds DEF SpreadTo
  <1> QED
    BY <1>1, <1>2, <1>3

(* The same for one named position.                                        *)
LEMMA SpreadStep ==
    ASSUME NEW D, NEW q, IsQueue(q), NEW j \in 0..(Len(q) - 1)
    PROVE  SpreadTo(D, q, j + 1) = Spreading(SpreadTo(D, q, j), q[j + 1])
  <1> DEFINE P(i) == SpreadTo(D, q, i + 1) = Spreading(SpreadTo(D, q, i), q[i + 1])
  <1>1. \A i \in 0..(Len(q) - 1) : P(i)
    BY SpreadSteps
  <1> HIDE DEF P
  <1>2. P(j)
    BY <1>1
  <1> QED
    BY <1>2 DEF P

-----------------------------------------------------------------------------
(* What a mutation does to each row.                                       *)

Put(s, t, id, r) == [s EXCEPT ![t][id] = r]

NewRow(m, row) ==
    CASE m.op = "create" ->
           IF row.state = "absent" THEN m.row ELSE row
      [] m.op = "update" -> [row EXCEPT !.val = m.row.val]
      [] m.op = "delete" -> [row EXCEPT !.state = "deleted"]
      [] m.op = "archive" -> [row EXCEPT !.state = "archived"]
      [] m.op = "restore" -> [row EXCEPT !.state = IF m.kind = "student" THEN "active" ELSE "live"]
      [] OTHER -> m.row
NewEvent(m, row) ==
    IF m.op = "undo" THEN [row EXCEPT !.undone = TRUE, !.undoable = FALSE]
    ELSE IF row = NoEvent THEN m.row ELSE row

Leaves(s, m) == m.kind = "student" /\ m.op = "archive" /\ s["student"][m.id].state # "archived"

RowAfter(s, m, t, id) ==
    IF t = TableOf(m.kind) /\ id = m.id
    THEN IF m.kind = "event" THEN NewEvent(m, s[t][id]) ELSE NewRow(m, s[t][id])
    ELSE IF t = "session" /\ Leaves(s, m) THEN Archived(s[t][id], m.id) ELSE s[t][id]

(* Writing one row of a database changes that row and keeps its type.      *)
LEMMA PutReads ==
    ASSUME NEW s, IsDb(s), NEW t \in Tables, NEW id \in IdsOf(t), NEW r, IsRow(t, id, r)
    PROVE  /\ IsDb(Put(s, t, id, r))
           /\ \A u \in Tables : \A x \in IdsOf(u) :
                Put(s, t, id, r)[u][x] = IF u = t /\ x = id THEN r ELSE s[u][x]
  <1> DEFINE p == Put(s, t, id, r)
  <1>1. s = [u \in Tables |-> s[u]] /\ \A u \in Tables : s[u] = [x \in IdsOf(u) |-> s[u][x]]
    BY DEF IsDb
  <1>2. p = [u \in Tables |-> IF u = t THEN [s[t] EXCEPT ![id] = r] ELSE s[u]]
    BY <1>1 DEF Put
  <1>3. \A u \in Tables : p[u] = IF u = t THEN [s[t] EXCEPT ![id] = r] ELSE s[u]
    BY <1>2
  <1>4. [s[t] EXCEPT ![id] = r] = [x \in IdsOf(t) |-> IF x = id THEN r ELSE s[t][x]]
    BY <1>1
  <1> HIDE DEF p
  <1>5. \A u \in Tables : \A x \in IdsOf(u) : p[u][x] = IF u = t /\ x = id THEN r ELSE s[u][x]
    BY <1>3, <1>4
  <1>6. \A u \in Tables : p[u] = [x \in IdsOf(u) |-> p[u][x]]
    BY <1>1, <1>3, <1>4
  <1>7. p = [u \in Tables |-> p[u]]
    BY <1>2
  <1>8. \A u \in Tables : \A x \in IdsOf(u) : IsRow(u, x, p[u][x])
    BY <1>5 DEF IsDb
  <1> QED
    BY <1>5, <1>6, <1>7, <1>8 DEF IsDb, p

(* Databases with the same rows are the same database.                     *)
LEMMA SameDb ==
    ASSUME NEW a, NEW b, IsDb(a), IsDb(b),
           \A t \in Tables : \A id \in IdsOf(t) : a[t][id] = b[t][id]
    PROVE  a = b
  <1>1. \A t \in Tables : a[t] = b[t]
    <2> TAKE t \in Tables
    <2>1. a[t] = [id \in IdsOf(t) |-> a[t][id]] /\ b[t] = [id \in IdsOf(t) |-> b[t][id]]
      BY DEF IsDb
    <2> QED
      BY <2>1
  <1> QED
    BY <1>1 DEF IsDb

(* The rows of a database have the types of their tables.                  *)
LEMMA RowTypes ==
    ASSUME NEW s, IsDb(s)
    PROVE  /\ \A x \in Entries : Plain(s.entry[x])
           /\ \A x \in Students : Plain(s.student[x])
           /\ \A x \in Sessions : IsSession(s.session[x])
           /\ \A x \in Clients : Plain(s.client[x])
           /\ \A x \in Appointments : IsAppointment(s.appointment[x])
           /\ \A x \in Receipts : IsReceipt(s.receipt[x])
           /\ \A x \in Numbers : IsEvent(s.event[x])
  <1>1. \A t \in Tables : \A id \in IdsOf(t) : IsRow(t, id, s[t][id])
    BY DEF IsDb
  <1> QED
    BY <1>1 DEF Tables, IdsOf, IsRow

(* Where a mutation belongs, and that what it makes of the row is a row.   *)
LEMMA MutationTypes ==
    ASSUME NEW m, IsMutation(m)
    PROVE  /\ TableOf(m.kind) \in Tables /\ m.id \in IdsOf(TableOf(m.kind))
           /\ \A row : IsRow(TableOf(m.kind), m.id, row) =>
                IsRow(TableOf(m.kind), m.id,
                      IF m.kind = "event" THEN NewEvent(m, row) ELSE NewRow(m, row))
  <1>1. CASE m.kind \in {"expense", "income", "cash"}
    BY <1>1 DEF IsMutation, TableOf, Tables, IdsOf, IsRow, NewRow, Plain
  <1>2. CASE m.kind = "student"
    BY <1>2 DEF IsMutation, TableOf, Tables, IdsOf, IsRow, NewRow, Plain
  <1>3. CASE m.kind = "session"
    BY <1>3 DEF IsMutation, TableOf, Tables, IdsOf, IsRow, NewRow, IsSession, Session
  <1>4. CASE m.kind = "client"
    BY <1>4 DEF IsMutation, TableOf, Tables, IdsOf, IsRow, NewRow, Plain
  <1>5. CASE m.kind = "appointment"
    BY <1>5 DEF IsMutation, TableOf, Tables, IdsOf, IsRow, NewRow
  <1>6. CASE m.kind = "receipt"
    BY <1>6 DEF IsMutation, TableOf, Tables, IdsOf, IsRow, NewRow
  <1>7. CASE m.kind = "event"
    <2>1. /\ TableOf(m.kind) = "event" /\ "event" \in Tables /\ IdsOf("event") = Numbers
          /\ m.id \in Numbers /\ (m.op # "undo" => IsEvent(m.row))
      <3>1. TableOf(m.kind) = "event" /\ "event" \in Tables /\ IdsOf("event") = Numbers
        BY <1>7 DEF TableOf, Tables, IdsOf
      <3>2. m.id \in Numbers /\ (m.op # "undo" => IsEvent(m.row))
        BY <1>7 DEF IsMutation, IsRow
      <3> QED
        BY <3>1, <3>2
    <2>2. ASSUME NEW row, IsEvent(row) PROVE IsEvent(NewEvent(m, row))
      <3> SUFFICES ASSUME NEW w, w = [row EXCEPT !.undone = TRUE, !.undoable = FALSE]
                   PROVE  IsEvent(w)
        BY <2>1, <2>2 DEF NewEvent
      <3>1. /\ w = [table |-> w.table, id |-> w.id, action |-> w.action,
                    before |-> w.before, undoable |-> w.undoable, undone |-> w.undone]
            /\ w.table = row.table /\ w.id = row.id
        BY <2>2 DEF IsEvent
      <3> QED
        BY <2>2, <3>1 DEF IsEvent
    <2>3. \A row : IsRow("event", m.id, row) <=> IsEvent(row)
      BY <2>1 DEF IsRow
    <2> QED
      BY <1>7, <2>1, <2>2, <2>3
  <1> QED
    BY <1>1, <1>2, <1>3, <1>4, <1>5, <1>6, <1>7 DEF IsMutation

(* A session an archived student leaves is still a session.                *)
LEMMA ArchivedTypes ==
    ASSUME NEW row, IsSession(row), NEW x
    PROVE  IsSession(Archived(row, x))
  BY DEF Archived, IsSession, Session

(* A mutation's effect, row by row.                                        *)
LEMMA EffectReads ==
    ASSUME NEW s, IsDb(s), NEW m, IsMutation(m)
    PROVE  /\ IsDb(Effect(s, m))
           /\ \A t \in Tables : \A id \in IdsOf(t) : Effect(s, m)[t][id] = RowAfter(s, m, t, id)
  <1> DEFINE t == TableOf(m.kind)
             r == IF m.kind = "event" THEN NewEvent(m, s[t][m.id]) ELSE NewRow(m, s[t][m.id])
  <1>1. t \in Tables /\ m.id \in IdsOf(t)
    BY MutationTypes
  <1>2. IsRow(t, m.id, s[t][m.id]) /\ IsRow(t, m.id, r)
    BY <1>1, MutationTypes DEF IsDb
  <1>3. \/ Leaves(s, m) \/ Effect(s, m) = Put(s, t, m.id, r)
        \/ Effect(s, m) = s /\ r = s[t][m.id]
    <2>1. CASE m.kind \in {"expense", "income", "cash"}
      BY <2>1 DEF IsMutation, TableOf, Effect, EntryEffect, Inserted, NewRow, Put
    <2>2. CASE m.kind = "student"
      <3>1. Plain(s["student"][m.id])
        BY <1>2, <2>2 DEF IsRow, TableOf
      <3> QED
        BY <2>2, <3>1 DEF IsMutation, TableOf, Effect, StudentEffect, ArchiveEffect, Inserted,
           NewRow,
           Put, Leaves, Plain
    <2>3. CASE m.kind = "session"
      BY <2>3 DEF IsMutation, TableOf, Effect, SessionEffect, Inserted, NewRow, Put
    <2>4. CASE m.kind \in {"client", "appointment"}
      BY <2>4 DEF IsMutation, TableOf, Effect, NewRow, Put
    <2>5. CASE m.kind = "receipt"
      BY <2>5 DEF IsMutation, TableOf, Effect, Inserted, NewRow, Put
    <2>6. CASE m.kind = "event"
      BY <2>6 DEF IsMutation, TableOf, Effect, EventEffect, NewEvent, Put
    <2> QED
      BY <2>1, <2>2, <2>3, <2>4, <2>5, <2>6 DEF IsMutation
  <1>4. CASE Effect(s, m) = Put(s, t, m.id, r) /\ ~Leaves(s, m)
    BY <1>1, <1>2, <1>4, PutReads DEF RowAfter
  <1>5. CASE Effect(s, m) = s /\ r = s[t][m.id] /\ ~Leaves(s, m)
    BY <1>1, <1>2, <1>5, PutReads DEF RowAfter
  <1>6. CASE Leaves(s, m)
    <2> DEFINE p == Put(s, "student", m.id, r)
               e == [p EXCEPT !["session"] = [x \in Sessions |-> Archived(s["session"][x], m.id)]]
    <2>1. t = "student" /\ "session" \in Tables /\ IdsOf("session") = Sessions
      BY <1>6 DEF Leaves, TableOf, Tables, IdsOf
    <2>2. r = [s["student"][m.id] EXCEPT !.state = "archived"]
      BY <1>6, <2>1 DEF Leaves, NewRow
    <2>3. Effect(s, m) = e
      BY <1>6, <2>1, <2>2 DEF Leaves, Effect, TableOf, StudentEffect, ArchiveEffect, Put
    <2>4. /\ IsDb(p)
          /\ \A u \in Tables : \A x \in IdsOf(u) :
               p[u][x] = IF u = "student" /\ x = m.id THEN r ELSE s[u][x]
      BY <1>1, <1>2, <2>1, PutReads
    <2> HIDE DEF p
    <2>5. e = [u \in Tables |-> IF u = "session"
                THEN [x \in Sessions |-> Archived(s["session"][x], m.id)]
                                ELSE p[u]]
      BY <2>1, <2>4 DEF IsDb
    <2> HIDE DEF e
    <2>6. \A u \in Tables : \A x \in IdsOf(u) : e[u][x] = RowAfter(s, m, u, x)
      BY <1>6, <2>1, <2>4, <2>5 DEF RowAfter, Leaves
    <2>7. \A u \in Tables : e[u] = [x \in IdsOf(u) |-> e[u][x]]
      BY <2>1, <2>4, <2>5 DEF IsDb
    <2>8. \A u \in Tables : \A x \in IdsOf(u) : IsRow(u, x, e[u][x])
      <3> SUFFICES ASSUME NEW u \in Tables, NEW x \in IdsOf(u) PROVE IsRow(u, x, e[u][x])
        OBVIOUS
      <3>1. CASE u = "session"
        <4>1. IsSession(s["session"][x]) /\ x \in Sessions
          BY <2>1, <3>1, RowTypes
        <4>2. e[u][x] = Archived(s["session"][x], m.id)
          BY <4>1, <2>1, <2>5, <3>1
        <4> QED
          BY <4>1, <4>2, <3>1, ArchivedTypes DEF IsRow
      <3>2. CASE u # "session"
        BY <2>4, <2>5, <3>2 DEF IsDb
      <3> QED
        BY <3>1, <3>2
    <2> QED
      BY <2>3, <2>5, <2>6, <2>7, <2>8 DEF IsDb
  <1> QED
    BY <1>3, <1>4, <1>5, <1>6

-----------------------------------------------------------------------------
(* What a replay leaves.                                                   *)

IsOutcome(o) ==
    /\ o = [db |-> o.db, refused |-> o.refused, left |-> o.left]
    /\ IsDb(o.db) /\ IsQueue(o.left)

(* The same mutation, dead or alive.                                       *)
SameMutation(m, n) == m.kind = n.kind /\ m.op = n.op /\ m.id = n.id /\ m.row = n.row

Drawn(o, q) ==
    /\ \A m \in o.refused : m \in ToSet(q) /\ ~m.dead
    /\ \A m \in ToSet(o.left) :
         /\ \E n \in ToSet(q) : SameMutation(m, n)
         /\ ~m.dead => m \in o.refused

(* A queue with one more mutation.                                         *)
LEMMA AppendQueue ==
    ASSUME NEW q, IsQueue(q), NEW m, IsMutation(m)
    PROVE  IsQueue(Append(q, m)) /\ ToSet(Append(q, m)) = ToSet(q) \union {m}
  <1> DEFINE S == ToSet(q)
             T == S \union {m}
             p == Append(q, m)
  <1>1. q \in Seq(S) /\ \A n \in S : IsMutation(n)
    BY DEF IsQueue
  <1>2. S = {q[i] : i \in 1..Len(q)} /\ Len(q) \in Nat
    BY <1>1 DEF ToSet
  <1> HIDE DEF S
  <1>3. /\ p \in Seq(T) /\ Len(p) = Len(q) + 1 /\ p[Len(q) + 1] = m
        /\ \A i \in 1..Len(q) : p[i] = q[i]
    BY <1>1
  <1>4. DOMAIN p = 1..(Len(q) + 1)
    BY <1>3
  <1> HIDE DEF p
  <1>5. ToSet(p) = T
    <2>1. \A x \in T : \E i \in DOMAIN p : p[i] = x
      BY <1>2, <1>3, <1>4
    <2>2. \A i \in DOMAIN p : p[i] \in T
      BY <1>3, <1>4
    <2> QED
      BY <2>1, <2>2 DEF ToSet
  <1> QED
    BY <1>1, <1>3, <1>5 DEF IsQueue, p, S

(* Handling a mutation of the queue keeps a replay's outcome well typed.   *)
LEMMA HandledTypes ==
    ASSUME NEW o, IsOutcome(o), NEW q, IsQueue(q), Drawn(o, q), NEW m \in ToSet(q)
    PROVE  /\ IsOutcome(Handled(o, m)) /\ Drawn(Handled(o, m), q)
           /\ o.refused \subseteq Handled(o, m).refused
  <1>1. IsMutation(m)
    BY DEF IsQueue
  <1>2. CASE m.dead
    <2>1. Handled(o, m) = [db |-> o.db, refused |-> o.refused, left |-> Append(o.left, m)]
      BY <1>2 DEF Handled, IsOutcome
    <2> QED
      BY <1>1, <1>2, <2>1, AppendQueue DEF IsOutcome, Drawn, SameMutation
  <1>3. CASE ~m.dead /\ Refusal(o.db, m) = "accepted"
    <2>1. Handled(o, m) = [db |-> Effect(o.db, m), refused |-> o.refused, left |-> o.left]
      BY <1>3 DEF Handled, IsOutcome
    <2> QED
      BY <1>1, <1>3, <2>1, EffectReads DEF IsOutcome, Drawn
  <1>4. CASE ~m.dead /\ Refusal(o.db, m) # "accepted"
    <2> DEFINE n == [m EXCEPT !.dead = Refusal(o.db, m) \in Terminal]
    <2>1. Handled(o, m) = [db |-> o.db, refused |-> o.refused \union {m},
                left |-> Append(o.left, n)]
      BY <1>4 DEF Handled, IsOutcome
    <2>2. /\ n.kind = m.kind /\ n.op = m.op /\ n.id = m.id /\ n.row = m.row
          /\ n = [kind |-> n.kind, op |-> n.op, id |-> n.id, row |-> n.row, dead |-> n.dead]
          /\ n.dead \in BOOLEAN
      BY <1>1 DEF IsMutation
    <2>3. m = [kind |-> m.kind, op |-> m.op, id |-> m.id, row |-> m.row, dead |-> FALSE]
      BY <1>1, <1>4 DEF IsMutation
    <2> HIDE DEF n
    <2>4. IsMutation(n)
      BY <1>1, <2>2 DEF IsMutation
    <2>5. ~n.dead => n = m
      BY <2>2, <2>3
    <2> QED
      BY <1>4, <2>1, <2>2, <2>4, <2>5, AppendQueue DEF IsOutcome, Drawn, SameMutation
  <1> QED
    BY <1>2, <1>3, <1>4

(* Every prefix of a replay has an outcome of the right type.              *)
LEMMA AfterTypes ==
    ASSUME NEW s, IsDb(s), NEW q, IsQueue(q)
    PROVE  \A j \in 0..Len(q) : IsOutcome(After(s, q, j)) /\ Drawn(After(s, q, j), q)
  <1> DEFINE S == {j \in 0..Len(q) : IsOutcome(After(s, q, j)) /\ Drawn(After(s, q, j), q)}
  <1>1. Len(q) \in Nat
    BY Queues
  <1>2. 0 \in S
    <2>1. IsQueue(<<>>) /\ ToSet(<<>>) = {}
      BY DEF IsQueue, ToSet
    <2> QED
      BY <1>1, <2>1, ReplaySteps DEF Start, IsOutcome, Drawn
  <1>3. ASSUME NEW j \in 0..(Len(q) - 1), j \in S PROVE j + 1 \in S
    <2>1. j + 1 \in 0..Len(q)
      BY <1>1
    <2>2. After(s, q, j + 1) = Handled(After(s, q, j), q[j + 1]) /\ q[j + 1] \in ToSet(q)
      BY Queues, ReplaySteps
    <2>3. IsOutcome(After(s, q, j)) /\ Drawn(After(s, q, j), q)
      BY <1>3
    <2>4. IsOutcome(After(s, q, j + 1)) /\ Drawn(After(s, q, j + 1), q)
      BY <2>2, <2>3, HandledTypes
    <2> QED
      BY <2>1, <2>4
  <1> QED
    BY <1>1, <1>2, <1>3, Replays!HandedOn

(* So has the whole replay; what it leaves is drawn from the queue.        *)
LEMMA ReplayTypes ==
    ASSUME NEW s, IsDb(s), NEW q, IsQueue(q)
    PROVE  IsOutcome(Replay(s, q)) /\ Drawn(Replay(s, q), q)
  <1>1. Len(q) \in 0..Len(q)
    BY Queues
  <1> QED
    BY <1>1, AfterTypes, ReplaySteps

(* A refusal is never taken back.                                          *)
LEMMA RefusedGrow ==
    ASSUME NEW s, IsDb(s), NEW q, IsQueue(q)
    PROVE  \A j \in 0..Len(q) : After(s, q, j).refused \subseteq Replay(s, q).refused
  <1> DEFINE n == Len(q)
             S == {i \in 0..n : After(s, q, n - i).refused \subseteq Replay(s, q).refused}
  <1>1. n \in Nat
    BY Queues
  <1>2. 0 \in S
    BY <1>1, ReplaySteps
  <1>3. ASSUME NEW i \in 0..(n - 1), i \in S PROVE i + 1 \in S
    <2>1. n - (i + 1) \in 0..(n - 1) /\ (n - (i + 1)) + 1 = n - i /\ i + 1 \in 0..n
      BY <1>1
    <2>2. After(s, q, n - (i + 1)).refused \subseteq After(s, q, n - i).refused
      <3> DEFINE j == n - (i + 1)
      <3>1. /\ j \in 0..(Len(q) - 1) /\ j \in 0..Len(q) /\ j + 1 = n - i
            /\ j + 1 \in 1..Len(q)
        BY <1>1, <2>1
      <3> HIDE DEF j
      <3>2. After(s, q, j + 1) = Handled(After(s, q, j), q[j + 1])
        BY <3>1, ReplaySteps
      <3>3. IsOutcome(After(s, q, j)) /\ Drawn(After(s, q, j), q) /\ q[j + 1] \in ToSet(q)
        BY <3>1, Queues, AfterTypes
      <3>4. After(s, q, j).refused \subseteq After(s, q, j + 1).refused
        BY <3>2, <3>3, HandledTypes
      <3> QED
        BY <3>1, <3>4 DEF j
    <2> QED
      BY <1>3, <2>1, <2>2
  <1> HIDE DEF S
  <1>4. \A i \in 0..n : i \in S
    BY <1>1, <1>2, <1>3, Replays!HandedOn
  <1> QED
    <2> TAKE j \in 0..n
    <2>1. n - j \in 0..n /\ n - (n - j) = j
      BY <1>1
    <2> QED
      BY <2>1, <1>4 DEF S

-----------------------------------------------------------------------------
(* A mutation reads and writes its own rows only.                          *)

(* What a mutation writes is among what it depends on.                     *)
LEMMA TouchedUsed ==
    ASSUME NEW m
    PROVE  /\ Touched(m) \subseteq Used(m) /\ <<TableOf(m.kind), m.id>> \in Touched(m)
           /\ m.kind = "student" /\ m.op = "archive" =>
                \A x \in Sessions : <<"session", x>> \in Touched(m)
  BY DEF Touched, Used

(* A mutation writes only the rows it touches.                             *)
LEMMA EffectConfined ==
    ASSUME NEW s, IsDb(s), NEW m, IsMutation(m), NEW t \in Tables, NEW id \in IdsOf(t),
           <<t, id>> \notin Touched(m)
    PROVE  Effect(s, m)[t][id] = s[t][id]
  <1>1. ~(t = TableOf(m.kind) /\ id = m.id)
    BY TouchedUsed
  <1>2. ~(t = "session" /\ Leaves(s, m))
    BY TouchedUsed DEF IdsOf, Leaves
  <1>3. RowAfter(s, m, t, id) = s[t][id]
    BY <1>1, <1>2 DEF RowAfter
  <1> QED
    BY <1>3, EffectReads

(* Where two databases agree on what a mutation depends on, it does the    *)
(* same to both.                                                           *)
LEMMA EffectLocal ==
    ASSUME NEW a, IsDb(a), NEW b, IsDb(b), NEW D, Agrees(D, a, b),
           NEW m, IsMutation(m), Used(m) \intersect D = {}
    PROVE  Agrees(D, Effect(a, m), Effect(b, m))
  <1>1. Leaves(a, m) <=> Leaves(b, m)
    <2>1. CASE m.kind = "student"
      <3>1. "student" \in Tables /\ m.id \in IdsOf("student") /\ <<"student", m.id>> \notin D
        BY <2>1, MutationTypes, TouchedUsed DEF TableOf
      <3> QED
        BY <3>1 DEF Leaves, Agrees
    <2> QED
      BY <2>1 DEF Leaves
  <1> SUFFICES ASSUME NEW t \in Tables, NEW id \in IdsOf(t), <<t, id>> \notin D
               PROVE  Effect(a, m)[t][id] = Effect(b, m)[t][id]
    BY DEF Agrees
  <1>2. a[t][id] = b[t][id]
    BY DEF Agrees
  <1> QED
    BY <1>1, <1>2, EffectReads DEF RowAfter

(* Two databases have the same rows where a mutation looks.                *)
SameUsed(a, b, m) ==
    \A t \in Tables : \A id \in IdsOf(t) : <<t, id>> \in Used(m) => a[t][id] = b[t][id]

(* And the handlers judge it alike.                                        *)
LEMMA RefusalSame ==
    ASSUME NEW a, IsDb(a), NEW b, IsDb(b), NEW m, IsMutation(m), SameUsed(a, b, m)
    PROVE  Refusal(a, m) = Refusal(b, m)
  <1>1. \A t \in Tables : \A id \in IdsOf(t) : <<t, id>> \in Used(m) => a[t][id] = b[t][id]
    BY DEF SameUsed
  <1>2. TableOf(m.kind) \in Tables /\ m.id \in IdsOf(TableOf(m.kind))
    BY MutationTypes
  <1>3. a[TableOf(m.kind)][m.id] = b[TableOf(m.kind)][m.id]
    BY <1>1, <1>2, TouchedUsed
  <1>4. CASE m.kind \in {"expense", "income", "cash"}
    BY <1>3, <1>4 DEF TableOf, Refusal, ExpenseRefusal, IncomeRefusal, CashRefusal, FoundEntry, Live
  <1>5. CASE m.kind = "student"
    BY <1>3, <1>5 DEF TableOf, Refusal, StudentRefusal
  <1>6. CASE m.kind = "session"
    <2>1. /\ \A x \in m.row.members : <<"student", x>> \in Used(m)
          /\ \A x \in Sessions : <<"session", x>> \in Used(m)
      BY <1>6 DEF Used
    <2>2. IsSession(m.row) /\ m.id \in Sessions
      BY <1>6 DEF IsMutation, IsRow
    <2>3. "session" \in Tables /\ IdsOf("session") = Sessions /\ "student" \in Tables
          /\ IdsOf("student") = Students
      BY DEF Tables, IdsOf
    <2>4. \A x \in m.row.members : a["student"][x] = b["student"][x]
      BY <1>1, <2>1, <2>2, <2>3 DEF IsSession
    <2>5. \A x \in Sessions : a["session"][x] = b["session"][x]
      BY <1>1, <2>1, <2>3
    <2>6. (\E x \in m.row.members : ~Live(a, "student", x))
            <=> (\E x \in m.row.members : ~Live(b, "student", x))
      BY <2>4 DEF Live
    <2>7. DetailsRefusal(a, m.id, m.row) = DetailsRefusal(b, m.id, m.row)
      <3>1. Conflict(a, m.id, m.row.slot) <=> Conflict(b, m.id, m.row.slot)
        BY <2>5 DEF Conflict
      <3>2. a["session"][m.id] = b["session"][m.id]
        BY <2>2, <2>5
      <3> QED
        BY <3>1, <3>2 DEF DetailsRefusal
    <2> QED
      BY <1>3, <1>6, <2>6, <2>7 DEF TableOf, Refusal, SessionRefusal
  <1>7. CASE m.kind = "client"
    BY <1>7 DEF Refusal
  <1>8. CASE m.kind = "appointment"
    <2>1. /\ <<"client", m.row.client>> \in Used(m)
          /\ \A r \in Receipts : <<"receipt", r>> \in Used(m)
      BY <1>8 DEF Used
    <2>2. IsAppointment(m.row)
      BY <1>8 DEF IsMutation, IsRow
    <2>3. "client" \in Tables /\ IdsOf("client") = Clients /\ "receipt" \in Tables
          /\ IdsOf("receipt") = Receipts
      BY DEF Tables, IdsOf
    <2>4. m.row.client # Nobody => a["client"][m.row.client] = b["client"][m.row.client]
      BY <1>1, <2>1, <2>2, <2>3 DEF IsAppointment
    <2>5. \A r \in Receipts : a["receipt"][r] = b["receipt"][r]
      BY <1>1, <2>1, <2>3
    <2>6. Linked(a, m.id) <=> Linked(b, m.id)
      BY <2>5 DEF Linked
    <2>7. m.row.client # Nobody =>
             (Live(a, "client", m.row.client) <=> Live(b, "client", m.row.client))
      BY <2>4 DEF Live
    <2>8. a["appointment"][m.id] = b["appointment"][m.id]
      BY <1>3, <1>8 DEF TableOf
    <2> QED
      BY <1>8, <2>6, <2>7, <2>8 DEF Refusal, AppointmentRefusal
  <1>9. CASE m.kind = "receipt"
    <2>1. <<"client", m.row.client>> \in Used(m) /\ <<"appointment", m.row.appointment>> \in Used(m)
      BY <1>9 DEF Used
    <2>2. IsReceipt(m.row) /\ m.row.client \in Clients
      BY <1>9 DEF IsMutation, IsRow
    <2>3. "client" \in Tables /\ IdsOf("client") = Clients /\ "appointment" \in Tables
          /\ IdsOf("appointment") = Appointments
      BY DEF Tables, IdsOf
    <2>4. Live(a, "client", m.row.client) <=> Live(b, "client", m.row.client)
      BY <1>1, <2>1, <2>2, <2>3 DEF Live
    <2>5. m.row.appointment # Nobody =>
            a["appointment"][m.row.appointment] = b["appointment"][m.row.appointment]
      BY <1>1, <2>1, <2>2, <2>3 DEF IsReceipt
    <2>6. m.row.appointment # Nobody =>
            (Live(a, "appointment", m.row.appointment)
               <=> Live(b, "appointment", m.row.appointment))
      BY <2>5 DEF Live
    <2>7. ReceiptRefusal(a, m) = ReceiptRefusal(b, m)
      BY <2>4, <2>5, <2>6 DEF ReceiptRefusal
    <2> QED
      BY <1>9, <2>7 DEF Refusal
  <1>10. CASE m.kind = "event"
    BY <1>3, <1>10 DEF TableOf, Refusal, EventRefusal
  <1> QED
    BY <1>4, <1>5, <1>6, <1>7, <1>8, <1>9, <1>10 DEF IsMutation

(* They do where what they look at is beyond doubt.                        *)
LEMMA RefusalLocal ==
    ASSUME NEW a, IsDb(a), NEW b, IsDb(b), NEW D, Agrees(D, a, b),
           NEW m, IsMutation(m), Used(m) \intersect D = {}
    PROVE  Refusal(a, m) = Refusal(b, m)
  <1>1. SameUsed(a, b, m)
    BY DEF SameUsed, Agrees
  <1> QED
    BY <1>1, RefusalSame

-----------------------------------------------------------------------------
(* How the commands begin.                                                 *)

Puts(puts, m) ==
    \A p \in puts :
      /\ p = <<p[1], p[2], p[3]>> /\ p[1] # "event"
      /\ p[1] = "client" => p[3].state = "active"
      /\ IsRow(p[1], p[2], p[3]) /\ <<p[1], p[2]>> \in Touched(m)

Begun(puts, m, e, mark) ==
    /\ IsMutation(m) /\ m.kind # "event" /\ ~m.dead
    /\ Puts(puts, m) /\ Decides(device, puts, m)
    /\ IsEvent(e) /\ ~e.undone /\ e.table # "none"
    /\ mark \in Nat /\ Undoes(device.event, e, mark)

Beginning ==
    \E puts, m, e, mark : Begin(puts, m, e, mark) /\ Begun(puts, m, e, mark)

(* What a command's put leaves in each table.                              *)
LEMMA WrittenReads ==
    ASSUME IsDb(device), NEW puts
    PROVE  /\ Written(puts) = [t \in Tables |-> Written(puts)[t]]
           /\ \A t \in Tables :
                /\ Written(puts)[t] = [id \in IdsOf(t) |-> Written(puts)[t][id]]
                /\ \A id \in IdsOf(t) :
                     \/ /\ Written(puts)[t][id] = device[t][id]
                        /\ \A p \in puts : ~(p[1] = t /\ p[2] = id)
                     \/ \E p \in puts : p[1] = t /\ p[2] = id /\ Written(puts)[t][id] = p[3]
  <1> DEFINE w == Written(puts)
  <1>1. w = [t \in Tables |-> [id \in DOMAIN device[t] |->
              IF \E p \in {p \in puts : p[1] = t} : p[2] = id
              THEN (CHOOSE p \in {p \in puts : p[1] = t} : p[2] = id)[3]
              ELSE device[t][id]]]
    BY DEF Written, IsDb
  <1>2. w = [t \in Tables |-> w[t]]
    BY <1>1
  <1>3. ASSUME NEW t \in Tables
        PROVE  /\ w[t] = [id \in IdsOf(t) |-> w[t][id]]
               /\ \A id \in IdsOf(t) :
                    \/ /\ w[t][id] = device[t][id]
                       /\ \A p \in puts : ~(p[1] = t /\ p[2] = id)
                    \/ \E p \in puts : p[1] = t /\ p[2] = id /\ w[t][id] = p[3]
    <2> DEFINE at == {p \in puts : p[1] = t}
    <2>1. DOMAIN device[t] = IdsOf(t)
      BY DEF IsDb
    <2>2. w[t] = [id \in IdsOf(t) |->
                IF \E p \in at : p[2] = id
                THEN (CHOOSE p \in at : p[2] = id)[3] ELSE device[t][id]]
      BY <1>1, <2>1
    <2>3. ASSUME NEW id \in IdsOf(t), NEW p \in at, p[2] = id
          PROVE  \E q \in puts : q[1] = t /\ q[2] = id /\ w[t][id] = q[3]
      <3> DEFINE c == CHOOSE q \in at : q[2] = id
      <3>1. c \in at /\ c[2] = id
        BY <2>3
      <3>2. w[t][id] = c[3]
        BY <2>2, <2>3
      <3> HIDE DEF c
      <3> QED
        BY <3>1, <3>2
    <2>4. \A id \in IdsOf(t) : (\A p \in puts : ~(p[1] = t /\ p[2] = id)) =>
             w[t][id] = device[t][id]
      BY <2>2
    <2> HIDE DEF w
    <2> QED
      BY <2>2, <2>3, <2>4
  <1> HIDE DEF w
  <1> QED
    BY <1>2, <1>3 DEF w

(* A command that puts the row its mutation makes of the device's.         *)
LEMMA PutDecides ==
    ASSUME IsDb(device), NEW m, IsMutation(m), m.kind # "event",
           ~(m.kind = "student" /\ m.op = "archive"),
           m.row = NewRow(m, device[TableOf(m.kind)][m.id])
    PROVE  /\ Puts({<<TableOf(m.kind), m.id, m.row>>}, m)
           /\ Makes(device, {<<TableOf(m.kind), m.id, m.row>>}, m)
  <1> DEFINE T == TableOf(m.kind)
             puts == {<<T, m.id, m.row>>}
  <1>1. T \in Tables /\ m.id \in IdsOf(T) /\ T # "event" /\ IsRow(T, m.id, m.row)
    <2>1. T \in Tables /\ m.id \in IdsOf(T)
      BY MutationTypes
    <2>2. T # "event"
      BY DEF TableOf
    <2>3. IsRow(T, m.id, device[T][m.id])
      BY <2>1 DEF IsDb
    <2> QED
      BY <2>1, <2>2, <2>3, MutationTypes
  <1>2. Puts(puts, m)
    <2>1. T = "client" => m.row.state = "active"
      BY DEF IsMutation, TableOf
    <2> QED
      BY <1>1, <2>1, TouchedUsed DEF Puts
  <1>3. /\ \A p \in puts : p[1] = T /\ p[2] = m.id /\ p[3] = m.row
        /\ \E p \in puts : TRUE
    OBVIOUS
  <1> HIDE DEF puts
  <1>4. Makes(device, puts, m)
    <2> SUFFICES ASSUME NEW t \in Tables \ {"event"}, NEW id \in IdsOf(t)
                 PROVE  /\ (\A p \in puts : ~(p[1] = t /\ p[2] = id)) =>
                             Effect(device, m)[t][id] = device[t][id]
                        /\ \A p \in puts : p[1] = t /\ p[2] = id =>
                             Effect(device, m)[t][id] = p[3]
      BY DEF Makes
    <2>1. Effect(device, m)[t][id] = RowAfter(device, m, t, id)
      BY EffectReads
    <2>2. RowAfter(device, m, t, id) = IF t = T /\ id = m.id THEN m.row ELSE device[t][id]
      BY DEF RowAfter, Leaves
    <2> QED
      BY <1>3, <2>1, <2>2
  <1> QED
    BY <1>2, <1>4 DEF puts

(* What a decided command writes is what the handler would make.           *)
LEMMA DecidesWrites ==
    ASSUME IsDb(device), NEW puts, NEW m, IsMutation(m), Makes(device, puts, m)
    PROVE  \A t \in Tables \ {"event"} : Written(puts)[t] = Effect(device, m)[t]
  <1> SUFFICES ASSUME NEW t \in Tables \ {"event"}
               PROVE  Written(puts)[t] = Effect(device, m)[t]
    OBVIOUS
  <1> DEFINE w == Written(puts)
             f == Effect(device, m)
  <1>1. /\ w[t] = [id \in IdsOf(t) |-> w[t][id]]
        /\ \A id \in IdsOf(t) :
             \/ /\ w[t][id] = device[t][id]
                /\ \A p \in puts : ~(p[1] = t /\ p[2] = id)
             \/ \E p \in puts : p[1] = t /\ p[2] = id /\ w[t][id] = p[3]
    BY WrittenReads
  <1>2. f[t] = [id \in IdsOf(t) |-> f[t][id]]
    <2>1. IsDb(f)
      BY EffectReads
    <2> HIDE DEF f
    <2> QED
      BY <2>1 DEF IsDb
  <1>3. \A id \in IdsOf(t) :
          /\ (\A p \in puts : ~(p[1] = t /\ p[2] = id)) => f[t][id] = device[t][id]
          /\ \A p \in puts : p[1] = t /\ p[2] = id => f[t][id] = p[3]
    BY DEF Makes
  <1> HIDE DEF w, f
  <1>4. \A id \in IdsOf(t) : w[t][id] = f[t][id]
    BY <1>1, <1>3
  <1>5. w[t] = f[t]
    BY <1>1, <1>2, <1>4
  <1> QED
    BY <1>5 DEF w, f

(* What a mutation and an event of a command are.                          *)
PutFits(m) ==
    /\ IsMutation(m) /\ ~m.dead /\ m.kind # "event"
    /\ ~(m.kind = "student" /\ m.op = "archive")
    /\ m.row = NewRow(m, device[TableOf(m.kind)][m.id])
    /\ Accepts(device, m)

EventFits(e, mark) ==
    /\ IsEvent(e) /\ ~e.undone /\ e.table # "none"
    /\ mark \in Nat /\ Undoes(device.event, e, mark)

(* A command on one row begins with a mutation that says what it writes.   *)
LEMMA Put1Begins ==
    ASSUME IsDb(device), NEW m, NEW e, NEW mark, PutFits(m), EventFits(e, mark),
           Put1(m.kind, m.op, m.id, m.row, e, mark)
    PROVE  Beginning
  <1> DEFINE puts == {<<TableOf(m.kind), m.id, m.row>>}
  <1>1. m = Mutation(m.kind, m.op, m.id, m.row)
    BY DEF Mutation, PutFits, IsMutation
  <1>2. Begin(puts, m, e, mark)
    BY <1>1 DEF Put1
  <1>3. Puts(puts, m) /\ Makes(device, puts, m)
    BY PutDecides DEF PutFits
  <1> HIDE DEF puts
  <1>4. Decides(device, puts, m)
    BY <1>3 DEF Decides, PutFits
  <1>5. Begun(puts, m, e, mark)
    BY <1>3, <1>4 DEF Begun, PutFits, EventFits
  <1> QED
    BY <1>2, <1>5 DEF Beginning

(* An undo's command: what it says answers the event it marks.             *)
Answering(id, action, mark) ==
    mark # 0 =>
      /\ mark \in Numbers /\ device.event[mark] # NoEvent /\ device.event[mark].id = id
      /\ action = IF device.event[mark].action = "deleted" THEN "restored" ELSE "updated"

EntryKinds == {"expense", "income", "cash"}

(* Every command on an expense, an income or a cash check does.            *)
LEMMA EntryBegins ==
    ASSUME IsDb(device), NEW kind \in EntryKinds, NEW id \in Entries, NEW val, NEW mark \in Nat,
           \/ AddEntry(kind, id) \/ DeleteEntry(kind, id)
           \/ UpdateEntry(kind, id, val, mark) /\ Answering(id, "updated", mark)
           \/ RestoreEntry(kind, id, mark) /\ Answering(id, "restored", mark)
    PROVE  Beginning
  <1> DEFINE current == device.entry[id]
  <1>1. Plain(current) /\ TableOf(kind) = "entry"
    BY RowTypes DEF EntryKinds, TableOf
  <1>2. CASE AddEntry(kind, id)
    <2> DEFINE m == Mutation(kind, "create", id, Entry("live", begun + 1))
               e == Event("entry", id, "created", NoRow, FALSE)
    <2>1. IsMutation(m)
      BY <1>1 DEF EntryKinds, IsMutation, Mutation, IsRow, Plain, Entry
    <2>2. PutFits(m)
      BY <1>1, <1>2, <2>1 DEF AddEntry, Unused, PutFits, Accepts, NewRow, Mutation, Refusal, ExpenseRefusal,
         IncomeRefusal,
         CashRefusal, FoundEntry, EntryKinds, Live, Plain, TableOf
    <2>3. EventFits(e, 0)
      BY DEF EventFits, Event, IsEvent, Undoes, Answering
    <2>4. Put1(m.kind, m.op, m.id, m.row, e, 0)
      BY <1>2 DEF AddEntry, Mutation
    <2> HIDE DEF m, e
    <2> QED
      BY <2>2, <2>3, <2>4, Put1Begins
  <1>3. CASE DeleteEntry(kind, id)
    <2> DEFINE m == Mutation(kind, "delete", id, [current EXCEPT !.state = "deleted"])
               e == Event("entry", id, "deleted", current, TRUE)
    <2>1. IsMutation(m)
      BY <1>1 DEF EntryKinds, IsMutation, Mutation, IsRow, Plain, Entry
    <2>2. PutFits(m)
      BY <1>1, <1>3, <2>1 DEF DeleteEntry, PutFits, Accepts, NewRow, Mutation, Refusal, ExpenseRefusal,
         IncomeRefusal,
         CashRefusal, FoundEntry, EntryKinds, Live, Plain, TableOf
    <2>3. EventFits(e, 0)
      BY DEF EventFits, Event, IsEvent, Undoes, Answering
    <2>4. Put1(m.kind, m.op, m.id, m.row, e, 0)
      BY <1>3 DEF DeleteEntry, Mutation
    <2> HIDE DEF m, e
    <2> QED
      BY <2>2, <2>3, <2>4, Put1Begins
  <1>4. CASE UpdateEntry(kind, id, val, mark) /\ Answering(id, "updated", mark)
    <2> DEFINE m == Mutation(kind, "update", id, [current EXCEPT !.val = val])
               e == Event("entry", id, "updated", current, TRUE)
    <2>1. IsMutation(m)
      BY <1>1 DEF EntryKinds, IsMutation, Mutation, IsRow, Plain, Entry
    <2>2. PutFits(m)
      BY <1>1, <1>4, <2>1 DEF UpdateEntry, PutFits, Accepts, NewRow, Mutation, Refusal, ExpenseRefusal,
         IncomeRefusal,
         CashRefusal, FoundEntry, EntryKinds, Live, Plain, TableOf
    <2>3. EventFits(e, mark)
      BY <1>4 DEF EventFits, Event, IsEvent, Undoes, Answering
    <2>4. Put1(m.kind, m.op, m.id, m.row, e, mark)
      BY <1>4 DEF UpdateEntry, Mutation
    <2> HIDE DEF m, e
    <2> QED
      BY <2>2, <2>3, <2>4, Put1Begins
  <1>5. CASE RestoreEntry(kind, id, mark) /\ Answering(id, "restored", mark)
    <2> DEFINE m == Mutation(kind, "restore", id, [current EXCEPT !.state = "live"])
               e == Event("entry", id, "restored", current, FALSE)
    <2>1. IsMutation(m)
      BY <1>1 DEF EntryKinds, IsMutation, Mutation, IsRow, Plain, Entry
    <2>2. PutFits(m)
      BY <1>1, <1>5, <2>1 DEF RestoreEntry, PutFits, Accepts, NewRow, Mutation, Refusal, ExpenseRefusal,
         IncomeRefusal,
         CashRefusal, FoundEntry, EntryKinds, Live, Plain, TableOf
    <2>3. EventFits(e, mark)
      BY <1>5 DEF EventFits, Event, IsEvent, Undoes, Answering
    <2>4. Put1(m.kind, m.op, m.id, m.row, e, mark)
      BY <1>5 DEF RestoreEntry, Mutation
    <2> HIDE DEF m, e
    <2> QED
      BY <2>2, <2>3, <2>4, Put1Begins
  <1> QED
    BY <1>2, <1>3, <1>4, <1>5

(* Every command on a student but the archiving.                           *)
LEMMA StudentBegins ==
    ASSUME IsDb(device), NEW id \in Students, NEW val, NEW mark \in Nat,
           \/ /\ device.student[id].state = "absent"
              /\ Put1("student", "create", id, Entry("active", begun + 1),
                      Event("student", id, "created", NoRow, FALSE), 0)
           \/ UpdateStudent(id, val, mark) /\ Answering(id, "updated", mark)
           \/ LET current == device.student[id] IN
              /\ current.state = "archived"
              /\ Put1("student", "restore", id, [current EXCEPT !.state = "active"],
                      Event("student", id, "restored", current, FALSE), 0)
    PROVE  Beginning
  <1> DEFINE current == device.student[id]
  <1>1. Plain(current)
    BY RowTypes
  <1>2. CASE /\ current.state = "absent"
             /\ Put1("student", "create", id, Entry("active", begun + 1),
                     Event("student", id, "created", NoRow, FALSE), 0)
    <2> DEFINE m == Mutation("student", "create", id, Entry("active", begun + 1))
               e == Event("student", id, "created", NoRow, FALSE)
    <2>1. IsMutation(m)
      BY <1>1 DEF IsMutation, Mutation, IsRow, Plain, Entry
    <2>2. PutFits(m)
      BY <1>1, <1>2, <2>1 DEF PutFits, Accepts, NewRow, Mutation, Refusal, StudentRefusal, Plain, TableOf,
         Entry
    <2>3. EventFits(e, 0)
      BY DEF EventFits, Event, IsEvent, Undoes, Answering
    <2>4. Put1(m.kind, m.op, m.id, m.row, e, 0)
      BY <1>2 DEF Mutation
    <2> HIDE DEF m, e
    <2> QED
      BY <2>2, <2>3, <2>4, Put1Begins
  <1>3. CASE UpdateStudent(id, val, mark) /\ Answering(id, "updated", mark)
    <2> DEFINE m == Mutation("student", "update", id, [current EXCEPT !.val = val])
               e == Event("student", id, "updated", current, TRUE)
    <2>1. IsMutation(m)
      BY <1>1 DEF IsMutation, Mutation, IsRow, Plain, Entry
    <2>2. PutFits(m)
      BY <1>1, <1>3, <2>1 DEF UpdateStudent, PutFits, Accepts, NewRow, Mutation, Refusal, StudentRefusal,
         Plain, TableOf, Entry
    <2>3. EventFits(e, mark)
      BY <1>3 DEF EventFits, Event, IsEvent, Undoes, Answering
    <2>4. Put1(m.kind, m.op, m.id, m.row, e, mark)
      BY <1>3 DEF UpdateStudent, Mutation
    <2> HIDE DEF m, e
    <2> QED
      BY <2>2, <2>3, <2>4, Put1Begins
  <1>4. CASE /\ current.state = "archived"
             /\ Put1("student", "restore", id, [current EXCEPT !.state = "active"],
                     Event("student", id, "restored", current, FALSE), 0)
    <2> DEFINE m == Mutation("student", "restore", id, [current EXCEPT !.state = "active"])
               e == Event("student", id, "restored", current, FALSE)
    <2>1. IsMutation(m)
      BY <1>1 DEF IsMutation, Mutation, IsRow, Plain, Entry
    <2>2. PutFits(m)
      BY <1>1, <1>4, <2>1 DEF PutFits, Accepts, NewRow, Mutation, Refusal, StudentRefusal, Plain, TableOf,
         Entry
    <2>3. EventFits(e, 0)
      BY DEF EventFits, Event, IsEvent, Undoes, Answering
    <2>4. Put1(m.kind, m.op, m.id, m.row, e, 0)
      BY <1>4 DEF Mutation
    <2> HIDE DEF m, e
    <2> QED
      BY <2>2, <2>3, <2>4, Put1Begins
  <1> QED
    BY <1>2, <1>3, <1>4

(* Every command on a session.                                             *)
LEMMA SessionBegins ==
    ASSUME IsDb(device), NEW id \in Sessions, NEW form, form.members \subseteq Students,
           \/ /\ device.session[id].state = "absent"
              /\ \A s \in form.members : Live(device, "student", s)
              /\ Put1("session", "create", id, FormRow(form),
                      Event("session", id, "created", NoRow, FALSE), 0)
           \/ /\ DetailsRefusal(device, id, form) = "accepted"
              /\ \A s \in form.members \ device.session[id].members : Live(device, "student", s)
              /\ Put1("session", "details", id, FormRow(form),
                      Event("session", id, "details.updated", NoRow, FALSE), 0)
           \/ /\ device.session[id].state = "active"
              /\ Put1("session", "archive", id, [device.session[id] EXCEPT !.state = "archived"],
                      Event("session", id, "archive", NoRow, FALSE), 0)
    PROVE  Beginning
  <1> DEFINE current == device.session[id]
  <1>1. IsSession(current) /\ form.members \subseteq Students
    BY RowTypes
  <1>2. CASE /\ current.state = "absent"
             /\ \A s \in form.members : Live(device, "student", s)
             /\ Put1("session", "create", id, FormRow(form),
                     Event("session", id, "created", NoRow, FALSE), 0)
    <2> DEFINE m == Mutation("session", "create", id, FormRow(form))
               e == Event("session", id, "created", NoRow, FALSE)
    <2>1. IsMutation(m)
      BY <1>1 DEF IsMutation, Mutation, IsRow, IsSession, Session, FormRow
    <2>2. PutFits(m)
      BY <1>1, <1>2, <2>1 DEF PutFits, Accepts, NewRow, Mutation, Refusal, SessionRefusal, IsSession,
         Session,
         FormRow, TableOf
    <2>3. EventFits(e, 0)
      BY DEF EventFits, Event, IsEvent, Undoes, Answering
    <2>4. Put1(m.kind, m.op, m.id, m.row, e, 0)
      BY <1>2 DEF Mutation
    <2> HIDE DEF m, e
    <2> QED
      BY <2>2, <2>3, <2>4, Put1Begins
  <1>3. CASE /\ DetailsRefusal(device, id, form) = "accepted"
             /\ \A s \in form.members \ current.members : Live(device, "student", s)
             /\ Put1("session", "details", id, FormRow(form),
                     Event("session", id, "details.updated", NoRow, FALSE), 0)
    <2> DEFINE m == Mutation("session", "details", id, FormRow(form))
               e == Event("session", id, "details.updated", NoRow, FALSE)
    <2>1. IsMutation(m)
      BY <1>1 DEF IsMutation, Mutation, IsRow, IsSession, Session, FormRow
    <2>2. PutFits(m)
      <3>1. /\ m.kind = "session" /\ m.op = "details" /\ m.id = id /\ m.row = FormRow(form)
            /\ m.row.members = form.members /\ m.row.slot = form.slot
            /\ m.row.payer = form.payer /\ m.row.expected = form.expected /\ ~m.dead
        BY DEF Mutation, FormRow, Session
      <3>2. DetailsRefusal(device, id, m.row) = "accepted" /\ current.state = "active"
        BY <1>1, <1>3, <3>1 DEF DetailsRefusal, FinanceChanged, IsSession
      <3>3. m.row = NewRow(m, device[TableOf(m.kind)][m.id])
        BY <3>1 DEF NewRow
      <3>4. CASE \A p \in form.members : Live(device, "student", p)
        <4>1. Refusal(device, m) = "accepted"
          BY <3>1, <3>2, <3>4 DEF Refusal, SessionRefusal
        <4> HIDE DEF m
        <4> QED
          BY <2>1, <3>1, <3>3, <4>1 DEF PutFits, Accepts
      <3>5. ASSUME NEW p \in form.members, ~Live(device, "student", p) PROVE PutFits(m)
        <4>1. Misses(device, id, p)
          BY <1>3, <3>2, <3>5 DEF Misses
        <4> HIDE DEF m
        <4> QED
          BY <2>1, <3>1, <3>3, <4>1 DEF PutFits, Accepts
      <3> QED
        BY <3>4, <3>5
    <2>3. EventFits(e, 0)
      BY DEF EventFits, Event, IsEvent, Undoes, Answering
    <2>4. Put1(m.kind, m.op, m.id, m.row, e, 0)
      BY <1>3 DEF Mutation
    <2> HIDE DEF m, e
    <2> QED
      BY <2>2, <2>3, <2>4, Put1Begins
  <1>4. CASE /\ current.state = "active"
             /\ Put1("session", "archive", id, [current EXCEPT !.state = "archived"],
                     Event("session", id, "archive", NoRow, FALSE), 0)
    <2> DEFINE m == Mutation("session", "archive", id, [current EXCEPT !.state = "archived"])
               e == Event("session", id, "archive", NoRow, FALSE)
    <2>1. IsMutation(m)
      BY <1>1 DEF IsMutation, Mutation, IsRow, IsSession, Session, FormRow
    <2>2. PutFits(m)
      BY <1>1, <1>4, <2>1 DEF PutFits, Accepts, NewRow, Mutation, Refusal, SessionRefusal, IsSession,
         Session,
         FormRow, TableOf
    <2>3. EventFits(e, 0)
      BY DEF EventFits, Event, IsEvent, Undoes, Answering
    <2>4. Put1(m.kind, m.op, m.id, m.row, e, 0)
      BY <1>4 DEF Mutation
    <2> HIDE DEF m, e
    <2> QED
      BY <2>2, <2>3, <2>4, Put1Begins
  <1> QED
    BY <1>2, <1>3, <1>4

(* Every command on an appointment client.                                 *)
LEMMA ClientBegins ==
    ASSUME IsDb(device), NEW id \in Clients, device.client[id].state = "absent",
           Put1("client", "upsert", id, Entry("active", begun + 1),
                Event("client", id, "created", NoRow, FALSE), 0)
    PROVE  Beginning
  <1> DEFINE current == device.client[id]
  <1>1. Plain(current)
    BY RowTypes
  <1>2. CASE TRUE
    <2> DEFINE m == Mutation("client", "upsert", id, Entry("active", begun + 1))
               e == Event("client", id, "created", NoRow, FALSE)
    <2>1. IsMutation(m)
      BY <1>1 DEF IsMutation, Mutation, IsRow, Plain, Entry
    <2>2. PutFits(m)
      BY <1>1, <1>2, <2>1 DEF PutFits, Accepts, NewRow, Mutation, Refusal, Plain, TableOf, Entry
    <2>3. EventFits(e, 0)
      BY DEF EventFits, Event, IsEvent, Undoes, Answering
    <2>4. Put1(m.kind, m.op, m.id, m.row, e, 0)
      BY <1>2 DEF Mutation
    <2> HIDE DEF m, e
    <2> QED
      BY <2>2, <2>3, <2>4, Put1Begins
  <1> QED
    BY <1>2

(* What the form makes of an appointment.                                  *)
Edited(current, form) ==
    [current EXCEPT !.client = form.client, !.due = form.due,
                    !.val = IF form.edits THEN begun + 1 ELSE @]

(* Every command on an appointment.                                        *)
LEMMA AppointmentBegins ==
    ASSUME IsDb(device), NEW id \in Appointments, NEW form, NEW status,
           form.client \in Clients \union {Nobody},
           \/ /\ device.appointment[id].state = "absent" /\ RequireClient(form.client)
              /\ PutAppointment(id,
                          Appointment("live", form.client, form.due, begun + 1, "scheduled"))
           \/ /\ device.appointment[id].state = "live" /\ RequireClient(form.client)
              /\ ClientFree(id, form.client)
              /\ device.appointment[id].status = "completed" =>
               Historical(Edited(device.appointment[id], form)) = Historical(device.appointment[id])
              /\ PutAppointment(id, Edited(device.appointment[id], form))
           \/ /\ device.appointment[id].state = "live" /\ device.appointment[id].status # status
              /\ status = "completed" => "device" \in device.appointment[id].due
              /\ PutAppointment(id, [device.appointment[id] EXCEPT !.status = status])
    PROVE  Beginning
  <1> DEFINE current == device.appointment[id]
  <1>1. IsAppointment(current) /\ form.client \in Clients \union {Nobody}
    BY RowTypes
  <1>2. CASE /\ current.state = "absent" /\ RequireClient(form.client)
             /\ PutAppointment(id,
                         Appointment("live", form.client, form.due, begun + 1, "scheduled"))
    <2> DEFINE m == Mutation("appointment", "upsert", id,
                Appointment("live", form.client, form.due, begun + 1, "scheduled"))
               e == Event("appointment", id, "upsert", NoRow, FALSE)
    <2>1. IsMutation(m)
      BY <1>1, <1>2 DEF IsMutation, Mutation, IsRow, IsAppointment, Appointment
    <2>2. PutFits(m)
      <3>1. m.kind = "appointment" /\ m.op = "upsert" /\ m.id = id /\ ~m.dead
        BY DEF Mutation
      <3>2. /\ m.row.status # "completed"
            /\ m.row.client # Nobody => Live(device, "client", m.row.client)
            /\ device.appointment[m.id].state # "live"
        BY <1>2 DEF Mutation, Appointment, RequireClient
      <3>3. m.row = NewRow(m, device[TableOf(m.kind)][m.id])
        BY <3>1 DEF NewRow
      <3> HIDE DEF m
      <3>4. Refusal(device, m) = "accepted"
        BY <3>1, <3>2 DEF Refusal, AppointmentRefusal, Historical, Early
      <3> QED
        BY <2>1, <3>1, <3>3, <3>4 DEF PutFits, Accepts
    <2>3. EventFits(e, 0)
      BY DEF EventFits, Event, IsEvent, Undoes, Answering
    <2>4. Put1(m.kind, m.op, m.id, m.row, e, 0)
      BY <1>2 DEF PutAppointment, Mutation
    <2> HIDE DEF m, e
    <2> QED
      BY <2>2, <2>3, <2>4, Put1Begins
  <1>3. CASE /\ current.state = "live" /\ RequireClient(form.client) /\ ClientFree(id, form.client)
             /\ current.status = "completed" =>
                         Historical(Edited(current, form)) = Historical(current)
             /\ PutAppointment(id, Edited(current, form))
    <2> DEFINE m == Mutation("appointment", "upsert", id, Edited(current, form))
               e == Event("appointment", id, "upsert", NoRow, FALSE)
    <2>1. IsMutation(m)
      BY <1>1, <1>3 DEF IsMutation, Mutation, IsRow, IsAppointment, Appointment, Edited, Historical
    <2>2. PutFits(m)
      <3>1. m.kind = "appointment" /\ m.op = "upsert" /\ m.id = id /\ ~m.dead
        BY DEF Mutation
      <3>2. /\ m.row.client # Nobody => Live(device, "client", m.row.client)
            /\ device.appointment[m.id].status = "completed" =>
                 Historical(device.appointment[m.id]) = Historical(m.row)
            /\ device.appointment[m.id].client # m.row.client => ~Linked(device, m.id)
        BY <1>1, <1>3 DEF Mutation, Edited, RequireClient, ClientFree, Historical, IsAppointment,
           Appointment
      <3>3. m.row = NewRow(m, device[TableOf(m.kind)][m.id])
        BY <3>1 DEF NewRow
      <3> HIDE DEF m
      <3>4. Refusal(device, m) = "accepted" \/ Early(m)
        BY <3>1, <3>2 DEF Refusal, AppointmentRefusal
      <3> QED
        BY <2>1, <3>1, <3>3, <3>4 DEF PutFits, Accepts
    <2>3. EventFits(e, 0)
      BY DEF EventFits, Event, IsEvent, Undoes, Answering
    <2>4. Put1(m.kind, m.op, m.id, m.row, e, 0)
      BY <1>3 DEF PutAppointment, Mutation
    <2> HIDE DEF m, e
    <2> QED
      BY <2>2, <2>3, <2>4, Put1Begins
  <1>4. CASE /\ current.state = "live" /\ current.status # status
             /\ status = "completed" => "device" \in current.due
             /\ PutAppointment(id, [current EXCEPT !.status = status])
    <2> DEFINE m == Mutation("appointment", "upsert", id, [current EXCEPT !.status = status])
               e == Event("appointment", id, "upsert", NoRow, FALSE)
    <2>1. IsMutation(m)
      BY <1>1, <1>4 DEF IsMutation, Mutation, IsRow, IsAppointment, Appointment
    <2>2. PutFits(m)
      <3>1. m.kind = "appointment" /\ m.op = "upsert" /\ m.id = id /\ ~m.dead
        BY DEF Mutation
      <3>2. /\ m.row.client = current.client /\ current.state = "live"
            /\ Historical(current) = Historical(m.row)
        BY <1>1, <1>4 DEF Mutation, Historical, IsAppointment, Appointment
      <3>3. m.row = NewRow(m, device[TableOf(m.kind)][m.id])
        BY <3>1 DEF NewRow
      <3> HIDE DEF m
      <3>4. Refusal(device, m) = "accepted" \/ Early(m) \/ Unserved(device, id)
        BY <3>1, <3>2 DEF Refusal, AppointmentRefusal, Unserved
      <3> QED
        BY <2>1, <3>1, <3>2, <3>3, <3>4 DEF PutFits, Accepts
    <2>3. EventFits(e, 0)
      BY DEF EventFits, Event, IsEvent, Undoes, Answering
    <2>4. Put1(m.kind, m.op, m.id, m.row, e, 0)
      BY <1>4 DEF PutAppointment, Mutation
    <2> HIDE DEF m, e
    <2> QED
      BY <2>2, <2>3, <2>4, Put1Begins
  <1> QED
    BY <1>2, <1>3, <1>4

(* Every collection.                                                       *)
LEMMA ReceiptBegins ==
    ASSUME IsDb(device), NEW id \in Receipts, NEW c \in Clients,
           NEW a \in Appointments \union {Nobody},
           device.receipt[id].state = "absent", Live(device, "client", c),
           a # Nobody => /\ Live(device, "appointment", a)
                         /\ device.appointment[a].client = c,
           Put1("receipt", "create", id, Receipt("live", c, a),
                Event("receipt", id, "created", NoRow, FALSE), 0)
    PROVE  Beginning
  <1> DEFINE current == device.receipt[id]
  <1>1. IsReceipt(current)
    BY RowTypes
  <1>2. CASE TRUE
    <2> DEFINE m == Mutation("receipt", "create", id, Receipt("live", c, a))
               e == Event("receipt", id, "created", NoRow, FALSE)
    <2>1. IsMutation(m)
      BY <1>1 DEF IsMutation, Mutation, IsRow, IsReceipt, Receipt
    <2>2. PutFits(m)
      <3>1. /\ m.kind = "receipt" /\ m.op = "create" /\ m.id = id /\ ~m.dead
            /\ m.row.client = c /\ m.row.appointment = a
        BY DEF Mutation, Receipt
      <3>2. m.row = NewRow(m, device[TableOf(m.kind)][m.id])
        BY <3>1 DEF NewRow, TableOf
      <3> HIDE DEF m
      <3>3. Refusal(device, m) = "accepted"
        BY <3>1 DEF Refusal, ReceiptRefusal
      <3> QED
        BY <2>1, <3>1, <3>2, <3>3 DEF PutFits, Accepts
    <2>3. EventFits(e, 0)
      BY DEF EventFits, Event, IsEvent, Undoes, Answering
    <2>4. Put1(m.kind, m.op, m.id, m.row, e, 0)
      BY <1>2 DEF Mutation
    <2> HIDE DEF m, e
    <2> QED
      BY <2>2, <2>3, <2>4, Put1Begins
  <1> QED
    BY <1>2

(* Archiving a student, which also writes the sessions the student leaves. *)
LEMMA ArchiveBegins ==
    ASSUME IsDb(device), ArchiveLocalStudent
    PROVE  Beginning
  <1>1. PICK x \in Students :
          LET row == [device.student[x] EXCEPT !.state = "archived"] IN
          /\ device.student[x].state = "active"
          /\ Begin({<<"student", x, row>>} \union
                   {<<"session", y, Archived(device.session[y], x)>> :
                      y \in {z \in Sessions : Archived(device.session[z], x)
                                                # device.session[z]}},
                   Mutation("student", "archive", x, row),
                   Event("student", x, "archived", device.student[x], FALSE), 0)
    BY DEF ArchiveLocalStudent
  <1> DEFINE row == [device.student[x] EXCEPT !.state = "archived"]
             lost == {z \in Sessions : Archived(device.session[z], x) # device.session[z]}
             puts == {<<"student", x, row>>} \union
                     {<<"session", y, Archived(device.session[y], x)>> : y \in lost}
             m == Mutation("student", "archive", x, row)
             e == Event("student", x, "archived", device.student[x], FALSE)
  <1>2. Plain(row) /\ \A y \in Sessions : IsSession(Archived(device.session[y], x))
    <2>1. Plain(device.student[x]) /\ \A y \in Sessions : IsSession(device.session[y])
      BY RowTypes
    <2>2. Plain(row)
      BY <2>1 DEF Plain
    <2> QED
      BY <2>1, <2>2, ArchivedTypes
  <1>3. /\ IsMutation(m) /\ m.kind = "student" /\ m.op = "archive" /\ m.id = x
        /\ m.row = row /\ ~m.dead
    BY <1>2 DEF IsMutation, Mutation, IsRow
  <1>4. EventFits(e, 0)
    BY DEF EventFits, Event, IsEvent, Undoes
  <1>5. \A p \in puts :
          \/ p = <<"student", x, row>>
          \/ \E y \in lost : p = <<"session", y, Archived(device.session[y], x)>>
    OBVIOUS
  <1>6. /\ \E p \in puts : p[1] = "student" /\ p[2] = x
        /\ \A y \in lost : \E p \in puts : p[1] = "session" /\ p[2] = y
    <2>1. <<"student", x, row>> \in puts
      OBVIOUS
    <2>2. \A y \in lost : <<"session", y, Archived(device.session[y], x)>> \in puts
      OBVIOUS
    <2> HIDE DEF puts, row, lost
    <2> QED
      BY <2>1, <2>2
  <1>7. Begin(puts, m, e, 0)
    BY <1>1
  <1>8. Leaves(device, m) /\ NewRow(m, device["student"][x]) = row
    BY <1>1, <1>3 DEF Leaves, NewRow
  <1>9. Refusal(device, m) = "accepted"
    BY <1>1, <1>3 DEF Refusal, StudentRefusal
  <1> HIDE DEF puts, m, e, row
  <1>10. Puts(puts, m)
    <2>1. <<"student", x>> \in Touched(m) /\ \A y \in Sessions : <<"session", y>> \in Touched(m)
      BY <1>3 DEF Touched, TableOf
    <2>2. IsRow("student", x, row)
      BY <1>2 DEF IsRow
    <2>3. \A y \in Sessions : IsRow("session", y, Archived(device.session[y], x))
      BY <1>2 DEF IsRow
    <2> QED
      BY <1>5, <2>1, <2>2, <2>3 DEF Puts
  <1>11. Makes(device, puts, m)
    <2> SUFFICES ASSUME NEW t \in Tables \ {"event"}, NEW id \in IdsOf(t)
                 PROVE  /\ (\A p \in puts : ~(p[1] = t /\ p[2] = id)) =>
                             Effect(device, m)[t][id] = device[t][id]
                        /\ \A p \in puts : p[1] = t /\ p[2] = id =>
                             Effect(device, m)[t][id] = p[3]
      BY DEF Makes
    <2> DEFINE f == Effect(device, m)[t][id]
    <2>1. f = RowAfter(device, m, t, id)
      BY <1>3, EffectReads
    <2> HIDE DEF f
    <2>2. CASE t = "student" /\ id = x
      <3>1. f = row
        BY <1>3, <1>8, <2>1, <2>2 DEF RowAfter, TableOf
      <3> QED
        BY <1>5, <1>6, <2>2, <3>1 DEF f
    <2>3. CASE t = "session"
      <3>1. id \in Sessions
        BY <2>3 DEF IdsOf
      <3>2. f = Archived(device.session[id], x)
        BY <1>3, <1>8, <2>1, <2>3 DEF RowAfter, TableOf
      <3>3. CASE id \in lost
        BY <1>5, <1>6, <2>3, <3>2, <3>3 DEF f
      <3>4. CASE id \notin lost
        <4>1. f = device[t][id]
          BY <2>3, <3>1, <3>2, <3>4
        <4> QED
          BY <1>5, <2>3, <3>4, <4>1 DEF f
      <3> QED
        BY <3>3, <3>4
    <2>4. CASE ~(t = "student" /\ id = x) /\ t # "session"
      <3>1. f = device[t][id]
        BY <1>3, <2>1, <2>4 DEF RowAfter, TableOf
      <3> QED
        BY <1>5, <2>4, <3>1 DEF f
    <2> QED
      BY <2>2, <2>3, <2>4
  <1>12. Begun(puts, m, e, 0)
    BY <1>3, <1>4, <1>9, <1>10, <1>11 DEF Begun, Decides, Accepts, EventFits
  <1> QED
    BY <1>7, <1>12 DEF Beginning

(* Nothing to restore: an undo only marks its event.                       *)
MarksOnly ==
    \E n \in Numbers :
      /\ device.event[n] # NoEvent /\ Marks(n)
      /\ doubtful' = doubtful \union {<<"event", n>>}

(* An undo begins with such a command, or only marks the event.            *)
LEMMA UndoBegins ==
    ASSUME IsDb(device), UndoActivityEvent
    PROVE  Beginning \/ MarksOnly
  <1>1. PICK n \in Numbers : CanUndo(n) /\ CompensatesFirst(n)
    BY DEF UndoActivityEvent
  <1> DEFINE event == device.event[n]
  <1>2. IsEvent(event) /\ event.undoable /\ n \in Nat /\ n # 0
    BY <1>1, RowTypes, IdsAssumption DEF CanUndo, Numbers
  <1>3. event # NoEvent
    BY <1>2 DEF NoEvent, Event
  <1>4. /\ event.action = "updated" => Answering(event.id, "updated", n)
        /\ event.action = "deleted" => Answering(event.id, "restored", n)
    BY <1>3 DEF Answering
  <1>5. CASE /\ event.table = "entry" /\ event.action = "updated"
             /\ UpdateEntry(KindOf(event.id), event.id, event.before.val, n)
    <2>1. event.id \in Entries /\ KindOf(event.id) \in EntryKinds
      BY <1>2, <1>5 DEF IsEvent, KindOf, EntryKinds
    <2> HIDE DEF event
    <2> QED
      BY <1>2, <1>4, <1>5, <2>1, EntryBegins
  <1>6. CASE /\ event.table = "student" /\ event.action = "updated"
             /\ UpdateStudent(event.id, event.before.val, n)
    <2>1. event.id \in Students
      BY <1>2, <1>6 DEF IsEvent
    <2> HIDE DEF event
    <2> QED
      BY <1>2, <1>4, <1>6, <2>1, StudentBegins
  <1>7. CASE /\ event.table = "entry" /\ event.action = "deleted"
             /\ RestoreEntry(KindOf(event.id), event.id, n)
    <2>1. event.id \in Entries /\ KindOf(event.id) \in EntryKinds
      BY <1>2, <1>7 DEF IsEvent, KindOf, EntryKinds
    <2> HIDE DEF event
    <2> QED
      BY <1>2, <1>4, <1>7, <2>1, EntryBegins
  <1>8. CASE Marks(n) /\ doubtful' = doubtful \union {<<"event", n>>}
    BY <1>3, <1>8 DEF MarksOnly
  <1> QED
    BY <1>1, <1>5, <1>6, <1>7, <1>8 DEF CompensatesFirst

(* The steps the proofs below go through.                                  *)
LEMMA Steps ==
    ASSUME IsDb(device), Next
    PROVE  \/ Beginning \/ MarksOnly
           \/ \E b \in Tabs : Write(b) \/ MarkActivityUndone(b) \/ CloseTab(b)
           \/ Push \/ FetchSnapshot \/ ApplySnapshot \/ RetryDeadLetter \/ ForeignChange
  <1>1. ASSUME NEW kind \in EntryKinds, NEW id \in Entries,
               \/ AddEntry(kind, id) \/ DeleteEntry(kind, id)
               \/ UpdateEntry(kind, id, begun + 1, 0) \/ RestoreEntry(kind, id, 0)
        PROVE  Beginning
    BY <1>1, EntryBegins DEF Answering
  <1>2. ASSUME \/ AddLocalExpense \/ UpdateLocalExpense
               \/ DeleteLocalExpense \/ RestoreLocalExpense
        PROVE  Beginning
    BY <1>1, <1>2 DEF AddLocalExpense, UpdateLocalExpense, DeleteLocalExpense, RestoreLocalExpense,
       Entries, EntryKinds
  <1>3. ASSUME \/ AddLocalOtherIncome \/ UpdateLocalOtherIncome
               \/ DeleteLocalOtherIncome \/ RestoreLocalOtherIncome
        PROVE  Beginning
    BY <1>1, <1>3 DEF AddLocalOtherIncome, UpdateLocalOtherIncome, DeleteLocalOtherIncome,
       RestoreLocalOtherIncome, Entries, EntryKinds
  <1>4. ASSUME \/ AddLocalCashCheck \/ UpdateLocalCashCheck
               \/ DeleteLocalCashCheck \/ RestoreLocalCashCheck
        PROVE  Beginning
    BY <1>1, <1>4 DEF AddLocalCashCheck, UpdateLocalCashCheck, DeleteLocalCashCheck,
       RestoreLocalCashCheck, Entries, EntryKinds
  <1>5. ASSUME CreateStudent \/ UpdateLocalStudent \/ RestoreLocalStudent PROVE Beginning
    <2>1. CASE CreateStudent
      <3>1. PICK x \in Students :
              /\ device.student[x].state = "absent"
              /\ Put1("student", "create", x, Entry("active", begun + 1),
                      Event("student", x, "created", NoRow, FALSE), 0)
        BY <2>1 DEF CreateStudent, Unused
      <3> QED
        BY <3>1, StudentBegins DEF Answering
    <2>2. CASE UpdateLocalStudent
      <3>1. PICK x \in Students : UpdateStudent(x, begun + 1, 0)
        BY <2>2 DEF UpdateLocalStudent
      <3> QED
        BY <3>1, StudentBegins DEF Answering
    <2>3. CASE RestoreLocalStudent
      <3>1. PICK x \in Students :
              LET current == device.student[x] IN
              /\ current.state = "archived"
              /\ Put1("student", "restore", x, [current EXCEPT !.state = "active"],
                      Event("student", x, "restored", current, FALSE), 0)
        BY <2>3 DEF RestoreLocalStudent
      <3> QED
        BY <3>1, StudentBegins DEF Answering
    <2> QED
      BY <1>5, <2>1, <2>2, <2>3
  <1>6. ASSUME CreateSession \/ UpdateDetails PROVE Beginning
    <2>1. CASE CreateSession
      <3>1. PICK x \in Sessions, form \in SessionForms :
              /\ device.session[x].state = "absent"
              /\ \A s \in form.members : Live(device, "student", s)
              /\ Put1("session", "create", x, FormRow(form),
                      Event("session", x, "created", NoRow, FALSE), 0)
        BY <2>1 DEF CreateSession, Unused
      <3> QED
        BY <3>1, SessionBegins, IdsAssumption
    <2>2. CASE UpdateDetails
      <3>1. PICK x \in Sessions, form \in SessionForms :
              /\ DetailsRefusal(device, x, form) = "accepted"
              /\ \A s \in form.members \ device.session[x].members :
                   Live(device, "student", s)
              /\ Put1("session", "details", x, FormRow(form),
                      Event("session", x, "details.updated", NoRow, FALSE), 0)
        BY <2>2 DEF UpdateDetails
      <3> QED
        BY <3>1, SessionBegins, IdsAssumption
    <2> QED
      BY <1>6, <2>1, <2>2
  <1>7. ASSUME CreateAppointmentClient PROVE Beginning
    BY <1>7, ClientBegins DEF CreateAppointmentClient, Unused
  <1>8. ASSUME CreateAppointment \/ UpdateAppointment PROVE Beginning
    <2>1. CASE CreateAppointment
      <3>1. PICK a \in Appointments, form \in AppointmentForms :
              /\ device.appointment[a].state = "absent" /\ RequireClient(form.client)
              /\ PutAppointment(a,
                          Appointment("live", form.client, form.due, begun + 1, "scheduled"))
        BY <2>1 DEF CreateAppointment, Unused
      <3> QED
        BY <3>1, AppointmentBegins, IdsAssumption
    <2>2. CASE UpdateAppointment
      <3>1. PICK a \in Appointments, form \in AppointmentForms :
              LET current == device.appointment[a] IN
              /\ current.state = "live" /\ RequireClient(form.client) /\ ClientFree(a, form.client)
              /\ current.status = "completed" =>
                   Historical(Edited(current, form)) = Historical(current)
              /\ PutAppointment(a, Edited(current, form))
        BY <2>2 DEF UpdateAppointment, Edited
      <3> QED
        BY <3>1, AppointmentBegins, IdsAssumption
    <2> QED
      BY <1>8, <2>1, <2>2
  <1>9. ASSUME CollectAppointmentPayment PROVE Beginning
    <2>1. PICK r \in Receipts, c \in Clients, a \in Appointments \union {Nobody} :
            /\ device.receipt[r].state = "absent"
            /\ Live(device, "client", c)
            /\ a # Nobody => /\ Live(device, "appointment", a)
                             /\ device.appointment[a].client = c
            /\ Put1("receipt", "create", r, Receipt("live", c, a),
                    Event("receipt", r, "created", NoRow, FALSE), 0)
      BY <1>9 DEF CollectAppointmentPayment, Unused
    <2> QED
      BY <2>1, ReceiptBegins
  <1>10. ASSUME ArchiveSession \/ SetAppointmentStatus PROVE Beginning
    <2>1. CASE ArchiveSession
      <3>1. PICK x \in Sessions :
              /\ device.session[x].state = "active"
              /\ Put1("session", "archive", x, [device.session[x] EXCEPT !.state = "archived"],
                      Event("session", x, "archive", NoRow, FALSE), 0)
        BY <2>1 DEF ArchiveSession
      <3> DEFINE form == [members |-> {}]
      <3>2. form.members \subseteq Students
        OBVIOUS
      <3> HIDE DEF form
      <3> QED
        BY <3>1, <3>2, SessionBegins
    <2>2. CASE SetAppointmentStatus
      <3>1. PICK a \in Appointments, status \in Statuses :
              LET current == device.appointment[a] IN
              /\ current.state = "live" /\ current.status # status
              /\ status = "completed" => "device" \in current.due
              /\ PutAppointment(a, [current EXCEPT !.status = status])
        BY <2>2 DEF SetAppointmentStatus
      <3> DEFINE form == [client |-> Nobody]
      <3>2. form.client \in Clients \union {Nobody}
        OBVIOUS
      <3> HIDE DEF form
      <3> QED
        BY <3>1, <3>2, AppointmentBegins
    <2> QED
      BY <1>10, <2>1, <2>2
  <1> QED
    BY <1>2, <1>3, <1>4, <1>5, <1>6, <1>7, <1>8, <1>9, <1>10, ArchiveBegins, UndoBegins
       DEF Next, Sync


-----------------------------------------------------------------------------
(* The types.                                                              *)

(* No command, and a command that only marks, are well typed.              *)
LEMMA NewIdle ==
    /\ IsCommand(NoCommand) /\ NoCommand.step = "idle" /\ NoCommand.mark = 0
    /\ \A n \in Numbers : IsCommand([NoCommand EXCEPT !.step = "mark", !.mark = n])
  <1>1. IsCommand(NoCommand) /\ NoCommand.step = "idle" /\ NoCommand.mark = 0
    BY DEF IsCommand, NoCommand
  <1>2. ASSUME NEW n \in Numbers PROVE IsCommand([NoCommand EXCEPT !.step = "mark", !.mark = n])
    <2>1. n \in Nat /\ n # 0
      BY IdsAssumption DEF Numbers
    <2>2. SUFFICES ASSUME NEW c, c = [NoCommand EXCEPT !.step = "mark", !.mark = n]
                   PROVE  IsCommand(c)
      OBVIOUS
    <2>3. /\ c.step = "mark" /\ c.mark = n /\ c.stale = NoCommand.stale
          /\ c = [step |-> c.step, puts |-> c.puts, mutation |-> c.mutation,
                  event |-> c.event, mark |-> c.mark, stale |-> c.stale]
      BY <1>1, <2>2 DEF IsCommand
    <2> QED
      BY <1>1, <2>1, <2>3 DEF IsCommand
  <1> QED
    BY <1>1, <1>2

(* The initial state is well typed.                                        *)
LEMMA InitTypes == Init => TypeInv
  <1> SUFFICES ASSUME Init PROVE TypeInv
    OBVIOUS
  <1>1. DOMAIN device = Tables /\ device = [t \in Tables |-> device[t]]
    BY DEF Init, Tables
  <1>2. \A t \in Tables : device[t] = [id \in IdsOf(t) |-> device[t][id]]
    <2>1. /\ device.entry = [id \in Entries |-> device.entry[id]]
          /\ device.student = [id \in Students |-> device.student[id]]
          /\ device.session = [id \in Sessions |-> device.session[id]]
          /\ device.client = [id \in Clients |-> device.client[id]]
          /\ device.appointment = [id \in Appointments |-> device.appointment[id]]
          /\ device.receipt = [id \in Receipts |-> device.receipt[id]]
          /\ device.event = [id \in Numbers |-> device.event[id]]
      BY DEF Init
    <2> QED
      BY <2>1 DEF Tables, IdsOf
  <1>3. /\ \A id \in Entries : IsRow("entry", id, device.entry[id])
        /\ \A id \in Students : IsRow("student", id, device.student[id])
        /\ \A id \in Clients : IsRow("client", id, device.client[id])
    BY DEF Init, IsRow, Plain, Entry, NoRow
  <1>4. \A id \in Sessions : IsRow("session", id, device.session[id])
    BY DEF Init, IsRow, IsSession, Session, NoSession
  <1>5. \A id \in Appointments : IsRow("appointment", id, device.appointment[id])
    <2> SUFFICES ASSUME NEW id \in Appointments PROVE IsAppointment(device.appointment[id])
      BY DEF IsRow
    <2> DEFINE c == CHOOSE c \in Clients \intersect Known : TRUE
    <2>1. CASE id \in Known
      <3>1. Clients \intersect Known # {}
        BY <2>1, IdsAssumption
      <3>2. c \in Clients
        BY <3>1
      <3>3. device.appointment[id] = Appointment("live", c, {"device", "workspace"}, 0, "scheduled")
        BY <2>1 DEF Init
      <3> HIDE DEF c
      <3> QED
        BY <3>2, <3>3 DEF IsAppointment, Appointment
    <2>2. CASE id \notin Known
      BY <2>2 DEF Init, IsAppointment, Appointment, NoAppointment
    <2> QED
      BY <2>1, <2>2
  <1>6. /\ \A id \in Receipts : IsRow("receipt", id, device.receipt[id])
        /\ \A id \in Numbers : IsRow("event", id, device.event[id])
    BY DEF Init, IsRow, IsReceipt, Receipt, NoReceipt, IsEvent, Event, NoEvent
  <1>7. \A t \in Tables : \A id \in IdsOf(t) : IsRow(t, id, device[t][id])
    BY <1>3, <1>4, <1>5, <1>6 DEF Tables, IdsOf
  <1>8. IsDb(device) /\ IsDb(server)
    BY <1>1, <1>2, <1>7 DEF IsDb, Init
  <1>9. IsQueue(outbox)
    BY DEF Init, IsQueue, ToSet
  <1> QED
    <2>1. cmd = [b \in Tabs |-> NoCommand] /\ made = 0 /\ snap = NoSnapshot /\ revision = 0
      BY DEF Init
    <2> QED
      <3>1. cmd = [b \in Tabs |-> cmd[b]] /\ \A b \in Tabs : IsTab(cmd[b])
        BY <2>1, NewIdle DEF IsTab
      <3>2. made \in Nat /\ made <= MaxCommands /\ revision \in Nat
        BY <2>1, IdsAssumption
      <3> QED
        BY <1>8, <1>9, <2>1, <3>1, <3>2 DEF TypeInv

(* A command's put keeps the database well typed and the log as it was.    *)
LEMMA WrittenTypes ==
    ASSUME IsDb(device), NEW puts, NEW m, Puts(puts, m), NEW n \in Numbers, NEW e, IsEvent(e)
    PROVE  /\ IsDb(Written(puts))
           /\ IsDb(Put(Written(puts), "event", n, e))
           /\ Written(puts)["event"] = device["event"]
  <1> DEFINE w == Written(puts)
  <1>1. /\ w = [t \in Tables |-> w[t]]
        /\ \A t \in Tables :
             /\ w[t] = [id \in IdsOf(t) |-> w[t][id]]
             /\ \A id \in IdsOf(t) :
                  \/ w[t][id] = device[t][id]
                  \/ \E p \in puts : p[1] = t /\ p[2] = id /\ w[t][id] = p[3]
    BY WrittenReads
  <1> HIDE DEF w
  <1>2. \A t \in Tables : \A id \in IdsOf(t) : IsRow(t, id, w[t][id])
    <2> TAKE t \in Tables
    <2> TAKE id \in IdsOf(t)
    <2>1. CASE w[t][id] = device[t][id]
      BY <2>1 DEF IsDb
    <2>2. ASSUME NEW p \in puts, p[1] = t, p[2] = id, w[t][id] = p[3] PROVE IsRow(t, id, w[t][id])
      BY <2>2 DEF Puts
    <2> QED
      BY <1>1, <2>1, <2>2
  <1>3. IsDb(w)
    BY <1>1, <1>2 DEF IsDb
  <1>4. "event" \in Tables /\ n \in IdsOf("event") /\ IsRow("event", n, e)
    BY DEF Tables, IdsOf, IsRow
  <1>5. w["event"] = device["event"]
    <2>1. \A id \in IdsOf("event") : w["event"][id] = device["event"][id]
      BY <1>1, <1>4 DEF Puts
    <2>2. device["event"] = [id \in IdsOf("event") |-> device["event"][id]]
      BY <1>4 DEF IsDb
    <2> QED
      BY <1>1, <1>4, <2>1, <2>2
  <1> QED
    BY <1>3, <1>4, <1>5, PutReads DEF w

(* A queue with some of its dead flags set anew.                           *)
LEMMA FlagTypes ==
    ASSUME NEW q, IsQueue(q), NEW p, p = [k \in DOMAIN q |-> p[k]],
           \A k \in DOMAIN q : \E d \in BOOLEAN : p[k] = [q[k] EXCEPT !.dead = d]
    PROVE  /\ IsQueue(p) /\ Len(p) = Len(q)
           /\ \A m \in ToSet(p) : \E n \in ToSet(q) : SameMutation(m, n)
           /\ \A n \in ToSet(q) : \E m \in ToSet(p) : SameMutation(m, n)
  <1>1. DOMAIN q = 1..Len(q) /\ Len(q) \in Nat /\ \A k \in 1..Len(q) : q[k] \in ToSet(q)
    BY Queues DEF ToSet
  <1>2. ASSUME NEW k \in 1..Len(q)
        PROVE  IsMutation(p[k]) /\ SameMutation(p[k], q[k])
    <2>1. PICK d \in BOOLEAN : p[k] = [q[k] EXCEPT !.dead = d]
      BY <1>1
    <2>2. IsMutation(q[k])
      BY <1>1 DEF IsQueue
    <2> DEFINE m == p[k]
               n == q[k]
    <2>3. /\ n = [kind |-> n.kind, op |-> n.op, id |-> n.id, row |-> n.row, dead |-> n.dead]
          /\ m = [n EXCEPT !.dead = d]
      BY <2>1, <2>2 DEF IsMutation
    <2>4. /\ m = [kind |-> m.kind, op |-> m.op, id |-> m.id, row |-> m.row, dead |-> m.dead]
          /\ m.dead \in BOOLEAN /\ SameMutation(m, n)
      BY <2>3 DEF SameMutation
    <2> HIDE DEF m, n
    <2>5. IsMutation(n)
      BY <2>2 DEF n
    <2>6. IsMutation(m)
      BY <2>4, <2>5 DEF IsMutation, SameMutation
    <2> QED
      BY <2>4, <2>6 DEF m, n
  <1>3. ToSet(p) = {p[k] : k \in 1..Len(q)} /\ ToSet(q) = {q[k] : k \in 1..Len(q)}
    BY <1>1 DEF ToSet
  <1>4. p \in Seq(ToSet(p)) /\ Len(p) = Len(q)
    <2> DEFINE S == ToSet(p)
    <2>1. \A k \in 1..Len(q) : p[k] \in S
      BY <1>3
    <2> HIDE DEF S
    <2>2. p \in [1..Len(q) -> S]
      BY <1>1, <2>1
    <2> QED
      BY <1>1, <2>2 DEF S
  <1> QED
    <2>1. /\ \A m \in ToSet(p) : IsMutation(m)
          /\ \A m \in ToSet(p) : \E n \in ToSet(q) : SameMutation(m, n)
      BY <1>2, <1>3
    <2>2. ASSUME NEW n \in ToSet(q) PROVE \E m \in ToSet(p) : SameMutation(m, n)
      <3>1. PICK k \in 1..Len(q) : n = q[k]
        BY <1>3
      <3>2. p[k] \in ToSet(p)
        BY <1>3
      <3> QED
        BY <1>2, <3>1, <3>2
    <2> QED
      BY <1>4, <2>1, <2>2 DEF IsQueue

(* A tab's new command: the others keep theirs.                            *)
LEMMA TabSet ==
    ASSUME cmd = [u \in Tabs |-> cmd[u]], NEW b \in Tabs, NEW c, cmd' = [cmd EXCEPT ![b] = c]
    PROVE  /\ cmd' = [u \in Tabs |-> cmd'[u]] /\ cmd'[b] = c
           /\ \A u \in Tabs \ {b} : cmd'[u] = cmd[u]
  OBVIOUS

(* What a begun command holds.                                             *)
Holds(c, puts, m, e, mark) ==
    /\ c.step = "write" /\ c.puts = puts /\ c.mutation = m
    /\ c.event = e /\ c.mark = mark /\ c.stale = FALSE
    /\ c = [step |-> c.step, puts |-> c.puts, mutation |-> c.mutation,
            event |-> c.event, mark |-> c.mark, stale |-> c.stale]

LEMMA BeginFacts ==
    ASSUME TypeInv, NEW puts, NEW m, NEW e, NEW mark, Begin(puts, m, e, mark)
    PROVE  /\ \E b \in Tabs : /\ Holds(cmd'[b], puts, m, e, mark)
                              /\ \A u \in Tabs \ {b} : cmd'[u] = cmd[u]
           /\ cmd' = [u \in Tabs |-> cmd'[u]]
           /\ UNCHANGED <<boundVars, device, outbox, made, snap, cloudVars, doubtful>>
  <1> DEFINE c == [NoCommand EXCEPT !.step = "write", !.puts = puts, !.mutation = m,
                                    !.event = e, !.mark = mark]
  <1>1. PICK b \in Tabs : cmd' = [cmd EXCEPT ![b] = c]
    BY DEF Begin
  <1>2. Holds(c, puts, m, e, mark)
    <2>1. SUFFICES ASSUME NEW d, d = c PROVE Holds(d, puts, m, e, mark)
      OBVIOUS
    <2>2. /\ NoCommand = [step |-> NoCommand.step, puts |-> NoCommand.puts,
                          mutation |-> NoCommand.mutation, event |-> NoCommand.event,
                          mark |-> NoCommand.mark, stale |-> NoCommand.stale]
          /\ NoCommand.stale = FALSE
      BY DEF NoCommand
    <2> QED
      BY <2>1, <2>2 DEF Holds
  <1> HIDE DEF c
  <1>3. cmd = [u \in Tabs |-> cmd[u]]
    BY DEF TypeInv
  <1>4. /\ cmd' = [u \in Tabs |-> cmd'[u]] /\ cmd'[b] = c
        /\ \A u \in Tabs \ {b} : cmd'[u] = cmd[u]
    BY <1>1, <1>3, TabSet
  <1> QED
    BY <1>2, <1>4 DEF Begin

(* Beginning a command keeps the types.                                    *)
LEMMA BeginTypes == TypeInv /\ Beginning => TypeInv'
  <1> SUFFICES ASSUME TypeInv, Beginning PROVE TypeInv'
    OBVIOUS
  <1>1. PICK puts, m, e, mark : Begin(puts, m, e, mark) /\ Begun(puts, m, e, mark)
    BY DEF Beginning
  <1>2. /\ cmd' = [u \in Tabs |-> cmd'[u]]
        /\ UNCHANGED <<boundVars, device, outbox, made, snap, cloudVars, doubtful>>
    BY <1>1, BeginFacts
  <1>3. PICK b \in Tabs : /\ Holds(cmd'[b], puts, m, e, mark)
                          /\ \A u \in Tabs \ {b} : cmd'[u] = cmd[u]
    BY <1>1, BeginFacts
  <1>4. ASSUME NEW c, Holds(c, puts, m, e, mark) PROVE IsTab(c)
    BY <1>1, <1>4 DEF IsTab, IsCommand, IsBegun, Begun, Undoes, Puts, Holds
  <1>5. \A u \in Tabs : IsTab(cmd'[u])
    BY <1>3, <1>4 DEF TypeInv
  <1> QED
    BY <1>2, <1>5 DEF TypeInv, cloudVars

(* The command of an undo that only marks.                                 *)
LEMMA MarksFacts ==
    ASSUME TypeInv, NEW n \in Numbers, Marks(n)
    PROVE  /\ \E b \in Tabs : /\ cmd'[b].step = "mark" /\ cmd'[b].mark = n /\ IsTab(cmd'[b])
                              /\ \A u \in Tabs \ {b} : cmd'[u] = cmd[u]
           /\ cmd' = [u \in Tabs |-> cmd'[u]]
           /\ UNCHANGED <<boundVars, device, outbox, made, snap, cloudVars>>
  <1> DEFINE c == [NoCommand EXCEPT !.step = "mark", !.mark = n]
  <1>1. PICK b \in Tabs : cmd' = [cmd EXCEPT ![b] = c]
    BY DEF Marks
  <1>2. c.step = "mark" /\ c.mark = n /\ IsTab(c)
    BY NewIdle DEF NoCommand, IsTab
  <1> HIDE DEF c
  <1>3. cmd = [u \in Tabs |-> cmd[u]]
    BY DEF TypeInv
  <1>4. /\ cmd' = [u \in Tabs |-> cmd'[u]] /\ cmd'[b] = c
        /\ \A u \in Tabs \ {b} : cmd'[u] = cmd[u]
    BY <1>1, <1>3, TabSet
  <1> QED
    BY <1>2, <1>4 DEF Marks

(* So does an undo that only marks,                                        *)
LEMMA MarksTypes == TypeInv /\ MarksOnly => TypeInv'
  <1> SUFFICES ASSUME TypeInv, MarksOnly PROVE TypeInv'
    OBVIOUS
  <1>1. PICK n \in Numbers : Marks(n)
    BY DEF MarksOnly
  <1>2. /\ cmd' = [u \in Tabs |-> cmd'[u]] /\ \A u \in Tabs : IsTab(cmd'[u])
        /\ UNCHANGED <<device, outbox, made, snap, cloudVars>>
    BY <1>1, MarksFacts DEF TypeInv
  <1> QED
    BY <1>2 DEF TypeInv, cloudVars

(* Rows replaced under a command may make it stale and nothing else.       *)
LEMMA UnderReads ==
    ASSUME NEW c, IsCommand(c), NEW rows
    PROVE  LET u == Under(c, rows) IN
           /\ IsCommand(u) /\ u.step = c.step /\ u.puts = c.puts /\ u.mutation = c.mutation
           /\ u.event = c.event /\ u.mark = c.mark
           /\ u.stale = (c.stale \/ Overtaken(c, rows))
           /\ IsTab(c) => IsTab(u)
  <1> DEFINE stale == c.stale \/ Overtaken(c, rows)
  <1>1. Under(c, rows) = [c EXCEPT !.stale = stale]
    BY DEF Under
  <1>2. stale \in BOOLEAN
    OBVIOUS
  <1>3. SUFFICES ASSUME NEW u, u = [c EXCEPT !.stale = stale]
                 PROVE  /\ IsCommand(u) /\ u.step = c.step /\ u.puts = c.puts
                        /\ u.mutation = c.mutation /\ u.event = c.event /\ u.mark = c.mark
                        /\ u.stale = stale /\ (IsTab(c) => IsTab(u))
    BY <1>1
  <1> HIDE DEF stale
  <1>4. /\ IsCommand(u) /\ u.step = c.step /\ u.puts = c.puts
        /\ u.mutation = c.mutation /\ u.event = c.event /\ u.mark = c.mark
        /\ u.stale = stale
    BY <1>2, <1>3 DEF IsCommand
  <1>5. IsBegun(c) => IsBegun(u)
    BY <1>4 DEF IsBegun
  <1> QED
    BY <1>4, <1>5 DEF IsTab

(* What is left of a command that wrote: nothing, or the mark.             *)
LEMMA RestReads ==
    ASSUME NEW c, IsCommand(c)
    PROVE  /\ IsTab(Rest(c)) /\ Rest(c).step # "write"
           /\ Rest(c).step = "mark" => c.mark # 0 /\ Rest(c).mark = c.mark
  <1>1. CASE c.mark = 0
    BY <1>1, NewIdle DEF Rest, IsTab
  <1>2. CASE c.mark # 0
    <2>1. c.mark \in Numbers /\ Rest(c) = [NoCommand EXCEPT !.step = "mark", !.mark = c.mark]
      BY <1>2 DEF IsCommand, Rest
    <2>2. /\ [NoCommand EXCEPT !.step = "mark", !.mark = c.mark].step = "mark"
          /\ [NoCommand EXCEPT !.step = "mark", !.mark = c.mark].mark = c.mark
      BY DEF NoCommand
    <2> QED
      BY <1>2, <2>1, <2>2, NewIdle DEF IsTab
  <1> QED
    BY <1>1, <1>2

(* The two mutations a command queues.                                     *)
LEMMA QueuedTypes ==
    ASSUME TypeInv, NEW b \in Tabs, Write(b)
    PROVE  LET m == cmd[b].mutation
               r == Record(made + 1, cmd[b].event)
           IN  /\ IsMutation(m) /\ ~m.dead /\ m.kind # "event"
               /\ IsMutation(r) /\ ~r.dead /\ r.kind = "event" /\ r.op = "record"
               /\ r.id = made + 1 /\ r.row = cmd[b].event /\ made + 1 \in Numbers
               /\ outbox' = Append(Append(outbox, m), r)
               /\ IsQueue(Append(outbox, m)) /\ IsQueue(outbox')
               /\ ToSet(outbox') = ToSet(outbox) \union {m, r}
  <1> DEFINE m == cmd[b].mutation
             r == Record(made + 1, cmd[b].event)
  <1>1. IsBegun(cmd[b]) /\ made \in Nat /\ made < MaxCommands /\ IsQueue(outbox)
    BY DEF TypeInv, IsTab, Write
  <1>2. IsMutation(m) /\ ~m.dead /\ m.kind # "event"
    BY <1>1 DEF IsBegun
  <1>3. made + 1 \in Numbers
    BY <1>1, IdsAssumption DEF Numbers
  <1>4. /\ r.kind = "event" /\ r.op = "record" /\ r.id = made + 1 /\ r.row = cmd[b].event
        /\ r = [kind |-> r.kind, op |-> r.op, id |-> r.id, row |-> r.row, dead |-> r.dead]
        /\ r.dead = FALSE
    BY DEF Record, Mutation
  <1>5. cmd[b].event # NoEvent
    BY <1>1 DEF IsBegun, NoEvent, Event
  <1>6. outbox' = outbox \o <<m, r>>
    BY DEF Write, Queued
  <1> HIDE DEF m, r
  <1>7. IsMutation(r)
    BY <1>1, <1>3, <1>4, <1>5 DEF IsMutation, IsRow, IsBegun
  <1>8. outbox' = Append(Append(outbox, m), r)
    <2> DEFINE S == ToSet(outbox) \union {m, r}
    <2>1. outbox \in Seq(S) /\ m \in S /\ r \in S
      BY <1>1 DEF IsQueue
    <2> HIDE DEF S
    <2> QED
      BY <1>6, <2>1
  <1>9. /\ IsQueue(Append(outbox, m)) /\ ToSet(Append(outbox, m)) = ToSet(outbox) \union {m}
    BY <1>1, <1>2, AppendQueue
  <1>10. /\ IsQueue(outbox')
         /\ ToSet(outbox') = (ToSet(outbox) \union {m}) \union {r}
    BY <1>7, <1>8, <1>9, AppendQueue
  <1> QED
    BY <1>2, <1>3, <1>4, <1>7, <1>8, <1>9, <1>10 DEF m, r

(* the write of a command,                                                 *)
LEMMA WriteTypes == ASSUME TypeInv, NEW b \in Tabs, Write(b) PROVE TypeInv'
  <1>1. IsBegun(cmd[b]) /\ \A u \in Tabs : IsTab(cmd[u]) /\ IsCommand(cmd[u])
    BY DEF TypeInv, IsTab, Write
  <1>2. made + 1 \in Numbers /\ IsQueue(outbox')
    BY QueuedTypes
  <1>3. IsDb(device')
    <2>1. Puts(cmd[b].puts, cmd[b].mutation) /\ IsEvent(cmd[b].event)
      BY <1>1 DEF IsBegun, Puts
    <2>2. device' = Put(Written(cmd[b].puts), "event", made + 1, cmd[b].event)
      BY DEF Write, Put
    <2> QED
      BY <1>2, <2>1, <2>2, WrittenTypes DEF TypeInv
  <1>4. cmd' = [u \in Tabs |-> IF u = b THEN Rest(cmd[u]) ELSE Under(cmd[u], device')]
    BY DEF Write
  <1>5. \A u \in Tabs : IsTab(Rest(cmd[u])) /\ IsTab(Under(cmd[u], device'))
    BY <1>1, RestReads, UnderReads
  <1>6. cmd' = [u \in Tabs |-> cmd'[u]] /\ \A u \in Tabs : IsTab(cmd'[u])
    BY <1>4, <1>5
  <1>7. made' \in Nat /\ made' <= MaxCommands
    BY IdsAssumption DEF TypeInv, Write
  <1> QED
    BY <1>2, <1>3, <1>6, <1>7 DEF TypeInv, Write, cloudVars

(* The mark of an undone event.                                            *)
Undone(v) == [v EXCEPT !.undone = TRUE, !.undoable = FALSE]

(* What marking does to an event.                                          *)
LEMMA UndoneReads ==
    ASSUME NEW v, IsEvent(v)
    PROVE  IsEvent(Undone(v)) /\ Undone(v).undone /\ Undone(v) # NoEvent /\ SameEvent(Undone(v), v)
  <1>1. SUFFICES ASSUME NEW w, w = Undone(v)
                 PROVE  IsEvent(w) /\ w.undone = TRUE /\ w # NoEvent /\ SameEvent(w, v)
    OBVIOUS
  <1>2. /\ w = [table |-> w.table, id |-> w.id, action |-> w.action,
                before |-> w.before, undoable |-> w.undoable, undone |-> w.undone]
        /\ w.table = v.table /\ w.id = v.id /\ w.action = v.action /\ w.before = v.before
        /\ w.undone = TRUE
    BY <1>1 DEF Undone, IsEvent
  <1>3. w # NoEvent
    BY <1>2 DEF NoEvent, Event
  <1> QED
    BY <1>2, <1>3 DEF IsEvent, SameEvent

(* A tab that is at rest again; the others keep their commands.            *)
IdleNow(b) ==
    /\ cmd' = [u \in Tabs |-> cmd'[u]]
    /\ cmd'[b].step = "idle" /\ IsTab(cmd'[b])
    /\ \A u \in Tabs \ {b} : cmd'[u] = cmd[u]

LEMMA IdleFacts ==
    ASSUME TypeInv, NEW b \in Tabs, cmd' = [cmd EXCEPT ![b] = NoCommand]
    PROVE  IdleNow(b)
  <1>1. cmd = [u \in Tabs |-> cmd[u]]
    BY DEF TypeInv
  <1>2. /\ cmd' = [u \in Tabs |-> cmd'[u]] /\ cmd'[b] = NoCommand
        /\ \A u \in Tabs \ {b} : cmd'[u] = cmd[u]
    BY <1>1, TabSet
  <1> QED
    BY <1>2, NewIdle DEF IdleNow, IsTab

(* What the mark step does.                                                *)
LEMMA MarkReads ==
    ASSUME TypeInv, NEW b \in Tabs, MarkActivityUndone(b)
    PROVE  LET n == cmd[b].mark
               u == Mutation("event", "undo", n, NoRow)
           IN  /\ n \in Numbers /\ IdleNow(b)
               /\ IsMutation(u) /\ ~u.dead /\ u.kind = "event" /\ u.op = "undo" /\ u.id = n
               /\ \/ UNCHANGED <<device, outbox>>
                  \/ /\ device.event[n] # NoEvent
                     /\ device' = Put(device, "event", n, Undone(device.event[n]))
                     /\ outbox' = Append(outbox, u)
                     /\ IsQueue(outbox') /\ ToSet(outbox') = ToSet(outbox) \union {u}
                     /\ IsDb(device')
                     /\ \A t \in Tables : \A id \in IdsOf(t) :
                          device'[t][id] = IF t = "event" /\ id = n THEN Undone(device.event[n])
                                           ELSE device[t][id]
  <1> DEFINE n == cmd[b].mark
             u == Mutation("event", "undo", n, NoRow)
  <1>1. n \in Numbers /\ IdleNow(b)
    BY IdleFacts DEF TypeInv, IsTab, MarkActivityUndone, IsCommand
  <1>2. /\ u.kind = "event" /\ u.op = "undo" /\ u.id = n /\ u.dead = FALSE
        /\ u = [kind |-> u.kind, op |-> u.op, id |-> u.id, row |-> u.row, dead |-> u.dead]
    BY DEF Mutation
  <1> HIDE DEF u
  <1>3. IsMutation(u)
    BY <1>1, <1>2 DEF IsMutation
  <1>4. ASSUME device.event[n] # NoEvent,
               device' = [device EXCEPT !.event[n].undone = TRUE, !.event[n].undoable = FALSE],
               outbox' = Append(outbox, u)
        PROVE  /\ device' = Put(device, "event", n, Undone(device.event[n]))
               /\ outbox' = Append(outbox, u)
               /\ IsQueue(outbox') /\ ToSet(outbox') = ToSet(outbox) \union {u}
               /\ IsDb(device')
               /\ \A t \in Tables : \A id \in IdsOf(t) :
                    device'[t][id] = IF t = "event" /\ id = n THEN Undone(device.event[n])
                                     ELSE device[t][id]
    <2>1. IsQueue(outbox') /\ ToSet(outbox') = ToSet(outbox) \union {u}
      BY <1>3, <1>4, AppendQueue DEF TypeInv
    <2>2. device' = Put(device, "event", n, Undone(device.event[n]))
      <3>1. device = [t \in Tables |-> device[t]] /\ "event" \in Tables
            /\ device["event"] = [id \in Numbers |-> device["event"][id]]
        BY DEF TypeInv, IsDb, Tables, IdsOf
      <3> QED
        BY <1>1, <1>4, <3>1 DEF Put, Undone
    <2>3. "event" \in Tables /\ n \in IdsOf("event") /\ IsRow("event", n, Undone(device.event[n]))
      BY <1>1, RowTypes, UndoneReads DEF TypeInv, Tables, IdsOf, IsRow
    <2>4. IsDb(device)
      BY DEF TypeInv
    <2> DEFINE v == Undone(device.event[n])
               d == Put(device, "event", n, v)
    <2>5. /\ IsDb(d)
          /\ \A t \in Tables : \A id \in IdsOf(t) :
               d[t][id] = IF t = "event" /\ id = n THEN v ELSE device[t][id]
      BY <2>3, <2>4, PutReads
    <2> HIDE DEF v, d
    <2> QED
      BY <1>4, <2>1, <2>2, <2>5 DEF v, d
  <1> QED
    BY <1>1, <1>2, <1>3, <1>4 DEF MarkActivityUndone, u

(* the mark of an undo,                                                    *)
LEMMA MarkTypes == ASSUME TypeInv, NEW b \in Tabs, MarkActivityUndone(b) PROVE TypeInv'
  <1>1. IsDb(device') /\ IsQueue(outbox') /\ IdleNow(b)
    BY MarkReads DEF TypeInv
  <1>2. cmd' = [u \in Tabs |-> cmd'[u]] /\ \A u \in Tabs : IsTab(cmd'[u])
    BY <1>1 DEF TypeInv, IdleNow
  <1> QED
    BY <1>1, <1>2 DEF TypeInv, MarkActivityUndone, cloudVars

(* the closing of a tab,                                                   *)
LEMMA CloseTypes == ASSUME TypeInv, NEW b \in Tabs, CloseTab(b) PROVE TypeInv'
  <1>1. IdleNow(b)
    BY IdleFacts DEF CloseTab
  <1>2. cmd' = [u \in Tabs |-> cmd'[u]] /\ \A u \in Tabs : IsTab(cmd'[u])
    BY <1>1 DEF TypeInv, IdleNow
  <1> QED
    BY <1>2 DEF TypeInv, CloseTab, cloudVars

(* A rejected push turns everything into dead letters.                     *)
Rejected == base # revision /\ outbox' = [k \in DOMAIN outbox |-> [outbox[k] EXCEPT !.dead = TRUE]]

(* A rejected push leaves the same mutations, all of them dead.            *)
LEMMA RejectedTypes ==
    ASSUME IsQueue(outbox), Rejected
    PROVE  /\ IsQueue(outbox')
           /\ \A m \in ToSet(outbox') : \E n \in ToSet(outbox) : SameMutation(m, n)
           /\ \A m \in ToSet(outbox') : m.dead
  <1> DEFINE p == [k \in DOMAIN outbox |-> [outbox[k] EXCEPT !.dead = TRUE]]
  <1>1. /\ p = [k \in DOMAIN outbox |-> p[k]]
        /\ \A k \in DOMAIN outbox : \E d \in BOOLEAN : p[k] = [outbox[k] EXCEPT !.dead = d]
        /\ \A k \in DOMAIN outbox : p[k] = [outbox[k] EXCEPT !.dead = TRUE]
        /\ DOMAIN p = DOMAIN outbox /\ outbox' = p
    BY DEF Rejected
  <1> HIDE DEF p
  <1>2. /\ IsQueue(p)
        /\ \A m \in ToSet(p) : \E n \in ToSet(outbox) : SameMutation(m, n)
    BY <1>1, FlagTypes
  <1>3. \A k \in DOMAIN outbox : p[k].dead
    <2> TAKE k \in DOMAIN outbox
    <2>1. IsMutation(outbox[k])
      BY DEF IsQueue, ToSet
    <2> QED
      BY <1>1, <2>1 DEF IsMutation
  <1> QED
    BY <1>1, <1>2, <1>3 DEF ToSet

(* a push,                                                                 *)
LEMMA PushTypes == TypeInv /\ Push => TypeInv'
  <1> SUFFICES ASSUME TypeInv, Push PROVE TypeInv'
    OBVIOUS
  <1>1. IsDb(server') /\ IsQueue(outbox')
    <2>1. CASE base # revision
      BY <2>1, RejectedTypes DEF TypeInv, Push, Rejected
    <2>2. CASE base = revision
      BY <2>2, ReplayTypes DEF TypeInv, Push, IsOutcome
    <2> QED
      BY <2>1, <2>2
  <1> QED
    BY <1>1 DEF TypeInv, Push

(* the fetch of a snapshot,                                                *)
LEMMA FetchTypes == TypeInv /\ FetchSnapshot => TypeInv'
  BY DEF TypeInv, FetchSnapshot, cloudVars

(* What a pull leaves in each table.                                       *)
LEMMA PulledReads ==
    ASSUME TypeInv, snap # NoSnapshot
    PROVE  /\ IsDb(Pulled)
           /\ \A t \in Tables \ {"event"} : Pulled[t] = snap.rows[t]
           /\ \A n \in Numbers : Pulled.event[n] =
                IF snap.rows.event[n] = NoEvent THEN device.event[n] ELSE snap.rows.event[n]
  <1> DEFINE s == snap.rows
             log == [n \in Numbers |-> IF s.event[n] = NoEvent THEN device.event[n] ELSE s.event[n]]
  <1>1. IsDb(s) /\ IsDb(device)
    BY DEF TypeInv
  <1>2. s = [t \in Tables |-> s[t]] /\ "event" \in Tables /\ IdsOf("event") = Numbers
    BY <1>1 DEF IsDb, Tables, IdsOf
  <1>3. Pulled = [s EXCEPT !.event = log]
    BY DEF Pulled
  <1> HIDE DEF s, log
  <1>4. Pulled = [t \in Tables |-> IF t = "event" THEN log ELSE s[t]]
    BY <1>2, <1>3
  <1>5. \A n \in Numbers : IsRow("event", n, log[n])
    BY <1>1, RowTypes DEF IsRow, log
  <1>6. \A t \in Tables : /\ Pulled[t] = [id \in IdsOf(t) |-> Pulled[t][id]]
                          /\ \A id \in IdsOf(t) : IsRow(t, id, Pulled[t][id])
    <2> TAKE t \in Tables
    <2>1. CASE t = "event"
      <3>1. log = [n \in Numbers |-> log[n]]
        BY DEF log
      <3> QED
        BY <1>2, <1>4, <1>5, <2>1, <3>1
    <2>2. CASE t # "event"
      BY <1>1, <1>4, <2>2 DEF IsDb
    <2> QED
      BY <2>1, <2>2
  <1>7. IsDb(Pulled)
    BY <1>4, <1>6 DEF IsDb
  <1> QED
    BY <1>2, <1>4, <1>7 DEF s, log

(* its application,                                                        *)
LEMMA ApplyTypes == TypeInv /\ ApplySnapshot => TypeInv'
  <1> SUFFICES ASSUME TypeInv, ApplySnapshot PROVE TypeInv'
    OBVIOUS
  <1>1. IsDb(device')
    BY PulledReads DEF ApplySnapshot
  <1>2. \A u \in Tabs : IsTab(Under(cmd[u], Pulled))
    BY UnderReads DEF TypeInv, IsTab
  <1>3. cmd' = [u \in Tabs |-> cmd'[u]] /\ \A u \in Tabs : IsTab(cmd'[u])
    BY <1>2 DEF ApplySnapshot
  <1> QED
    BY <1>1, <1>3 DEF TypeInv, ApplySnapshot

(* The queue after a dead letter was revived.                              *)
LEMMA RetryTypes ==
    ASSUME IsQueue(outbox), NEW k \in DOMAIN outbox, outbox[k].dead,
           outbox' = [outbox EXCEPT ![k].dead = FALSE]
    PROVE  /\ IsQueue(outbox') /\ Len(outbox') = Len(outbox) /\ DOMAIN outbox' = DOMAIN outbox
           /\ \A m \in ToSet(outbox') : \E n \in ToSet(outbox) : SameMutation(m, n)
           /\ \A n \in ToSet(outbox) : n.dead \/ n \in ToSet(outbox')
           /\ SameMutation(outbox'[k], outbox[k])
           /\ \A i \in DOMAIN outbox \ {k} : outbox'[i] = outbox[i]
  <1> DEFINE p == [outbox EXCEPT ![k].dead = FALSE]
  <1>1. \A i \in DOMAIN outbox : IsMutation(outbox[i])
    BY DEF IsQueue, ToSet
  <1>2. /\ p = [i \in DOMAIN outbox |-> p[i]] /\ DOMAIN p = DOMAIN outbox
        /\ p[k] = [outbox[k] EXCEPT !.dead = FALSE]
        /\ \A i \in DOMAIN outbox \ {k} : p[i] = outbox[i]
    BY Queues
  <1>3. \A i \in DOMAIN outbox : \E d \in BOOLEAN : p[i] = [outbox[i] EXCEPT !.dead = d]
    <2> TAKE i \in DOMAIN outbox
    <2>1. CASE i = k
      BY <1>2, <2>1
    <2>2. CASE i # k
      <3>1. outbox[i] = [outbox[i] EXCEPT !.dead = outbox[i].dead] /\ outbox[i].dead \in BOOLEAN
        BY <1>1 DEF IsMutation
      <3> QED
        BY <1>2, <2>2, <3>1
    <2> QED
      BY <2>1, <2>2
  <1>4. outbox' = p
    OBVIOUS
  <1> HIDE DEF p
  <1>5. /\ IsQueue(p) /\ Len(p) = Len(outbox)
        /\ \A m \in ToSet(p) : \E n \in ToSet(outbox) : SameMutation(m, n)
    BY <1>2, <1>3, FlagTypes
  <1>6. SameMutation(p[k], outbox[k])
    BY <1>1, <1>2 DEF SameMutation, IsMutation
  <1>7. /\ \A n \in ToSet(outbox) : \E i \in DOMAIN outbox : n = outbox[i]
        /\ \A i \in DOMAIN p : p[i] \in ToSet(p)
    BY DEF ToSet
  <1> QED
    <2>1. \A n \in ToSet(outbox) : n.dead \/ n \in ToSet(outbox')
      <3> TAKE n \in ToSet(outbox)
      <3>1. PICK i \in DOMAIN outbox : n = outbox[i]
        BY <1>7
      <3>2. p[i] \in ToSet(p)
        BY <1>2, <1>7
      <3>3. ToSet(p) = ToSet(outbox')
        BY <1>4
      <3> QED
        BY <1>2, <3>1, <3>2, <3>3
    <2> QED
      BY <1>2, <1>4, <1>5, <1>6, <2>1

(* the retry of a dead letter,                                             *)
LEMMA RetriedTypes == TypeInv /\ RetryDeadLetter => TypeInv'
  <1> SUFFICES ASSUME TypeInv, RetryDeadLetter PROVE TypeInv'
    OBVIOUS
  <1>1. IsQueue(outbox')
    BY RetryTypes DEF TypeInv, RetryDeadLetter
  <1> QED
    BY <1>1 DEF TypeInv, RetryDeadLetter, cloudVars

(* What another device sends is a mutation.                                *)
LEMMA OthersTypes ==
    ASSUME NEW m \in OthersMutations
    PROVE  IsMutation(m) /\ m.kind # "event" /\ ~m.dead
  <1>1. \/ \E e \in Entries, op \in {"update", "delete"} :
             m = Mutation(KindOf(e), op, e, Entry("live", MaxCommands + 1))
        \/ \E x \in Students : m = Mutation("student", "archive", x, NoRow)
        \/ \E a \in Appointments, c \in Clients : m = OthersAppointment(a, c)
        \/ \E r \in Receipts, c \in Clients, a \in Appointments :
             m = Mutation("receipt", "create", r, Receipt("live", c, a))
    <2> DEFINE edits == {Mutation(KindOf(e), op, e, Entry("live", MaxCommands + 1)) :
                           e \in Entries, op \in {"update", "delete"}}
               archives == {Mutation("student", "archive", x, NoRow) : x \in Students}
               meets == {OthersAppointment(a, c) : a \in Appointments, c \in Clients}
               pays == {Mutation("receipt", "create", r, Receipt("live", c, a)) :
                           r \in Receipts, c \in Clients, a \in Appointments}
    <2>1. m \in edits \union archives \union meets \union pays
      BY DEF OthersMutations
    <2>2. m \in edits => \E e \in Entries, op \in {"update", "delete"} :
                           m = Mutation(KindOf(e), op, e, Entry("live", MaxCommands + 1))
      OBVIOUS
    <2>3. m \in archives => \E x \in Students : m = Mutation("student", "archive", x, NoRow)
      OBVIOUS
    <2>4. m \in meets => \E a \in Appointments, c \in Clients :
                           m = OthersAppointment(a, c)
      OBVIOUS
    <2>5. m \in pays => \E r \in Receipts, c \in Clients, a \in Appointments :
                           m = Mutation("receipt", "create", r, Receipt("live", c, a))
      OBVIOUS
    <2> HIDE DEF edits, archives, meets, pays
    <2> QED
      BY <2>1, <2>2, <2>3, <2>4, <2>5
  <1>2. ASSUME NEW e \in Entries, NEW op \in {"update", "delete"},
               m = Mutation(KindOf(e), op, e, Entry("live", MaxCommands + 1))
        PROVE  IsMutation(m) /\ m.kind # "event" /\ ~m.dead
    <2>1. KindOf(e) \in {"expense", "income", "cash"}
      BY DEF KindOf
    <2> QED
      BY <1>2, <2>1 DEF IsMutation, Mutation, IsRow, Plain, Entry
  <1>3. ASSUME NEW x \in Students, m = Mutation("student", "archive", x, NoRow)
        PROVE  IsMutation(m) /\ m.kind # "event" /\ ~m.dead
    BY <1>3 DEF IsMutation, Mutation, IsRow, Plain, NoRow
  <1>4. ASSUME NEW a \in Appointments, NEW c \in Clients,
               m = OthersAppointment(a, c)
        PROVE  IsMutation(m) /\ m.kind # "event" /\ ~m.dead
    BY <1>4 DEF OthersAppointment, IsMutation, Mutation, IsRow, IsAppointment, Appointment
  <1>5. ASSUME NEW r \in Receipts, NEW c \in Clients, NEW a \in Appointments,
               m = Mutation("receipt", "create", r, Receipt("live", c, a))
        PROVE  IsMutation(m) /\ m.kind # "event" /\ ~m.dead
    BY <1>5 DEF IsMutation, Mutation, IsRow, IsReceipt, Receipt
  <1> QED
    BY <1>1, <1>2, <1>3, <1>4, <1>5

(* and another device's change.                                            *)
LEMMA ForeignTypes == TypeInv /\ ForeignChange => TypeInv'
  <1> SUFFICES ASSUME TypeInv, ForeignChange PROVE TypeInv'
    OBVIOUS
  <1>1. PICK m \in OthersMutations : server' = Effect(server, m)
    BY DEF ForeignChange
  <1>2. IsDb(server')
    BY <1>1, OthersTypes, EffectReads DEF TypeInv
  <1> QED
    BY <1>2 DEF TypeInv, ForeignChange

(* Every step keeps the types.                                             *)
LEMMA NextTypes == TypeInv /\ [Next]_vars => TypeInv'
  <1> SUFFICES ASSUME TypeInv, [Next]_vars PROVE TypeInv'
    OBVIOUS
  <1>1. CASE Next
    <2>1. IsDb(device)
      BY DEF TypeInv
    <2> QED
      BY <1>1, <2>1, Steps, BeginTypes, MarksTypes, WriteTypes, MarkTypes, CloseTypes, PushTypes,
         FetchTypes, ApplyTypes, RetriedTypes, ForeignTypes
  <1>2. CASE UNCHANGED vars
    BY <1>2 DEF TypeInv, vars, cloudVars
  <1> QED
    BY <1>1, <1>2

(* The variables hold what their comments say, along every behaviour.      *)
THEOREM TypesHold == Spec => []TypeInv
  BY InitTypes, NextTypes, PTL DEF Spec

-----------------------------------------------------------------------------
(* The server's rows stay sound.                                           *)

(* An accepted mutation keeps every collection with its appointment's      *)
(* client.                                                                 *)
LEMMA EffectSound ==
    ASSUME NEW s, IsDb(s), Sound(s), NEW m, IsMutation(m), Refusal(s, m) = "accepted"
    PROVE  Sound(Effect(s, m))
  <1> DEFINE e == Effect(s, m)
  <1>1. {"client", "appointment", "receipt"} \subseteq Tables
        /\ IdsOf("client") = Clients /\ IdsOf("appointment") = Appointments
        /\ IdsOf("receipt") = Receipts
    BY DEF Tables, IdsOf
  <1>2. \A t \in Tables : \A id \in IdsOf(t) : e[t][id] = RowAfter(s, m, t, id)
    BY EffectReads
  <1>3. /\ \A c \in Clients : e["client"][c] =
             IF m.kind = "client" /\ c = m.id THEN NewRow(m, s["client"][c]) ELSE s["client"][c]
        /\ \A a \in Appointments : e["appointment"][a] =
             IF m.kind = "appointment" /\ a = m.id
             THEN NewRow(m, s["appointment"][a]) ELSE s["appointment"][a]
        /\ \A r \in Receipts : e["receipt"][r] =
             IF m.kind = "receipt" /\ r = m.id THEN NewRow(m, s["receipt"][r]) ELSE s["receipt"][r]
    BY <1>1, <1>2 DEF RowAfter, TableOf
  <1>4. /\ \A a \in Appointments : IsAppointment(s["appointment"][a])
        /\ \A r \in Receipts : IsReceipt(s["receipt"][r])
    BY RowTypes
  <1> HIDE DEF e
  <1>5. ASSUME NEW r \in Receipts, e["receipt"][r].state = "live",
               e["receipt"][r].appointment # Nobody
        PROVE  LET row == e["receipt"][r] IN
               /\ e["appointment"][row.appointment].state = "live"
               /\ e["appointment"][row.appointment].client = row.client
    <2>1. CASE m.kind = "receipt" /\ r = m.id
      <3>1. e["receipt"][r] = IF s["receipt"][r].state = "absent" THEN m.row ELSE s["receipt"][r]
        BY <1>3, <2>1 DEF NewRow, IsMutation
      <3>2. IsReceipt(m.row)
        BY <2>1 DEF IsMutation, IsRow
      <3>3. \A a \in Appointments : e["appointment"][a] = s["appointment"][a]
        BY <1>3, <2>1
      <3>4. CASE s["receipt"][r].state = "absent"
        <4>1. m.row.appointment \in Appointments
          BY <1>5, <3>1, <3>2, <3>4 DEF IsReceipt
        <4>2. /\ Live(s, "appointment", m.row.appointment)
              /\ s["appointment"][m.row.appointment].client = m.row.client
          BY <1>5, <2>1, <3>1, <3>4 DEF Refusal, ReceiptRefusal
        <4>3. s["appointment"][m.row.appointment].state = "live"
          BY <4>1, <4>2, <1>4 DEF Live, IsAppointment
        <4> QED
          BY <3>1, <3>3, <3>4, <4>1, <4>2, <4>3
      <3>5. CASE s["receipt"][r].state # "absent"
        BY <1>4, <1>5, <3>1, <3>3, <3>5 DEF Sound, IsReceipt
      <3> QED
        BY <3>4, <3>5
    <2>2. CASE ~(m.kind = "receipt" /\ r = m.id)
      <3> DEFINE a == s["receipt"][r].appointment
      <3>1. e["receipt"][r] = s["receipt"][r]
        BY <1>3, <2>2
      <3>2. /\ a \in Appointments /\ s["appointment"][a].state = "live"
            /\ s["appointment"][a].client = s["receipt"][r].client
        BY <1>4, <1>5, <3>1 DEF Sound, IsReceipt
      <3>3. CASE m.kind = "appointment" /\ a = m.id
        <4>1. e["appointment"][a] = m.row /\ m.row.state = "live"
          BY <1>3, <3>2, <3>3 DEF NewRow, IsMutation
        <4>2. Linked(s, a)
          BY <1>5, <3>1 DEF Linked
        <4>3. s["appointment"][a].client = m.row.client
          BY <3>2, <3>3, <4>2 DEF Refusal, AppointmentRefusal
        <4> QED
          BY <3>1, <3>2, <4>1, <4>3
      <3>4. CASE ~(m.kind = "appointment" /\ a = m.id)
        BY <1>3, <3>1, <3>2, <3>4
      <3> QED
        BY <3>3, <3>4
    <2> QED
      BY <2>1, <2>2
  <1>6. \A c \in Clients : Live(s, "client", c) => Live(e, "client", c)
    BY <1>3 DEF Live, NewRow, IsMutation
  <1>7. ASSUME NEW a \in Appointments, e["appointment"][a].state = "live",
               e["appointment"][a].client # Nobody
        PROVE  Live(e, "client", e["appointment"][a].client)
    <2>1. CASE m.kind = "appointment" /\ a = m.id
      <3>1. e["appointment"][a] = m.row /\ IsAppointment(m.row)
        BY <1>3, <2>1 DEF NewRow, IsMutation, IsRow
      <3>2. m.row.client \in Clients /\ Live(s, "client", m.row.client)
        BY <1>7, <2>1, <3>1 DEF Refusal, AppointmentRefusal, IsAppointment
      <3> QED
        BY <1>6, <3>1, <3>2
    <2>2. CASE ~(m.kind = "appointment" /\ a = m.id)
      <3>1. e["appointment"][a] = s["appointment"][a]
        BY <1>3, <2>2
      <3>2. s["appointment"][a].client \in Clients /\ Live(s, "client", s["appointment"][a].client)
        BY <1>4, <1>7, <3>1 DEF Sound, IsAppointment
      <3> QED
        BY <1>6, <3>1, <3>2
    <2> QED
      BY <2>1, <2>2
  <1>8. Sound(e)
    BY <1>5, <1>7 DEF Sound
  <1> QED
    BY <1>8 DEF e

(* A replay is made of effects the server accepted.                        *)
LEMMA HandledDb ==
    ASSUME NEW o, IsOutcome(o), NEW m
    PROVE  \/ Handled(o, m).db = o.db
           \/ /\ ~m.dead /\ Refusal(o.db, m) = "accepted"
              /\ Handled(o, m).db = Effect(o.db, m)
  BY DEF Handled, IsOutcome

(* So does a replay.                                                       *)
LEMMA ReplaySound ==
    ASSUME NEW s, IsDb(s), Sound(s), NEW q, IsQueue(q)
    PROVE  Sound(Replay(s, q).db)
  <1> DEFINE S == {j \in 0..Len(q) : Sound(After(s, q, j).db)}
  <1>1. Len(q) \in Nat
    BY Queues
  <1>2. 0 \in S
    BY <1>1, ReplaySteps DEF Start
  <1>3. ASSUME NEW j \in 0..(Len(q) - 1), j \in S PROVE j + 1 \in S
    <2>1. j + 1 \in 0..Len(q) /\ j \in 0..Len(q)
      BY <1>1
    <2>2. After(s, q, j + 1) = Handled(After(s, q, j), q[j + 1]) /\ IsMutation(q[j + 1])
      BY Queues, ReplaySteps DEF IsQueue
    <2>3. IsOutcome(After(s, q, j)) /\ Sound(After(s, q, j).db) /\ IsDb(After(s, q, j).db)
      BY <1>3, <2>1, AfterTypes DEF IsOutcome
    <2>4. Sound(After(s, q, j + 1).db)
      BY <2>2, <2>3, HandledDb, EffectSound
    <2> QED
      BY <2>1, <2>4
  <1> HIDE DEF S
  <1>4. \A j \in 0..Len(q) : j \in S
    BY <1>1, <1>2, <1>3, Replays!HandedOn
  <1>5. Len(q) \in 0..Len(q)
    BY <1>1
  <1> QED
    BY <1>4, <1>5, ReplaySteps DEF S

(* The server begins with no collection.                                   *)
LEMMA InitSound == Init => ServerInv
  <1> SUFFICES ASSUME Init PROVE ServerInv
    OBVIOUS
  <1>1. \A r \in Receipts : server.receipt[r].state # "live"
    BY DEF Init, NoReceipt, Receipt
  <1>2. ASSUME NEW a \in Appointments, server.appointment[a].state = "live"
        PROVE  Live(server, "client", server.appointment[a].client)
    <2> DEFINE c == CHOOSE c \in Clients \intersect Known : TRUE
    <2>1. a \in Known
      BY <1>2 DEF Init, NoAppointment, Appointment
    <2>2. c \in Clients \intersect Known
      BY <2>1, IdsAssumption
    <2>3. server.appointment[a] = Appointment("live", c, {"device", "workspace"}, 0, "scheduled")
      BY <2>1 DEF Init
    <2> HIDE DEF c
    <2>4. server.client[c] = Entry("active", 0)
      BY <2>2 DEF Init
    <2> QED
      BY <2>3, <2>4 DEF Live, Entry, Appointment
  <1>3. snap = NoSnapshot
    BY DEF Init
  <1> QED
    BY <1>1, <1>2, <1>3 DEF ServerInv, Sound

(* Every step keeps the server's rows, and a snapshot's, sound.            *)
LEMMA NextSound == TypeInv /\ ServerInv /\ [Next]_vars => ServerInv'
  <1> SUFFICES ASSUME TypeInv, ServerInv, [Next]_vars PROVE ServerInv'
    OBVIOUS
  <1>1. ASSUME UNCHANGED <<server, snap>> PROVE ServerInv'
    BY <1>1 DEF ServerInv
  <1>2. CASE Beginning
    BY <1>1, <1>2, BeginFacts DEF Beginning, cloudVars
  <1>3. CASE MarksOnly
    BY <1>1, <1>3, MarksFacts DEF MarksOnly, cloudVars
  <1>4. CASE RetryDeadLetter \/ \E b \in Tabs : Write(b) \/ MarkActivityUndone(b)
    BY <1>1, <1>4 DEF Write, MarkActivityUndone, RetryDeadLetter, cloudVars
  <1>5. CASE \E b \in Tabs : CloseTab(b)
    BY <1>5 DEF CloseTab, cloudVars, ServerInv
  <1>6. CASE Push
    <2>1. Sound(server')
      <3>1. CASE base # revision
        BY <1>6, <3>1 DEF Push, ServerInv
      <3>2. CASE base = revision
        BY <1>6, <3>2, ReplaySound DEF Push, ServerInv, TypeInv
      <3> QED
        BY <3>1, <3>2
    <2> QED
      BY <1>6, <2>1 DEF Push, ServerInv
  <1>7. CASE FetchSnapshot
    BY <1>7 DEF FetchSnapshot, cloudVars, ServerInv
  <1>8. CASE ApplySnapshot
    BY <1>8 DEF ApplySnapshot, ServerInv
  <1>9. CASE ForeignChange
    <2>1. PICK m \in OthersMutations : /\ Refusal(server, m) = "accepted"
                                       /\ server' = Effect(server, m)
      BY <1>9 DEF ForeignChange
    <2>2. Sound(server')
      BY <2>1, OthersTypes, EffectSound DEF ServerInv, TypeInv
    <2> QED
      BY <1>9, <2>2 DEF ForeignChange, ServerInv
  <1>10. CASE UNCHANGED vars
    BY <1>1, <1>10 DEF vars, cloudVars
  <1>11. IsDb(device)
    BY DEF TypeInv
  <1> QED
    BY <1>2, <1>3, <1>4, <1>5, <1>6, <1>7, <1>8, <1>9, <1>10, <1>11, Steps

(* On the server a collection for an appointment always names that         *)
(* appointment's client: the handlers keep one device from changing the    *)
(* client while another collects.                                          *)
THEOREM CollectionKeepsItsClientHolds == Spec => []CollectionKeepsItsClient
  <1>1. Init => ServerInv
    BY InitSound
  <1>2. ServerInv => CollectionKeepsItsClient
    BY DEF ServerInv, Sound, CollectionKeepsItsClient
  <1> QED
    BY <1>1, <1>2, TypesHold, NextSound, PTL DEF Spec


-----------------------------------------------------------------------------
(* The activity log.                                                       *)

(* A log goes on: its events stay what they were, doubts about them stay.  *)
Kept(log, new, D, E) ==
    \A n \in Numbers :
      /\ log[n] # NoEvent => new[n] # NoEvent /\ SameEvent(new[n], log[n])
      /\ <<"event", n>> \in D => <<"event", n>> \in E

(* What is compensated stays so while the log grows.                       *)
LEMMA CompensatedKept ==
    ASSUME NEW log, NEW new, NEW D, NEW E, Kept(log, new, D, E),
           NEW n \in Numbers, Compensated(log, D, n)
    PROVE  Compensated(new, E, n)
  <1>1. log[n] # NoEvent /\ new[n] # NoEvent /\ SameEvent(new[n], log[n])
    BY DEF Compensated, Kept
  <1>2. CASE <<"event", n>> \in D
    BY <1>1, <1>2 DEF Compensated, Kept
  <1>3. ASSUME NEW k \in (n + 1)..MaxCommands, Answers(log, k, n) PROVE Compensated(new, E, n)
    <2>1. k \in Numbers
      BY IdsAssumption DEF Numbers
    <2>2. log[k] # NoEvent
      BY <1>3 DEF Answers, NoEvent, Event
    <2>3. SameEvent(new[k], log[k])
      BY <2>1, <2>2 DEF Kept
    <2>4. Answers(new, k, n)
      BY <1>1, <1>3, <2>3 DEF Answers, SameEvent
    <2> QED
      BY <1>1, <2>4 DEF Compensated
  <1> QED
    BY <1>2, <1>3 DEF Compensated

(* A copy of the log that was faithful stays so.                           *)
LEMMA FaithfulKept ==
    ASSUME NEW log, NEW new, NEW D, NEW E, Kept(log, new, D, E), NEW e, Faithful(e, log, D)
    PROVE  Faithful(e, new, E)
  <1> SUFFICES ASSUME NEW n \in Numbers
               PROVE  /\ e[n] # NoEvent => new[n] # NoEvent /\ SameEvent(e[n], new[n])
                      /\ e[n].undone => Compensated(new, E, n)
    BY DEF Faithful
  <1>1. e[n] # NoEvent => new[n] # NoEvent /\ SameEvent(e[n], new[n])
    BY DEF Faithful, Kept, SameEvent
  <1>2. e[n].undone => Compensated(new, E, n)
    BY CompensatedKept DEF Faithful
  <1> QED
    BY <1>1, <1>2

(* A queued mark that was justified stays so.                              *)
LEMMA ReportedKept ==
    ASSUME NEW log, NEW new, NEW D, NEW E, Kept(log, new, D, E),
           NEW m, IsMutation(m), Reported(m, log, D)
    PROVE  Reported(m, new, E)
  <1>1. m.kind = "event" => m.id \in Numbers
    BY DEF IsMutation, IsRow
  <1>2. m.kind = "event" /\ m.op = "undo" => Compensated(new, E, m.id)
    BY <1>1, CompensatedKept DEF Reported
  <1> QED
    BY <1>1, <1>2 DEF Reported, Kept, SameEvent

(* A dead letter reports what its mutation did.                            *)
LEMMA SameReported ==
    ASSUME NEW m, NEW n, SameMutation(m, n), NEW log, NEW D, Reported(n, log, D)
    PROVE  Reported(m, log, D)
  BY DEF SameMutation, Reported

(* Doubt is never lifted by spreading it.                                  *)
LEMMA SpreadingGrows == ASSUME NEW D, NEW m PROVE D \subseteq Spreading(D, m)
  BY DEF Spreading

(* Doubts only grow along a queue, and reach every mutation that rests on one.*)
LEMMA SpreadGrows ==
    ASSUME NEW D, NEW q, IsQueue(q)
    PROVE  D \subseteq Spread(D, q) /\ \A j \in 0..Len(q) : D \subseteq SpreadTo(D, q, j)
  <1> DEFINE S == {j \in 0..Len(q) : D \subseteq SpreadTo(D, q, j)}
  <1>1. Len(q) \in Nat
    BY Queues
  <1>2. 0 \in S
    BY <1>1, SpreadSteps
  <1>3. ASSUME NEW j \in 0..(Len(q) - 1), j \in S PROVE j + 1 \in S
    <2>1. j + 1 \in 0..Len(q)
      BY <1>1
    <2>2. SpreadTo(D, q, j + 1) = Spreading(SpreadTo(D, q, j), q[j + 1])
      BY SpreadStep
    <2>3. SpreadTo(D, q, j) \subseteq SpreadTo(D, q, j + 1)
      BY <2>2, SpreadingGrows
    <2> QED
      BY <1>3, <2>1, <2>3
  <1> HIDE DEF S
  <1>4. \A j \in 0..Len(q) : j \in S
    BY <1>1, <1>2, <1>3, Replays!HandedOn
  <1>5. Len(q) \in 0..Len(q)
    BY <1>1
  <1> QED
    BY <1>4, <1>5, SpreadSteps DEF S

(* What one mutation leaves of the log.                                    *)
LEMMA EffectEvents ==
    ASSUME NEW s, IsDb(s), NEW m, IsMutation(m)
    PROVE  \A n \in Numbers :
             Effect(s, m).event[n] = IF m.kind = "event" /\ n = m.id THEN NewEvent(m, s.event[n])
                                     ELSE s.event[n]
  <1>1. "event" \in Tables /\ IdsOf("event") = Numbers
    BY DEF Tables, IdsOf
  <1>2. \A n \in Numbers : Effect(s, m)["event"][n] = RowAfter(s, m, "event", n)
    BY <1>1, EffectReads
  <1> QED
    BY <1>2 DEF RowAfter, TableOf

(* A mutation the handlers accept keeps the server's log faithful.         *)
LEMMA HandledFaithful ==
    ASSUME NEW s, IsDb(s), NEW m, IsMutation(m), Refusal(s, m) = "accepted",
           NEW log, NEW D, Faithful(s.event, log, D), Reported(m, log, D)
    PROVE  Faithful(Effect(s, m).event, log, D)
  <1> SUFFICES ASSUME NEW n \in Numbers
               PROVE  LET v == Effect(s, m).event[n] IN
                      /\ v # NoEvent => log[n] # NoEvent /\ SameEvent(v, log[n])
                      /\ v.undone => Compensated(log, D, n)
    BY DEF Faithful
  <1> DEFINE v == Effect(s, m).event[n]
             w == s.event[n]
             Fits == /\ v # NoEvent => log[n] # NoEvent /\ SameEvent(v, log[n])
                     /\ v.undone => Compensated(log, D, n)
  <1>1. /\ w # NoEvent => log[n] # NoEvent /\ SameEvent(w, log[n])
        /\ w.undone => Compensated(log, D, n)
    BY DEF Faithful
  <1>2. v = IF m.kind = "event" /\ n = m.id THEN NewEvent(m, w) ELSE w
    BY EffectEvents
  <1>3. IsEvent(w)
    BY RowTypes
  <1>4. m.kind = "event" /\ m.op = "undo" /\ n = m.id => w # NoEvent
    BY DEF Refusal, EventRefusal
  <1> HIDE DEF v, w
  <1>5. ASSUME m.kind = "event" /\ n = m.id /\ m.op = "undo" PROVE Fits
    <2>1. v = Undone(w)
      BY <1>2, <1>5 DEF NewEvent, Undone
    <2>2. SameEvent(v, w)
      BY <1>3, <2>1, UndoneReads
    <2> QED
      BY <1>1, <1>4, <1>5, <2>2 DEF Reported, SameEvent
  <1>6. ASSUME m.kind = "event" /\ n = m.id /\ m.op = "record" /\ w = NoEvent PROVE Fits
    BY <1>2, <1>6 DEF NewEvent, Reported
  <1>7. ASSUME v = w PROVE Fits
    BY <1>1, <1>7
  <1>8. Fits
    BY <1>2, <1>5, <1>6, <1>7 DEF NewEvent, IsMutation
  <1> QED
    BY <1>8 DEF v

(* So does a replay.                                                       *)
LEMMA ReplayFaithful ==
    ASSUME NEW s, IsDb(s), NEW q, IsQueue(q), NEW log, NEW D, Faithful(s.event, log, D),
           \A m \in ToSet(q) : Reported(m, log, D)
    PROVE  Faithful(Replay(s, q).db.event, log, D)
  <1> DEFINE S == {j \in 0..Len(q) : Faithful(After(s, q, j).db.event, log, D)}
  <1>1. Len(q) \in Nat
    BY Queues
  <1>2. 0 \in S
    BY <1>1, ReplaySteps DEF Start
  <1>3. ASSUME NEW j \in 0..(Len(q) - 1), j \in S PROVE j + 1 \in S
    <2>1. j + 1 \in 0..Len(q) /\ j \in 0..Len(q)
      BY <1>1
    <2>2. /\ After(s, q, j + 1) = Handled(After(s, q, j), q[j + 1])
          /\ q[j + 1] \in ToSet(q) /\ IsMutation(q[j + 1])
      BY Queues, ReplaySteps DEF IsQueue
    <2>3. /\ IsOutcome(After(s, q, j)) /\ IsDb(After(s, q, j).db)
          /\ Faithful(After(s, q, j).db.event, log, D)
      BY <1>3, <2>1, AfterTypes DEF IsOutcome
    <2>4. Faithful(After(s, q, j + 1).db.event, log, D)
      BY <2>2, <2>3, HandledDb, HandledFaithful
    <2> QED
      BY <2>1, <2>4
  <1> HIDE DEF S
  <1>4. \A j \in 0..Len(q) : j \in S
    BY <1>1, <1>2, <1>3, Replays!HandedOn
  <1>5. Len(q) \in 0..Len(q)
    BY <1>1
  <1> QED
    BY <1>4, <1>5, ReplaySteps DEF S

(* A step that keeps the log, its copies and the command in progress.      *)
LEMMA LogKept ==
    ASSUME TypeInv, EventInv, Kept(device.event, device.event', doubtful, doubtful')
    PROVE  /\ Faithful(device.event, device.event', doubtful')
           /\ Faithful(server.event, device.event', doubtful')
           /\ snap # NoSnapshot => Faithful(snap.rows.event, device.event', doubtful')
           /\ \A m \in ToSet(outbox) : Reported(m, device.event', doubtful')
           /\ \A b \in Tabs : Ordered(cmd[b], device.event', doubtful')
  <1>1. \A e : Faithful(e, device.event, doubtful) => Faithful(e, device.event', doubtful')
    BY FaithfulKept
  <1>2. \A m \in ToSet(outbox) : Reported(m, device.event', doubtful')
    BY ReportedKept DEF EventInv, TypeInv, IsQueue
  <1>4. ASSUME NEW b \in Tabs PROVE Ordered(cmd[b], device.event', doubtful')
    <2>1. cmd[b].step = "mark" => cmd[b].mark \in Numbers
      BY DEF TypeInv, IsTab, IsCommand
    <2>2. cmd[b].step = "mark" => Compensated(device.event', doubtful', cmd[b].mark)
      BY <2>1, CompensatedKept DEF EventInv, Ordered
    <2>3. cmd[b].step = "write" => Undoes(device.event', cmd[b].event, cmd[b].mark)
      BY DEF EventInv, Ordered, Undoes, Kept, SameEvent
    <2> QED
      BY <2>2, <2>3 DEF Ordered
  <1> QED
    BY <1>1, <1>2, <1>4 DEF EventInv

(* A log that did not change keeps everything.                             *)
LEMMA KeptSame ==
    ASSUME NEW log, NEW new, new = log, NEW D, NEW E, D \subseteq E
    PROVE  Kept(log, new, D, E)
  BY DEF Kept, SameEvent

(* Beginning a command keeps the log's invariant.                          *)
LEMMA BeginEvents == TypeInv /\ EventInv /\ Beginning => EventInv'
  <1> SUFFICES ASSUME TypeInv, EventInv, Beginning PROVE EventInv'
    OBVIOUS
  <1>1. PICK puts, m, e, mark : Begin(puts, m, e, mark) /\ Begun(puts, m, e, mark)
    BY DEF Beginning
  <1>2. PICK b \in Tabs : /\ Holds(cmd'[b], puts, m, e, mark)
                          /\ \A u \in Tabs \ {b} : cmd'[u] = cmd[u]
    BY <1>1, BeginFacts
  <1>3. UNCHANGED <<device, outbox, made, snap, server, doubtful>>
    BY <1>1, BeginFacts DEF cloudVars
  <1>4. \A u \in Tabs : Ordered(cmd'[u], device.event, doubtful)
    BY <1>1, <1>2 DEF EventInv, Ordered, Begun, Holds
  <1> QED
    BY <1>3, <1>4 DEF EventInv

(* So does an undo that only marks: its event was compensated before,      *)
LEMMA MarksEvents == TypeInv /\ EventInv /\ MarksOnly => EventInv'
  <1> SUFFICES ASSUME TypeInv, EventInv, MarksOnly PROVE EventInv'
    OBVIOUS
  <1>1. PICK n \in Numbers :
          /\ device.event[n] # NoEvent /\ Marks(n)
          /\ doubtful' = doubtful \union {<<"event", n>>}
    BY DEF MarksOnly
  <1>2. PICK b \in Tabs : /\ cmd'[b].step = "mark" /\ cmd'[b].mark = n
                          /\ \A u \in Tabs \ {b} : cmd'[u] = cmd[u]
    BY <1>1, MarksFacts
  <1>3. UNCHANGED <<device, outbox, made, snap, server>>
    BY <1>1, MarksFacts DEF cloudVars
  <1>4. Kept(device.event, device.event', doubtful, doubtful')
    BY <1>1, <1>3, KeptSame
  <1>5. Compensated(device.event', doubtful', n)
    BY <1>1, <1>3 DEF Compensated
  <1>6. Ordered(cmd'[b], device.event', doubtful')
    BY <1>2, <1>5 DEF Ordered
  <1>7. \A u \in Tabs : Ordered(cmd'[u], device.event', doubtful')
    BY <1>2, <1>4, <1>6, LogKept
  <1> QED
    BY <1>1, <1>3, <1>4, <1>7, LogKept DEF EventInv

(* What a write does to the log.                                           *)
LEMMA WriteReads ==
    ASSUME TypeInv, EventInv, NEW b \in Tabs, Write(b)
    PROVE  /\ \A t \in Tables \ {"event"} : device'[t] = Written(cmd[b].puts)[t]
           /\ \A n \in Numbers :
                device'.event[n] = IF n = made + 1 THEN cmd[b].event ELSE device.event[n]
           /\ made + 1 \in Numbers /\ device.event[made + 1] = NoEvent
           /\ doubtful \subseteq doubtful'
           /\ IsEvent(cmd[b].event) /\ ~cmd[b].event.undone /\ cmd[b].event.table # "none"
  <1>1. IsBegun(cmd[b]) /\ made \in Nat /\ IsDb(device)
    BY DEF TypeInv, IsTab, Write
  <1>2. made + 1 \in Numbers /\ IsMutation(cmd[b].mutation)
    BY QueuedTypes
  <1>3. Puts(cmd[b].puts, cmd[b].mutation) /\ IsEvent(cmd[b].event)
    BY <1>1 DEF IsBegun, Puts
  <1> DEFINE w == Written(cmd[b].puts)
             d == Put(w, "event", made + 1, cmd[b].event)
  <1>4. device' = d
    BY DEF Write, Put
  <1>5. IsDb(w) /\ w["event"] = device["event"]
    BY <1>1, <1>2, <1>3, WrittenTypes
  <1>6. "event" \in Tables /\ made + 1 \in IdsOf("event") /\ IsRow("event", made + 1, cmd[b].event)
        /\ IdsOf("event") = Numbers
    BY <1>2, <1>3 DEF Tables, IdsOf, IsRow
  <1> HIDE DEF w
  <1>7. /\ IsDb(d)
        /\ \A t \in Tables : \A id \in IdsOf(t) :
             d[t][id] = IF t = "event" /\ id = made + 1 THEN cmd[b].event ELSE w[t][id]
    BY <1>5, <1>6, PutReads
  <1> HIDE DEF d
  <1>8. \A t \in Tables \ {"event"} : d[t] = w[t]
    BY <1>5, <1>7 DEF IsDb
  <1>9. \A n \in Numbers : d["event"][n] = IF n = made + 1 THEN cmd[b].event ELSE device["event"][n]
    BY <1>5, <1>6, <1>7
  <1>10. device.event[made + 1] = NoEvent
    BY <1>1, <1>2 DEF EventInv
  <1>11. doubtful \subseteq doubtful'
    <2>1. IsQueue(<<cmd[b].mutation>>)
      BY <1>2 DEF IsQueue, ToSet
    <2> QED
      BY <2>1, SpreadGrows DEF Write
  <1> QED
    BY <1>1, <1>2, <1>4, <1>8, <1>9, <1>10, <1>11 DEF IsBegun, w

(* the write of a command, which appends the compensation an undo marks    *)
(* later,                                                                  *)
LEMMA WriteEvents == ASSUME TypeInv, EventInv, NEW b \in Tabs, Write(b) PROVE EventInv'
  <1> DEFINE k == made + 1
  <1>1. /\ \A n \in Numbers : device'.event[n] = IF n = k THEN cmd[b].event ELSE device.event[n]
        /\ k \in Numbers /\ device.event[k] = NoEvent
        /\ doubtful \subseteq doubtful'
        /\ IsEvent(cmd[b].event) /\ ~cmd[b].event.undone /\ cmd[b].event.table # "none"
        /\ made \in Nat /\ made' = k /\ UNCHANGED <<server, snap>>
    BY WriteReads DEF Write, TypeInv, cloudVars
  <1>2. Kept(device.event, device.event', doubtful, doubtful')
    BY <1>1 DEF Kept, SameEvent
  <1>3. \A n \in Numbers :
          device'.event[n] # NoEvent => n <= made' /\ device'.event[n].table # "none"
    BY <1>1 DEF EventInv, Numbers
  <1>4. Faithful(device.event', device.event', doubtful')
    <2>1. Faithful(device.event, device.event', doubtful')
      BY <1>2, LogKept
    <2>2. \A n \in Numbers :
            /\ device.event'[n] # NoEvent =>
                 device.event'[n] # NoEvent /\ SameEvent(device.event'[n], device.event'[n])
            /\ device.event'[n].undone => Compensated(device.event', doubtful', n)
      BY <1>1, <2>1 DEF Faithful, SameEvent
    <2> QED
      BY <2>2 DEF Faithful
  <1>5. \A m \in ToSet(outbox') : Reported(m, device.event', doubtful')
    <2> DEFINE r == Record(k, cmd[b].event)
    <2>1. /\ cmd[b].mutation.kind # "event" /\ r.kind = "event" /\ r.op = "record"
          /\ r.id = k /\ r.row = cmd[b].event
          /\ ToSet(outbox') = ToSet(outbox) \union {cmd[b].mutation, r}
      BY QueuedTypes
    <2>2. Reported(cmd[b].mutation, device.event', doubtful')
      BY <2>1 DEF Reported
    <2>3. device'.event[k] = cmd[b].event /\ cmd[b].event # NoEvent
      BY <1>1 DEF NoEvent, Event
    <2> HIDE DEF r
    <2>4. Reported(r, device.event', doubtful')
      BY <1>1, <2>1, <2>3 DEF Reported, SameEvent
    <2>5. \A m \in ToSet(outbox) : Reported(m, device.event', doubtful')
      BY <1>2, LogKept
    <2> QED
      BY <2>1, <2>2, <2>4, <2>5
  <1>6. Ordered(cmd'[b], device.event', doubtful')
    <2>1. /\ cmd'[b] = Rest(cmd[b]) /\ cmd'[b].step # "write"
          /\ cmd'[b].step = "mark" => cmd[b].mark # 0 /\ cmd'[b].mark = cmd[b].mark
      <3>1. cmd'[b] = Rest(cmd[b])
        BY DEF Write
      <3> QED
        BY <3>1, RestReads DEF TypeInv, IsTab
    <2> SUFFICES ASSUME cmd[b].mark # 0
                 PROVE  Compensated(device.event', doubtful', cmd[b].mark)
      BY <2>1 DEF Ordered
    <2> DEFINE n == cmd[b].mark
    <2>2. /\ n \in Numbers /\ device.event[n] # NoEvent /\ cmd[b].event.id = device.event[n].id
          /\ cmd[b].event.action =
               IF device.event[n].action = "deleted" THEN "restored" ELSE "updated"
      BY DEF EventInv, Ordered, Undoes, Write
    <2>3. n <= made /\ n # k
      BY <1>1, <2>2 DEF EventInv
    <2>4. device'.event[n] = device.event[n] /\ device'.event[k] = cmd[b].event
      BY <1>1, <2>2, <2>3
    <2>5. k \in (n + 1)..MaxCommands
      BY <1>1, <2>2, <2>3, IdsAssumption DEF Numbers
    <2> HIDE DEF n, k
    <2>6. Answers(device.event', k, n)
      BY <2>2, <2>4 DEF Answers
    <2>7. Compensated(device.event', doubtful', n)
      BY <2>2, <2>4, <2>5, <2>6 DEF Compensated
    <2> QED
      BY <2>7 DEF n
  <1>7. \A u \in Tabs : Ordered(cmd'[u], device.event', doubtful')
    <2> SUFFICES ASSUME NEW u \in Tabs, u # b
                 PROVE  Ordered(cmd'[u], device.event', doubtful')
      BY <1>6
    <2>1. cmd'[u] = Under(cmd[u], device')
      BY DEF Write
    <2>2. /\ cmd'[u].step = cmd[u].step /\ cmd'[u].mark = cmd[u].mark
          /\ cmd'[u].event = cmd[u].event
      BY <2>1, UnderReads DEF TypeInv, IsTab
    <2>3. Ordered(cmd[u], device.event', doubtful')
      BY <1>2, LogKept
    <2> QED
      BY <2>2, <2>3 DEF Ordered
  <1>8. /\ Faithful(server.event', device.event', doubtful')
        /\ snap' # NoSnapshot => Faithful(snap.rows.event', device.event', doubtful')
    BY <1>1, <1>2, LogKept
  <1> QED
    BY <1>3, <1>4, <1>5, <1>6, <1>7, <1>8 DEF EventInv

(* the mark of an undo,                                                    *)
LEMMA MarkEvents ==
    ASSUME TypeInv, EventInv, NEW b \in Tabs, MarkActivityUndone(b) PROVE EventInv'
  <1> DEFINE n == cmd[b].mark
             u == Mutation("event", "undo", n, NoRow)
  <1>1. /\ n \in Numbers /\ IdleNow(b)
        /\ IsMutation(u) /\ u.kind = "event" /\ u.op = "undo" /\ u.id = n
        /\ \/ UNCHANGED <<device, outbox>>
           \/ /\ device.event[n] # NoEvent
              /\ ToSet(outbox') = ToSet(outbox) \union {u}
              /\ \A t \in Tables : \A id \in IdsOf(t) :
                   device'[t][id] = IF t = "event" /\ id = n THEN Undone(device.event[n])
                                    ELSE device[t][id]
    BY MarkReads
  <1>2. UNCHANGED <<made, snap, server, doubtful>> /\ Compensated(device.event, doubtful, n)
    BY DEF MarkActivityUndone, cloudVars, EventInv, Ordered
  <1>3. ASSUME NEW log, NEW D, \A v \in Tabs : Ordered(cmd[v], log, D)
        PROVE  \A v \in Tabs : Ordered(cmd'[v], log, D)
    BY <1>1, <1>3 DEF IdleNow, Ordered
  <1>4. CASE UNCHANGED <<device, outbox>>
    BY <1>2, <1>3, <1>4 DEF EventInv
  <1>5. CASE ~UNCHANGED <<device, outbox>>
    <2>1. /\ device.event[n] # NoEvent
          /\ ToSet(outbox') = ToSet(outbox) \union {u}
          /\ \A k \in Numbers :
               device'.event[k] = IF k = n THEN Undone(device.event[n]) ELSE device.event[k]
      BY <1>1, <1>5 DEF Tables, IdsOf
    <2>2. /\ Undone(device.event[n]) # NoEvent
          /\ SameEvent(Undone(device.event[n]), device.event[n])
      BY <1>1, RowTypes, UndoneReads DEF TypeInv
    <2>3. Kept(device.event, device.event', doubtful, doubtful')
      BY <1>2, <2>1, <2>2 DEF Kept, SameEvent
    <2>4. Compensated(device.event', doubtful', n)
      BY <1>1, <1>2, <2>3, CompensatedKept
    <2>5. Faithful(device.event', device.event', doubtful')
      <3>1. Faithful(device.event, device.event', doubtful')
        BY <2>3, LogKept
      <3>2. \A k \in Numbers :
              /\ device.event'[k] # NoEvent =>
                   device.event'[k] # NoEvent /\ SameEvent(device.event'[k], device.event'[k])
              /\ device.event'[k].undone => Compensated(device.event', doubtful', k)
        BY <2>1, <2>4, <3>1 DEF Faithful, SameEvent
      <3> QED
        BY <3>2 DEF Faithful
    <2> HIDE DEF u
    <2>6. Reported(u, device.event', doubtful')
      BY <1>1, <2>4 DEF Reported
    <2>7. \A m \in ToSet(outbox') : Reported(m, device.event', doubtful')
      BY <2>1, <2>3, <2>6, LogKept
    <2>8. \A k \in Numbers :
            device'.event[k] # NoEvent => k <= made' /\ device'.event[k].table # "none"
      BY <1>1, <1>2, <2>1, <2>2 DEF EventInv, SameEvent
    <2>9. /\ Faithful(server.event', device.event', doubtful')
          /\ snap' # NoSnapshot => Faithful(snap.rows.event', device.event', doubtful')
      BY <1>2, <2>3, LogKept
    <2>10. \A v \in Tabs : Ordered(cmd[v], device.event', doubtful')
      BY <2>3, LogKept
    <2>11. \A v \in Tabs : Ordered(cmd'[v], device.event', doubtful')
      BY <1>3, <2>10
    <2> QED
      BY <2>5, <2>7, <2>8, <2>9, <2>11 DEF EventInv
  <1> QED
    BY <1>4, <1>5

(* the closing of a tab, also between compensation and mark,               *)
LEMMA CloseEvents == ASSUME TypeInv, EventInv, NEW b \in Tabs, CloseTab(b) PROVE EventInv'
  <1>1. IdleNow(b)
    BY IdleFacts DEF CloseTab
  <1>2. \A u \in Tabs : Ordered(cmd'[u], device.event, doubtful)
    BY <1>1 DEF IdleNow, Ordered, EventInv
  <1>3. UNCHANGED <<device, outbox, made, server, doubtful>> /\ snap' \in {snap, NoSnapshot}
    BY DEF CloseTab, cloudVars
  <1> QED
    BY <1>2, <1>3 DEF EventInv

(* Doubts that grow leave the rest of the log's invariant alone.           *)
LEMMA DoubtEvents ==
    ASSUME TypeInv, EventInv, doubtful \subseteq doubtful', UNCHANGED <<device, cmd, made, snap>>,
           Faithful(server.event, device.event, doubtful) =>
             Faithful(server.event', device.event, doubtful),
           \A m \in ToSet(outbox') : \E n \in ToSet(outbox) : SameMutation(m, n)
    PROVE  EventInv'
  <1>1. Kept(device.event, device.event', doubtful, doubtful')
    BY KeptSame
  <1>2. \A m \in ToSet(outbox') : Reported(m, device.event', doubtful')
    <2> TAKE m \in ToSet(outbox')
    <2>1. PICK n \in ToSet(outbox) : SameMutation(m, n)
      OBVIOUS
    <2>2. Reported(n, device.event', doubtful')
      BY <1>1, LogKept
    <2> QED
      BY <2>1, <2>2, SameReported
  <1>3. Faithful(server.event', device.event', doubtful')
    BY <1>1, FaithfulKept DEF EventInv
  <1>4. \A b \in Tabs : Ordered(cmd'[b], device.event', doubtful')
    BY <1>1, LogKept
  <1> QED
    BY <1>1, <1>2, <1>3, <1>4, LogKept DEF EventInv

(* a push,                                                                 *)
LEMMA PushEvents == TypeInv /\ EventInv /\ Push => EventInv'
  <1> SUFFICES ASSUME TypeInv, EventInv, Push PROVE EventInv'
    OBVIOUS
  <1>1. CASE base # revision
    BY <1>1, RejectedTypes, DoubtEvents DEF TypeInv, Push, Rejected
  <1>2. CASE base = revision
    <2>1. /\ server' = Replay(server, outbox).db /\ outbox' = Replay(server, outbox).left
          /\ UNCHANGED <<device, cmd, made, snap, doubtful>>
      BY <1>2 DEF Push
    <2>2. \A m \in ToSet(outbox') : \E n \in ToSet(outbox) : SameMutation(m, n)
      BY <2>1, ReplayTypes DEF TypeInv, Drawn
    <2>3. Faithful(server.event', device.event, doubtful)
      BY <2>1, ReplayFaithful DEF TypeInv, EventInv
    <2> QED
      BY <2>1, <2>2, <2>3, DoubtEvents
  <1> QED
    BY <1>1, <1>2

(* the fetch of a snapshot,                                                *)
LEMMA FetchEvents == TypeInv /\ EventInv /\ FetchSnapshot => EventInv'
  <1> SUFFICES ASSUME TypeInv, EventInv, FetchSnapshot PROVE EventInv'
    OBVIOUS
  <1>1. snap'.rows = server
    BY DEF FetchSnapshot
  <1> QED
    BY <1>1 DEF FetchSnapshot, cloudVars, EventInv

(* its application, which keeps the events the server lacks,               *)
LEMMA ApplyEvents == TypeInv /\ EventInv /\ ApplySnapshot => EventInv'
  <1> SUFFICES ASSUME TypeInv, EventInv, ApplySnapshot PROVE EventInv'
    OBVIOUS
  <1> DEFINE s == snap.rows
  <1>1. \A n \in Numbers :
          device'.event[n] = IF s.event[n] = NoEvent THEN device.event[n] ELSE s.event[n]
    BY PulledReads DEF ApplySnapshot
  <1>2. Faithful(s.event, device.event, doubtful)
    BY DEF EventInv, ApplySnapshot
  <1>3. \A d \in doubtful : d[1] = "event" => d \in doubtful'
    BY SpreadGrows DEF ApplySnapshot, TypeInv
  <1>4. Kept(device.event, device.event', doubtful, doubtful')
    <2>1. \A n \in Numbers : <<"event", n>> \in doubtful => <<"event", n>> \in doubtful'
      BY <1>3
    <2> QED
      BY <1>1, <1>2, <2>1 DEF Kept, Faithful, SameEvent
  <1>5. UNCHANGED <<outbox, made, server>> /\ snap' = NoSnapshot
    BY DEF ApplySnapshot
  <1>6. Faithful(device.event', device.event', doubtful')
    <2>1. /\ Faithful(device.event, device.event', doubtful')
          /\ Faithful(s.event, device.event', doubtful')
      BY <1>2, <1>4, LogKept, FaithfulKept
    <2>2. \A k \in Numbers :
            /\ device.event'[k] # NoEvent =>
                 device.event'[k] # NoEvent /\ SameEvent(device.event'[k], device.event'[k])
            /\ device.event'[k].undone => Compensated(device.event', doubtful', k)
      BY <1>1, <2>1 DEF Faithful, SameEvent
    <2> QED
      BY <2>2 DEF Faithful
  <1>7. \A n \in Numbers :
          device'.event[n] # NoEvent => n <= made' /\ device'.event[n].table # "none"
    BY <1>1, <1>2, <1>5 DEF EventInv, Faithful, SameEvent
  <1>8. ASSUME NEW b \in Tabs PROVE Ordered(cmd'[b], device.event', doubtful')
    <2>1. cmd'[b] = Under(cmd[b], Pulled)
      BY DEF ApplySnapshot
    <2>2. /\ cmd'[b].step = cmd[b].step /\ cmd'[b].mark = cmd[b].mark
          /\ cmd'[b].event = cmd[b].event
      BY <2>1, UnderReads DEF TypeInv, IsTab
    <2>3. Ordered(cmd[b], device.event', doubtful')
      BY <1>4, LogKept
    <2> QED
      BY <2>2, <2>3 DEF Ordered
  <1> QED
    BY <1>4, <1>5, <1>6, <1>7, <1>8, LogKept DEF EventInv

(* the retry of a dead letter,                                             *)
LEMMA RetryEvents == TypeInv /\ EventInv /\ RetryDeadLetter => EventInv'
  <1> SUFFICES ASSUME TypeInv, EventInv, RetryDeadLetter PROVE EventInv'
    OBVIOUS
  <1>1. PICK k \in DOMAIN outbox :
          /\ outbox[k].dead /\ outbox' = [outbox EXCEPT ![k].dead = FALSE]
          /\ doubtful' = Spread(doubtful \union Touched(outbox[k]), outbox')
          /\ UNCHANGED <<device, cmd, made, snap, server>>
    BY DEF RetryDeadLetter, cloudVars
  <1>2. /\ IsQueue(outbox')
        /\ \A m \in ToSet(outbox') : \E n \in ToSet(outbox) : SameMutation(m, n)
    BY <1>1, RetryTypes DEF TypeInv
  <1>3. doubtful \subseteq doubtful'
    BY <1>1, <1>2, SpreadGrows
  <1> QED
    BY <1>1, <1>2, <1>3, DoubtEvents

(* The other device's changes leave the log alone.                         *)
LEMMA ForeignEvent ==
    ASSUME TypeInv, ForeignChange
    PROVE  IsDb(server') /\ \A n \in Numbers : server'.event[n] = server.event[n]
  <1>1. PICK m \in OthersMutations : server' = Effect(server, m)
    BY DEF ForeignChange
  <1>2. IsMutation(m) /\ m.kind # "event" /\ IsDb(server)
    BY OthersTypes DEF TypeInv
  <1> QED
    BY <1>1, <1>2, EffectEvents, EffectReads

(* and another device's change.                                            *)
LEMMA ForeignEvents == TypeInv /\ EventInv /\ ForeignChange => EventInv'
  <1> SUFFICES ASSUME TypeInv, EventInv, ForeignChange PROVE EventInv'
    OBVIOUS
  <1>1. \A n \in Numbers : server'.event[n] = server.event[n]
    BY ForeignEvent
  <1>2. Faithful(server.event, device.event, doubtful) =>
          Faithful(server.event', device.event, doubtful)
    BY <1>1 DEF Faithful
  <1>3. UNCHANGED <<device, outbox, cmd, made, snap, doubtful>>
    BY DEF ForeignChange
  <1>4. \A m \in ToSet(outbox') : \E n \in ToSet(outbox) : SameMutation(m, n)
    BY <1>3 DEF SameMutation
  <1> QED
    BY <1>2, <1>3, <1>4, DoubtEvents

(* The log begins empty.                                                   *)
LEMMA InitEvents == Init => EventInv
  <1> SUFFICES ASSUME Init PROVE EventInv
    OBVIOUS
  <1>1. /\ \A n \in Numbers : device.event[n] = NoEvent /\ server.event[n] = NoEvent
        /\ outbox = <<>> /\ snap = NoSnapshot /\ \A b \in Tabs : cmd[b].step = "idle"
    BY NewIdle DEF Init
  <1>2. NoEvent.undone = FALSE
    BY DEF NoEvent, Event
  <1>3. /\ Faithful(device.event, device.event, doubtful)
        /\ Faithful(server.event, device.event, doubtful)
    BY <1>1, <1>2 DEF Faithful
  <1>4. ToSet(outbox) = {}
    BY <1>1 DEF ToSet
  <1> QED
    BY <1>1, <1>3, <1>4 DEF EventInv, Ordered

(* Every step keeps the log's invariant.                                   *)
LEMMA NextEvents == TypeInv /\ EventInv /\ [Next]_vars => EventInv'
  <1> SUFFICES ASSUME TypeInv, EventInv, [Next]_vars PROVE EventInv'
    OBVIOUS
  <1>1. CASE Next
    <2>1. IsDb(device)
      BY DEF TypeInv
    <2> QED
      BY <1>1, <2>1, Steps, BeginEvents, MarksEvents, WriteEvents, MarkEvents, CloseEvents,
         PushEvents, FetchEvents, ApplyEvents, RetryEvents, ForeignEvents
  <1>2. CASE UNCHANGED vars
    BY <1>2 DEF EventInv, vars, cloudVars
  <1> QED
    BY <1>1, <1>2

(* An event the device shows as undone was compensated by a later event,   *)
(* through closed tabs, pushes, snapshots and retries, unless there was    *)
(* nothing to restore.                                                     *)
THEOREM UndoneMeansCompensatedHolds == Spec => []UndoneMeansCompensated
  <1>1. EventInv => UndoneMeansCompensated
    BY DEF EventInv, Faithful, Compensated, Answers, UndoneMeansCompensated
  <1> QED
    BY <1>1, TypesHold, InitEvents, NextEvents, PTL DEF Spec

-----------------------------------------------------------------------------
(* What the device knows of the server.                                    *)

(* A live record of event n.                                               *)
RecordOf(m, n) == ~m.dead /\ m.kind = "event" /\ m.op = "record" /\ m.id = n

(* An event recorded, or being recorded, is in the log.                    *)
LEMMA HandledRecords ==
    ASSUME NEW o, IsOutcome(o), NEW m, IsMutation(m), NEW n \in Numbers,
           o.db.event[n] # NoEvent \/ RecordOf(m, n)
    PROVE  Handled(o, m).db.event[n] # NoEvent
  <1>1. IsDb(o.db)
    BY DEF IsOutcome
  <1>2. \/ Handled(o, m).db = o.db /\ ~RecordOf(m, n)
        \/ Handled(o, m).db = Effect(o.db, m)
    BY DEF Handled, IsOutcome, RecordOf, Refusal, EventRefusal
  <1>3. Effect(o.db, m).event[n] # NoEvent
    <2> DEFINE w == o.db.event[n]
    <2>1. Effect(o.db, m).event[n] = IF m.kind = "event" /\ n = m.id THEN NewEvent(m, w) ELSE w
      BY <1>1, EffectEvents
    <2>2. IsEvent(w)
      BY <1>1, RowTypes
    <2>3. CASE m.kind = "event" /\ m.op = "record" /\ n = m.id
      <3>1. m.row # NoEvent
        BY <2>3 DEF IsMutation
      <3> QED
        BY <2>1, <2>3, <3>1 DEF NewEvent
    <2>4. CASE m.kind = "event" /\ m.op = "undo" /\ n = m.id
      <3>1. NewEvent(m, w) = Undone(w)
        BY <2>4 DEF NewEvent, Undone
      <3> QED
        BY <2>1, <2>2, <2>4, <3>1, UndoneReads
    <2>5. CASE ~(m.kind = "event" /\ n = m.id)
      BY <2>1, <2>5 DEF RecordOf
    <2> QED
      BY <2>3, <2>4, <2>5 DEF IsMutation
  <1> QED
    BY <1>2, <1>3

(* So every event whose record is queued is in the log after a replay.     *)
LEMMA ReplayRecords ==
    ASSUME NEW s, IsDb(s), NEW q, IsQueue(q), NEW n \in Numbers,
           s.event[n] # NoEvent \/ \E m \in ToSet(q) : RecordOf(m, n)
    PROVE  Replay(s, q).db.event[n] # NoEvent
  <1> DEFINE Seen(j) == s.event[n] # NoEvent \/ \E i \in 1..j : RecordOf(q[i], n)
             S == {j \in 0..Len(q) : Seen(j) => After(s, q, j).db.event[n] # NoEvent}
  <1>1. Len(q) \in Nat
    BY Queues
  <1>2. 0 \in S
    BY <1>1, ReplaySteps DEF Start
  <1>3. ASSUME NEW j \in 0..(Len(q) - 1), j \in S PROVE j + 1 \in S
    <2>1. j + 1 \in 0..Len(q) /\ j \in 0..Len(q)
      BY <1>1
    <2>2. /\ After(s, q, j + 1) = Handled(After(s, q, j), q[j + 1])
          /\ q[j + 1] \in ToSet(q) /\ IsMutation(q[j + 1])
      BY Queues, ReplaySteps DEF IsQueue
    <2>3. IsOutcome(After(s, q, j)) /\ (Seen(j) => After(s, q, j).db.event[n] # NoEvent)
      BY <1>3, <2>1, AfterTypes
    <2>4. Seen(j + 1) => Seen(j) \/ RecordOf(q[j + 1], n)
      BY <1>1
    <2> HIDE DEF Seen
    <2>5. Seen(j + 1) => After(s, q, j + 1).db.event[n] # NoEvent
      BY <2>2, <2>3, <2>4, HandledRecords
    <2> QED
      BY <2>1, <2>5
  <1> HIDE DEF S
  <1>4. \A j \in 0..Len(q) : j \in S
    BY <1>1, <1>2, <1>3, Replays!HandedOn
  <1>5. Len(q) \in 0..Len(q)
    BY <1>1
  <1>6. Seen(Len(q))
    <2>1. CASE s.event[n] # NoEvent
      BY <2>1
    <2>2. ASSUME NEW m \in ToSet(q), RecordOf(m, n) PROVE Seen(Len(q))
      <3>1. PICK i \in 1..Len(q) : m = q[i]
        BY Queues DEF ToSet
      <3> QED
        BY <2>2, <3>1
    <2> QED
      BY <2>1, <2>2
  <1> QED
    BY <1>4, <1>5, <1>6, ReplaySteps DEF S

(* What the device knows of the server in the initial state.               *)
LEMMA InitKnown == Init => KnownInv
  <1> SUFFICES ASSUME Init PROVE KnownInv
    OBVIOUS
  <1>1. /\ \A n \in Numbers : device.event[n] = NoEvent
        /\ base = revision /\ snap = NoSnapshot
    BY DEF Init
  <1> QED
    BY <1>1 DEF KnownInv

(* What an informed device knows of the server every step keeps.           *)
LEMMA NextKnown == TypeInv /\ EventInv /\ KnownInv /\ [Next]_vars => KnownInv'
  <1> SUFFICES ASSUME TypeInv, EventInv, KnownInv, [Next]_vars PROVE KnownInv'
    OBVIOUS
  <1>1. ASSUME UNCHANGED <<device, outbox, snap, server, revision, base, behind>>,
               doubtful \subseteq doubtful'
        PROVE  KnownInv'
    BY <1>1 DEF KnownInv, Waiting
  <1>2. CASE Beginning
    BY <1>1, <1>2, BeginFacts DEF Beginning, cloudVars
  <1>3. CASE MarksOnly
    BY <1>1, <1>3, MarksFacts DEF MarksOnly, cloudVars
  <1>4. ASSUME NEW b \in Tabs, Write(b) PROVE KnownInv'
    <2> DEFINE r == Record(made + 1, cmd[b].event)
    <2>1. /\ \A n \in Numbers : device'.event[n] =
                IF n = made + 1 THEN cmd[b].event ELSE device.event[n]
          /\ doubtful \subseteq doubtful'
          /\ UNCHANGED <<snap, server, revision, base, behind>>
      BY <1>4, WriteReads DEF Write, cloudVars
    <2>2. /\ ToSet(outbox') = ToSet(outbox) \union {cmd[b].mutation, r}
          /\ ~r.dead /\ r.kind = "event" /\ r.op = "record" /\ r.id = made + 1
      BY <1>4, QueuedTypes
    <2> HIDE DEF r
    <2> QED
      BY <2>1, <2>2 DEF KnownInv, Waiting
  <1>5. ASSUME NEW b \in Tabs, MarkActivityUndone(b) PROVE KnownInv'
    <2>1. UNCHANGED <<snap, server, revision, base, behind, doubtful>>
      BY <1>5 DEF MarkActivityUndone, cloudVars
    <2>2. /\ ToSet(outbox) \subseteq ToSet(outbox')
          /\ \A n \in Numbers : device'.event[n] # NoEvent => device.event[n] # NoEvent
      <3>1. CASE UNCHANGED <<device, outbox>>
        BY <3>1
      <3>2. CASE ~UNCHANGED <<device, outbox>>
        BY <1>5, <3>2, MarkReads DEF Tables, IdsOf
      <3> QED
        BY <3>1, <3>2
    <2> QED
      BY <2>1, <2>2 DEF KnownInv, Waiting
  <1>6. ASSUME NEW b \in Tabs, CloseTab(b) PROVE KnownInv'
    BY <1>6 DEF CloseTab, cloudVars, KnownInv, Waiting
  <1>7. CASE Push
    <2>1. CASE base # revision
      <3>1. /\ base' = revision /\ snap = NoSnapshot
            /\ UNCHANGED <<device, snap, server, revision, behind>>
            /\ doubtful' = doubtful \union UNION {Touched(m) : m \in ToSet(outbox)}
        BY <1>7, <2>1 DEF Push
      <3>2. \A m \in ToSet(outbox) : m.kind = "event" => <<"event", m.id>> \in doubtful'
        BY <3>1, TouchedUsed DEF TableOf
      <3> QED
        BY <3>1, <3>2 DEF KnownInv, Waiting
    <2>2. CASE base = revision
      <3>1. /\ base' = revision /\ snap = NoSnapshot /\ server' = Replay(server, outbox).db
            /\ UNCHANGED <<device, snap, revision, behind, doubtful>>
        BY <1>7, <2>2 DEF Push
      <3>2. \A n \in Numbers :
              server.event[n] # NoEvent \/ (\E m \in Waiting : RecordOf(m, n)) =>
                server'.event[n] # NoEvent
        BY <3>1, ReplayRecords DEF TypeInv, Waiting
      <3> QED
        BY <3>1, <3>2 DEF KnownInv, Waiting, RecordOf
    <2> QED
      BY <2>1, <2>2
  <1>8. CASE FetchSnapshot
    <2>1. snap'.rev = revision /\ snap'.rows = server
      BY <1>8 DEF FetchSnapshot
    <2> QED
      BY <1>8, <2>1 DEF FetchSnapshot, cloudVars, KnownInv, Waiting
  <1>9. CASE ApplySnapshot
    <2>1. /\ \A n \in Numbers : device'.event[n] =
               IF snap.rows.event[n] = NoEvent THEN device.event[n] ELSE snap.rows.event[n]
          /\ snap # NoSnapshot /\ snap' = NoSnapshot /\ base' = snap.rev
          /\ behind' = (snap.rev # revision) /\ UNCHANGED <<outbox, server, revision>>
      BY <1>9, PulledReads DEF ApplySnapshot
    <2>2. \A n \in Numbers : <<"event", n>> \in doubtful => <<"event", n>> \in doubtful'
      <3>1. \A d \in doubtful : d[1] = "event" => d \in doubtful'
        BY <1>9, SpreadGrows DEF ApplySnapshot, TypeInv
      <3> QED
        BY <3>1
    <2> QED
      BY <2>1, <2>2 DEF KnownInv, Waiting
  <1>10. CASE RetryDeadLetter
    <2>1. PICK k \in DOMAIN outbox :
            /\ outbox[k].dead /\ outbox' = [outbox EXCEPT ![k].dead = FALSE]
            /\ doubtful' = Spread(doubtful \union Touched(outbox[k]), outbox')
            /\ UNCHANGED <<device, snap, server, revision, base, behind>>
      BY <1>10 DEF RetryDeadLetter, cloudVars
    <2>2. IsQueue(outbox') /\ \A n \in ToSet(outbox) : n.dead \/ n \in ToSet(outbox')
      BY <2>1, RetryTypes DEF TypeInv
    <2>3. doubtful \subseteq doubtful'
      BY <2>1, <2>2, SpreadGrows
    <2> QED
      BY <2>1, <2>2, <2>3 DEF KnownInv, Waiting
  <1>11. CASE ForeignChange
    <2>1. \A n \in Numbers : server'.event[n] = server.event[n]
      BY <1>11, ForeignEvent
    <2>2. /\ revision' = revision + 1 /\ behind' = TRUE
          /\ UNCHANGED <<device, outbox, snap, base, doubtful>>
      BY <1>11 DEF ForeignChange
    <2>3. snap # NoSnapshot => snap.rev # revision'
      BY <2>2 DEF TypeInv
    <2> QED
      BY <2>1, <2>2, <2>3 DEF KnownInv, Waiting
  <1>12. CASE UNCHANGED vars
    BY <1>1, <1>12 DEF vars, cloudVars
  <1>13. IsDb(device)
    BY DEF TypeInv
  <1> QED
    BY <1>2, <1>3, <1>4, <1>5, <1>6, <1>7, <1>8, <1>9, <1>10, <1>11, <1>12, <1>13, Steps

-----------------------------------------------------------------------------
(* The commands in progress.                                               *)

(* A command looks at no events.                                           *)
LEMMA UsedTables ==
    ASSUME NEW m, m.kind # "event", NEW id
    PROVE  <<"event", id>> \notin Used(m)
  BY DEF Used, Touched, TableOf

(* What a mutation makes of a row stands while its own rows do.            *)
LEMMA MakesStays ==
    ASSUME NEW a, IsDb(a), NEW b, IsDb(b), NEW m, IsMutation(m), SameUsed(a, b, m),
           NEW puts, Puts(puts, m), Makes(a, puts, m)
    PROVE  Makes(b, puts, m)
  <1> DEFINE f == Effect(a, m)
             g == Effect(b, m)
  <1>1. Leaves(a, m) <=> Leaves(b, m)
    <2>1. CASE m.kind = "student"
      <3>1. "student" \in Tables /\ m.id \in IdsOf("student") /\ <<"student", m.id>> \in Used(m)
        BY <2>1, MutationTypes, TouchedUsed DEF TableOf
      <3> QED
        BY <3>1 DEF Leaves, SameUsed
    <2> QED
      BY <2>1 DEF Leaves
  <1>2. ASSUME NEW t \in Tables, NEW id \in IdsOf(t), <<t, id>> \in Used(m)
        PROVE  a[t][id] = b[t][id] /\ f[t][id] = g[t][id]
    <2>1. a[t][id] = b[t][id]
      BY <1>2 DEF SameUsed
    <2>2. f[t][id] = RowAfter(a, m, t, id) /\ g[t][id] = RowAfter(b, m, t, id)
      BY EffectReads
    <2> QED
      BY <1>1, <2>1, <2>2 DEF RowAfter
  <1>3. ASSUME NEW t \in Tables, NEW id \in IdsOf(t), <<t, id>> \notin Used(m)
        PROVE  g[t][id] = b[t][id] /\ \A p \in puts : ~(p[1] = t /\ p[2] = id)
    <2>1. <<t, id>> \notin Touched(m)
      BY <1>3, TouchedUsed
    <2>2. g[t][id] = b[t][id]
      BY <2>1, EffectConfined
    <2> QED
      BY <2>1, <2>2 DEF Puts
  <1> HIDE DEF f, g
  <1>4. \A t \in Tables \ {"event"} : \A id \in IdsOf(t) :
          /\ (\A p \in puts : ~(p[1] = t /\ p[2] = id)) => f[t][id] = a[t][id]
          /\ \A p \in puts : p[1] = t /\ p[2] = id => f[t][id] = p[3]
    BY DEF Makes, f
  <1>5. \A t \in Tables \ {"event"} : \A id \in IdsOf(t) :
          /\ (\A p \in puts : ~(p[1] = t /\ p[2] = id)) => g[t][id] = b[t][id]
          /\ \A p \in puts : p[1] = t /\ p[2] = id => g[t][id] = p[3]
    <2> SUFFICES ASSUME NEW t \in Tables \ {"event"}, NEW id \in IdsOf(t)
                 PROVE  /\ (\A p \in puts : ~(p[1] = t /\ p[2] = id)) => g[t][id] = b[t][id]
                        /\ \A p \in puts : p[1] = t /\ p[2] = id => g[t][id] = p[3]
      OBVIOUS
    <2>1. CASE <<t, id>> \in Used(m)
      BY <1>2, <1>4, <2>1
    <2>2. CASE <<t, id>> \notin Used(m)
      BY <1>3, <2>2
    <2> QED
      BY <2>1, <2>2
  <1> QED
    BY <1>5 DEF Makes, g

(* So does what the handler thinks of it.                                  *)
LEMMA AcceptsStays ==
    ASSUME NEW a, IsDb(a), NEW b, IsDb(b), NEW m, IsMutation(m), SameUsed(a, b, m),
           Accepts(a, m)
    PROVE  Accepts(b, m)
  <1>1. Refusal(a, m) = Refusal(b, m)
    BY RefusalSame
  <1>2. ASSUME m.kind = "session"
        PROVE  /\ \A p \in m.row.members : Live(a, "student", p) <=> Live(b, "student", p)
               /\ \A p \in m.row.members : Misses(a, m.id, p) => Misses(b, m.id, p)
    <2>1. m.id \in Sessions /\ m.row.members \subseteq Students
      BY <1>2 DEF IsMutation, IsRow, IsSession
    <2>2. /\ "session" \in Tables /\ IdsOf("session") = Sessions
          /\ "student" \in Tables /\ IdsOf("student") = Students
      BY DEF Tables, IdsOf
    <2>3. /\ <<"session", m.id>> \in Used(m)
          /\ \A p \in m.row.members : <<"student", p>> \in Used(m)
      BY <1>2, <2>1 DEF Used
    <2>4. /\ a["session"][m.id] = b["session"][m.id]
          /\ \A p \in m.row.members : a["student"][p] = b["student"][p]
      BY <2>1, <2>2, <2>3 DEF SameUsed
    <2> QED
      BY <2>4 DEF Live, Misses
  <1>3. ASSUME m.kind = "appointment", Unserved(a, m.id),
               m.row.client = a.appointment[m.id].client
        PROVE  Unserved(b, m.id) /\ m.row.client = b.appointment[m.id].client
    <2>1. m.id \in Appointments /\ m.row.client \in Clients
      BY <1>3 DEF IsMutation, IsRow, IsAppointment, Unserved
    <2>2. /\ "appointment" \in Tables /\ IdsOf("appointment") = Appointments
          /\ "client" \in Tables /\ IdsOf("client") = Clients
      BY DEF Tables, IdsOf
    <2>3. <<"appointment", m.id>> \in Used(m) /\ <<"client", m.row.client>> \in Used(m)
      BY <1>3, TouchedUsed DEF Used, TableOf
    <2>4. /\ a["appointment"][m.id] = b["appointment"][m.id]
          /\ a["client"][m.row.client] = b["client"][m.row.client]
      BY <2>1, <2>2, <2>3 DEF SameUsed
    <2> QED
      BY <1>3, <2>4 DEF Unserved, Live
  <1> QED
    BY <1>1, <1>2, <1>3 DEF Accepts

(* A command on rows that none overtook stays decided.                     *)
LEMMA SettledUnder ==
    ASSUME IsDb(device), NEW d, IsDb(d), NEW c, IsTab(c), Settled(c, device)
    PROVE  Settled(Under(c, d), d)
  <1> DEFINE u == Under(c, d)
             m == c.mutation
  <1>1. /\ u.step = c.step /\ u.puts = c.puts /\ u.mutation = m
        /\ u.stale = (c.stale \/ Overtaken(c, d))
    BY UnderReads DEF IsTab
  <1> HIDE DEF u
  <1> SUFFICES ASSUME c.step = "write", ~c.stale, ~Overtaken(c, d)
               PROVE  Decides(d, c.puts, m)
    BY <1>1 DEF Settled, u
  <1>2. IsMutation(m) /\ Puts(c.puts, m) /\ Decides(device, c.puts, m)
    BY DEF IsTab, IsBegun, Puts, Settled
  <1>3. \A t \in Tables : DOMAIN device[t] = IdsOf(t)
    BY DEF IsDb
  <1>4. SameUsed(device, d, m)
    <2> SUFFICES ASSUME NEW t \in Tables, NEW id \in IdsOf(t), <<t, id>> \in Used(m)
                 PROVE  device[t][id] = d[t][id]
      BY DEF SameUsed
    <2>1. \A x \in Used(m) :
            x[2] \in DOMAIN device[x[1]] => d[x[1]][x[2]] = device[x[1]][x[2]]
      BY DEF Overtaken
    <2> HIDE DEF m
    <2>2. <<t, id>>[2] \in DOMAIN device[<<t, id>>[1]] => d[t][id] = device[t][id]
      BY <2>1
    <2> QED
      BY <1>3, <2>2
  <1> HIDE DEF m
  <1>5. Makes(d, c.puts, m) /\ Accepts(d, m)
    BY <1>2, <1>4, MakesStays, AcceptsStays DEF Decides
  <1> QED
    BY <1>5 DEF Decides

(* So it does where events alone changed.                                  *)
LEMMA SettledEvents ==
    ASSUME IsDb(device), NEW d, IsDb(d), NEW c, IsTab(c), Settled(c, device),
           \A t \in Tables \ {"event"} : \A id \in IdsOf(t) : d[t][id] = device[t][id]
    PROVE  Settled(c, d)
  <1> SUFFICES ASSUME c.step = "write", ~c.stale PROVE Decides(d, c.puts, c.mutation)
    BY DEF Settled
  <1> DEFINE m == c.mutation
  <1>1. /\ IsMutation(m) /\ m.kind # "event" /\ Puts(c.puts, m)
        /\ Decides(device, c.puts, m)
    BY DEF IsTab, IsBegun, Puts, Settled
  <1> HIDE DEF m
  <1>2. SameUsed(device, d, m)
    <2> SUFFICES ASSUME NEW t \in Tables, NEW id \in IdsOf(t), <<t, id>> \in Used(m)
                 PROVE  device[t][id] = d[t][id]
      BY DEF SameUsed
    <2>1. t # "event"
      BY <1>1, UsedTables
    <2> QED
      BY <2>1
  <1>3. Makes(d, c.puts, m) /\ Accepts(d, m)
    BY <1>1, <1>2, MakesStays, AcceptsStays DEF Decides
  <1> QED
    BY <1>3 DEF Decides, m

(* A command decided on rows that neither a snapshot nor another tab       *)
(* replaced stays decided.                                                 *)
LEMMA NextCommand == TypeInv /\ EventInv /\ CommandInv /\ [Next]_vars => CommandInv'
  <1> SUFFICES ASSUME TypeInv, EventInv, CommandInv, [Next]_vars PROVE CommandInv'
    OBVIOUS
  <1>1. IsDb(device) /\ \A u \in Tabs : IsTab(cmd[u]) /\ Settled(cmd[u], device)
    BY DEF TypeInv, CommandInv
  <1>2. ASSUME UNCHANGED <<device, cmd>> PROVE CommandInv'
    BY <1>1, <1>2 DEF CommandInv
  <1>3. CASE Beginning
    <2>1. PICK puts, m, e, mark : Begin(puts, m, e, mark) /\ Begun(puts, m, e, mark)
      BY <1>3 DEF Beginning
    <2>2. PICK b \in Tabs : /\ Holds(cmd'[b], puts, m, e, mark)
                            /\ \A u \in Tabs \ {b} : cmd'[u] = cmd[u]
      BY <2>1, BeginFacts
    <2>3. UNCHANGED device
      BY <2>1, BeginFacts
    <2>4. \A u \in Tabs : Settled(cmd'[u], device)
      BY <1>1, <2>1, <2>2 DEF Settled, Holds, Begun
    <2> QED
      BY <2>3, <2>4 DEF CommandInv
  <1>4. CASE MarksOnly
    <2>1. PICK n \in Numbers : Marks(n)
      BY <1>4 DEF MarksOnly
    <2>2. PICK b \in Tabs : /\ cmd'[b].step = "mark"
                            /\ \A u \in Tabs \ {b} : cmd'[u] = cmd[u]
      BY <2>1, MarksFacts
    <2>3. UNCHANGED device
      BY <2>1, MarksFacts
    <2>4. \A u \in Tabs : Settled(cmd'[u], device)
      BY <1>1, <2>2 DEF Settled
    <2> QED
      BY <2>3, <2>4 DEF CommandInv
  <1>5. ASSUME NEW b \in Tabs, Write(b) PROVE CommandInv'
    <2>1. IsDb(device')
      BY <1>5, WriteTypes DEF TypeInv
    <2>2. \A u \in Tabs : cmd'[u] = IF u = b THEN Rest(cmd[u]) ELSE Under(cmd[u], device')
      BY <1>5 DEF Write
    <2>3. Rest(cmd[b]).step # "write"
      BY <1>1, RestReads DEF IsTab
    <2>4. \A u \in Tabs : Settled(Under(cmd[u], device'), device')
      BY <1>1, <2>1, SettledUnder
    <2>5. \A u \in Tabs : Settled(cmd'[u], device')
      BY <2>2, <2>3, <2>4 DEF Settled
    <2> QED
      BY <2>5 DEF CommandInv
  <1>6. ASSUME NEW b \in Tabs, MarkActivityUndone(b) PROVE CommandInv'
    <2>1. IsDb(device') /\ IdleNow(b)
      BY <1>6, MarkTypes, MarkReads DEF TypeInv
    <2>2. \A t \in Tables \ {"event"} : \A id \in IdsOf(t) : device'[t][id] = device[t][id]
      BY <1>6, MarkReads
    <2>3. \A u \in Tabs : Settled(cmd[u], device')
      BY <1>1, <2>1, <2>2, SettledEvents
    <2>4. \A u \in Tabs : Settled(cmd'[u], device')
      BY <2>1, <2>3 DEF IdleNow, Settled
    <2> QED
      BY <2>4 DEF CommandInv
  <1>7. ASSUME NEW b \in Tabs, CloseTab(b) PROVE CommandInv'
    <2>1. UNCHANGED device /\ IdleNow(b)
      BY <1>7, IdleFacts DEF CloseTab
    <2>2. \A u \in Tabs : Settled(cmd'[u], device)
      BY <1>1, <2>1 DEF IdleNow, Settled
    <2> QED
      BY <2>1, <2>2 DEF CommandInv
  <1>8. CASE Push \/ FetchSnapshot \/ RetryDeadLetter \/ ForeignChange
    BY <1>2, <1>8 DEF Push, FetchSnapshot, RetryDeadLetter, ForeignChange
  <1>9. CASE ApplySnapshot
    <2>1. device' = Pulled /\ IsDb(device')
      BY <1>9, ApplyTypes DEF ApplySnapshot, TypeInv
    <2>2. \A u \in Tabs : cmd'[u] = Under(cmd[u], device')
      BY <1>9, <2>1 DEF ApplySnapshot
    <2>3. \A u \in Tabs : Settled(Under(cmd[u], device'), device')
      BY <1>1, <2>1, SettledUnder
    <2>4. \A u \in Tabs : Settled(cmd'[u], device')
      BY <2>2, <2>3
    <2> QED
      BY <2>4 DEF CommandInv
  <1>10. CASE UNCHANGED vars
    BY <1>2, <1>10 DEF vars
  <1> QED
    BY <1>1, <1>3, <1>4, <1>5, <1>6, <1>7, <1>8, <1>9, <1>10, Steps

-----------------------------------------------------------------------------
(* The device's rows the server would find wanting.                        *)

(* A row after a put is the old one or the one put.                        *)
LEMMA WrittenRow ==
    ASSUME IsDb(device), NEW puts, NEW t \in Tables, NEW id \in IdsOf(t)
    PROVE  \/ Written(puts)[t][id] = device[t][id]
           \/ \E p \in puts : p[1] = t /\ p[2] = id /\ Written(puts)[t][id] = p[3]
  <1> DEFINE w == Written(puts)
             Row(u, y) == \/ /\ w[u][y] = device[u][y]
                             /\ \A p \in puts : ~(p[1] = u /\ p[2] = y)
                          \/ \E p \in puts : p[1] = u /\ p[2] = y /\ w[u][y] = p[3]
  <1>1. \A u \in Tables :
          /\ w[u] = [y \in IdsOf(u) |-> w[u][y]] /\ \A y \in IdsOf(u) : Row(u, y)
    BY WrittenReads
  <1> HIDE DEF Row
  <1>2. Row(t, id)
    BY <1>1
  <1> QED
    BY <1>2 DEF Row

(* A write changes the rows its mutation is about and its event.           *)
LEMMA WriteConfined ==
    ASSUME TypeInv, EventInv, NEW b \in Tabs, Write(b)
    PROVE  \A t \in Tables \ {"event"} : \A id \in IdsOf(t) :
             <<t, id>> \in Touched(cmd[b].mutation) \/ device'[t][id] = device[t][id]
  <1>1. Puts(cmd[b].puts, cmd[b].mutation) /\ IsDb(device)
    BY DEF TypeInv, IsTab, Write, IsBegun, Puts
  <1> SUFFICES ASSUME NEW t \in Tables \ {"event"}, NEW id \in IdsOf(t),
                      <<t, id>> \notin Touched(cmd[b].mutation)
               PROVE  device'[t][id] = device[t][id]
    OBVIOUS
  <1> DEFINE w == Written(cmd[b].puts)
  <1>5. \A u \in Tables : \A y \in IdsOf(u) :
          \/ w[u][y] = device[u][y]
          \/ \E p \in cmd[b].puts : p[1] = u /\ p[2] = y /\ w[u][y] = p[3]
    BY <1>1, WrittenRow
  <1>2. \/ w[t][id] = device[t][id]
        \/ \E p \in cmd[b].puts : p[1] = t /\ p[2] = id
    BY <1>5
  <1>3. ~\E p \in cmd[b].puts : p[1] = t /\ p[2] = id
    BY <1>1 DEF Puts
  <1>4. device'[t] = w[t]
    BY WriteReads
  <1> QED
    BY <1>2, <1>3, <1>4

(* The client a write leaves is there, whatever it was.                    *)
LEMMA WriteClients ==
    ASSUME TypeInv, EventInv, NEW b \in Tabs, Write(b), NEW c \in Clients
    PROVE  Live(device', "client", c) \/ device'["client"][c] = device["client"][c]
  <1>1. Puts(cmd[b].puts, cmd[b].mutation) /\ IsDb(device)
    BY DEF TypeInv, IsTab, Write, IsBegun, Puts
  <1>2. "client" \in Tables \ {"event"} /\ c \in IdsOf("client")
    BY DEF Tables, IdsOf
  <1> DEFINE w == Written(cmd[b].puts)
  <1>6. \A u \in Tables : \A y \in IdsOf(u) :
          \/ w[u][y] = device[u][y]
          \/ \E p \in cmd[b].puts : p[1] = u /\ p[2] = y /\ w[u][y] = p[3]
    BY <1>1, WrittenRow
  <1>3. \/ w["client"][c] = device["client"][c]
        \/ \E p \in cmd[b].puts : p[1] = "client" /\ w["client"][c] = p[3]
    BY <1>2, <1>6
  <1>4. device'["client"] = w["client"]
    BY <1>2, WriteReads
  <1> HIDE DEF w
  <1>5. w["client"][c] = device["client"][c] \/ w["client"][c].state = "active"
    BY <1>1, <1>3 DEF Puts
  <1> QED
    BY <1>4, <1>5 DEF Live

(* A write on doubtful rows keeps what is booked.                          *)
LEMMA WriteBooks ==
    ASSUME TypeInv, EventInv, BookedInv, NEW b \in Tabs, Write(b),
           Touched(cmd[b].mutation) \subseteq doubtful'
    PROVE  BookedInv'
  <1>1. doubtful \subseteq doubtful'
    BY WriteReads
  <1>2. \A t \in Tables \ {"event"} : \A id \in IdsOf(t) :
          <<t, id>> \in doubtful' \/ device'[t][id] = device[t][id]
    BY WriteConfined
  <1>3. ASSUME NEW x \in Sessions, NEW p \in Students, Misses(device', x, p)
        PROVE  <<"session", x>> \in doubtful' \/ <<"student", p>> \in doubtful'
    <2>1. /\ <<"session", x>> \in doubtful' \/ device'["session"][x] = device["session"][x]
          /\ <<"student", p>> \in doubtful' \/ device'["student"][p] = device["student"][p]
      BY <1>2 DEF Tables, IdsOf
    <2> QED
      BY <1>1, <1>3, <2>1 DEF BookedInv, Booked, Misses, Live
  <1>4. ASSUME NEW a \in Appointments, Unserved(device', a)
        PROVE  <<"appointment", a>> \in doubtful'
    <2> SUFFICES ASSUME <<"appointment", a>> \notin doubtful' PROVE FALSE
      OBVIOUS
    <2>1. device'["appointment"][a] = device["appointment"][a]
      BY <1>2 DEF Tables, IdsOf
    <2> DEFINE c == device["appointment"][a].client
    <2>2. c \in Clients /\ ~Live(device', "client", c)
      BY <1>4, <2>1, RowTypes DEF Unserved, TypeInv, IsAppointment
    <2>3. ~Live(device, "client", c)
      BY <2>2, WriteClients DEF Live
    <2> QED
      BY <1>1, <1>4, <2>1, <2>3 DEF BookedInv, Booked, Unserved
  <1> QED
    BY <1>3, <1>4 DEF BookedInv, Booked

(* What the handlers make of rows that were served stays so.               *)
Certain(s, D, m) ==
    /\ \/ Refusal(s, m) = "accepted"
       \/ /\ m.kind = "session" /\ m.op = "details"
          /\ \E p \in m.row.members : Misses(s, m.id, p)
       \/ m.kind = "appointment" /\ Unserved(s, m.id)
    /\ m.kind = "session" /\ m.op = "create" =>
         \A p \in m.row.members : Live(s, "student", p)
    /\ Used(m) \intersect D = {}

(* The handlers accept a mutation that rests on rows beyond doubt.         *)
LEMMA CertainAccepted ==
    ASSUME NEW s, NEW D, Booked(s, D), NEW m, IsMutation(m), Certain(s, D, m)
    PROVE  Refusal(s, m) = "accepted"
  <1>1. ASSUME m.kind = "session", NEW p \in m.row.members, Misses(s, m.id, p) PROVE FALSE
    <2>1. m.id \in Sessions /\ p \in Students
      BY <1>1 DEF IsMutation, IsRow, IsSession
    <2>2. <<"session", m.id>> \in Used(m) /\ <<"student", p>> \in Used(m)
      BY <1>1, TouchedUsed DEF Used, TableOf
    <2> QED
      BY <1>1, <2>1, <2>2 DEF Booked, Certain
  <1>2. ASSUME m.kind = "appointment", Unserved(s, m.id) PROVE FALSE
    <2>1. m.id \in Appointments
      BY <1>2 DEF IsMutation, IsRow
    <2>2. <<"appointment", m.id>> \in Used(m)
      BY <1>2, TouchedUsed DEF TableOf
    <2> QED
      BY <1>2, <2>1, <2>2 DEF Booked, Certain
  <1> QED
    BY <1>1, <1>2 DEF Certain

(* A session an archived student leaves keeps its other members.           *)
LEMMA ArchivedReads ==
    ASSUME NEW row, IsSession(row), NEW x, NEW p, Archived(row, x).state = "active",
           p \in Archived(row, x).members
    PROVE  row.state = "active" /\ p \in row.members /\ p # x
  <1> DEFINE left == row.members \ {x}
  <1>1. CASE row.state # "active" \/ x \notin row.members
    BY <1>1 DEF Archived
  <1>2. CASE row.state = "active" /\ x \in row.members /\ left = {}
    <2>1. Archived(row, x) = [row EXCEPT !.state = "archived"]
      BY <1>2 DEF Archived
    <2> QED
      BY <2>1 DEF IsSession, Session
  <1>3. CASE row.state = "active" /\ x \in row.members /\ left # {}
    <2>1. Archived(row, x).members = left
      BY <1>3 DEF Archived, IsSession, Session
    <2> QED
      BY <1>3, <2>1
  <1> QED
    BY <1>1, <1>2, <1>3

(* And its effect keeps the members of sessions and the clients of         *)
(* appointments live.                                                      *)
LEMMA EffectBooked ==
    ASSUME NEW s, IsDb(s), NEW D, Booked(s, D), NEW m, IsMutation(m), Certain(s, D, m)
    PROVE  Booked(Effect(s, m), D)
  <1> DEFINE e == Effect(s, m)
  <1>1. Refusal(s, m) = "accepted"
    BY CertainAccepted
  <1>2. {"student", "session", "client", "appointment"} \subseteq Tables
        /\ IdsOf("student") = Students /\ IdsOf("session") = Sessions
        /\ IdsOf("client") = Clients /\ IdsOf("appointment") = Appointments
    BY DEF Tables, IdsOf
  <1>3. \A t \in Tables : \A id \in IdsOf(t) : e[t][id] = RowAfter(s, m, t, id)
    BY EffectReads
  <1>4. /\ \A p \in Students : e["student"][p] =
             IF m.kind = "student" /\ p = m.id THEN NewRow(m, s["student"][p]) ELSE s["student"][p]
        /\ \A x \in Sessions : e["session"][x] =
             IF m.kind = "session" /\ x = m.id THEN NewRow(m, s["session"][x])
             ELSE IF Leaves(s, m) THEN Archived(s["session"][x], m.id) ELSE s["session"][x]
        /\ \A c \in Clients : e["client"][c] =
             IF m.kind = "client" /\ c = m.id THEN NewRow(m, s["client"][c]) ELSE s["client"][c]
        /\ \A a \in Appointments : e["appointment"][a] =
             IF m.kind = "appointment" /\ a = m.id
             THEN NewRow(m, s["appointment"][a]) ELSE s["appointment"][a]
    BY <1>2, <1>3 DEF RowAfter, TableOf
  <1>5. /\ \A p \in Students : Plain(s["student"][p])
        /\ \A x \in Sessions : IsSession(s["session"][x])
        /\ \A a \in Appointments : IsAppointment(s["appointment"][a])
    BY RowTypes
  <1> HIDE DEF e
  <1>6. ASSUME NEW x \in Sessions, NEW p \in Students, Misses(e, x, p), ~Misses(s, x, p) PROVE FALSE
    <2>1. CASE m.kind = "session"
      <3>1. e["student"][p] = s["student"][p] /\ ~Leaves(s, m)
        BY <1>4, <2>1 DEF Leaves
      <3>2. x = m.id
        BY <1>4, <1>6, <2>1, <3>1 DEF Misses, Live
      <3>3. e["session"][x] = NewRow(m, s["session"][x])
        BY <1>4, <2>1, <3>2
      <3>4. CASE m.op = "create"
        BY <1>6, <2>1, <3>1, <3>3, <3>4 DEF Certain, NewRow, Misses, Live
      <3>5. CASE m.op = "details"
        <4>1. e["session"][x] = m.row
          BY <3>3, <3>5 DEF NewRow
        <4>2. \A y \in m.row.members : Live(s, "student", y)
          BY <1>1, <2>1, <3>5 DEF Refusal, SessionRefusal
        <4> QED
          BY <1>6, <3>1, <4>1, <4>2 DEF Misses, Live
      <3>6. CASE m.op = "archive"
        BY <1>5, <1>6, <3>3, <3>6 DEF NewRow, Misses, IsSession, Session
      <3> QED
        BY <2>1, <3>4, <3>5, <3>6 DEF IsMutation
    <2>2. CASE m.kind = "student"
      <3>1. CASE Leaves(s, m)
        <4>1. e["session"][x] = Archived(s["session"][x], m.id)
          BY <1>4, <2>2, <3>1
        <4>2. /\ s["session"][x].state = "active" /\ p \in s["session"][x].members
              /\ p # m.id
          BY <1>5, <1>6, <4>1, ArchivedReads DEF Misses
        <4>3. e["student"][p] = s["student"][p]
          BY <1>4, <4>2
        <4> QED
          BY <1>6, <4>2, <4>3 DEF Misses, Live
      <3>2. CASE ~Leaves(s, m)
        <4>1. e["session"][x] = s["session"][x]
          BY <1>4, <2>2, <3>2
        <4>2. p = m.id /\ e["student"][p] = NewRow(m, s["student"][p])
          BY <1>4, <1>6, <2>2, <4>1 DEF Misses, Live
        <4>3. Live(s, "student", p) /\ ~Live(e, "student", p)
          BY <1>6, <4>1 DEF Misses
        <4> QED
          BY <1>5, <2>2, <3>2, <4>2, <4>3 DEF NewRow, Live, Leaves, IsMutation, Plain
      <3> QED
        BY <3>1, <3>2
    <2>3. CASE m.kind # "session" /\ m.kind # "student"
      BY <1>4, <1>6, <2>3 DEF Misses, Live, Leaves
    <2> QED
      BY <2>1, <2>2, <2>3
  <1>7. ASSUME NEW a \in Appointments, Unserved(e, a), ~Unserved(s, a) PROVE FALSE
    <2>1. \A c \in Clients : Live(s, "client", c) => Live(e, "client", c)
      BY <1>4 DEF Live, NewRow, IsMutation
    <2>2. CASE m.kind = "appointment" /\ a = m.id
      <3>1. e["appointment"][a] = m.row /\ IsAppointment(m.row)
        BY <1>4, <2>2 DEF NewRow, IsMutation, IsRow
      <3>2. m.row.client \in Clients /\ Live(s, "client", m.row.client)
        BY <1>1, <1>7, <2>2, <3>1 DEF Unserved, Refusal, AppointmentRefusal, IsAppointment
      <3> QED
        BY <1>7, <2>1, <3>1, <3>2 DEF Unserved
    <2>3. CASE ~(m.kind = "appointment" /\ a = m.id)
      <3>1. e["appointment"][a] = s["appointment"][a]
        BY <1>4, <2>3
      <3> QED
        BY <1>5, <1>7, <2>1, <3>1 DEF Unserved, IsAppointment
    <2> QED
      BY <2>2, <2>3
  <1>8. Booked(e, D)
    BY <1>6, <1>7 DEF Booked
  <1> QED
    BY <1>8 DEF e

(* Doubt spread over a single mutation.                                    *)
LEMMA SpreadOne == ASSUME NEW D, NEW m, IsMutation(m) PROVE Spread(D, <<m>>) = Spreading(D, m)
  <1> DEFINE q == <<m>>
  <1>1. IsQueue(q) /\ Len(q) = 1 /\ q[1] = m
    BY DEF IsQueue, ToSet
  <1>2. 0 \in 0..(Len(q) - 1) /\ 0 + 1 = 1
    BY <1>1
  <1> HIDE DEF q
  <1>3. \A j \in 0..(Len(q) - 1) : SpreadTo(D, q, j + 1) = Spreading(SpreadTo(D, q, j), q[j + 1])
    BY <1>1, SpreadSteps
  <1>4. SpreadTo(D, q, 0 + 1) = Spreading(SpreadTo(D, q, 0), q[0 + 1])
    BY <1>2, <1>3
  <1>5. Spread(D, q) = Spreading(D, m)
    BY <1>1, <1>2, <1>4, SpreadSteps
  <1> QED
    BY <1>5 DEF q

(* A command that was overtaken, came early or rests on doubts leaves its  *)
(* rows in doubt; of any other both sides make the same.                   *)
LEMMA WriteCases ==
    ASSUME TypeInv, CommandInv, NEW b \in Tabs, Write(b)
    PROVE  LET m == cmd[b].mutation IN
           \/ Touched(m) \subseteq doubtful'
           \/ /\ Certain(device, doubtful, m) /\ doubtful' = doubtful
              /\ \A t \in Tables \ {"event"} : Written(cmd[b].puts)[t] = Effect(device, m)[t]
  <1> DEFINE c == cmd[b]
             m == c.mutation
             D == doubtful \union Doubted(c)
  <1>1. IsMutation(m) /\ ~m.dead
    BY QueuedTypes
  <1>2. doubtful' = Spreading(D, m)
    BY <1>1, SpreadOne DEF Write
  <1>3. CASE Used(m) \intersect D # {}
    BY <1>1, <1>2, <1>3 DEF Spreading
  <1>4. CASE Used(m) \intersect D = {}
    <2>1. ~c.stale /\ ~Early(m)
      BY <1>4, TouchedUsed DEF Doubted
    <2>2. doubtful' = doubtful
      BY <1>2, <1>4, <2>1 DEF Spreading, Doubted
    <2>3. Decides(device, c.puts, m)
      BY <2>1 DEF CommandInv, Settled, Write
    <2>4. IsDb(device) /\ Used(m) \intersect doubtful = {}
      BY <1>4 DEF TypeInv
    <2> HIDE DEF m, c, D
    <2>5. Certain(device, doubtful, m)
      BY <2>1, <2>3, <2>4 DEF Decides, Accepts, Certain
    <2>6. \A t \in Tables \ {"event"} : Written(c.puts)[t] = Effect(device, m)[t]
      BY <1>1, <2>3, <2>4, DecidesWrites DEF Decides
    <2> QED
      BY <2>2, <2>5, <2>6 DEF m, c
  <1> QED
    BY <1>3, <1>4

(* Events do not matter to what is booked.                                 *)
LEMMA BookedSame ==
    ASSUME NEW a, NEW b, NEW D, NEW E, D \subseteq E, Booked(a, D),
           \A t \in Tables \ {"event"} : b[t] = a[t]
    PROVE  Booked(b, E)
  <1>1. /\ b["session"] = a["session"] /\ b["student"] = a["student"]
        /\ b["appointment"] = a["appointment"] /\ b["client"] = a["client"]
    BY DEF Tables
  <1> QED
    BY <1>1 DEF Booked, Misses, Unserved, Live

(* Nothing is booked at first.                                             *)
LEMMA InitBooked == Init => BookedInv
  <1> SUFFICES ASSUME Init PROVE BookedInv
    OBVIOUS
  <1>1. ASSUME NEW x \in Sessions, NEW p \in Students PROVE ~Misses(device, x, p)
    BY DEF Init, Misses, Live, Session, NoSession, Entry
  <1>2. ASSUME NEW a \in Appointments PROVE ~Unserved(device, a)
    <2>1. Sound(server) /\ server = device
      BY InitSound DEF ServerInv, Init
    <2> QED
      BY <2>1 DEF Sound, Unserved
  <1> QED
    BY <1>1, <1>2 DEF BookedInv, Booked

(* Every step keeps sessions with live members, appointments and           *)
(* collections with live clients.                                          *)
LEMMA NextBooked ==
    TypeInv /\ ServerInv /\ EventInv /\ CommandInv /\ BookedInv /\ [Next]_vars => BookedInv'
  <1> SUFFICES ASSUME TypeInv, ServerInv, EventInv, CommandInv, BookedInv, [Next]_vars
               PROVE  BookedInv'
    OBVIOUS
  <1>1. ASSUME UNCHANGED device, doubtful \subseteq doubtful' PROVE BookedInv'
    BY <1>1, BookedSame DEF BookedInv
  <1>2. CASE Beginning
    BY <1>1, <1>2, BeginFacts DEF Beginning
  <1>3. CASE MarksOnly
    BY <1>1, <1>3, MarksFacts DEF MarksOnly
  <1>4. ASSUME NEW b \in Tabs, Write(b) PROVE BookedInv'
    <2> DEFINE m == cmd[b].mutation
               e == Effect(device, m)
    <2>1. CASE Touched(m) \subseteq doubtful'
      BY <1>4, <2>1, WriteBooks
    <2>2. CASE /\ Certain(device, doubtful, m) /\ doubtful' = doubtful
               /\ \A t \in Tables \ {"event"} : Written(cmd[b].puts)[t] = e[t]
      <3>1. Booked(e, doubtful)
        BY <1>4, <2>2, EffectBooked, QueuedTypes DEF BookedInv, TypeInv
      <3>2. \A t \in Tables \ {"event"} : device'[t] = e[t]
        BY <1>4, <2>2, WriteReads
      <3> HIDE DEF e
      <3> QED
        BY <2>2, <3>1, <3>2, BookedSame DEF BookedInv
    <2> QED
      BY <1>4, <2>1, <2>2, WriteCases
  <1>5. ASSUME NEW b \in Tabs, MarkActivityUndone(b) PROVE BookedInv'
    <2>1. UNCHANGED doubtful
      BY <1>5 DEF MarkActivityUndone
    <2>2. CASE UNCHANGED device
      BY <1>1, <2>1, <2>2
    <2>3. CASE ~UNCHANGED device
      <3>1. /\ IsDb(device') /\ IsDb(device)
            /\ \A t \in Tables : \A id \in IdsOf(t) :
                 t # "event" => device'[t][id] = device[t][id]
        BY <1>5, <2>3, MarkReads DEF TypeInv
      <3>2. \A t \in Tables \ {"event"} : device'[t] = device[t]
        BY <3>1 DEF IsDb
      <3> QED
        BY <2>1, <3>2, BookedSame DEF BookedInv
    <2> QED
      BY <2>2, <2>3
  <1>6. CASE FetchSnapshot \/ ForeignChange \/ \E b \in Tabs : CloseTab(b)
    BY <1>1, <1>6 DEF CloseTab, FetchSnapshot, ForeignChange
  <1>7. CASE Push
    BY <1>1, <1>7 DEF Push
  <1>8. CASE ApplySnapshot
    <2> DEFINE s == snap.rows
    <2>1. /\ \A t \in Tables \ {"event"} : device'[t] = s[t]
          /\ Sound(s) /\ IsDb(s)
      BY <1>8, PulledReads DEF ApplySnapshot, ServerInv, TypeInv
    <2>2. Misbooked(s) \subseteq doubtful'
      BY <1>8, SpreadGrows DEF ApplySnapshot, TypeInv
    <2>3. Booked(s, doubtful')
      <3>1. ASSUME NEW x \in Sessions, NEW p \in Students, Misses(s, x, p)
            PROVE  <<"session", x>> \in doubtful'
        BY <2>2, <3>1 DEF Misbooked, Misses
      <3>2. \A a \in Appointments : ~Unserved(s, a)
        BY <2>1 DEF Sound, Unserved
      <3> QED
        BY <3>1, <3>2 DEF Booked
    <2> QED
      BY <2>1, <2>3, BookedSame DEF BookedInv
  <1>9. CASE RetryDeadLetter
    <2>1. PICK k \in DOMAIN outbox :
            /\ outbox[k].dead /\ outbox' = [outbox EXCEPT ![k].dead = FALSE]
            /\ doubtful' = Spread(doubtful \union Touched(outbox[k]), outbox')
            /\ UNCHANGED device
      BY <1>9 DEF RetryDeadLetter
    <2>2. IsQueue(outbox')
      BY <2>1, RetryTypes DEF TypeInv
    <2>3. doubtful \subseteq doubtful'
      BY <2>1, <2>2, SpreadGrows
    <2> QED
      BY <1>1, <2>1, <2>3
  <1>10. CASE UNCHANGED vars
    BY <1>1, <1>10 DEF vars
  <1>11. IsDb(device)
    BY DEF TypeInv
  <1> QED
    BY <1>2, <1>3, <1>4, <1>5, <1>6, <1>7, <1>8, <1>9, <1>10, <1>11, Steps

-----------------------------------------------------------------------------
(* Where two sides agree.                                                  *)

(* More doubt, less to agree on.                                           *)
LEMMA AgreeMore ==
    ASSUME NEW D, NEW E, D \subseteq E, NEW a, NEW b, Agrees(D, a, b)
    PROVE  Agrees(E, a, b)
  BY DEF Agrees

(* Agreement is transitive,                                                *)
LEMMA AgreeThen ==
    ASSUME NEW D, NEW a, NEW b, NEW c, Agrees(D, a, b), Agrees(D, b, c)
    PROVE  Agrees(D, a, c)
  BY DEF Agrees

(* and reflexive.                                                          *)
LEMMA AgreeSame == ASSUME NEW D, NEW a PROVE Agrees(D, a, a)
  BY DEF Agrees

(* One mutation changes nothing but its own rows.                          *)
LEMMA HandledConfined ==
    ASSUME NEW o, IsOutcome(o), NEW m, IsMutation(m), NEW D, Touched(m) \subseteq D
    PROVE  Agrees(D, Handled(o, m).db, o.db)
  <1>1. CASE Handled(o, m).db = o.db
    BY <1>1, AgreeSame
  <1>2. CASE Handled(o, m).db = Effect(o.db, m)
    <2>1. IsDb(o.db)
      BY DEF IsOutcome
    <2>2. \A t \in Tables : \A id \in IdsOf(t) :
            <<t, id>> \in D \/ Effect(o.db, m)[t][id] = o.db[t][id]
      <3> SUFFICES ASSUME NEW t \in Tables, NEW id \in IdsOf(t), <<t, id>> \notin D
                   PROVE  Effect(o.db, m)[t][id] = o.db[t][id]
        OBVIOUS
      <3> QED
        BY <2>1, EffectConfined
    <2> QED
      BY <1>2, <2>2 DEF Agrees
  <1> QED
    BY <1>1, <1>2, HandledDb

(* A dead letter is passed over.                                           *)
LEMMA HandledDead ==
    ASSUME NEW o, IsOutcome(o), NEW m, m.dead
    PROVE  Handled(o, m).db = o.db /\ Handled(o, m).refused = o.refused
  BY DEF Handled, IsOutcome

(* What is refused of a replay grows by the mutation refused.              *)
LEMMA HandledRefused ==
    ASSUME NEW o, IsOutcome(o), NEW m
    PROVE  Handled(o, m).refused = IF ~m.dead /\ Refusal(o.db, m) # "accepted"
                                   THEN o.refused \union {m} ELSE o.refused
  BY DEF Handled, IsOutcome

(* A queue that touches doubtful rows only changes no others.              *)
LEMMA ReplayConfined ==
    ASSUME NEW s, IsDb(s), NEW q, IsQueue(q), NEW D,
           \A m \in ToSet(q) : m.dead \/ Touched(m) \subseteq D
    PROVE  Agrees(D, Replay(s, q).db, s)
  <1> DEFINE S == {j \in 0..Len(q) : Agrees(D, After(s, q, j).db, s)}
  <1>1. Len(q) \in Nat
    BY Queues
  <1>2. 0 \in S
    BY <1>1, ReplaySteps, AgreeSame DEF Start
  <1>3. ASSUME NEW j \in 0..(Len(q) - 1), j \in S PROVE j + 1 \in S
    <2>1. j + 1 \in 0..Len(q) /\ j \in 0..Len(q)
      BY <1>1
    <2>2. /\ After(s, q, j + 1) = Handled(After(s, q, j), q[j + 1])
          /\ q[j + 1] \in ToSet(q) /\ IsMutation(q[j + 1])
      BY Queues, ReplaySteps DEF IsQueue
    <2>3. IsOutcome(After(s, q, j)) /\ Agrees(D, After(s, q, j).db, s)
      BY <1>3, <2>1, AfterTypes
    <2>4. Agrees(D, Handled(After(s, q, j), q[j + 1]).db, After(s, q, j).db)
      <3>1. CASE q[j + 1].dead
        BY <2>3, <3>1, HandledDead, AgreeSame
      <3>2. CASE ~q[j + 1].dead
        BY <2>2, <2>3, <3>2, HandledConfined
      <3> QED
        BY <3>1, <3>2
    <2>5. Agrees(D, After(s, q, j + 1).db, s)
      BY <2>2, <2>3, <2>4, AgreeThen
    <2> QED
      BY <2>1, <2>5
  <1> HIDE DEF S
  <1>4. \A j \in 0..Len(q) : j \in S
    BY <1>1, <1>2, <1>3, Replays!HandedOn
  <1>5. Len(q) \in 0..Len(q)
    BY <1>1
  <1> QED
    BY <1>4, <1>5, ReplaySteps DEF S

(* The same mutation on two sides that agree.                              *)
LEMMA HandledAgrees ==
    ASSUME NEW D, NEW o, IsOutcome(o), NEW p, IsOutcome(p), Agrees(D, o.db, p.db),
           NEW m, IsMutation(m)
    PROVE  /\ Agrees(Spreading(D, m), Handled(o, m).db, Handled(p, m).db)
           /\ m \in Handled(p, m).refused =>
                \/ m \in Handled(o, m).refused \/ m \in p.refused
                \/ Touched(m) \subseteq Spreading(D, m)
  <1>1. IsDb(o.db) /\ IsDb(p.db)
    BY DEF IsOutcome
  <1>2. CASE m.dead
    BY <1>2, HandledDead, SpreadingGrows, AgreeMore
  <1>3. CASE ~m.dead /\ Used(m) \intersect D # {}
    <2> DEFINE E == D \union Touched(m)
    <2>1. Spreading(D, m) = E
      BY <1>3 DEF Spreading
    <2>2. Agrees(E, o.db, p.db)
      BY AgreeMore
    <2>3. Agrees(E, Handled(o, m).db, o.db) /\ Agrees(E, Handled(p, m).db, p.db)
      BY HandledConfined
    <2> HIDE DEF E
    <2>4. Agrees(E, Handled(o, m).db, Handled(p, m).db)
      BY <2>2, <2>3 DEF Agrees
    <2> QED
      BY <2>1, <2>4 DEF E
  <1>4. CASE ~m.dead /\ Used(m) \intersect D = {}
    <2>1. Spreading(D, m) = D
      BY <1>4 DEF Spreading
    <2>2. Refusal(o.db, m) = Refusal(p.db, m)
      BY <1>1, <1>4, RefusalLocal
    <2>3. Agrees(D, Effect(o.db, m), Effect(p.db, m))
      BY <1>1, <1>4, EffectLocal
    <2>4. Agrees(D, Handled(o, m).db, Handled(p, m).db)
      <3>1. CASE Refusal(o.db, m) = "accepted"
        BY <1>4, <2>2, <2>3, <3>1 DEF Handled, IsOutcome
      <3>2. CASE Refusal(o.db, m) # "accepted"
        BY <1>4, <2>2, <3>2 DEF Handled, IsOutcome
      <3> QED
        BY <3>1, <3>2
    <2> QED
      BY <2>1, <2>2, <2>4, HandledRefused
  <1> QED
    BY <1>2, <1>3, <1>4

(* Two replays side by side: of a queue and of the one with a dead letter  *)
(* revived.                                                                *)
Twins(E, o, p) ==
    /\ Agrees(E, o.db, p.db)
    /\ \A m \in p.refused : m \in o.refused \/ Touched(m) \subseteq E

Revived(m, n, E) == m.dead /\ SameMutation(n, m) /\ Touched(m) \subseteq E

(* Two replays that agree beyond doubt go on agreeing, also when one of    *)
(* them meets a revived mutation where the other met a dead letter.        *)
LEMMA TwinsGo ==
    ASSUME NEW E, NEW o, IsOutcome(o), NEW p, IsOutcome(p), Twins(E, o, p),
           NEW m, IsMutation(m), NEW n, IsMutation(n), n = m \/ Revived(m, n, E)
    PROVE  Twins(Spreading(E, n), Handled(o, m), Handled(p, n))
  <1> DEFINE F == Spreading(E, n)
             oo == Handled(o, m)
             pp == Handled(p, n)
  <1>1. E \subseteq F
    BY SpreadingGrows
  <1>2. /\ o.refused \subseteq oo.refused /\ pp.refused \subseteq p.refused \union {n}
        /\ \A x \in p.refused : x \in o.refused \/ Touched(x) \subseteq E
    BY HandledRefused DEF Twins
  <1>3. CASE n = m
    <2>1. /\ Agrees(F, oo.db, pp.db)
          /\ n \in pp.refused => n \in oo.refused \/ n \in p.refused \/ Touched(n) \subseteq F
      BY <1>3, HandledAgrees DEF Twins
    <2> HIDE DEF F, oo, pp
    <2>2. Twins(F, oo, pp)
      BY <1>1, <1>2, <2>1 DEF Twins
    <2> QED
      BY <2>2 DEF F, oo, pp
  <1>4. CASE Revived(m, n, E)
    <2>1. Touched(n) \subseteq E
      BY <1>4 DEF Revived, SameMutation, Touched
    <2>2. oo.db = o.db
      BY <1>4, HandledDead DEF Revived
    <2>3. Agrees(E, pp.db, p.db) /\ Agrees(E, o.db, p.db)
      BY <2>1, HandledConfined DEF Twins
    <2> HIDE DEF F, oo, pp
    <2>4. Agrees(F, oo.db, pp.db)
      BY <1>1, <2>2, <2>3 DEF Agrees
    <2>5. \A x \in pp.refused : x \in oo.refused \/ Touched(x) \subseteq F
      BY <1>1, <1>2, <2>1
    <2>6. Twins(F, oo, pp)
      BY <2>4, <2>5 DEF Twins
    <2> QED
      BY <2>6 DEF F, oo, pp
  <1> QED
    BY <1>3, <1>4

(* Reviving a dead letter changes what its doubts reach, and no more.      *)
LEMMA RevivedAgrees ==
    ASSUME NEW s, IsDb(s), NEW q, IsQueue(q), NEW r, IsQueue(r), Len(r) = Len(q),
           NEW D, \A i \in DOMAIN q : r[i] = q[i] \/ Revived(q[i], r[i], D)
    PROVE  Twins(Spread(D, r), Replay(s, q), Replay(s, r))
  <1> DEFINE S == {j \in 0..Len(q) :
                     Twins(SpreadTo(D, r, j), After(s, q, j), After(s, r, j))}
  <1>1. Len(q) \in Nat /\ DOMAIN q = 1..Len(q)
    BY Queues
  <1>2. 0 \in S
    <2>1. After(s, q, 0) = Start(s) /\ After(s, r, 0) = Start(s)
      BY ReplaySteps
    <2>2. Twins(SpreadTo(D, r, 0), After(s, q, 0), After(s, r, 0))
      BY <2>1, AgreeSame DEF Twins, Start
    <2> QED
      BY <1>1, <2>2
  <1>3. ASSUME NEW j \in 0..(Len(q) - 1), j \in S PROVE j + 1 \in S
    <2>1. j + 1 \in 0..Len(q) /\ j \in 0..Len(q) /\ j + 1 \in DOMAIN q /\ j \in 0..(Len(r) - 1)
      BY <1>1
    <2>2. Twins(SpreadTo(D, r, j), After(s, q, j), After(s, r, j))
      BY <1>3
    <2> HIDE DEF S
    <2>3. After(s, q, j + 1) = Handled(After(s, q, j), q[j + 1])
      BY Queues, ReplaySteps
    <2>4. After(s, r, j + 1) = Handled(After(s, r, j), r[j + 1])
      BY <2>1, Queues, ReplaySteps
    <2>5. SpreadTo(D, r, j + 1) = Spreading(SpreadTo(D, r, j), r[j + 1])
      BY <2>1, SpreadStep
    <2>6. IsMutation(q[j + 1]) /\ IsMutation(r[j + 1])
      BY <2>1, Queues DEF IsQueue
    <2>7. IsOutcome(After(s, q, j)) /\ IsOutcome(After(s, r, j))
      BY <2>1, AfterTypes
    <2>8. r[j + 1] = q[j + 1] \/ Revived(q[j + 1], r[j + 1], SpreadTo(D, r, j))
      <3>1. D \subseteq SpreadTo(D, r, j)
        BY <2>1, SpreadGrows
      <3>2. r[j + 1] = q[j + 1] \/ Revived(q[j + 1], r[j + 1], D)
        BY <2>1
      <3> QED
        BY <3>1, <3>2 DEF Revived
    <2>9. Twins(Spreading(SpreadTo(D, r, j), r[j + 1]),
                Handled(After(s, q, j), q[j + 1]), Handled(After(s, r, j), r[j + 1]))
      BY <2>2, <2>6, <2>7, <2>8, TwinsGo
    <2>10. Twins(SpreadTo(D, r, j + 1), After(s, q, j + 1), After(s, r, j + 1))
      BY <2>3, <2>4, <2>5, <2>9
    <2> QED
      BY <2>1, <2>10 DEF S
  <1> HIDE DEF S
  <1>4. \A j \in 0..Len(q) : j \in S
    BY <1>1, <1>2, <1>3, Replays!HandedOn
  <1>5. Len(q) \in 0..Len(q)
    BY <1>1
  <1>6. Twins(SpreadTo(D, r, Len(r)), After(s, q, Len(q)), After(s, r, Len(r)))
    BY <1>4, <1>5 DEF S
  <1>7. After(s, q, Len(q)) = Replay(s, q) /\ After(s, r, Len(r)) = Replay(s, r)
    BY ReplaySteps
  <1>8. SpreadTo(D, r, Len(r)) = Spread(D, r)
    BY SpreadSteps
  <1> QED
    BY <1>6, <1>7, <1>8

-----------------------------------------------------------------------------
(* The queue replayed on the server's rows gives the device's.             *)

(* A replay with one more mutation handles that one last.                  *)
LEMMA ReplayAppend ==
    ASSUME NEW s, NEW q, IsQueue(q), NEW m
    PROVE  Replay(s, Append(q, m)) = Handled(Replay(s, q), m)
  <1> DEFINE S == ToSet(q) \union {m}
  <1>1. q \in Seq(S) /\ m \in S
    <2>1. q \in Seq(ToSet(q))
      BY Queues
    <2> QED
      BY <2>1
  <1> HIDE DEF S
  <1>2. Replays!Fold(Start(s), Append(q, m)) = Handled(Replays!Fold(Start(s), q), m)
    BY <1>1, Replays!FoldAppend
  <1> QED
    BY <1>2, ReplayFolds

(* More doubt keeps server and device level.                               *)
LEMMA LevelMore ==
    ASSUME NEW o, NEW d, NEW D, NEW E, D \subseteq E, Level(o, d, D)
    PROVE  Level(o, d, E)
  <1>1. \A m \in o.refused : Touched(m) \subseteq E
    BY DEF Level
  <1> QED
    BY <1>1, AgreeMore DEF Level

(* A queue of live mutations that touch doubtful rows only.                *)
LEMMA LevelConfined ==
    ASSUME NEW s, IsDb(s), NEW q, IsQueue(q), NEW D, NEW d, Agrees(D, s, d),
           \A m \in ToSet(q) : m.dead \/ Touched(m) \subseteq D
    PROVE  Level(Replay(s, q), d, D)
  <1>1. Agrees(D, Replay(s, q).db, s)
    BY ReplayConfined
  <1>2. Agrees(D, Replay(s, q).db, d)
    BY <1>1, AgreeThen
  <1>3. \A m \in Replay(s, q).refused : m \in ToSet(q) /\ ~m.dead
    BY ReplayTypes DEF Drawn
  <1>4. \A m \in Replay(s, q).refused : Touched(m) \subseteq D
    BY <1>3
  <1> QED
    BY <1>2, <1>4 DEF Level

(* The record of the event a write added.                                  *)
LEMMA RecordAgrees ==
    ASSUME NEW o, IsOutcome(o), NEW D, NEW d, IsDb(d), NEW e, IsDb(e),
           NEW n \in Numbers, NEW r, IsMutation(r), ~r.dead,
           r.kind = "event", r.op = "record", r.id = n,
           d.event[n] = NoEvent, e.event[n] = r.row,
           Agrees(D, o.db, d),
           \A t \in Tables : \A id \in IdsOf(t) :
             (t = "event" /\ id = n) \/ <<t, id>> \in D \/ e[t][id] = d[t][id]
    PROVE  Agrees(D, Handled(o, r).db, e) /\ Handled(o, r).refused = o.refused
  <1>1. Refusal(o.db, r) = "accepted"
    BY DEF Refusal, EventRefusal
  <1>2. /\ Handled(o, r).db = Effect(o.db, r) /\ Handled(o, r).refused = o.refused
        /\ IsDb(o.db)
    BY <1>1 DEF Handled, IsOutcome
  <1>3. Agrees(D, Effect(o.db, r), e)
    <2> SUFFICES ASSUME NEW t \in Tables, NEW id \in IdsOf(t), <<t, id>> \notin D
                 PROVE  Effect(o.db, r)[t][id] = e[t][id]
      BY DEF Agrees
    <2>1. o.db[t][id] = d[t][id]
      BY DEF Agrees
    <2>2. Effect(o.db, r)[t][id] = RowAfter(o.db, r, t, id)
      BY <1>2, EffectReads
    <2>3. CASE t = "event" /\ id = n
      BY <2>1, <2>2, <2>3 DEF RowAfter, TableOf, NewEvent
    <2>4. CASE ~(t = "event" /\ id = n)
      <3>1. RowAfter(o.db, r, t, id) = o.db[t][id]
        BY <2>4 DEF RowAfter, TableOf, Leaves
      <3> QED
        BY <2>1, <2>2, <2>4, <3>1
    <2> QED
      BY <2>3, <2>4
  <1> QED
    BY <1>2, <1>3

(* A command: its mutation does on the server what its put did on the      *)
(* device.                                                                 *)
LEMMA WriteAgrees ==
    ASSUME TypeInv, EventInv, CommandInv, BookedInv, NEW b \in Tabs, Write(b),
           Level(Replay(server, outbox), device, doubtful)
    PROVE  Level(Replay(server, outbox'), device', doubtful')
  <1> DEFINE m == cmd[b].mutation
             n == made + 1
             r == Record(n, cmd[b].event)
             o == Replay(server, outbox)
             p == Handled(o, m)
  <1>1. /\ IsMutation(m) /\ ~m.dead /\ IsMutation(r) /\ ~r.dead
        /\ r.kind = "event" /\ r.op = "record" /\ r.id = n /\ r.row = cmd[b].event /\ n \in Numbers
        /\ outbox' = Append(Append(outbox, m), r) /\ IsQueue(Append(outbox, m))
        /\ m.kind # "event" /\ m \in ToSet(outbox') /\ IsQueue(outbox')
    BY QueuedTypes
  <1>2. IsQueue(outbox) /\ IsDb(server) /\ IsDb(device) /\ IsDb(device')
    BY WriteTypes DEF TypeInv
  <1>3. Replay(server, outbox') = Handled(p, r)
    BY <1>1, <1>2, ReplayAppend
  <1>4. IsOutcome(o) /\ Drawn(o, outbox)
    BY <1>2, ReplayTypes
  <1>5. IsOutcome(p)
    <2>1. IsQueue(Append(outbox, m)) /\ p = Replay(server, Append(outbox, m))
      BY <1>1, <1>2, ReplayAppend
    <2> QED
      BY <1>2, <2>1, ReplayTypes
  <1>6. /\ \A t \in Tables \ {"event"} : device'[t] = Written(cmd[b].puts)[t]
        /\ \A k \in Numbers : device'.event[k] = IF k = n THEN cmd[b].event ELSE device.event[k]
        /\ device.event[n] = NoEvent /\ doubtful \subseteq doubtful'
    BY WriteReads
  <1> HIDE DEF r, n, o
  (* the device without its new event *)
  <1>7. ASSUME NEW d, IsDb(d), Agrees(doubtful', p.db, d), d.event[n] = NoEvent,
               \A t \in Tables : \A id \in IdsOf(t) :
                 \/ (t = "event" /\ id = n) \/ <<t, id>> \in doubtful'
                 \/ device'[t][id] = d[t][id],
               \A x \in p.refused : Touched(x) \subseteq doubtful'
        PROVE  Level(Handled(p, r), device', doubtful')
    <2>1. device'.event[n] = r.row
      BY <1>1, <1>6
    <2>3. /\ n \in Numbers /\ IsMutation(r) /\ ~r.dead
          /\ r.kind = "event" /\ r.op = "record" /\ r.id = n
      BY <1>1
    <2>4. IsDb(device') /\ IsOutcome(p)
      BY <1>2, <1>5
    <2>5. \A t \in Tables : \A id \in IdsOf(t) :
            (t = "event" /\ id = n) \/ <<t, id>> \in doubtful' \/ device'[t][id] = d[t][id]
      BY <1>7
    <2> HIDE DEF m, p
    <2>2. Agrees(doubtful', Handled(p, r).db, device') /\ Handled(p, r).refused = p.refused
      BY <1>7, <2>1, <2>3, <2>4, <2>5, RecordAgrees
    <2> QED
      BY <1>7, <2>2 DEF Level
  <1>8. CASE Touched(m) \subseteq doubtful'
    <2>1. Agrees(doubtful', p.db, device)
      <3>1. Agrees(doubtful', p.db, o.db)
        BY <1>1, <1>4, <1>8, HandledConfined
      <3>2. Agrees(doubtful', o.db, device)
        BY <1>6, AgreeMore DEF Level, o
      <3> QED
        BY <3>1, <3>2, AgreeThen
    <2>2. \A t \in Tables : \A id \in IdsOf(t) :
            \/ (t = "event" /\ id = n) \/ <<t, id>> \in doubtful'
            \/ device'[t][id] = device[t][id]
      <3>1. \A t \in Tables \ {"event"} : \A id \in IdsOf(t) :
              <<t, id>> \in Touched(m) \/ device'[t][id] = device[t][id]
        BY WriteConfined
      <3>2. \A id \in IdsOf("event") : id = n \/ device'["event"][id] = device["event"][id]
        BY <1>6 DEF IdsOf
      <3> HIDE DEF m
      <3> QED
        BY <1>8, <3>1, <3>2
    <2>3. \A x \in p.refused : Touched(x) \subseteq doubtful'
      <3>1. p.refused \subseteq o.refused \union {m}
        BY <1>4, HandledRefused
      <3>2. \A x \in o.refused : Touched(x) \subseteq doubtful'
        BY <1>6 DEF Level, o
      <3> QED
        BY <1>8, <3>1, <3>2
    <2> QED
      BY <1>2, <1>3, <1>6, <1>7, <2>1, <2>2, <2>3
  <1>9. CASE /\ Certain(device, doubtful, m) /\ doubtful' = doubtful
             /\ \A t \in Tables \ {"event"} : Written(cmd[b].puts)[t] = Effect(device, m)[t]
    <2> DEFINE d == Effect(device, m)
    <2>1. Refusal(device, m) = "accepted"
      BY <1>1, <1>9, CertainAccepted DEF BookedInv
    <2>2. Refusal(o.db, m) = Refusal(device, m) /\ Agrees(doubtful, Effect(o.db, m), d)
      <3>1. Agrees(doubtful, o.db, device) /\ IsDb(o.db)
        BY <1>4 DEF Level, o, IsOutcome
      <3> QED
        BY <1>1, <1>2, <1>9, <3>1, RefusalLocal, EffectLocal DEF Certain
    <2>3. p.db = Effect(o.db, m) /\ p.refused = o.refused
      BY <1>1, <1>4, <2>1, <2>2 DEF Handled, IsOutcome
    <2>4. /\ \A t \in Tables \ {"event"} : device'[t] = d[t]
          /\ \A k \in Numbers : d.event[k] = device.event[k]
      <3>1. \A t \in Tables \ {"event"} : device'[t] = d[t]
        BY <1>6, <1>9
      <3>2. \A k \in Numbers : d.event[k] = device.event[k]
        BY <1>1, <1>2, EffectEvents
      <3> QED
        BY <3>1, <3>2
    <2>5. IsDb(d)
      BY <1>1, <1>2, EffectReads
    <2> HIDE DEF d, m, p
    <2>6. \A t \in Tables : \A id \in IdsOf(t) :
            \/ (t = "event" /\ id = n) \/ <<t, id>> \in doubtful'
            \/ device'[t][id] = d[t][id]
      <3>1. \A id \in IdsOf("event") : id = n \/ device'["event"][id] = d["event"][id]
        BY <1>6, <2>4 DEF IdsOf
      <3> QED
        BY <2>4, <3>1
    <2>7. d.event[n] = NoEvent
      BY <1>1, <1>6, <2>4
    <2>8. Agrees(doubtful', p.db, d)
      BY <1>9, <2>2, <2>3
    <2>9. \A x \in p.refused : Touched(x) \subseteq doubtful'
      BY <1>9, <2>3 DEF Level, o
    <2> QED
      BY <1>3, <1>7, <2>5, <2>6, <2>7, <2>8, <2>9
  <1> QED
    BY <1>8, <1>9, WriteCases

(* The mark of an undo does the same to both logs.                         *)
LEMMA MarkAgrees ==
    ASSUME TypeInv, NEW b \in Tabs, MarkActivityUndone(b),
           Level(Replay(server, outbox), device, doubtful)
    PROVE  Level(Replay(server, outbox'), device', doubtful')
  <1> DEFINE n == cmd[b].mark
             u == Mutation("event", "undo", n, NoRow)
             o == Replay(server, outbox)
  <1>1. /\ n \in Numbers /\ IsMutation(u) /\ ~u.dead /\ u.kind = "event"
        /\ u.op = "undo" /\ u.id = n
        /\ \/ UNCHANGED <<device, outbox>>
           \/ /\ device.event[n] # NoEvent /\ outbox' = Append(outbox, u)
              /\ \A t \in Tables : \A id \in IdsOf(t) :
                   device'[t][id] = IF t = "event" /\ id = n THEN Undone(device.event[n])
                                    ELSE device[t][id]
    BY MarkReads
  <1>2. UNCHANGED <<server, doubtful>> /\ IsDb(server) /\ IsQueue(outbox)
    BY DEF MarkActivityUndone, cloudVars, TypeInv
  <1>3. IsOutcome(o) /\ IsDb(o.db)
    BY <1>2, ReplayTypes DEF IsOutcome
  <1>4. CASE UNCHANGED <<device, outbox>>
    BY <1>2, <1>4
  <1>5. CASE ~UNCHANGED <<device, outbox>>
    <2> DEFINE p == Handled(o, u)
    <2>5. device.event[n] # NoEvent /\ outbox' = Append(outbox, u)
      BY <1>1, <1>5
    <2>6. \A t \in Tables : \A id \in IdsOf(t) :
            device'[t][id] = IF t = "event" /\ id = n THEN Undone(device.event[n])
                             ELSE device[t][id]
      BY <1>1, <1>5
    <2>1. Replay(server, outbox') = p
      BY <1>2, <2>5, ReplayAppend
    <2>2. Agrees(doubtful, o.db, device) /\ \A x \in o.refused : Touched(x) \subseteq doubtful
      BY DEF Level
    <2> HIDE DEF o, u
    <2>3. CASE <<"event", n>> \in doubtful
      <3>1. Touched(u) \subseteq doubtful
        BY <1>1, <2>3 DEF Touched, TableOf
      <3>2. Agrees(doubtful, p.db, o.db) /\ p.refused \subseteq o.refused \union {u}
        BY <1>1, <1>3, <3>1, HandledConfined, HandledRefused
      <3> HIDE DEF p
      <3>3. Agrees(doubtful, p.db, device')
        <4> SUFFICES ASSUME NEW t \in Tables, NEW id \in IdsOf(t), <<t, id>> \notin doubtful
                     PROVE  p.db[t][id] = device'[t][id]
          BY DEF Agrees
        <4>1. p.db[t][id] = o.db[t][id] /\ o.db[t][id] = device[t][id]
          BY <2>2, <3>2 DEF Agrees
        <4>2. ~(t = "event" /\ id = n)
          BY <2>3
        <4>3. device'[t][id] = device[t][id]
          BY <2>6, <4>2
        <4> QED
          BY <4>1, <4>3
      <3> QED
        BY <1>2, <2>1, <2>2, <3>1, <3>2, <3>3 DEF Level
    <2>4. CASE <<"event", n>> \notin doubtful
      <3>1. o.db["event"][n] = device["event"][n]
        BY <1>1, <2>2, <2>4 DEF Agrees, Tables, IdsOf
      <3>2. Refusal(o.db, u) = "accepted"
        BY <1>1, <2>5, <3>1 DEF Refusal, EventRefusal
      <3>3. p.db = Effect(o.db, u) /\ p.refused = o.refused
        BY <1>1, <1>3, <3>2 DEF Handled, IsOutcome
      <3>4. \A t \in Tables : \A id \in IdsOf(t) :
              p.db[t][id] = IF t = "event" /\ id = n THEN Undone(o.db["event"][n]) ELSE o.db[t][id]
        <4>1. \A t \in Tables : \A id \in IdsOf(t) : p.db[t][id] = RowAfter(o.db, u, t, id)
          BY <1>1, <1>3, <3>3, EffectReads
        <4>2. ASSUME NEW t \in Tables, NEW id \in IdsOf(t)
              PROVE  RowAfter(o.db, u, t, id) =
                       IF t = "event" /\ id = n THEN Undone(o.db["event"][n]) ELSE o.db[t][id]
          <5>1. CASE t = "event" /\ id = n
            BY <1>1, <5>1 DEF RowAfter, TableOf, NewEvent, Undone
          <5>2. CASE ~(t = "event" /\ id = n)
            BY <1>1, <5>2 DEF RowAfter, TableOf, Leaves
          <5> QED
            BY <5>1, <5>2
        <4> HIDE DEF p
        <4> QED
          BY <4>1, <4>2
      <3> HIDE DEF p
      <3>5. Agrees(doubtful, p.db, device')
        <4> SUFFICES ASSUME NEW t \in Tables, NEW id \in IdsOf(t), <<t, id>> \notin doubtful
                     PROVE  p.db[t][id] = device'[t][id]
          BY DEF Agrees
        <4>1. o.db[t][id] = device[t][id]
          BY <2>2 DEF Agrees
        <4>2. /\ p.db[t][id] = IF t = "event" /\ id = n THEN Undone(o.db["event"][n])
                               ELSE o.db[t][id]
              /\ device'[t][id] = IF t = "event" /\ id = n THEN Undone(device.event[n])
                                  ELSE device[t][id]
          BY <2>6, <3>4
        <4>3. CASE t = "event" /\ id = n
          BY <3>1, <4>2, <4>3
        <4>4. CASE ~(t = "event" /\ id = n)
          BY <4>1, <4>2, <4>4
        <4> QED
          BY <4>3, <4>4
      <3> QED
        BY <1>2, <2>1, <2>2, <3>3, <3>5 DEF Level
    <2> QED
      BY <2>3, <2>4
  <1> QED
    BY <1>4, <1>5

(* A push replays the queue that was to be replayed, and what it leaves    *)
(* touches only doubtful rows.                                             *)
LEMMA PushAgrees ==
    ASSUME TypeInv, KnownInv, AgreeInv, Push
    PROVE  AgreeInv'
  <1> SUFFICES ASSUME Informed' PROVE Level(Replay(server', outbox'), device', doubtful')
    BY DEF AgreeInv
  <1>1. base = revision
    BY DEF Push, KnownInv, Informed
  <1> DEFINE o == Replay(server, outbox)
  <1>2. /\ server' = o.db /\ outbox' = o.left
        /\ UNCHANGED <<base, revision, behind, device, doubtful>>
    BY <1>1 DEF Push
  <1>3. Level(o, device, doubtful)
    BY <1>2 DEF AgreeInv, Informed
  <1>4. IsOutcome(o) /\ Drawn(o, outbox)
    BY ReplayTypes DEF TypeInv
  <1> HIDE DEF o
  <1>5. /\ IsDb(o.db) /\ IsQueue(o.left) /\ Agrees(doubtful, o.db, device)
        /\ \A m \in ToSet(o.left) : m.dead \/ Touched(m) \subseteq doubtful
    BY <1>3, <1>4 DEF IsOutcome, Drawn, Level
  <1>6. Level(Replay(o.db, o.left), device, doubtful)
    BY <1>5, LevelConfined
  <1> QED
    BY <1>2, <1>6

(* A snapshot of the current revision brings the device to the server's    *)
(* rows; what waits to be pushed becomes doubtful.                         *)
LEMMA ApplyAgrees ==
    ASSUME TypeInv, KnownInv, ApplySnapshot
    PROVE  AgreeInv'
  <1> SUFFICES ASSUME Informed' PROVE Level(Replay(server', outbox'), device', doubtful')
    BY DEF AgreeInv
  <1>1. snap # NoSnapshot /\ snap.rev = revision /\ UNCHANGED <<server, outbox>>
    BY DEF ApplySnapshot, Informed
  <1>2. snap.rows = server
    BY <1>1 DEF KnownInv
  <1>3. /\ IsDb(device') /\ IsDb(server) /\ IsQueue(outbox)
        /\ \A t \in Tables \ {"event"} : device'[t] = server[t]
        /\ \A n \in Numbers : device'.event[n] =
             IF server.event[n] = NoEvent THEN device.event[n] ELSE server.event[n]
    BY <1>1, <1>2, PulledReads DEF ApplySnapshot, TypeInv
  <1>4. /\ \A d \in doubtful : d[1] = "event" => d \in doubtful'
        /\ \A m \in Waiting : Touched(m) \subseteq doubtful'
    <2>1. {d \in doubtful : d[1] = "event"} \union Misbooked(snap.rows)
            \union UNION {Touched(m) : m \in Waiting} \subseteq doubtful'
      BY <1>3, SpreadGrows DEF ApplySnapshot
    <2> QED
      BY <2>1
  <1>5. Agrees(doubtful', server, device')
    <2>1. ASSUME NEW n \in Numbers, <<"event", n>> \notin doubtful'
          PROVE  server.event[n] = device'.event[n]
      <3> SUFFICES ASSUME server.event[n] = NoEvent, device.event[n] # NoEvent PROVE FALSE
        BY <1>3
      <3>1. <<"event", n>> \notin doubtful
        BY <1>4, <2>1
      <3>2. PICK m \in Waiting : m.kind = "event" /\ m.id = n
        BY <3>1 DEF KnownInv
      <3>3. <<"event", n>> \in Touched(m)
        BY <3>2, TouchedUsed DEF TableOf
      <3> QED
        BY <1>4, <2>1, <3>3
    <2> SUFFICES ASSUME NEW t \in Tables, NEW id \in IdsOf(t), <<t, id>> \notin doubtful'
                 PROVE  server[t][id] = device'[t][id]
      BY DEF Agrees
    <2>2. CASE t = "event"
      BY <2>1, <2>2 DEF IdsOf
    <2>3. CASE t # "event"
      BY <1>3, <2>3
    <2> QED
      BY <2>2, <2>3
  <1>6. \A m \in ToSet(outbox) : m.dead \/ Touched(m) \subseteq doubtful'
    BY <1>4 DEF Waiting
  <1>7. Level(Replay(server, outbox), device', doubtful')
    BY <1>3, <1>5, <1>6, LevelConfined
  <1> QED
    BY <1>1, <1>7

(* A revived dead letter touches only rows the retry makes doubtful.       *)
LEMMA RetriedAgrees ==
    ASSUME TypeInv, AgreeInv, RetryDeadLetter
    PROVE  AgreeInv'
  <1> SUFFICES ASSUME Informed' PROVE Level(Replay(server', outbox'), device', doubtful')
    BY DEF AgreeInv
  <1>1. PICK k \in DOMAIN outbox :
          /\ outbox[k].dead /\ outbox' = [outbox EXCEPT ![k].dead = FALSE]
          /\ doubtful' = Spread(doubtful \union Touched(outbox[k]), outbox')
          /\ UNCHANGED <<device, server, revision, base, behind>>
    BY DEF RetryDeadLetter, cloudVars
  <1> DEFINE q == outbox
             D == doubtful \union Touched(outbox[k])
             o == Replay(server, outbox)
  <1>2. /\ IsQueue(outbox) /\ IsQueue(outbox') /\ Len(outbox') = Len(outbox) /\ IsDb(server)
        /\ \A i \in DOMAIN outbox : outbox'[i] = outbox[i] \/ Revived(outbox[i], outbox'[i], D)
    <2>1. IsQueue(outbox) /\ IsDb(server)
      BY DEF TypeInv
    <2>2. /\ IsQueue(outbox') /\ Len(outbox') = Len(outbox)
          /\ SameMutation(outbox'[k], outbox[k])
          /\ \A i \in DOMAIN outbox \ {k} : outbox'[i] = outbox[i]
      BY <1>1, <2>1, RetryTypes
    <2> QED
      BY <1>1, <2>1, <2>2 DEF Revived
  <1>3. Level(o, device, doubtful)
    BY <1>1 DEF AgreeInv, Informed
  <1>4. D \subseteq doubtful'
    BY <1>1, <1>2, SpreadGrows
  <1>5. Twins(doubtful', o, Replay(server, outbox'))
    BY <1>1, <1>2, RevivedAgrees
  <1>6. Level(o, device, doubtful')
    BY <1>3, <1>4, LevelMore
  <1> DEFINE p == Replay(server, outbox')
  <1> HIDE DEF o, p
  <1>7. Agrees(doubtful', p.db, device)
    BY <1>5, <1>6 DEF Twins, Level, Agrees, p
  <1>8. \A m \in p.refused : Touched(m) \subseteq doubtful'
    BY <1>5, <1>6 DEF Twins, Level, p
  <1> QED
    BY <1>1, <1>7, <1>8 DEF Level, p

(* Server and device begin alike.                                          *)
LEMMA InitAgrees == Init => AgreeInv
  <1> SUFFICES ASSUME Init PROVE AgreeInv
    OBVIOUS
  <1>1. IsDb(server) /\ IsQueue(outbox) /\ server = device
    BY InitTypes DEF TypeInv, Init
  <1>2. ToSet(outbox) = {}
    BY DEF Init, ToSet
  <1>3. Level(Replay(server, outbox), device, doubtful)
    BY <1>1, <1>2, AgreeSame, LevelConfined
  <1> QED
    BY <1>3 DEF AgreeInv

(* Everything that holds between two steps.                                *)
IInv ==
    /\ TypeInv /\ ServerInv /\ EventInv /\ KnownInv
    /\ BookedInv /\ CommandInv /\ AgreeInv

(* Every step keeps server and device level beyond doubt.                  *)
LEMMA NextAgrees == IInv /\ [Next]_vars => AgreeInv'
  <1> SUFFICES ASSUME IInv, [Next]_vars PROVE AgreeInv'
    OBVIOUS
  <1>1. /\ TypeInv /\ EventInv /\ KnownInv /\ BookedInv /\ CommandInv /\ AgreeInv
        /\ IsDb(device)
    BY DEF IInv, TypeInv
  <1>2. ASSUME UNCHANGED <<device, outbox, server, revision, base, behind>>,
               doubtful \subseteq doubtful'
        PROVE  AgreeInv'
    BY <1>1, <1>2, LevelMore DEF AgreeInv, Informed
  <1>3. CASE Beginning
    BY <1>1, <1>2, <1>3, BeginFacts DEF Beginning, cloudVars
  <1>4. CASE MarksOnly
    BY <1>1, <1>2, <1>4, MarksFacts DEF MarksOnly, cloudVars
  <1>5. ASSUME NEW b \in Tabs, Write(b) PROVE AgreeInv'
    <2>1. UNCHANGED <<server, revision, base, behind>>
      BY <1>5 DEF Write, cloudVars
    <2> QED
      BY <1>1, <1>5, <2>1, WriteAgrees DEF AgreeInv, Informed
  <1>6. ASSUME NEW b \in Tabs, MarkActivityUndone(b) PROVE AgreeInv'
    <2>1. UNCHANGED <<server, revision, base, behind>>
      BY <1>6 DEF MarkActivityUndone, cloudVars
    <2> QED
      BY <1>1, <1>6, <2>1, MarkAgrees DEF AgreeInv, Informed
  <1>7. CASE FetchSnapshot \/ \E b \in Tabs : CloseTab(b)
    BY <1>2, <1>7 DEF CloseTab, FetchSnapshot, cloudVars
  <1>8. CASE Push \/ ApplySnapshot \/ RetryDeadLetter
    BY <1>1, <1>8, PushAgrees, ApplyAgrees, RetriedAgrees
  <1>9. CASE ForeignChange
    BY <1>9 DEF ForeignChange, AgreeInv, Informed
  <1>10. CASE UNCHANGED vars
    BY <1>2, <1>10 DEF vars, cloudVars
  <1> QED
    BY <1>1, <1>3, <1>4, <1>5, <1>6, <1>7, <1>8, <1>9, <1>10, Steps

(* The conjunction of the seven invariants is inductive.                   *)
LEMMA Invariant == Spec => []IInv
  <1>1. Init => IInv
    <2>1. Init => CommandInv
      BY NewIdle DEF Init, CommandInv, Settled
    <2> QED
      BY <2>1, InitTypes, InitSound, InitEvents, InitKnown, InitBooked, InitAgrees DEF IInv
  <1>2. IInv /\ [Next]_vars => IInv'
    <2> SUFFICES ASSUME IInv, [Next]_vars PROVE IInv'
      OBVIOUS
    <2>1. TypeInv'
      <3>1. TypeInv
        BY DEF IInv
      <3> QED
        BY <3>1, NextTypes
    <2> QED
      BY <2>1, NextSound, NextEvents, NextKnown, NextBooked, NextCommand, NextAgrees DEF IInv
  <1> QED
    BY <1>1, <1>2, PTL DEF Spec

(* Replaying the queue on the server's rows gives the rows and the events  *)
(* the device shows, whatever its tabs did in between, the doubtful rows   *)
(* apart.                                                                  *)
THEOREM ServerAgreesHolds == Spec => []ServerAgrees
  <1>1. IInv => ServerAgrees
    <2> SUFFICES ASSUME IInv, Informed,
                        NEW t \in DOMAIN device, NEW id \in DOMAIN device[t],
                        <<t, id>> \notin doubtful
                 PROVE  Replay(server, outbox).db[t][id] = device[t][id]
      BY DEF ServerAgrees
    <2>1. t \in Tables /\ id \in IdsOf(t)
      BY DEF IInv, TypeInv, IsDb
    <2> QED
      BY <2>1 DEF IInv, AgreeInv, Level, Agrees
  <1> QED
    BY <1>1, Invariant, PTL

(* What the device's guards allowed, the server's handlers accept when the *)
(* queue is replayed, unless a snapshot or another tab overtook one of its *)
(* rows, a dead letter holds it or it came before the workspace's date.    *)
THEOREM NothingRefusedHolds == Spec => []NothingRefused
  <1>1. IInv => NothingRefused
    <2> SUFFICES ASSUME IInv, Informed, NEW m \in Replay(server, outbox).refused
                 PROVE  Used(m) \intersect doubtful # {}
      BY DEF NothingRefused
    <2>1. Touched(m) \subseteq doubtful
      BY DEF IInv, AgreeInv, Level
    <2> QED
      BY <2>1, TouchedUsed
  <1> QED
    BY <1>1, Invariant, PTL
=============================================================================
