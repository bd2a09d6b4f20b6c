------------------------- MODULE SyncProtocolProofs -------------------------
(***************************************************************************)
(* Proofs about SyncProtocol for any number of devices, edits, requests    *)
(* and faults.                                                             *)
(***************************************************************************)
EXTENDS SyncProtocol, TLAPS

(* Results that let a device drop the outbox row.                          *)
Acknowledges(result) == result \in {"applied", "duplicate"}

(* What is marked done is in the tables; what a request takes for done, or *)
(* an answer reports as such, is marked done; a handler that has run has   *)
(* left its effect.                                                        *)
ReportInv ==
    /\ done \subseteq db
    /\ \A s \in Slots :
         /\ req[s].known \subseteq done
         /\ \A m \in Mutations : Acknowledges(req[s].results[m]) => m \in done
         /\ req[s].phase = "mark" =>
              \A m \in Mutations : Lowest(m, req[s].todo) => m \in db
    /\ \A d \in Devices, m \in Mutations :
         Acknowledges(inbox[d].results[m]) => m \in done

(* A device that waits for a response knows which request it made.         *)
CallInv == \A d \in Devices : step[d] = "pushing" => call[d] \in Slots

ForgetInv == TypeOK /\ CallInv /\ ReportInv /\ NothingForgotten

(* The initial state satisfies the invariant.                              *)
LEMMA ForgetInvInit == Init => ForgetInv
<1> SUFFICES ASSUME Init PROVE ForgetInv
  OBVIOUS
<1>1. NoResults \in [Mutations -> Results]
  BY DEF NoResults, Results
<1>2. NoRequest \in RequestType /\ NoResponse \in ResponseType
  BY <1>1 DEF NoRequest, NoResponse, RequestType, ResponseType, Phases
<1>3. edits \in 0..MaxEdits /\ faults \in 0..MaxFaults
  BY SyncAssumption DEF Init
<1>5. TypeOK
  BY <1>2, <1>3 DEF Init, TypeOK, Statuses, Steps
<1>6. \A m \in Mutations : NoResults[m] = "none"
  BY DEF NoResults
<1>7. ReportInv
  BY <1>6 DEF Init, ReportInv, Acknowledges, NoRequest, NoResponse
<1>8. NothingForgotten
  BY DEF Init, NothingForgotten
<1>9. CallInv
  BY DEF Init, CallInv
<1> QED BY <1>5, <1>7, <1>8, <1>9 DEF ForgetInv

-----------------------------------------------------------------------------
(* Type correctness, one action at a time.                                 *)

(* Counting a fault keeps the counter in its range.                        *)
LEMMA FaultBound ==
  ASSUME faults \in 0..MaxFaults,
         UNCHANGED faults \/ \E kind \in FaultKinds : Fault(kind)
  PROVE  faults' \in 0..MaxFaults
BY SyncAssumption DEF Fault

(* A step of a sync run on a device (engine.ts) keeps every domain.        *)
LEMMA ClientTypeOK ==
  ASSUME TypeOK, CallInv,
         NEW d \in Devices, ClientStep(d) \/ LosePush(d) \/ CloseTab(d)
  PROVE  TypeOK'
<1> USE DEF TypeOK, Goto, serverVars
<1>1. ASSUME NEW s \in Slots, StartPush(d, s) PROVE TypeOK'
  <2>1. PendingOf(d) \subseteq Mutations
    BY DEF PendingOf
  <2>2. [NoRequest EXCEPT !.phase = "check", !.dev = d, !.base = link[d],
                          !.muts = PendingOf(d)] \in RequestType
    BY <2>1 DEF NoRequest, NoResults, RequestType, Phases, Results
  <2>3. req' \in [Slots -> RequestType]
    BY <1>1, <2>2 DEF StartPush
  <2>4. step' \in [Devices -> Steps] /\ call' \in [Devices -> Slots \union {NoSlot}]
    BY <1>1 DEF StartPush, Steps
  <2> QED BY <1>1, <2>3, <2>4 DEF StartPush
<1>2. CASE StartWithoutPush(d)
  BY <1>2 DEF StartWithoutPush, Steps
<1>3. CASE ReceivePush(d)
  <2>0. call[d] \in Slots \union {NoSlot}
    OBVIOUS
  <2>1. NoRequest \in RequestType
    BY DEF NoRequest, NoResults, RequestType, Phases, Results
  <2>2. req' \in [Slots -> RequestType]
    <3>1. req' = [req EXCEPT ![call[d]] = NoRequest]
      BY <1>3 DEF ReceivePush
    <3> QED BY <2>1, <3>1
  <2>3. step' \in [Devices -> Steps] /\ call' \in [Devices -> Slots \union {NoSlot}]
    BY <1>3 DEF ReceivePush, Steps
  <2>4. inbox' \in [Devices -> ResponseType]
    <3> DEFINE new == [NoResponse EXCEPT !.results = req[call[d]].results,
                                         !.rev = req[call[d]].rev]
    <3>1. CASE req[call[d]].phase = "answer"
      <4>1. call[d] \in Slots
        BY <1>3 DEF ReceivePush, CallInv
      <4>2. req[call[d]].results \in [Mutations -> Results] /\ req[call[d]].rev \in Nat
        BY <4>1 DEF RequestType
      <4>3. new \in ResponseType
        BY <4>2 DEF NoResponse, ResponseType
      <4> QED BY <1>3, <3>1, <4>3 DEF ReceivePush
    <3>2. CASE req[call[d]].phase # "answer"
      BY <1>3, <3>2 DEF ReceivePush
    <3> QED BY <3>1, <3>2
  <2> QED BY <1>3, <2>2, <2>3, <2>4 DEF ReceivePush
<1>4. CASE SettleResult(d)
  <2> PICK m \in Answered(inbox[d].results) :
         /\ outbox' = [outbox EXCEPT ![m] = Settled(inbox[d].results[m])]
         /\ inbox' = [inbox EXCEPT ![d].results[m] = "none"]
    BY <1>4 DEF SettleResult
  <2>1. m \in Mutations
    BY DEF Answered
  <2>2. outbox' \in [Mutations -> Statuses]
    BY <2>1 DEF Settled, Statuses, Waiting
  <2>3. inbox' \in [Devices -> ResponseType]
    BY <2>1 DEF ResponseType, Results
  <2> QED BY <1>4, <2>2, <2>3 DEF SettleResult
<1>5. CASE AdoptRevision(d) \/ RelinkRevision(d)
  <2>1. inbox[d].rev \in Nat
    BY DEF ResponseType
  <2>2. NoResponse \in ResponseType
    BY DEF NoResponse, NoResults, ResponseType, Results
  <2>3. link' \in [Devices -> Nat] /\ inbox' \in [Devices -> ResponseType]
    BY <1>5, <2>1, <2>2 DEF AdoptRevision, RelinkRevision
  <2>4. step' \in [Devices -> Steps]
    BY <1>5 DEF AdoptRevision, RelinkRevision, Steps
  <2> QED BY <1>5, <2>3, <2>4 DEF AdoptRevision, RelinkRevision
<1>6. CASE Decide(d)
  BY <1>6 DEF Decide, Steps
<1>7. CASE FetchSnapshot(d)
  <2>1. [NoResponse EXCEPT !.data = db, !.rev = revision] \in ResponseType
    BY DEF NoResponse, NoResults, ResponseType, Results
  <2>2. inbox' \in [Devices -> ResponseType]
    BY <1>7, <2>1 DEF FetchSnapshot
  <2>3. step' \in [Devices -> Steps]
    BY <1>7 DEF FetchSnapshot, Steps
  <2> QED BY <1>7, <2>2, <2>3 DEF FetchSnapshot
<1>8. CASE ApplySnapshot(d)
  <2>1. inbox[d].data \subseteq Mutations
    BY DEF ResponseType
  <2> QED BY <1>8, <2>1 DEF ApplySnapshot, Steps
<1>9. CASE LosePush(d)
  <2>1. faults' \in 0..MaxFaults
    BY <1>9, FaultBound DEF LosePush, FaultKinds
  <2> QED BY <1>9, <2>1 DEF LosePush, Steps
<1>10. CASE CloseTab(d)
  <2>1. NoResponse \in ResponseType
    BY DEF NoResponse, NoResults, ResponseType, Results
  <2>2. faults' \in 0..MaxFaults
    BY <1>10, FaultBound DEF CloseTab, FaultKinds
  <2> QED BY <1>10, <2>1, <2>2 DEF CloseTab, Steps
<1> QED
  BY <1>1, <1>2, <1>3, <1>4, <1>5, <1>6, <1>7, <1>8, <1>9, <1>10
  DEF ClientStep

(* Edits, dead letter decisions, lost responses and closed tabs keep every *)
(* domain.                                                                 *)
LEMMA UserTypeOK ==
  ASSUME TypeOK,
         \/ \E d \in Devices : Edit(d)
         \/ \E m \in Mutations : RetryDeadLetter(m) \/ DiscardDeadLetter(m)
  PROVE  TypeOK'
<1> USE DEF TypeOK, serverVars, Fault, Statuses, Waiting
<1>1. ASSUME NEW d \in Devices, Edit(d) PROVE TypeOK'
  <2>1. edits + 1 \in Mutations /\ edits' \in 0..MaxEdits
    BY <1>1, SyncAssumption DEF Edit, Mutations
  <2>2. outbox' \in [Mutations -> Statuses]
    BY <1>1, <2>1 DEF Edit, Enqueue
  <2>3. local' \in [Devices -> SUBSET Mutations]
    BY <1>1, <2>1 DEF Edit
  <2> QED BY <1>1, <2>1, <2>2, <2>3 DEF Edit
<1>2. ASSUME NEW m \in Mutations, RetryDeadLetter(m) \/ DiscardDeadLetter(m)
      PROVE  TypeOK'
  <2>1. faults' \in 0..MaxFaults
    BY <1>2, FaultBound DEF RetryDeadLetter, DiscardDeadLetter, FaultKinds
  <2> QED BY <1>2, <2>1 DEF RetryDeadLetter, DiscardDeadLetter
<1> QED BY <1>1, <1>2

(* A request whose new value is a request leaves req well typed.           *)
LEMMA ReqUpdateType ==
  ASSUME NEW s \in Slots, NEW r \in RequestType,
         req \in [Slots -> RequestType], req' = [req EXCEPT ![s] = r]
  PROVE  req' \in [Slots -> RequestType]
OBVIOUS

(* A step of a push on the server (sync/routes.ts) keeps every domain.     *)
LEMMA ServerTypeOK ==
  ASSUME TypeOK, NEW s \in Slots, ServerStep(s) \/ ServerCrash(s)
  PROVE  TypeOK'
<1> USE DEF TypeOK, clientVars, Fault
<1>0. /\ req[s] \in RequestType
      /\ req[s].muts \subseteq Mutations /\ req[s].known \subseteq Mutations
      /\ req[s].todo \subseteq Mutations
      /\ req[s].results \in [Mutations -> Results]
  BY DEF RequestType
<1>1. CASE CheckCompleted(s)
  <2> DEFINE known == req[s].muts \intersect done
             reply == [m \in Mutations |-> IF m \in known THEN "duplicate"
                                           ELSE "none"]
             allDone == known = req[s].muts
             new == [req[s] EXCEPT !.known = known,
                       !.phase = IF ~allDone THEN "reserve"
                                 ELSE IF lease = "free" THEN "answer"
                                 ELSE "error",
                       !.results = IF allDone THEN reply ELSE req[s].results,
                       !.rev = IF allDone THEN revision ELSE req[s].rev]
  <2>1. reply \in [Mutations -> Results]
    BY DEF Results
  <2> HIDE DEF reply
  <2>2. new \in RequestType
    BY <1>0, <2>1 DEF RequestType, Phases
  <2>3. req' = [req EXCEPT ![s] = new]
    BY <1>1 DEF CheckCompleted, reply
  <2> HIDE DEF new
  <2>4. req' \in [Slots -> RequestType]
    BY <2>2, <2>3, ReqUpdateType
  <2> QED BY <1>1, <2>4 DEF CheckCompleted
<1>2. CASE ReservePush(s)
  <2>1. ASSUME NEW v \in {"retryable", "conflict"}, NotReserved(s, v)
        PROVE  TypeOK'
    <3> DEFINE reply == [m \in Mutations |->
                           CASE m \in req[s].known -> "duplicate"
                             [] m \in Unapplied(s) -> v
                             [] OTHER -> "none"]
               new == [req[s] EXCEPT !.phase = "answer", !.rev = revision,
                                     !.results = reply]
    <3>1. reply \in [Mutations -> Results]
      BY DEF Results
    <3>2. req' = [req EXCEPT ![s] = new]
      BY <2>1 DEF NotReserved, CurrentRevision
    <3> HIDE DEF reply
    <3>3. new \in RequestType
      BY <1>0, <3>1 DEF RequestType, Phases
    <3> HIDE DEF new
    <3>4. req' \in [Slots -> RequestType]
      BY <3>2, <3>3, ReqUpdateType
    <3>5. failedOnce' \subseteq Mutations
      BY <1>0, <2>1 DEF NotReserved, Unapplied
    <3> QED BY <1>2, <2>1, <3>4, <3>5 DEF NotReserved, ReservePush
  <2>2. ASSUME req' = [req EXCEPT ![s].phase = "apply", ![s].todo = req[s].muts],
               lease' = "held", UNCHANGED failedOnce
        PROVE  TypeOK'
    <3> DEFINE new == [req[s] EXCEPT !.phase = "apply", !.todo = req[s].muts]
    <3>1. new \in RequestType
      BY <1>0 DEF RequestType, Phases
    <3>2. req' = [req EXCEPT ![s] = new]
      BY <2>2
    <3> HIDE DEF new
    <3>3. req' \in [Slots -> RequestType]
      BY <3>1, <3>2, ReqUpdateType
    <3> QED BY <1>2, <2>2, <3>3 DEF ReservePush
  <2> QED BY <1>2, <2>1, <2>2 DEF ReservePush
<1>3. ASSUME NEW m \in Mutations, NEW r \in Results, Report(s, m, r)
      PROVE  req' \in [Slots -> RequestType]
  <2> DEFINE reply == [req[s].results EXCEPT ![m] = r]
             new == [req[s] EXCEPT !.phase = "apply", !.todo = @ \ {m},
                                   !.results = reply]
  <2>1. reply \in [Mutations -> Results]
    BY <1>0
  <2>2. req' = [req EXCEPT ![s] = new]
    BY <1>3 DEF Report
  <2> HIDE DEF reply
  <2>3. new \in RequestType
    BY <1>0, <2>1 DEF RequestType, Phases
  <2> HIDE DEF new
  <2> QED BY <2>2, <2>3, ReqUpdateType
<1>4. CASE SkipDuplicate(s) \/ MarkDone(s)
  <2>1. req' \in [Slots -> RequestType]
    BY <1>0, <1>3, <1>4 DEF SkipDuplicate, MarkDone, Results
  <2> QED BY <1>0, <1>4, <2>1 DEF SkipDuplicate, MarkDone
<1>5. CASE RunHandler(s)
  <2>1. [req[s] EXCEPT !.phase = "mark"] \in RequestType
    BY <1>0 DEF RequestType, Phases
  <2>2. req' \in [Slots -> RequestType]
    BY <1>5, <2>1 DEF RunHandler
  <2> QED BY <1>0, <1>5, <2>2 DEF RunHandler
<1>6. CASE HandlerFails(s)
  <2>1. req' \in [Slots -> RequestType]
    BY <1>0, <1>3, <1>6 DEF HandlerFails, Results
  <2>2. failedOnce' \subseteq Mutations /\ faults' \in 0..MaxFaults
    BY <1>0, <1>6, SyncAssumption DEF HandlerFails
  <2> QED BY <1>6, <2>1, <2>2 DEF HandlerFails
<1>7. CASE FinalizePush(s) \/ PushBreaks(s)
  <2>1. /\ [req[s] EXCEPT !.phase = "confirm"] \in RequestType
        /\ [req[s] EXCEPT !.phase = "error"] \in RequestType
    BY <1>0 DEF RequestType, Phases
  <2>2. req' \in [Slots -> RequestType]
    BY <1>7, <2>1 DEF FinalizePush, PushBreaks
  <2>3. faults' \in 0..MaxFaults
    BY <1>7, FaultBound DEF FinalizePush, PushBreaks, FaultKinds
  <2> QED BY <1>7, <2>2, <2>3 DEF FinalizePush, PushBreaks
<1>8. CASE ConfirmPush(s)
  <2> DEFINE new == [req[s] EXCEPT
                       !.phase = IF lease = "free" THEN "answer" ELSE "error",
                       !.rev = revision]
  <2>1. new \in RequestType
    BY <1>0 DEF RequestType, Phases
  <2>2. req' = [req EXCEPT ![s] = new]
    BY <1>8 DEF ConfirmPush
  <2> HIDE DEF new
  <2>3. req' \in [Slots -> RequestType]
    BY <2>1, <2>2, ReqUpdateType
  <2> QED BY <1>8, <2>3 DEF ConfirmPush
<1>9. CASE DropResponse(s) \/ ServerCrash(s)
  <2>1. NoRequest \in RequestType
    BY DEF NoRequest, NoResults, RequestType, Phases, Results
  <2>2. req' \in [Slots -> RequestType]
    BY <1>9, <2>1 DEF DropResponse, ServerCrash
  <2>3. step' \in [Devices -> Steps] /\ call' \in [Devices -> Slots \union {NoSlot}]
    BY <1>9 DEF DropResponse, ServerCrash, Steps
  <2>4. lease' \in {"free", "held", "abandoned"}
    BY <1>9 DEF DropResponse, ServerCrash
  <2>5. faults' \in 0..MaxFaults
    BY <1>9, FaultBound DEF DropResponse, ServerCrash, FaultKinds
  <2> QED BY <1>9, <2>2, <2>3, <2>4, <2>5 DEF DropResponse, ServerCrash
<1> QED
  BY <1>1, <1>2, <1>4, <1>5, <1>6, <1>7, <1>8, <1>9 DEF ServerStep

(* Every step keeps every domain.                                          *)
LEMMA TypeOKStep == TypeOK /\ CallInv /\ [Next]_vars => TypeOK'
<1> SUFFICES ASSUME TypeOK, CallInv, [Next]_vars PROVE TypeOK'
  OBVIOUS
<1>1. CASE RecoverLease
  BY <1>1 DEF RecoverLease, TypeOK, clientVars
<1>2. CASE UNCHANGED vars
  BY <1>2 DEF vars, clientVars, serverVars, TypeOK
<1>3. ASSUME NEW d \in Devices,
             ClientStep(d) \/ Edit(d) \/ LosePush(d) \/ CloseTab(d)
      PROVE  TypeOK'
  BY <1>3, ClientTypeOK, UserTypeOK
<1>4. ASSUME NEW m \in Mutations, RetryDeadLetter(m) \/ DiscardDeadLetter(m)
      PROVE  TypeOK'
  BY <1>4, UserTypeOK
<1>5. ASSUME NEW s \in Slots, ServerStep(s) \/ ServerCrash(s) PROVE TypeOK'
  BY <1>5, ServerTypeOK
<1> QED BY <1>1, <1>2, <1>3, <1>4, <1>5 DEF Next

(* Every step keeps a waiting device pointed at a request.                 *)
LEMMA CallInvStep == TypeOK /\ CallInv /\ [Next]_vars => CallInv'
<1> SUFFICES ASSUME TypeOK, CallInv, [Next]_vars PROVE CallInv'
  OBVIOUS
<1> USE DEF CallInv, TypeOK, Goto
<1>1. ASSUME NEW d \in Devices, NEW s \in Slots, StartPush(d, s) PROVE CallInv'
  BY <1>1 DEF StartPush
<1>2. ASSUME NEW d \in Devices,
             \/ StartWithoutPush(d) \/ ReceivePush(d) \/ SettleResult(d)
             \/ AdoptRevision(d) \/ Decide(d) \/ FetchSnapshot(d)
             \/ ApplySnapshot(d) \/ RelinkRevision(d) \/ LosePush(d)
             \/ CloseTab(d)
      PROVE  CallInv'
  BY <1>2 DEF StartWithoutPush, ReceivePush, SettleResult, AdoptRevision,
     Decide, FetchSnapshot, ApplySnapshot, RelinkRevision, LosePush, CloseTab
<1>3. ASSUME NEW s \in Slots, ServerCrash(s) PROVE CallInv'
  BY <1>3 DEF ServerCrash
<1>4. CASE \/ \E d \in Devices : Edit(d)
           \/ \E m \in Mutations : RetryDeadLetter(m) \/ DiscardDeadLetter(m)
           \/ \E s \in Slots : ServerStep(s)
           \/ RecoverLease
           \/ UNCHANGED vars
  <2>1. UNCHANGED <<step, call>>
    BY <1>4 DEF Edit, RetryDeadLetter, DiscardDeadLetter, ServerStep,
       CheckCompleted, ReservePush, SkipDuplicate, RunHandler, MarkDone,
       HandlerFails, FinalizePush, PushBreaks, ConfirmPush, DropResponse,
       RecoverLease,
       vars, clientVars
  <2> QED BY <2>1
<1> QED BY <1>1, <1>2, <1>3, <1>4 DEF Next, ClientStep

-----------------------------------------------------------------------------
(* What is reported done is done, one action at a time.                    *)

(* Two edits neither of which is later than the other are one edit.        *)
LEMMA Antisymmetry ==
  \A i, j \in Nat : i <= j /\ j <= i => i = j
OBVIOUS

(* It is enough to look at the one request that changes.                   *)
LEMMA ReportOneRequest ==
  ASSUME ReportInv, NEW s \in Slots, UNCHANGED inbox,
         done \subseteq done', db \subseteq db', done' \subseteq db',
         \A t \in Slots : t # s => req'[t] = req[t],
         req'[s].known \subseteq done',
         \A m \in Mutations : Acknowledges(req'[s].results[m]) => m \in done',
         req'[s].phase = "mark" =>
           \A m \in Mutations : Lowest(m, req'[s].todo) => m \in db'
  PROVE  ReportInv'
<1>1. ASSUME NEW t \in Slots
      PROVE  /\ req'[t].known \subseteq done'
             /\ \A m \in Mutations : Acknowledges(req'[t].results[m]) => m \in done'
             /\ req'[t].phase = "mark" =>
                  \A m \in Mutations : Lowest(m, req'[t].todo) => m \in db'
  <2>1. CASE t = s
    BY <2>1
  <2>2. CASE t # s
    BY <2>2 DEF ReportInv
  <2> QED BY <2>1, <2>2
<1>2. \A d \in Devices, m \in Mutations :
         Acknowledges(inbox'[d].results[m]) => m \in done'
  BY DEF ReportInv
<1> QED BY <1>1, <1>2 DEF ReportInv

(* Whatever a request takes for done or reports as such stays marked done. *)
LEMMA ReportInvStep == ForgetInv /\ [Next]_vars => ReportInv'
<1> SUFFICES ASSUME TypeOK, CallInv, ReportInv, [Next]_vars PROVE ReportInv'
  BY DEF ForgetInv
<1> USE DEF TypeOK, ReportInv, serverVars
<1>1. ASSUME NEW d \in Devices, NEW s \in Slots, StartPush(d, s)
      PROVE  ReportInv'
  BY <1>1 DEF StartPush, NoRequest, NoResults, Acknowledges
<1>2. ASSUME NEW d \in Devices, ReceivePush(d) PROVE ReportInv'
  <2>1. call[d] \in Slots
    BY <1>2 DEF ReceivePush, CallInv
  <2>2. req' = [req EXCEPT ![call[d]] = NoRequest] /\ UNCHANGED <<db, done>>
    BY <1>2 DEF ReceivePush
  <2>3. \A e \in Devices, m \in Mutations :
           Acknowledges(inbox'[e].results[m]) => m \in done
    <3>1. CASE req[call[d]].phase = "answer"
      <4>1. inbox' = [inbox EXCEPT ![d] =
                        [NoResponse EXCEPT !.results = req[call[d]].results,
                                           !.rev = req[call[d]].rev]]
        BY <1>2, <3>1 DEF ReceivePush
      <4>2. \A e \in Devices :
               \/ inbox'[e].results = inbox[e].results
               \/ inbox'[e].results = req[call[d]].results
        BY <4>1 DEF NoResponse
      <4> QED BY <2>1, <4>2
    <3>2. CASE req[call[d]].phase # "answer"
      BY <1>2, <3>2 DEF ReceivePush
    <3> QED BY <3>1, <3>2
  <2> QED BY <2>1, <2>2, <2>3 DEF NoRequest, NoResults, Acknowledges
<1>3. ASSUME NEW d \in Devices, SettleResult(d) PROVE ReportInv'
  <2>1. UNCHANGED <<req, db, done>>
    BY <1>3 DEF SettleResult
  <2>2. \A e \in Devices, m \in Mutations :
           Acknowledges(inbox'[e].results[m]) => m \in done
    BY <1>3 DEF SettleResult, ResponseType, Acknowledges, Answered
  <2> QED BY <2>1, <2>2
<1>4. ASSUME NEW d \in Devices,
             \/ AdoptRevision(d) \/ FetchSnapshot(d) \/ RelinkRevision(d)
             \/ CloseTab(d)
      PROVE  ReportInv'
  <2>1. UNCHANGED <<req, db, done>>
    BY <1>4 DEF AdoptRevision, FetchSnapshot, RelinkRevision, CloseTab
  <2>2. \A m \in Mutations : ~Acknowledges(NoResults[m])
    BY DEF NoResults, Acknowledges
  <2>3. \A e \in Devices : \/ inbox'[e].results = inbox[e].results
                            \/ inbox'[e].results = NoResults
    <3> DEFINE fetched == [NoResponse EXCEPT !.data = db, !.rev = revision]
    <3>1. \/ UNCHANGED inbox
          \/ inbox' = [inbox EXCEPT ![d] = NoResponse]
          \/ inbox' = [inbox EXCEPT ![d] = fetched]
      BY <1>4 DEF AdoptRevision, FetchSnapshot, RelinkRevision, CloseTab
    <3>2. NoResponse.results = NoResults /\ fetched.results = NoResults
      BY DEF NoResponse
    <3> HIDE DEF fetched
    <3> QED BY <3>1, <3>2
  <2>4. \A e \in Devices, m \in Mutations :
           Acknowledges(inbox'[e].results[m]) => m \in done
    BY <2>2, <2>3
  <2> QED BY <2>1, <2>4
<1>5. CASE \/ \E d \in Devices :
                 \/ Edit(d) \/ StartWithoutPush(d) \/ Decide(d)
                 \/ ApplySnapshot(d) \/ LosePush(d)
           \/ \E m \in Mutations : RetryDeadLetter(m) \/ DiscardDeadLetter(m)
           \/ RecoverLease
           \/ UNCHANGED vars
  <2>1. UNCHANGED <<req, db, done, inbox>>
    BY <1>5 DEF Edit, StartWithoutPush, Decide, ApplySnapshot, LosePush,
       RetryDeadLetter, DiscardDeadLetter, RecoverLease, vars, clientVars
  <2> QED BY <2>1
<1>6. ASSUME NEW s \in Slots, ServerStep(s) \/ ServerCrash(s) PROVE ReportInv'
  <2>0. UNCHANGED inbox
    BY <1>6 DEF ServerStep, CheckCompleted, ReservePush, SkipDuplicate,
       RunHandler, MarkDone, HandlerFails, FinalizePush, PushBreaks, ConfirmPush,
       DropResponse, ServerCrash, clientVars
  <2>1. CASE CheckCompleted(s)
    <3> DEFINE known == req[s].muts \intersect done
               reply == [m \in Mutations |-> IF m \in known THEN "duplicate"
                                             ELSE "none"]
               phase == IF known # req[s].muts THEN "reserve"
                        ELSE IF lease = "free" THEN "answer" ELSE "error"
               results == IF known = req[s].muts THEN reply ELSE req[s].results
               rev == IF known = req[s].muts THEN revision ELSE req[s].rev
    <3>0. req' = [req EXCEPT ![s] =
                    [req[s] EXCEPT !.known = known, !.phase = phase,
                                   !.results = results, !.rev = rev]]
      BY <2>1 DEF CheckCompleted
    <3> HIDE DEF reply, rev, phase, results
    <3>4. req[s] \in RequestType
      OBVIOUS
    <3>5. /\ req'[s].known = known
          /\ req'[s].phase = phase
          /\ req'[s].results = results
      BY <3>0, <3>4 DEF RequestType
    <3>1. /\ UNCHANGED <<db, done>>
          /\ \A t \in Slots : t # s => req'[t] = req[t]
          /\ req'[s].known = known
          /\ req'[s].phase # "mark"
      BY <2>1, <3>0, <3>5 DEF CheckCompleted, phase
    <3>2. \/ req'[s].results = req[s].results
          \/ req'[s].results = [m \in Mutations |->
                                 IF m \in req[s].muts \intersect done
                                 THEN "duplicate" ELSE "none"]
      BY <3>5 DEF reply, results
    <3>3. \A m \in Mutations : Acknowledges(req'[s].results[m]) => m \in done
      BY <3>2 DEF Acknowledges
    <3> QED BY <2>0, <3>1, <3>3, ReportOneRequest
  <2>2. CASE ReservePush(s)
    <3>1. /\ UNCHANGED <<db, done>>
          /\ \A t \in Slots : t # s => req'[t] = req[t]
          /\ req'[s].known = req[s].known
          /\ req'[s].phase # "mark"
      BY <2>2 DEF ReservePush, NotReserved, RequestType
    <3>2. ASSUME NEW v \in {"retryable", "conflict"}, NotReserved(s, v),
                 NEW m \in Mutations, Acknowledges(req'[s].results[m])
          PROVE  m \in done
      <4>1. req'[s].results[m] = CASE m \in req[s].known -> "duplicate"
                                   [] m \in Unapplied(s) -> v
                                   [] OTHER -> "none"
        BY <3>2 DEF NotReserved, RequestType
      <4> QED BY <3>2, <4>1 DEF Acknowledges
    <3>3. \/ NotReserved(s, "retryable") \/ NotReserved(s, "conflict")
          \/ req'[s].results = req[s].results
      BY <2>2 DEF ReservePush, RequestType
    <3> QED BY <2>0, <3>1, <3>2, <3>3, ReportOneRequest
  <2>3. ASSUME NEW m \in Mutations, NEW r \in Results, Report(s, m, r),
               Acknowledges(r) => m \in done',
               UNCHANGED db, done \subseteq done', done' \subseteq db
        PROVE  ReportInv'
    <3>1. /\ \A t \in Slots : t # s => req'[t] = req[t]
          /\ req'[s].known = req[s].known
          /\ req'[s].phase # "mark"
          /\ req'[s].results = [req[s].results EXCEPT ![m] = r]
      BY <2>3 DEF Report, RequestType
    <3>2. \A n \in Mutations : Acknowledges(req'[s].results[n]) => n \in done'
      BY <2>3, <3>1 DEF RequestType
    <3> QED BY <2>0, <2>3, <3>1, <3>2, ReportOneRequest
  <2>4. CASE SkipDuplicate(s) \/ HandlerFails(s)
    <3>1. UNCHANGED <<db, done>> /\ req[s].todo \subseteq Mutations
      BY <2>4 DEF SkipDuplicate, HandlerFails, RequestType
    <3>2. \E m \in Mutations : \/ Report(s, m, "duplicate") /\ m \in done
                               \/ Report(s, m, "refused")
                               \/ Report(s, m, "retryable")
      BY <2>4, <3>1 DEF SkipDuplicate, HandlerFails
    <3> QED BY <2>3, <3>1, <3>2 DEF Acknowledges, Results
  <2>5. CASE RunHandler(s)
    <3>1. PICK m \in req[s].todo : Lowest(m, req[s].todo) /\ db' = db \union {m}
      BY <2>5 DEF RunHandler, NextInLine
    <3>2. /\ UNCHANGED done
          /\ \A t \in Slots : t # s => req'[t] = req[t]
          /\ req'[s].known = req[s].known
          /\ req'[s].results = req[s].results
          /\ req'[s].todo = req[s].todo
      BY <2>5 DEF RunHandler, RequestType
    <3>3. ASSUME NEW n \in Mutations, Lowest(n, req[s].todo) PROVE n \in db'
      <4>0. req[s].todo \subseteq Mutations
        BY DEF RequestType
      <4>1. m \in Nat /\ n \in Nat /\ m <= n /\ n <= m
        BY <3>1, <3>3, <4>0, SyncAssumption DEF Lowest, Mutations
      <4>2. m = n
        BY <4>1, Antisymmetry
      <4> QED BY <3>1, <4>2
    <3> QED BY <2>0, <3>1, <3>2, <3>3, ReportOneRequest
  <2>6. CASE MarkDone(s)
    <3>1. PICK m \in req[s].todo : /\ Lowest(m, req[s].todo)
                                   /\ done' = done \union {m}
                                   /\ Report(s, m, "applied")
      BY <2>6 DEF MarkDone, NextInLine
    <3>2. m \in Mutations /\ UNCHANGED db /\ req[s].phase = "mark"
      BY <2>6 DEF MarkDone, RequestType
    <3>3. m \in db
      BY <3>1, <3>2
    <3> QED BY <2>3, <3>1, <3>2, <3>3 DEF Results
  <2>7. CASE FinalizePush(s) \/ PushBreaks(s) \/ ConfirmPush(s)
    <3>1. /\ UNCHANGED <<db, done>>
          /\ \A t \in Slots : t # s => req'[t] = req[t]
          /\ req'[s].known = req[s].known
          /\ req'[s].results = req[s].results
          /\ req'[s].phase # "mark"
      BY <2>7 DEF FinalizePush, PushBreaks, ConfirmPush, RequestType
    <3> QED BY <2>0, <3>1, ReportOneRequest
  <2>8. CASE DropResponse(s) \/ ServerCrash(s)
    <3>1. /\ UNCHANGED <<db, done>>
          /\ \A t \in Slots : t # s => req'[t] = req[t]
          /\ req'[s] = NoRequest
      BY <2>8 DEF DropResponse, ServerCrash
    <3>2. /\ NoRequest.known = {} /\ NoRequest.phase # "mark"
          /\ \A m \in Mutations : ~Acknowledges(NoRequest.results[m])
      BY DEF NoRequest, NoResults, Acknowledges
    <3> QED BY <2>0, <3>1, <3>2, ReportOneRequest
  <2> QED
    BY <1>6, <2>1, <2>2, <2>4, <2>5, <2>6, <2>7, <2>8 DEF ServerStep
<1> QED BY <1>1, <1>2, <1>3, <1>4, <1>5, <1>6 DEF Next, ClientStep

-----------------------------------------------------------------------------
(* No edit is forgotten, one action at a time.                             *)

(* No step takes an outbox row away before its edit is done.               *)
LEMMA NothingForgottenStep ==
  ForgetInv /\ [Next]_vars => NothingForgotten'
<1> SUFFICES ASSUME TypeOK, ReportInv, NothingForgotten, [Next]_vars
             PROVE  NothingForgotten'
  BY DEF ForgetInv
<1> USE DEF NothingForgotten
<1>0. done \subseteq done' /\ db \subseteq db'
  <2>1. ASSUME NEW d \in Devices,
               ClientStep(d) \/ Edit(d) \/ LosePush(d) \/ CloseTab(d)
        PROVE  UNCHANGED <<db, done>>
    BY <2>1 DEF ClientStep, StartPush, StartWithoutPush, ReceivePush,
       SettleResult, AdoptRevision, Decide, FetchSnapshot, ApplySnapshot,
       RelinkRevision, Edit, LosePush, CloseTab, serverVars
  <2>2. ASSUME NEW s \in Slots, ServerStep(s) \/ ServerCrash(s)
        PROVE  done \subseteq done' /\ db \subseteq db'
    BY <2>2 DEF ServerStep, CheckCompleted, ReservePush, SkipDuplicate,
       RunHandler, MarkDone, HandlerFails, FinalizePush, PushBreaks, ConfirmPush,
       DropResponse, ServerCrash
  <2>3. CASE \/ \E m \in Mutations : RetryDeadLetter(m) \/ DiscardDeadLetter(m)
             \/ RecoverLease \/ UNCHANGED vars
    BY <2>3 DEF RetryDeadLetter, DiscardDeadLetter, RecoverLease, vars,
       serverVars
  <2> QED BY <2>1, <2>2, <2>3 DEF Next
<1>1. ASSUME NEW d \in Devices, Edit(d) PROVE NothingForgotten'
  <2>1. /\ edits \in Nat /\ MaxEdits \in Nat /\ edits < MaxEdits
        /\ edits' = edits + 1
        /\ outbox' = [outbox EXCEPT ![edits + 1] = "pending"]
    BY <1>1, SyncAssumption DEF Edit, Enqueue, TypeOK
  <2>2. \A n \in 1..edits + 1 : n = edits + 1 \/ n \in 1..edits
    BY <2>1
  <2>3. \A n \in 1..edits + 1 : n \in Mutations
    BY <2>1 DEF Mutations
  <2> QED BY <1>0, <2>1, <2>2, <2>3 DEF TypeOK
<1>2. ASSUME NEW d \in Devices, SettleResult(d) PROVE NothingForgotten'
  <2> PICK m \in Answered(inbox[d].results) :
         outbox' = [outbox EXCEPT ![m] = Settled(inbox[d].results[m])]
    BY <1>2 DEF SettleResult
  <2>1. UNCHANGED edits /\ m \in Mutations
    BY <1>2 DEF SettleResult, Answered
  <2>2. Settled(inbox[d].results[m]) # "unused"
    BY DEF Settled
  <2>3. Settled(inbox[d].results[m]) = "acknowledged"
          => Acknowledges(inbox[d].results[m])
    BY DEF Settled, Acknowledges
  <2>4. Settled(inbox[d].results[m]) = "acknowledged" => m \in done \intersect db
    BY <2>1, <2>3 DEF ReportInv
  <2>5. ASSUME NEW n \in 1..edits
        PROVE  /\ outbox'[n] # "unused"
               /\ outbox'[n] = "acknowledged" => n \in done' \intersect db'
    <3>1. n \in Mutations
      BY SyncAssumption DEF TypeOK, Mutations
    <3> QED BY <1>0, <2>1, <2>2, <2>4, <3>1 DEF TypeOK
  <2> QED BY <2>1, <2>5
<1>3. ASSUME NEW m \in Mutations, RetryDeadLetter(m) \/ DiscardDeadLetter(m)
      PROVE  NothingForgotten'
  <2>1. /\ UNCHANGED edits
        /\ \/ outbox' = [outbox EXCEPT ![m] = "pending"]
           \/ outbox' = [outbox EXCEPT ![m] = "discarded"]
    BY <1>3 DEF RetryDeadLetter, DiscardDeadLetter
  <2>2. 1..edits \subseteq Mutations
    BY SyncAssumption DEF TypeOK, Mutations
  <2> QED BY <1>0, <2>1, <2>2 DEF TypeOK
<1>4. CASE \/ \E d \in Devices :
                 \/ ClientStep(d) /\ ~SettleResult(d)
                 \/ LosePush(d) \/ CloseTab(d)
           \/ \E s \in Slots : ServerStep(s) \/ ServerCrash(s)
           \/ RecoverLease
           \/ UNCHANGED vars
  <2>1. UNCHANGED <<edits, outbox>>
    BY <1>4 DEF ClientStep, ServerStep, StartPush, StartWithoutPush,
       ReceivePush, AdoptRevision, Decide, FetchSnapshot, ApplySnapshot,
       RelinkRevision, LosePush, CloseTab, CheckCompleted, ReservePush,
       SkipDuplicate, RunHandler, MarkDone, HandlerFails, FinalizePush,
       PushBreaks, ConfirmPush, DropResponse, ServerCrash,
       RecoverLease, vars, clientVars
  <2> QED BY <1>0, <2>1
<1> QED BY <1>1, <1>2, <1>3, <1>4 DEF Next

-----------------------------------------------------------------------------
(* The strengthened invariant holds in every reachable state: types, what  *)
(* requests and responses say is done, and no edit forgotten.              *)
THEOREM ForgetInvariant == Spec => []ForgetInv
<1>1. ForgetInv /\ [Next]_vars => ForgetInv'
  BY TypeOKStep, CallInvStep, ReportInvStep, NothingForgottenStep DEF ForgetInv
<1> QED BY <1>1, ForgetInvInit, PTL DEF Spec

(* Every variable of the protocol keeps to its domain.                     *)
THEOREM SyncTypeCorrect == Spec => []TypeOK
<1>1. ForgetInv => TypeOK
  BY DEF ForgetInv
<1> QED BY <1>1, ForgetInvariant, PTL

(* No edit is forgotten: from the local command on it has an outbox row,   *)
(* and the row is acknowledged only when the server has marked the edit    *)
(* done with its effect in the tables, whatever is lost, crashes or is     *)
(* retried (engine.ts, outbox.ts, server/sync/routes.ts).                  *)
THEOREM NothingForgottenHolds == Spec => []NothingForgotten
<1>1. ForgetInv => NothingForgotten
  BY DEF ForgetInv
<1> QED BY <1>1, ForgetInvariant, PTL

-----------------------------------------------------------------------------
(* Revisions, order and the ledger: a device's revision never goes back,   *)
(* its edits take effect in order unless one fails, and the protocol       *)
(* implements SyncLedger.                                                  *)

(* Steps at which a device holds a response whose revision it will adopt.  *)
Reading == {"settling", "applying", "relinking"}

(* Results that park a mutation as a dead letter.                          *)
Parks(result) == result \in {"refused", "conflict"}

(* No device or response is ahead of the workspace, and a response is      *)
(* never behind the device that works through it.                          *)
LinkInv ==
    \A d \in Devices :
      /\ link[d] <= revision
      /\ step[d] \in Reading =>
           link[d] <= inbox[d].rev /\ inbox[d].rev <= revision

(* A request is based on a revision its device has reached.                *)
BaseInv ==
    \A s \in Slots : req[s].phase # "none" =>
      /\ req[s].dev \in Devices
      /\ req[s].base <= link[req[s].dev]
      /\ req[s].phase = "answer" =>
           req[s].base <= req[s].rev /\ req[s].rev <= revision

(* The request a device waits for is its own, and based on its link.       *)
CallerInv ==
    \A d \in Devices : step[d] = "pushing" =>
      /\ req[call[d]].phase # "none"
      /\ req[call[d]].dev = d
      /\ req[call[d]].base = link[d]

RevisionInv == LinkInv /\ BaseInv /\ CallerInv

(* One request at a time holds the lease, at the revision it is based on.  *)
HoldInv ==
    \A s \in Slots : req[s].phase \in Holding =>
      /\ lease = "held"
      /\ req[s].base = revision
      /\ \A t \in Slots : req[t].phase \in Holding => t = s

(* A verdict that parks a mutation comes from a push whose base revision   *)
(* is in the past.                                                         *)
VerdictInv ==
    /\ \A s \in Slots :
         /\ req[s].phase = "confirm" => req[s].base < revision
         /\ req[s].phase = "answer" /\ (\E m \in Mutations : Parks(req[s].results[m]))
              => req[s].base < revision
    /\ \A d \in Devices :
         step[d] = "settling" /\ (\E m \in Mutations : Parks(inbox[d].results[m]))
           => link[d] < revision

(* A request carries, reports and applies mutations of its own device.     *)
PushInv ==
    \A s \in Slots :
      /\ \A m \in req[s].muts : author[m] = req[s].dev /\ author[m] \in Devices
      /\ req[s].todo \subseteq req[s].muts
      /\ req[s].known \subseteq req[s].muts
      /\ Answered(req[s].results) \subseteq req[s].muts

(* Only edits made so far have an author, an outbox row or an effect.      *)
AuthorInv ==
    \A m \in Mutations :
      /\ m <= edits => author[m] \in Devices
      /\ edits < m => author[m] = NoDevice /\ outbox[m] = "unused" /\ m \notin done

Settling(m) == outbox[m] \in Waiting \/ m \in done

(* What is on its way to the server or back still waits in the outbox: for *)
(* as long as a push can take effect, no mutation of it is parked.         *)
WaitInv ==
    /\ \A d \in Devices : step[d] = "pushing" =>
         \A m \in req[call[d]].muts : outbox[m] \in Waiting
    /\ \A d \in Devices : step[d] = "settling" =>
         \A m \in Answered(inbox[d].results) :
           outbox[m] \in Waiting /\ author[m] = d
    /\ \A s \in Slots :
         /\ req[s].phase \in {"check", "reserve"} /\ req[s].base = revision
              => \A m \in req[s].muts : Settling(m)
         /\ req[s].phase \in Holding => \A m \in req[s].todo : Settling(m)

(* A parked or discarded mutation was reported failed.                     *)
FailedInv ==
    /\ \A m \in Mutations :
         outbox[m] \in {"dead_letter", "discarded"} => m \in failedOnce
    /\ \A s \in Slots, m \in Mutations :
         Parks(req[s].results[m]) => m \in failedOnce
    /\ \A d \in Devices, m \in Mutations :
         Parks(inbox[d].results[m]) => m \in failedOnce

(* A push carries every earlier edit of its device that is neither done    *)
(* nor failed, and has applied or failed whatever is no longer to do.      *)
CarryInv ==
    \A s \in Slots :
      /\ \A n \in req[s].muts, m \in Mutations :
           m < n /\ author[m] = author[n]
             => m \in req[s].muts \union done \union failedOnce
      /\ req[s].phase \in Holding =>
           req[s].muts \subseteq req[s].todo \union done \union failedOnce

OrderInv ==
    /\ ForgetInv /\ RevisionInv
    /\ HoldInv /\ VerdictInv
    /\ PushInv /\ AuthorInv /\ WaitInv
    /\ FailedInv /\ CarryInv /\ InOrderUnlessFailed

-----------------------------------------------------------------------------
(* What a step does to the requests.                                       *)

OthersKept(s) == \A t \in Slots : t # s => req'[t] = req[t]

(* Who asked, from which base and for what is settled when the request is  *)
(* made.                                                                   *)
SameOrigin(s) ==
    /\ OthersKept(s)
    /\ req'[s].dev = req[s].dev
    /\ req'[s].base = req[s].base
    /\ req'[s].muts = req[s].muts

(* The request after each step of a push, field by field.                  *)
LEMMA CheckEffect ==
  ASSUME TypeOK, NEW s \in Slots, CheckCompleted(s)
  PROVE  /\ SameOrigin(s)
         /\ UNCHANGED <<edits, author, clientVars, db, done, revision, lease,
                        failedOnce>>
         /\ req[s].phase = "check"
         /\ req'[s].phase \in {"reserve", "answer", "error"}
         /\ req'[s].known = req[s].muts \intersect done
         /\ req'[s].todo = req[s].todo
         /\ \/ /\ req'[s].phase = "reserve"
               /\ req'[s].results = req[s].results
            \/ /\ req'[s].phase # "reserve"
               /\ req'[s].rev = revision
               /\ \A m \in Mutations :
                    req'[s].results[m] = IF m \in req[s].muts \intersect done
                                         THEN "duplicate" ELSE "none"
<1> DEFINE known == req[s].muts \intersect done
           reply == [m \in Mutations |-> IF m \in known THEN "duplicate"
                                         ELSE "none"]
           phase == IF known # req[s].muts THEN "reserve"
                    ELSE IF lease = "free" THEN "answer" ELSE "error"
           results == IF known = req[s].muts THEN reply ELSE req[s].results
           rev == IF known = req[s].muts THEN revision ELSE req[s].rev
<1>1. req' = [req EXCEPT ![s] =
                [req[s] EXCEPT !.known = known, !.phase = phase,
                               !.results = results, !.rev = rev]]
  BY DEF CheckCompleted
<1>2. req[s] \in RequestType /\ req \in [Slots -> RequestType]
  BY DEF TypeOK
<1>3. req[s].phase = "check"
  BY DEF CheckCompleted
<1> HIDE DEF known, reply, phase, results, rev
<1>4. /\ SameOrigin(s)
      /\ req'[s].known = known /\ req'[s].phase = phase
      /\ req'[s].results = results /\ req'[s].rev = rev
      /\ req'[s].todo = req[s].todo
  BY <1>1, <1>2 DEF SameOrigin, OthersKept, RequestType
<1>5. \A m \in Mutations :
         reply[m] = IF m \in known THEN "duplicate" ELSE "none"
  BY DEF reply
<1>6. UNCHANGED <<edits, author, clientVars, db, done, revision, lease, failedOnce>>
  BY DEF CheckCompleted
<1>7. CASE known = req[s].muts
  BY <1>3, <1>4, <1>5, <1>6, <1>7 DEF phase, results, rev, known
<1>8. CASE known # req[s].muts
  BY <1>3, <1>4, <1>6, <1>8 DEF phase, results, rev, known
<1> QED BY <1>7, <1>8

(* A push that cannot reserve its base revision is answered at once.       *)
LEMMA NotReservedEffect ==
  ASSUME TypeOK, NEW s \in Slots, NEW v \in Results, NotReserved(s, v)
  PROVE  /\ SameOrigin(s)
         /\ req'[s].phase = "answer"
         /\ req'[s].rev = revision
         /\ req'[s].known = req[s].known
         /\ req'[s].todo = req[s].todo
         /\ \A m \in Mutations :
              req'[s].results[m] = CASE m \in req[s].known -> "duplicate"
                                     [] m \in Unapplied(s) -> v
                                     [] OTHER -> "none"
<1> DEFINE reply == [m \in Mutations |-> CASE m \in req[s].known -> "duplicate"
                                           [] m \in Unapplied(s) -> v
                                           [] OTHER -> "none"]
<1>1. req' = [req EXCEPT ![s] =
                [req[s] EXCEPT !.phase = "answer", !.rev = revision,
                               !.results = reply]]
  BY DEF NotReserved, CurrentRevision
<1>2. req[s] \in RequestType /\ req \in [Slots -> RequestType]
  BY DEF TypeOK
<1>3. \A m \in Mutations :
         reply[m] = CASE m \in req[s].known -> "duplicate"
                      [] m \in Unapplied(s) -> v
                      [] OTHER -> "none"
  OBVIOUS
<1> HIDE DEF reply
<1>4. /\ SameOrigin(s)
      /\ req'[s].phase = "answer" /\ req'[s].rev = revision
      /\ req'[s].known = req[s].known /\ req'[s].todo = req[s].todo
      /\ req'[s].results = reply
  BY <1>1, <1>2 DEF SameOrigin, OthersKept, RequestType
<1> QED BY <1>3, <1>4

(* Reserving either answers or takes the lease at the base revision.       *)
LEMMA ReserveEffect ==
  ASSUME TypeOK, NEW s \in Slots, ReservePush(s)
  PROVE  /\ req[s].phase = "reserve"
         /\ UNCHANGED <<edits, author, clientVars, db, done, revision, faults>>
         /\ \/ NotReserved(s, "retryable")
            \/ NotReserved(s, "conflict") /\ revision # req[s].base
            \/ /\ SameOrigin(s)
               /\ lease = "free" /\ lease' = "held"
               /\ revision = req[s].base
               /\ UNCHANGED failedOnce
               /\ req'[s].phase = "apply"
               /\ req'[s].todo = req[s].muts
               /\ req'[s].known = req[s].known
               /\ req'[s].results = req[s].results
<1>1. CASE req' = [req EXCEPT ![s].phase = "apply", ![s].todo = req[s].muts]
  <2>1. /\ SameOrigin(s)
        /\ req'[s].phase = "apply" /\ req'[s].todo = req[s].muts
        /\ req'[s].known = req[s].known /\ req'[s].results = req[s].results
    BY <1>1 DEF TypeOK, RequestType, SameOrigin, OthersKept
  <2> QED BY <2>1 DEF ReservePush, BaseMatches, NotReserved, CurrentRevision
<1>2. CASE req' # [req EXCEPT ![s].phase = "apply", ![s].todo = req[s].muts]
  BY <1>2 DEF ReservePush, BaseMatches
<1> QED BY <1>1, <1>2

(* Reporting a result takes the mutation off the list.                     *)
LEMMA ReportEffect ==
  ASSUME TypeOK, NEW s \in Slots, NEW m \in Mutations, NEW r \in Results,
         Report(s, m, r)
  PROVE  /\ SameOrigin(s)
         /\ req'[s].phase = "apply"
         /\ req'[s].known = req[s].known
         /\ req'[s].todo = req[s].todo \ {m}
         /\ \A n \in Mutations :
              req'[s].results[n] = IF n = m THEN r ELSE req[s].results[n]
<1>1. /\ req[s] \in RequestType /\ req \in [Slots -> RequestType]
      /\ req[s].results \in [Mutations -> Results]
  BY DEF TypeOK, RequestType
<1> DEFINE reply == [req[s].results EXCEPT ![m] = r]
<1>2. req' = [req EXCEPT ![s] = [req[s] EXCEPT !.phase = "apply",
                                   !.todo = @ \ {m}, !.results = reply]]
  BY DEF Report
<1>3. \A n \in Mutations :
         reply[n] = IF n = m THEN r ELSE req[s].results[n]
  BY <1>1
<1> HIDE DEF reply
<1>4. /\ SameOrigin(s)
      /\ req'[s].phase = "apply" /\ req'[s].known = req[s].known
      /\ req'[s].todo = req[s].todo \ {m}
      /\ req'[s].results = reply
  BY <1>1, <1>2 DEF SameOrigin, OthersKept, RequestType
<1> QED BY <1>3, <1>4

(* What the loop over the mutations of a push does to the request.         *)
LEMMA LoopEffect ==
  ASSUME TypeOK, NEW s \in Slots,
         SkipDuplicate(s) \/ MarkDone(s) \/ HandlerFails(s)
  PROVE  \E m \in req[s].todo :
           /\ m \in Mutations
           /\ Lowest(m, req[s].todo)
           /\ req[s].phase \in {"apply", "mark"}
           /\ UNCHANGED <<edits, author, clientVars, db, revision, lease>>
           /\ \/ /\ Report(s, m, "duplicate")
                 /\ m \in req[s].known \union done
                 /\ UNCHANGED <<done, failedOnce>>
              \/ /\ Report(s, m, "applied")
                 /\ done' = done \union {m}
                 /\ UNCHANGED failedOnce
              \/ /\ Report(s, m, "refused") \/ Report(s, m, "retryable")
                 /\ failedOnce' = failedOnce \union {m}
                 /\ UNCHANGED done
<1>1. req[s].todo \subseteq Mutations
  BY DEF TypeOK, RequestType
<1>2. CASE SkipDuplicate(s)
  BY <1>1, <1>2 DEF SkipDuplicate, NextInLine
<1>3. CASE MarkDone(s)
  BY <1>1, <1>3 DEF MarkDone, NextInLine
<1>4. CASE HandlerFails(s)
  BY <1>1, <1>4 DEF HandlerFails, NextInLine
<1> QED BY <1>2, <1>3, <1>4

(* Every other step of a push changes the phase, or drops the request.     *)
LEMMA PhaseEffect ==
  ASSUME TypeOK, NEW s \in Slots,
         RunHandler(s) \/ FinalizePush(s) \/ PushBreaks(s) \/ ConfirmPush(s)
  PROVE  /\ SameOrigin(s)
         /\ req'[s].known = req[s].known
         /\ req'[s].todo = req[s].todo
         /\ req'[s].results = req[s].results
         /\ UNCHANGED <<edits, author, clientVars, done, failedOnce>>
         /\ \/ /\ req[s].phase = "apply" /\ req'[s].phase = "mark"
               /\ UNCHANGED <<revision, lease>>
            \/ /\ req[s].phase = "apply" /\ req'[s].phase \in {"confirm", "error"}
               /\ revision' = revision + 1 /\ lease' = "free"
            \/ /\ req[s].phase = "confirm" /\ req'[s].phase \in {"answer", "error"}
               /\ req'[s].rev = revision
               /\ UNCHANGED <<revision, lease>>
<1>1. /\ SameOrigin(s)
      /\ req'[s].known = req[s].known
      /\ req'[s].todo = req[s].todo
      /\ req'[s].results = req[s].results
  BY DEF TypeOK, RequestType, SameOrigin, OthersKept, RunHandler,
     FinalizePush, PushBreaks, ConfirmPush
<1>2. CASE RunHandler(s)
  BY <1>1, <1>2 DEF TypeOK, RequestType, RunHandler, clientVars
<1>3. CASE FinalizePush(s) \/ PushBreaks(s)
  BY <1>1, <1>3 DEF TypeOK, RequestType, FinalizePush, PushBreaks, clientVars
<1>4. CASE ConfirmPush(s)
  BY <1>1, <1>4 DEF TypeOK, RequestType, ConfirmPush, clientVars
<1> QED BY <1>1, <1>2, <1>3, <1>4

(* A request is made with everything its device has waiting.               *)
LEMMA StartEffect ==
  ASSUME TypeOK, NEW d \in Devices, NEW s \in Slots, StartPush(d, s)
  PROVE  /\ OthersKept(s)
         /\ req[s].phase = "none"
         /\ req'[s].phase = "check"
         /\ req'[s].dev = d
         /\ req'[s].base = link[d]
         /\ req'[s].muts = PendingOf(d)
         /\ req'[s].known = {}
         /\ req'[s].todo = {}
         /\ \A m \in Mutations : req'[s].results[m] = "none"
<1> DEFINE new == [NoRequest EXCEPT !.phase = "check", !.dev = d,
                                    !.base = link[d], !.muts = PendingOf(d)]
<1>1. req' = [req EXCEPT ![s] = new] /\ req[s].phase = "none"
  BY DEF StartPush
<1>2. /\ new.phase = "check" /\ new.dev = d /\ new.base = link[d]
      /\ new.muts = PendingOf(d) /\ new.known = {} /\ new.todo = {}
      /\ new.results = NoResults
  BY DEF NoRequest
<1>3. \A m \in Mutations : NoResults[m] = "none"
  BY DEF NoResults
<1> HIDE DEF new
<1>4. req'[s] = new /\ OthersKept(s)
  BY <1>1 DEF TypeOK, OthersKept
<1> QED BY <1>1, <1>2, <1>3, <1>4

(* The fields of no request.                                               *)
LEMMA NoRequestFields ==
  /\ NoRequest.phase = "none" /\ NoRequest.muts = {} /\ NoRequest.known = {}
  /\ NoRequest.todo = {} /\ NoRequest.results = NoResults
  /\ \A m \in Mutations : NoResults[m] = "none"
BY DEF NoRequest, NoResults

(* A response that is taken, dropped or dies with its worker.              *)
LEMMA GoneEffect ==
  ASSUME TypeOK, NEW s \in Slots, DropResponse(s) \/ ServerCrash(s)
  PROVE  /\ OthersKept(s)
         /\ req'[s] = NoRequest
         /\ UNCHANGED <<edits, author, outbox, local, link, inbox, db, done,
                        revision, failedOnce>>
         /\ \/ req[s].phase \notin Holding /\ UNCHANGED <<step, call, lease>>
            \/ /\ step' = [d \in Devices |-> IF call[d] = s THEN "idle" ELSE step[d]]
               /\ call' = [d \in Devices |-> IF call[d] = s THEN NoSlot ELSE call[d]]
               /\ lease' = IF req[s].phase \in Holding THEN "abandoned" ELSE lease
<1>1. OthersKept(s) /\ req'[s] = NoRequest
  BY DEF TypeOK, OthersKept, DropResponse, ServerCrash
<1>2. CASE DropResponse(s)
  BY <1>1, <1>2 DEF DropResponse, clientVars, Holding
<1>3. CASE ServerCrash(s)
  BY <1>1, <1>3 DEF ServerCrash
<1> QED BY <1>1, <1>2, <1>3

-----------------------------------------------------------------------------
(* Revisions never go back.                                                *)

(* Numbers are numbers.                                                    *)
LEMMA NumberTypes ==
  ASSUME TypeOK
  PROVE  /\ revision \in Nat /\ edits \in Nat /\ Mutations \subseteq Nat
         /\ \A d \in Devices : link[d] \in Nat /\ inbox[d].rev \in Nat
         /\ \A s \in Slots : req[s].base \in Nat /\ req[s].rev \in Nat
BY SyncAssumption DEF TypeOK, RequestType, ResponseType, Mutations

(* A step that changes one request keeps the revisions in order, when the  *)
(* request keeps its origin and reports no revision but the current one.   *)
LEMMA RevisionOneRequest ==
  ASSUME TypeOK, CallInv, RevisionInv, NEW s \in Slots, SameOrigin(s),
         UNCHANGED <<link, inbox, step, call>>,
         revision' \in Nat, revision <= revision',
         req[s].phase # "none", req'[s].phase # "none",
         req'[s].phase = "answer" => req'[s].rev = revision
  PROVE  RevisionInv'
<1> USE DEF RevisionInv, LinkInv, BaseInv, CallerInv, SameOrigin, OthersKept
<1>1. LinkInv'
  BY NumberTypes
<1>2. ASSUME NEW t \in Slots, req'[t].phase # "none"
      PROVE  /\ req'[t].dev \in Devices
             /\ req'[t].base <= link'[req'[t].dev]
             /\ req'[t].phase = "answer" =>
                  req'[t].base <= req'[t].rev /\ req'[t].rev <= revision'
  <2>1. CASE t = s
    BY <2>1, <1>2, NumberTypes
  <2>2. CASE t # s
    BY <2>2, <1>2, NumberTypes
  <2> QED BY <2>1, <2>2
<1>3. CallerInv'
  <2> SUFFICES ASSUME NEW d \in Devices, step[d] = "pushing"
               PROVE  /\ req'[call[d]].phase # "none"
                      /\ req'[call[d]].dev = d
                      /\ req'[call[d]].base = link[d]
    OBVIOUS
  <2>1. call[d] \in Slots
    BY DEF CallInv
  <2> QED BY <2>1
<1> QED BY <1>1, <1>2, <1>3

(* A step that takes a request away keeps the revisions in order, when its *)
(* device no longer waits for it.                                          *)
LEMMA RevisionRequestGone ==
  ASSUME TypeOK, CallInv, RevisionInv, NEW s \in Slots, OthersKept(s),
         req'[s] = NoRequest, UNCHANGED <<link, revision>>,
         \A d \in Devices :
           step'[d] \in Reading => step[d] = step'[d] /\ inbox'[d] = inbox[d],
         \A d \in Devices : step'[d] = "pushing" =>
           step[d] = "pushing" /\ call'[d] = call[d] /\ call[d] # s
  PROVE  RevisionInv'
<1> USE DEF RevisionInv, LinkInv, BaseInv, CallerInv, OthersKept
<1>1. LinkInv'
  OBVIOUS
<1>2. BaseInv'
  BY NoRequestFields
<1>3. CallerInv'
  <2> SUFFICES ASSUME NEW d \in Devices, step'[d] = "pushing"
               PROVE  /\ req'[call'[d]].phase # "none"
                      /\ req'[call'[d]].dev = d
                      /\ req'[call'[d]].base = link'[d]
    OBVIOUS
  <2>1. step[d] = "pushing" /\ call'[d] = call[d] /\ call[d] # s
    OBVIOUS
  <2>2. call[d] \in Slots
    BY <2>1 DEF CallInv
  <2> QED BY <2>1, <2>2
<1> QED BY <1>1, <1>2, <1>3

(* One device moves: everything the others hold stays as it is.            *)
OtherDevicesKept(d) ==
    \A e \in Devices : e # d =>
      /\ step'[e] = step[e] /\ call'[e] = call[e]
      /\ link'[e] = link[e] /\ inbox'[e] = inbox[e]

(* A step of one device that leaves the requests alone keeps the revisions *)
(* in order, when the device moves forward to what it has read.            *)
LEMMA RevisionOneDevice ==
  ASSUME TypeOK, CallInv, RevisionInv, NEW d \in Devices, OtherDevicesKept(d),
         UNCHANGED <<req, revision>>,
         link'[d] \in Nat, link[d] <= link'[d], link'[d] <= revision,
         step'[d] # "pushing",
         step'[d] \in Reading =>
           link'[d] <= inbox'[d].rev /\ inbox'[d].rev <= revision
  PROVE  RevisionInv'
<1> USE DEF RevisionInv, LinkInv, BaseInv, CallerInv, OtherDevicesKept
<1>1. LinkInv'
  OBVIOUS
<1>2. \A e \in Devices : link[e] <= link'[e] /\ link'[e] \in Nat
  BY NumberTypes
<1>3. ASSUME NEW s \in Slots, req[s].phase # "none"
      PROVE  /\ req[s].dev \in Devices
             /\ req[s].base <= link'[req[s].dev]
             /\ req[s].phase = "answer" =>
                  req[s].base <= req[s].rev /\ req[s].rev <= revision
  BY <1>2, <1>3, NumberTypes
<1>4. BaseInv'
  BY <1>3
<1>5. ASSUME NEW e \in Devices, step'[e] = "pushing"
      PROVE  /\ req[call'[e]].phase # "none"
             /\ req[call'[e]].dev = e
             /\ req[call'[e]].base = link'[e]
  <2>1. e # d
    BY <1>5
  <2> QED BY <1>5, <2>1
<1>6. CallerInv'
  BY <1>5
<1> QED BY <1>1, <1>4, <1>6

(* What a device does while it works through a response (engine.ts): a     *)
(* move to a revision is a move to the revision of the response.           *)
LEMMA DeviceEffect ==
  ASSUME TypeOK, NEW d \in Devices,
         \/ StartWithoutPush(d) \/ SettleResult(d) \/ AdoptRevision(d)
         \/ Decide(d) \/ FetchSnapshot(d) \/ ApplySnapshot(d)
         \/ RelinkRevision(d) \/ LosePush(d) \/ CloseTab(d)
  PROVE  /\ OtherDevicesKept(d)
         /\ UNCHANGED <<req, revision>>
         /\ \/ link'[d] = link[d]
            \/ step[d] \in Reading /\ link'[d] = inbox[d].rev
         /\ step'[d] # "pushing"
         /\ step'[d] \in Reading =>
              /\ link'[d] = link[d]
              /\ \/ step[d] \in Reading /\ inbox'[d].rev = inbox[d].rev
                 \/ inbox'[d].rev = revision
<1> USE DEF TypeOK, OtherDevicesKept, Goto, serverVars, Reading
<1>1. CASE StartWithoutPush(d) \/ Decide(d)
  BY <1>1 DEF StartWithoutPush, Decide
<1>2. CASE SettleResult(d)
  <2>1. PICK m \in Mutations : inbox' = [inbox EXCEPT ![d].results[m] = "none"]
    BY <1>2 DEF SettleResult, Answered
  <2>2. inbox'[d].rev = inbox[d].rev /\ \A e \in Devices : e # d => inbox'[e] = inbox[e]
    BY <2>1 DEF ResponseType
  <2> QED BY <1>2, <2>2 DEF SettleResult
<1>3. CASE AdoptRevision(d) \/ RelinkRevision(d)
  BY <1>3 DEF AdoptRevision, RelinkRevision
<1>4. CASE FetchSnapshot(d)
  <2> DEFINE fetched == [NoResponse EXCEPT !.data = db, !.rev = revision]
  <2>1. fetched.rev = revision
    BY DEF NoResponse
  <2>2. \/ step' = [step EXCEPT ![d] = "applying"]
           /\ inbox' = [inbox EXCEPT ![d] = fetched]
        \/ step' = [step EXCEPT ![d] = "idle"] /\ UNCHANGED inbox
    BY <1>4 DEF FetchSnapshot
  <2>3. UNCHANGED <<link, call, req, revision>>
    BY <1>4 DEF FetchSnapshot
  <2> HIDE DEF fetched
  <2> QED BY <2>1, <2>2, <2>3
<1>5. CASE ApplySnapshot(d)
  BY <1>5 DEF ApplySnapshot
<1>6. CASE LosePush(d) \/ CloseTab(d)
  BY <1>6 DEF LosePush, CloseTab
<1> QED BY <1>1, <1>2, <1>3, <1>4, <1>5, <1>6

(* A device that is answered takes over the results and the revision.      *)
LEMMA ReceiveEffect ==
  ASSUME TypeOK, CallInv, NEW d \in Devices, ReceivePush(d)
  PROVE  /\ OtherDevicesKept(d)
         /\ call[d] \in Slots /\ step[d] = "pushing"
         /\ UNCHANGED <<edits, author, outbox, local, link, db, done, revision,
                        lease, failedOnce>>
         /\ OthersKept(call[d]) /\ req'[call[d]] = NoRequest
         /\ req[call[d]].phase \in {"answer", "error"}
         /\ \/ step'[d] = "idle" /\ inbox'[d] = inbox[d]
            \/ /\ step'[d] = "settling"
               /\ req[call[d]].phase = "answer"
               /\ inbox'[d].results = req[call[d]].results
               /\ inbox'[d].rev = req[call[d]].rev
<1> DEFINE answer == [NoResponse EXCEPT !.results = req[call[d]].results,
                                        !.rev = req[call[d]].rev]
<1>1. /\ answer.results = req[call[d]].results
      /\ answer.rev = req[call[d]].rev
  BY DEF NoResponse
<1>2. /\ call[d] \in Slots /\ step[d] = "pushing"
      /\ req[call[d]].phase \in {"answer", "error"}
      /\ req' = [req EXCEPT ![call[d]] = NoRequest]
      /\ call' = [call EXCEPT ![d] = NoSlot]
      /\ UNCHANGED <<edits, author, outbox, local, link, db, done, revision,
                     lease, failedOnce>>
      /\ \/ /\ req[call[d]].phase = "answer"
            /\ inbox' = [inbox EXCEPT ![d] = answer]
            /\ step' = [step EXCEPT ![d] = "settling"]
         \/ step' = [step EXCEPT ![d] = "idle"] /\ UNCHANGED inbox
  BY DEF ReceivePush, CallInv, Goto
<1> HIDE DEF answer
<1> QED BY <1>1, <1>2 DEF TypeOK, OtherDevicesKept, OthersKept

(* No step of the protocol takes a device, a request or a response back to *)
(* an older revision.                                                      *)
LEMMA RevisionInvStep ==
  TypeOK /\ CallInv /\ RevisionInv /\ [Next]_vars
    => RevisionInv' /\ \A d \in Devices : link[d] <= link'[d]
<1> SUFFICES ASSUME TypeOK, CallInv, RevisionInv, [Next]_vars
             PROVE  RevisionInv' /\ \A d \in Devices : link[d] <= link'[d]
  OBVIOUS
<1>0. UNCHANGED link => \A d \in Devices : link[d] <= link'[d]
  BY NumberTypes
<1>1. ASSUME NEW d \in Devices, NEW s \in Slots, StartPush(d, s)
      PROVE  RevisionInv' /\ UNCHANGED link
  <2>1. /\ OthersKept(s) /\ req[s].phase = "none"
        /\ req'[s].phase = "check" /\ req'[s].dev = d /\ req'[s].base = link[d]
    BY <1>1, StartEffect
  <2>2. /\ UNCHANGED <<link, inbox, revision>>
        /\ step' = [step EXCEPT ![d] = "pushing"]
        /\ call' = [call EXCEPT ![d] = s]
    BY <1>1 DEF StartPush, Goto
  <2>3. LinkInv'
    BY <2>2 DEF RevisionInv, LinkInv, Reading, TypeOK
  <2>4. BaseInv'
    <3> SUFFICES ASSUME NEW t \in Slots, req'[t].phase # "none"
                 PROVE  /\ req'[t].dev \in Devices
                        /\ req'[t].base <= link[req'[t].dev]
                        /\ req'[t].phase = "answer" =>
                             req'[t].base <= req'[t].rev /\ req'[t].rev <= revision
      BY <2>2 DEF BaseInv
    <3>1. CASE t = s
      BY <2>1, <3>1, NumberTypes
    <3>2. CASE t # s
      BY <2>1, <3>2 DEF OthersKept, RevisionInv, BaseInv
    <3> QED BY <3>1, <3>2
  <2>5. CallerInv'
    <3> SUFFICES ASSUME NEW e \in Devices, step'[e] = "pushing"
                 PROVE  /\ req'[call'[e]].phase # "none"
                        /\ req'[call'[e]].dev = e
                        /\ req'[call'[e]].base = link[e]
      BY <2>2 DEF CallerInv
    <3>1. CASE e = d
      BY <2>1, <2>2, <3>1 DEF TypeOK
    <3>2. CASE e # d
      <4>1. step[e] = "pushing" /\ call'[e] = call[e] /\ call[e] \in Slots
        BY <2>2, <3>2 DEF TypeOK, CallInv
      <4>2. call[e] # s
        BY <2>1, <4>1 DEF RevisionInv, CallerInv
      <4> QED BY <2>1, <4>1, <4>2 DEF OthersKept, RevisionInv, CallerInv
    <3> QED BY <3>1, <3>2
  <2> QED BY <2>2, <2>3, <2>4, <2>5 DEF RevisionInv
<1>2. ASSUME NEW d \in Devices,
             \/ StartWithoutPush(d) \/ SettleResult(d) \/ AdoptRevision(d)
             \/ Decide(d) \/ FetchSnapshot(d) \/ ApplySnapshot(d)
             \/ RelinkRevision(d) \/ LosePush(d) \/ CloseTab(d)
      PROVE  RevisionInv' /\ \A e \in Devices : link[e] <= link'[e]
  <2>1. /\ link[d] <= revision
        /\ step[d] \in Reading =>
             link[d] <= inbox[d].rev /\ inbox[d].rev <= revision
    BY DEF RevisionInv, LinkInv
  <2>2. /\ link'[d] \in Nat /\ link[d] <= link'[d] /\ link'[d] <= revision
        /\ step'[d] \in Reading =>
             link'[d] <= inbox'[d].rev /\ inbox'[d].rev <= revision
    BY <1>2, <2>1, DeviceEffect, NumberTypes
  <2>3. OtherDevicesKept(d) /\ UNCHANGED <<req, revision>> /\ step'[d] # "pushing"
    BY <1>2, DeviceEffect
  <2>4. RevisionInv'
    BY <2>2, <2>3, RevisionOneDevice
  <2> QED BY <2>2, <2>3, <2>4, NumberTypes DEF OtherDevicesKept
<1>3. ASSUME NEW d \in Devices, ReceivePush(d)
      PROVE  RevisionInv' /\ UNCHANGED link
  <2> DEFINE s == call[d]
  <2>1. /\ OtherDevicesKept(d) /\ UNCHANGED <<link, revision>>
        /\ s \in Slots /\ step[d] = "pushing"
        /\ OthersKept(s) /\ req'[s] = NoRequest
        /\ \/ step'[d] = "idle"
           \/ /\ step'[d] = "settling"
              /\ req[s].phase = "answer" /\ inbox'[d].rev = req[s].rev
    BY <1>3, ReceiveEffect
  <2>2. req[s].base = link[d] /\ req[s].dev = d /\ req[s].phase # "none"
    BY <2>1 DEF RevisionInv, CallerInv
  <2> HIDE DEF s
  <2>3. LinkInv'
    <3> SUFFICES ASSUME NEW e \in Devices
                 PROVE  /\ link[e] <= revision
                        /\ step'[e] \in Reading =>
                             link[e] <= inbox'[e].rev /\ inbox'[e].rev <= revision
      BY <2>1 DEF LinkInv
    <3>1. CASE e = d
      BY <2>1, <2>2, <3>1 DEF RevisionInv, LinkInv, BaseInv, Reading
    <3>2. CASE e # d
      BY <2>1, <3>2 DEF OtherDevicesKept, RevisionInv, LinkInv
    <3> QED BY <3>1, <3>2
  <2>4. BaseInv'
    BY <2>1, NoRequestFields DEF OthersKept, RevisionInv, BaseInv
  <2>5. CallerInv'
    <3> SUFFICES ASSUME NEW e \in Devices, step'[e] = "pushing"
                 PROVE  /\ req'[call'[e]].phase # "none"
                        /\ req'[call'[e]].dev = e
                        /\ req'[call'[e]].base = link[e]
      BY <2>1 DEF CallerInv
    <3>1. e # d
      BY <2>1
    <3>2. step[e] = "pushing" /\ call'[e] = call[e] /\ call[e] \in Slots
      BY <2>1, <3>1 DEF OtherDevicesKept, CallInv
    <3>3. req[call[e]].dev = e /\ call[e] # s
      BY <2>2, <3>1, <3>2 DEF RevisionInv, CallerInv
    <3> QED BY <2>1, <3>2, <3>3 DEF OthersKept, RevisionInv, CallerInv
  <2> QED BY <2>1, <2>3, <2>4, <2>5 DEF RevisionInv
<1>4. ASSUME NEW s \in Slots, ServerStep(s) \/ ServerCrash(s)
      PROVE  RevisionInv' /\ UNCHANGED link
  <2>1. CASE CheckCompleted(s)
    BY <2>1, CheckEffect, RevisionOneRequest, NumberTypes DEF clientVars
  <2>2. CASE ReservePush(s)
    BY <2>2, ReserveEffect, NotReservedEffect, RevisionOneRequest, NumberTypes
    DEF clientVars, Results
  <2>3. CASE SkipDuplicate(s) \/ MarkDone(s) \/ HandlerFails(s)
    BY <2>3, LoopEffect, ReportEffect, RevisionOneRequest, NumberTypes
    DEF clientVars, Results
  <2>4. CASE RunHandler(s) \/ FinalizePush(s) \/ PushBreaks(s) \/ ConfirmPush(s)
    BY <2>4, PhaseEffect, RevisionOneRequest, NumberTypes DEF clientVars
  <2>5. CASE DropResponse(s)
    <3>1. UNCHANGED clientVars /\ \A d \in Devices : call[d] # s
      BY <2>5 DEF DropResponse
    <3> QED BY <2>5, <3>1, GoneEffect, RevisionRequestGone DEF clientVars
  <2>6. CASE ServerCrash(s)
    <3>1. step' = [d \in Devices |-> IF call[d] = s THEN "idle" ELSE step[d]]
          /\ call' = [d \in Devices |-> IF call[d] = s THEN NoSlot ELSE call[d]]
      BY <2>6 DEF ServerCrash
    <3>2. \A d \in Devices :
             \/ step'[d] = "idle"
             \/ step'[d] = step[d] /\ call'[d] = call[d] /\ call[d] # s
      BY <3>1
    <3> QED BY <2>6, <3>2, GoneEffect, RevisionRequestGone DEF Reading
  <2> QED BY <1>4, <2>1, <2>2, <2>3, <2>4, <2>5, <2>6 DEF ServerStep
<1>5. CASE RecoverLease
  BY <1>5, NumberTypes
  DEF RecoverLease, clientVars, RevisionInv, LinkInv, BaseInv, CallerInv
<1>6. CASE \/ \E d \in Devices : Edit(d)
           \/ \E m \in Mutations : RetryDeadLetter(m) \/ DiscardDeadLetter(m)
           \/ UNCHANGED vars
  <2>1. UNCHANGED <<link, step, call, inbox, revision, req>>
    BY <1>6 DEF Edit, RetryDeadLetter, DiscardDeadLetter, vars, clientVars,
       serverVars
  <2> QED BY <1>0, <2>1 DEF RevisionInv, LinkInv, BaseInv, CallerInv
<1> QED
  <2>1. CASE RecoverLease
    BY <1>0, <1>5, <2>1 DEF RecoverLease, clientVars
  <2> QED BY <1>0, <1>1, <1>2, <1>3, <1>4, <1>6, <2>1 DEF Next, ClientStep

-----------------------------------------------------------------------------
(* Who holds the lease, and what a verdict says of the base revision.      *)

(* A device step leaves the lease to whoever holds it.                     *)
LEMMA ClientFrame ==
  ASSUME TypeOK, CallInv, NEW d \in Devices,
         ClientStep(d) \/ LosePush(d) \/ CloseTab(d)
  PROVE  /\ UNCHANGED <<edits, author, db, done, revision, lease, failedOnce>>
         /\ \A t \in Slots :
              \/ req'[t] = req[t]
              \/ req'[t].phase = "check"
              \/ req'[t] = NoRequest
<1>1. UNCHANGED <<edits, author, db, done, revision, lease, failedOnce>>
  BY DEF ClientStep, StartPush, StartWithoutPush, ReceivePush, SettleResult,
     AdoptRevision, Decide, FetchSnapshot, ApplySnapshot, RelinkRevision,
     LosePush, CloseTab, serverVars
<1>2. CASE \E s \in Slots : StartPush(d, s)
  BY <1>1, <1>2, StartEffect DEF OthersKept
<1>3. CASE ReceivePush(d)
  BY <1>1, <1>3, ReceiveEffect DEF OthersKept
<1>4. CASE UNCHANGED req
  BY <1>1, <1>4
<1> QED
  BY <1>2, <1>3, <1>4, DeviceEffect DEF ClientStep

(* At most one request holds the lease, from its base revision.            *)
LEMMA HoldInvStep ==
  TypeOK /\ CallInv /\ HoldInv /\ [Next]_vars => HoldInv'
<1> SUFFICES ASSUME TypeOK, CallInv, HoldInv, [Next]_vars PROVE HoldInv'
  OBVIOUS
<1> USE DEF HoldInv, Holding
<1>1. ASSUME NEW d \in Devices, ClientStep(d) \/ LosePush(d) \/ CloseTab(d)
      PROVE  HoldInv'
  <2>1. /\ UNCHANGED <<revision, lease>>
        /\ \A t \in Slots : \/ req'[t] = req[t]
                            \/ req'[t].phase \notin Holding
    BY <1>1, ClientFrame, NoRequestFields
  <2> QED BY <2>1
<1>2. ASSUME NEW s \in Slots, ServerStep(s) \/ ServerCrash(s) PROVE HoldInv'
  <2>1. CASE CheckCompleted(s)
    BY <2>1, CheckEffect DEF SameOrigin, OthersKept
  <2>2. CASE ReservePush(s)
    <3>1. ASSUME NEW v \in Results, NotReserved(s, v) PROVE HoldInv'
      <4>1. UNCHANGED <<lease, revision>>
        BY <2>2, <3>1 DEF ReservePush, NotReserved
      <4> QED BY <3>1, <4>1, NotReservedEffect DEF SameOrigin, OthersKept
    <3>2. CASE /\ SameOrigin(s)
               /\ lease = "free" /\ lease' = "held"
               /\ revision = req[s].base /\ UNCHANGED revision
      <4>1. \A t \in Slots : req[t].phase \notin Holding
        BY <3>2
      <4> QED BY <3>2, <4>1 DEF SameOrigin, OthersKept
    <3> QED BY <2>2, <3>1, <3>2, ReserveEffect DEF Results
  <2>3. CASE SkipDuplicate(s) \/ MarkDone(s) \/ HandlerFails(s)
    <3>1. /\ req[s].phase \in Holding /\ SameOrigin(s)
          /\ UNCHANGED <<lease, revision>>
      BY <2>3, LoopEffect, ReportEffect DEF Results
    <3> QED BY <3>1 DEF SameOrigin, OthersKept
  <2>4. CASE RunHandler(s) \/ FinalizePush(s) \/ PushBreaks(s) \/ ConfirmPush(s)
    <3>1. CASE req[s].phase = "apply" /\ UNCHANGED <<revision, lease>>
      BY <2>4, <3>1, PhaseEffect DEF SameOrigin, OthersKept
    <3>2. CASE req[s].phase = "apply" /\ req'[s].phase \in {"confirm", "error"}
      BY <2>4, <3>2, PhaseEffect DEF SameOrigin, OthersKept
    <3>3. CASE req'[s].phase \in {"answer", "error"} /\ UNCHANGED <<revision, lease>>
      BY <2>4, <3>3, PhaseEffect DEF SameOrigin, OthersKept
    <3> QED BY <2>4, <3>1, <3>2, <3>3, PhaseEffect
  <2>5. CASE DropResponse(s) \/ ServerCrash(s)
    <3>1. /\ OthersKept(s) /\ req'[s].phase = "none" /\ UNCHANGED revision
          /\ \/ UNCHANGED lease
             \/ req[s].phase \in Holding
      BY <2>5, GoneEffect, NoRequestFields
    <3> QED BY <3>1 DEF OthersKept
  <2> QED BY <1>2, <2>1, <2>2, <2>3, <2>4, <2>5 DEF ServerStep
<1>3. CASE RecoverLease
  BY <1>3 DEF RecoverLease
<1>4. CASE \/ \E d \in Devices : Edit(d)
           \/ \E m \in Mutations : RetryDeadLetter(m) \/ DiscardDeadLetter(m)
           \/ UNCHANGED vars
  <2>1. UNCHANGED <<revision, lease, req>>
    BY <1>4 DEF Edit, RetryDeadLetter, DiscardDeadLetter, vars, serverVars
  <2> QED BY <2>1
<1> QED BY <1>1, <1>2, <1>3, <1>4 DEF Next

(* No step of the server takes the workspace to an older revision, and a   *)
(* device that is settling a response goes on with the same one.           *)
LEMMA ServerFrame ==
  ASSUME TypeOK, NEW s \in Slots, ServerStep(s) \/ ServerCrash(s)
  PROVE  /\ UNCHANGED <<edits, author, outbox, local, link, inbox>>
         /\ revision <= revision'
         /\ OthersKept(s)
         /\ \A d \in Devices :
              \/ step'[d] = "idle"
              \/ step'[d] = step[d] /\ call'[d] = call[d]
<1>1. CASE CheckCompleted(s)
  BY <1>1, CheckEffect, NumberTypes DEF clientVars, SameOrigin
<1>2. CASE ReservePush(s)
  BY <1>2, ReserveEffect, NotReservedEffect, NumberTypes
  DEF clientVars, SameOrigin, Results
<1>3. CASE SkipDuplicate(s) \/ MarkDone(s) \/ HandlerFails(s)
  BY <1>3, LoopEffect, ReportEffect, NumberTypes
  DEF clientVars, SameOrigin, Results
<1>4. CASE RunHandler(s) \/ FinalizePush(s) \/ PushBreaks(s) \/ ConfirmPush(s)
  BY <1>4, PhaseEffect, NumberTypes DEF clientVars, SameOrigin
<1>5. CASE DropResponse(s) \/ ServerCrash(s)
  BY <1>5, GoneEffect, NumberTypes
<1> QED BY <1>1, <1>2, <1>3, <1>4, <1>5 DEF ServerStep

(* One result settled: the outbox row and the result, nothing else.        *)
LEMMA SettleEffect ==
  ASSUME TypeOK, NEW d \in Devices, SettleResult(d)
  PROVE  /\ OtherDevicesKept(d)
         /\ step[d] = "settling" /\ step'[d] = "settling"
         /\ link'[d] = link[d] /\ inbox'[d].rev = inbox[d].rev
         /\ UNCHANGED <<edits, author, link, call, req, db, done, revision,
                        lease, failedOnce>>
         /\ \E m \in Mutations :
              /\ inbox[d].results[m] # "none"
              /\ \A n \in Mutations :
                   /\ outbox'[n] = IF n = m THEN Settled(inbox[d].results[m])
                                   ELSE outbox[n]
                   /\ inbox'[d].results[n] = IF n = m THEN "none"
                                             ELSE inbox[d].results[n]
<1>1. PICK m \in Mutations :
         /\ inbox[d].results[m] # "none"
         /\ outbox' = [outbox EXCEPT ![m] = Settled(inbox[d].results[m])]
         /\ inbox' = [inbox EXCEPT ![d].results[m] = "none"]
  BY DEF SettleResult, Answered
<1>2. /\ inbox \in [Devices -> ResponseType]
      /\ inbox[d] \in ResponseType /\ inbox[d].results \in [Mutations -> Results]
      /\ outbox \in [Mutations -> Statuses]
  BY DEF TypeOK, ResponseType
<1> DEFINE left == [inbox[d].results EXCEPT ![m] = "none"]
<1>3. inbox' = [inbox EXCEPT ![d] = [inbox[d] EXCEPT !.results = left]]
  BY <1>1
<1>4. \A n \in Mutations :
         left[n] = IF n = m THEN "none" ELSE inbox[d].results[n]
  BY <1>2
<1> HIDE DEF left
<1>5. /\ inbox'[d].results = left /\ inbox'[d].rev = inbox[d].rev
      /\ \A e \in Devices : e # d => inbox'[e] = inbox[e]
  BY <1>2, <1>3 DEF ResponseType
<1>6. \A n \in Mutations :
         /\ outbox'[n] = IF n = m THEN Settled(inbox[d].results[m])
                         ELSE outbox[n]
         /\ inbox'[d].results[n] = IF n = m THEN "none"
                                   ELSE inbox[d].results[n]
  BY <1>1, <1>2, <1>4, <1>5
<1>7. /\ step[d] = "settling"
      /\ UNCHANGED <<edits, author, link, step, call, req, db, done, revision,
                     lease, failedOnce>>
  BY DEF SettleResult, serverVars
<1> QED BY <1>1, <1>5, <1>6, <1>7 DEF OtherDevicesKept

QuietStep(d) ==
    \/ StartWithoutPush(d) \/ AdoptRevision(d) \/ Decide(d)
    \/ FetchSnapshot(d) \/ ApplySnapshot(d) \/ RelinkRevision(d)
    \/ LosePush(d) \/ CloseTab(d)

(* The other steps of a device touch neither the outbox nor the requests,  *)
(* and leave no result to settle.                                          *)
LEMMA QuietEffect ==
  ASSUME TypeOK, NEW d \in Devices, QuietStep(d)
  PROVE  /\ OtherDevicesKept(d)
         /\ step'[d] \notin {"settling", "pushing"}
         /\ UNCHANGED <<edits, author, outbox, req, db, done, revision, lease,
                        failedOnce>>
         /\ \A m \in Mutations : \/ inbox'[d].results[m] = inbox[d].results[m]
                                 \/ inbox'[d].results[m] = "none"
<1> DEFINE fetched == [NoResponse EXCEPT !.data = db, !.rev = revision]
<1>1. /\ UNCHANGED <<edits, author, outbox, req, db, done, revision, lease,
                     failedOnce>>
      /\ \/ UNCHANGED inbox
         \/ inbox' = [inbox EXCEPT ![d] = NoResponse]
         \/ inbox' = [inbox EXCEPT ![d] = fetched]
      /\ \/ UNCHANGED step /\ step[d] \notin {"settling", "pushing"}
         \/ \E t \in Steps \ {"settling", "pushing"} : step' = [step EXCEPT ![d] = t]
      /\ UNCHANGED call \/ call' = [call EXCEPT ![d] = NoSlot]
      /\ UNCHANGED link \/ link' = [link EXCEPT ![d] = inbox[d].rev]
  BY DEF QuietStep, StartWithoutPush, AdoptRevision, Decide, FetchSnapshot,
     ApplySnapshot, RelinkRevision, LosePush, CloseTab, Goto, serverVars, Steps
<1>2. fetched.results = NoResults /\ NoResponse.results = NoResults
  BY DEF NoResponse
<1> HIDE DEF fetched
<1>3. \/ inbox'[d].results = inbox[d].results
      \/ inbox'[d].results = NoResults
  BY <1>1, <1>2 DEF TypeOK
<1>4. OtherDevicesKept(d) /\ step'[d] \notin {"settling", "pushing"}
  BY <1>1 DEF OtherDevicesKept, TypeOK
<1> QED BY <1>1, <1>3, <1>4, NoRequestFields

(* The steps of the system, grouped by what they touch.                    *)
LEMMA StepCases ==
  ASSUME [Next]_vars
  PROVE  \/ \E d \in Devices, s \in Slots : StartPush(d, s)
         \/ \E d \in Devices : ReceivePush(d)
         \/ \E d \in Devices : SettleResult(d)
         \/ \E d \in Devices : QuietStep(d)
         \/ \E d \in Devices : Edit(d)
         \/ \E m \in Mutations : RetryDeadLetter(m) \/ DiscardDeadLetter(m)
         \/ \E s \in Slots : ServerStep(s) \/ ServerCrash(s)
         \/ RecoverLease
         \/ UNCHANGED vars
BY DEF Next, ClientStep, QuietStep

(* A verdict that parks a mutation is about a base revision in the past.   *)
LEMMA VerdictInvStep ==
  TypeOK /\ CallInv /\ RevisionInv /\ HoldInv /\ VerdictInv /\ [Next]_vars
    => VerdictInv'
<1> SUFFICES ASSUME TypeOK, CallInv, RevisionInv, HoldInv, VerdictInv,
                    [Next]_vars
             PROVE  VerdictInv'
  OBVIOUS
<1> USE DEF VerdictInv
<1>1. ASSUME NEW d \in Devices, NEW s \in Slots, StartPush(d, s)
      PROVE  VerdictInv'
  <2>1. OthersKept(s) /\ req'[s].phase = "check"
    BY <1>1, StartEffect
  <2>2. UNCHANGED <<link, inbox, revision>>
        /\ step' = [step EXCEPT ![d] = "pushing"]
    BY <1>1 DEF StartPush, Goto
  <2> QED BY <2>1, <2>2 DEF OthersKept, TypeOK
<1>2. ASSUME NEW d \in Devices, ReceivePush(d) PROVE VerdictInv'
  <2> DEFINE s == call[d]
  <2>1. /\ OtherDevicesKept(d) /\ UNCHANGED <<link, revision>>
        /\ s \in Slots /\ step[d] = "pushing"
        /\ OthersKept(s) /\ req'[s].phase = "none"
        /\ \/ step'[d] = "idle"
           \/ /\ req[s].phase = "answer"
              /\ inbox'[d].results = req[s].results
    BY <1>2, ReceiveEffect, NoRequestFields
  <2>2. req[s].base = link[d]
    BY <2>1 DEF RevisionInv, CallerInv
  <2> HIDE DEF s
  <2>3. ASSUME NEW e \in Devices, step'[e] = "settling",
               NEW m \in Mutations, Parks(inbox'[e].results[m])
        PROVE  link[e] < revision
    <3>1. CASE e = d
      BY <2>1, <2>2, <2>3, <3>1
    <3>2. CASE e # d
      BY <2>1, <2>3, <3>2 DEF OtherDevicesKept
    <3> QED BY <3>1, <3>2
  <2> QED BY <2>1, <2>3 DEF OthersKept
<1>3. ASSUME NEW d \in Devices, SettleResult(d) PROVE VerdictInv'
  <2>1. PICK m \in Mutations :
           \A n \in Mutations :
             inbox'[d].results[n] = IF n = m THEN "none"
                                    ELSE inbox[d].results[n]
    BY <1>3, SettleEffect
  <2>2. /\ OtherDevicesKept(d) /\ UNCHANGED <<link, revision, req>>
        /\ step[d] = "settling"
    BY <1>3, SettleEffect
  <2>3. \A n \in Mutations :
           Parks(inbox'[d].results[n]) => Parks(inbox[d].results[n])
    BY <2>1 DEF Parks
  <2> QED BY <2>2, <2>3 DEF OtherDevicesKept
<1>4. ASSUME NEW d \in Devices, QuietStep(d) PROVE VerdictInv'
  BY <1>4, QuietEffect DEF OtherDevicesKept
<1>5. ASSUME NEW s \in Slots, ServerStep(s) \/ ServerCrash(s)
      PROVE  VerdictInv'
  <2>0. /\ UNCHANGED <<link, inbox>> /\ revision <= revision' /\ OthersKept(s)
        /\ \A d \in Devices : step'[d] = "settling" => step[d] = "settling"
        /\ revision \in Nat /\ revision' \in Nat
        /\ \A d \in Devices : link[d] \in Nat
        /\ \A t \in Slots : req[t].base \in Nat
    <3>1. revision' \in Nat
      BY <1>5, TypeOKStep DEF TypeOK, Next
    <3> QED BY <1>5, <3>1, ServerFrame, NumberTypes
  <2>1. \A d \in Devices :
           step'[d] = "settling" /\ (\E m \in Mutations : Parks(inbox'[d].results[m]))
             => link'[d] < revision'
    BY <2>0
  <2>2. \A t \in Slots : t # s =>
           /\ req'[t].phase = "confirm" => req'[t].base < revision'
           /\ req'[t].phase = "answer"
                /\ (\E m \in Mutations : Parks(req'[t].results[m]))
              => req'[t].base < revision'
    BY <2>0 DEF OthersKept
  <2>3. /\ req'[s].phase = "confirm" => req'[s].base < revision'
        /\ req'[s].phase = "answer"
             /\ (\E m \in Mutations : Parks(req'[s].results[m]))
           => req'[s].base < revision'
    <3>1. CASE CheckCompleted(s)
      BY <3>1, CheckEffect DEF Parks
    <3>2. CASE ReservePush(s)
      <4>1. UNCHANGED revision /\ req[s].phase = "reserve"
        BY <3>2, ReserveEffect
      <4>2. CASE NotReserved(s, "retryable")
        BY <4>1, <4>2, NotReservedEffect DEF Parks, Results
      <4>3. CASE NotReserved(s, "conflict") /\ revision # req[s].base
        <5>1. req[s].base <= link[req[s].dev] /\ req[s].dev \in Devices
          BY <4>1 DEF RevisionInv, BaseInv
        <5>2. link[req[s].dev] <= revision
          BY <5>1 DEF RevisionInv, LinkInv
        <5>3. req[s].base < revision
          BY <2>0, <4>3, <5>1, <5>2
        <5>4. req'[s].base = req[s].base
          BY <4>3, NotReservedEffect DEF Results, SameOrigin
        <5> QED BY <4>1, <5>3, <5>4
      <4>4. CASE req'[s].phase = "apply"
        BY <4>4
      <4> QED BY <3>2, <4>2, <4>3, <4>4, ReserveEffect
    <3>3. CASE SkipDuplicate(s) \/ MarkDone(s) \/ HandlerFails(s)
      BY <3>3, LoopEffect, ReportEffect DEF Results
    <3>4. CASE RunHandler(s) \/ FinalizePush(s) \/ PushBreaks(s) \/ ConfirmPush(s)
      <4>1. req[s].phase = "apply" => req[s].base = revision
        BY DEF HoldInv, Holding
      <4> QED BY <2>0, <3>4, <4>1, PhaseEffect DEF SameOrigin
    <3>5. CASE DropResponse(s) \/ ServerCrash(s)
      BY <3>5, GoneEffect, NoRequestFields
    <3> QED BY <1>5, <3>1, <3>2, <3>3, <3>4, <3>5 DEF ServerStep
  <2> QED BY <2>1, <2>2, <2>3
<1>6. CASE RecoverLease
  <2>1. /\ revision' = revision + 1
        /\ UNCHANGED <<link, inbox, step, req>>
    BY <1>6 DEF RecoverLease, clientVars
  <2> QED BY <2>1, NumberTypes
<1>7. CASE \/ \E d \in Devices : Edit(d)
           \/ \E m \in Mutations : RetryDeadLetter(m) \/ DiscardDeadLetter(m)
           \/ UNCHANGED vars
  <2>1. UNCHANGED <<revision, link, inbox, step, req>>
    BY <1>7 DEF Edit, RetryDeadLetter, DiscardDeadLetter, vars, clientVars,
       serverVars
  <2> QED BY <2>1
<1> QED BY <1>1, <1>2, <1>3, <1>4, <1>5, <1>6, <1>7, StepCases

-----------------------------------------------------------------------------
(* Whose mutations a request carries, and where they wait meanwhile.       *)

(* A request keeps its origin until it is gone; nothing done is undone and *)
(* no failure is forgotten.                                                *)
LEMMA ServerGrows ==
  ASSUME TypeOK, NEW s \in Slots, ServerStep(s) \/ ServerCrash(s)
  PROVE  /\ SameOrigin(s) \/ req'[s] = NoRequest
         /\ done \subseteq done' /\ failedOnce \subseteq failedOnce'
<1>1. CASE CheckCompleted(s)
  BY <1>1, CheckEffect
<1>2. CASE ReservePush(s)
  BY <1>2, ReserveEffect, NotReservedEffect DEF NotReserved, Results
<1>3. CASE SkipDuplicate(s) \/ MarkDone(s) \/ HandlerFails(s)
  BY <1>3, LoopEffect, ReportEffect DEF Results
<1>4. CASE RunHandler(s) \/ FinalizePush(s) \/ PushBreaks(s) \/ ConfirmPush(s)
  BY <1>4, PhaseEffect
<1>5. CASE DropResponse(s) \/ ServerCrash(s)
  BY <1>5, GoneEffect
<1> QED BY <1>1, <1>2, <1>3, <1>4, <1>5 DEF ServerStep

(* An edit gets the next number, its author and a waiting outbox row.      *)
LEMMA EditEffect ==
  ASSUME TypeOK, NEW d \in Devices, Edit(d)
  PROVE  /\ edits + 1 \in Mutations /\ edits' = edits + 1
         /\ \A m \in Mutations :
              /\ author'[m] = IF m = edits + 1 THEN d ELSE author[m]
              /\ outbox'[m] = IF m = edits + 1 THEN "pending" ELSE outbox[m]
         /\ UNCHANGED <<link, step, call, inbox, serverVars, faults>>
<1>1. edits + 1 \in Mutations
  BY SyncAssumption DEF TypeOK, Edit, Mutations
<1> QED BY <1>1 DEF Edit, Enqueue, TypeOK

(* A request carries, reports and applies mutations of its own device.     *)
LEMMA PushInvStep ==
  TypeOK /\ CallInv /\ AuthorInv /\ PushInv /\ [Next]_vars => PushInv'
<1> SUFFICES ASSUME TypeOK, CallInv, AuthorInv, PushInv, [Next]_vars
             PROVE  PushInv'
  OBVIOUS
<1> USE DEF PushInv, Answered
<1>0. \A s \in Slots : /\ req[s].muts \subseteq Mutations
                       /\ req[s].todo \subseteq Mutations
  BY DEF TypeOK, RequestType
<1>1. ASSUME NEW d \in Devices, NEW s \in Slots, StartPush(d, s) PROVE PushInv'
  <2>1. UNCHANGED author
    BY <1>1 DEF StartPush
  <2>2. \A m \in PendingOf(d) : author[m] = d
    BY DEF PendingOf
  <2> QED BY <1>1, <2>1, <2>2, StartEffect DEF OthersKept
<1>2. ASSUME NEW d \in Devices, ReceivePush(d) PROVE PushInv'
  BY <1>2, ReceiveEffect, NoRequestFields DEF OthersKept
<1>3. ASSUME NEW d \in Devices, SettleResult(d) PROVE PushInv'
  BY <1>3, SettleEffect
<1>4. ASSUME NEW d \in Devices, QuietStep(d) PROVE PushInv'
  BY <1>4, QuietEffect
<1>5. ASSUME NEW d \in Devices, Edit(d) PROVE PushInv'
  <2>1. UNCHANGED req
    BY <1>5, EditEffect DEF serverVars
  <2>2. author[edits + 1] \notin Devices
    BY <1>5, EditEffect, NumberTypes, SyncAssumption DEF AuthorInv
  <2>3. \A m \in Mutations : author[m] \in Devices => author'[m] = author[m]
    BY <1>5, <2>2, EditEffect
  <2> QED BY <1>0, <2>1, <2>3
<1>6. ASSUME NEW s \in Slots, ServerStep(s) \/ ServerCrash(s) PROVE PushInv'
  <2>1. UNCHANGED author /\ OthersKept(s)
    BY <1>6, ServerFrame
  <2> DEFINE Good == /\ req'[s].todo \subseteq req'[s].muts
                     /\ req'[s].known \subseteq req'[s].muts
                     /\ \A m \in Mutations :
                          req'[s].results[m] # "none" => m \in req'[s].muts
  <2>2. ASSUME Good PROVE PushInv'
    BY <1>6, <2>1, <2>2, ServerGrows, NoRequestFields DEF OthersKept, SameOrigin
  <2>3. CASE CheckCompleted(s)
    BY <2>2, <2>3, CheckEffect DEF SameOrigin
  <2>4. CASE ReservePush(s)
    <3>1. ASSUME NEW v \in Results, NotReserved(s, v) PROVE Good
      BY <3>1, NotReservedEffect DEF SameOrigin, Unapplied
    <3>2. CASE /\ SameOrigin(s) /\ req'[s].todo = req[s].muts
               /\ req'[s].known = req[s].known
               /\ req'[s].results = req[s].results
      <4>1. \A m \in Mutations : req[s].results[m] # "none" => m \in req[s].muts
        OBVIOUS
      <4>2. req'[s].muts = req[s].muts /\ req[s].known \subseteq req[s].muts
        BY <3>2 DEF SameOrigin
      <4>3. Good
        BY <3>2, <4>1, <4>2
      <4> QED BY <2>2, <4>3
    <3> QED BY <2>2, <2>4, <3>1, <3>2, ReserveEffect DEF Results
  <2>5. CASE SkipDuplicate(s) \/ MarkDone(s) \/ HandlerFails(s)
    <3>1. ASSUME NEW m \in req[s].todo, NEW r \in Results, Report(s, m, r)
          PROVE  Good
      BY <1>0, <3>1, ReportEffect DEF SameOrigin
    <3> QED BY <2>2, <2>5, <3>1, LoopEffect DEF Results
  <2>6. CASE RunHandler(s) \/ FinalizePush(s) \/ PushBreaks(s) \/ ConfirmPush(s)
    BY <2>2, <2>6, PhaseEffect DEF SameOrigin
  <2>7. CASE DropResponse(s) \/ ServerCrash(s)
    BY <2>2, <2>7, GoneEffect, NoRequestFields
  <2> QED BY <1>6, <2>3, <2>4, <2>5, <2>6, <2>7 DEF ServerStep
<1>7. CASE \/ \E m \in Mutations : RetryDeadLetter(m) \/ DiscardDeadLetter(m)
           \/ RecoverLease
           \/ UNCHANGED vars
  <2>1. UNCHANGED <<author, req>>
    BY <1>7 DEF RetryDeadLetter, DiscardDeadLetter, RecoverLease, vars,
       serverVars
  <2> QED BY <2>1
<1> QED BY <1>1, <1>2, <1>3, <1>4, <1>5, <1>6, <1>7, StepCases

(* Putting a dead letter back or dropping it concerns its row alone.       *)
LEMMA DeadLetterEffect ==
  ASSUME TypeOK, NEW m \in Mutations, RetryDeadLetter(m) \/ DiscardDeadLetter(m)
  PROVE  /\ outbox[m] = "dead_letter"
         /\ outbox'[m] \in {"pending", "discarded"}
         /\ \A n \in Mutations : n # m => outbox'[n] = outbox[n]
         /\ UNCHANGED <<edits, author, local, link, step, call, inbox, serverVars>>
BY DEF RetryDeadLetter, DiscardDeadLetter, TypeOK

(* What is on the list of a push and done next has an author.              *)
LEMMA DoneGrowth ==
  ASSUME TypeOK, PushInv, NEW s \in Slots, ServerStep(s) \/ ServerCrash(s)
  PROVE  \/ UNCHANGED done
         \/ \E m \in req[s].todo :
              /\ req[s].phase \in Holding
              /\ Lowest(m, req[s].todo)
              /\ m \in Mutations /\ author[m] \in Devices
              /\ m \in req[s].muts
              /\ done' = done \union {m}
              /\ UNCHANGED failedOnce
<1>0. req[s].todo \subseteq req[s].muts /\ \A m \in req[s].muts : author[m] \in Devices
  BY DEF PushInv
<1>1. CASE CheckCompleted(s)
  BY <1>1, CheckEffect
<1>2. CASE ReservePush(s)
  BY <1>2, ReserveEffect
<1>3. CASE SkipDuplicate(s) \/ MarkDone(s) \/ HandlerFails(s)
  BY <1>0, <1>3, LoopEffect DEF Holding
<1>4. CASE RunHandler(s) \/ FinalizePush(s) \/ PushBreaks(s) \/ ConfirmPush(s)
  BY <1>4, PhaseEffect
<1>5. CASE DropResponse(s) \/ ServerCrash(s)
  BY <1>5, GoneEffect
<1> QED BY <1>1, <1>2, <1>3, <1>4, <1>5 DEF ServerStep

(* Only edits made so far have an author, an outbox row or an effect.      *)
LEMMA AuthorInvStep ==
  TypeOK /\ CallInv /\ PushInv /\ AuthorInv /\ WaitInv /\ [Next]_vars
    => AuthorInv'
<1> SUFFICES ASSUME TypeOK, CallInv, PushInv, AuthorInv, WaitInv, [Next]_vars
             PROVE  AuthorInv'
  OBVIOUS
<1> USE DEF AuthorInv
<1>1. ASSUME NEW d \in Devices, Edit(d) PROVE AuthorInv'
  BY <1>1, EditEffect, NumberTypes DEF serverVars
<1>2. ASSUME NEW d \in Devices, SettleResult(d) PROVE AuthorInv'
  <2>1. PICK m \in Mutations :
           /\ inbox[d].results[m] # "none"
           /\ \A n \in Mutations : n # m => outbox'[n] = outbox[n]
    BY <1>2, SettleEffect
  <2>2. UNCHANGED <<edits, author, done>> /\ step[d] = "settling"
    BY <1>2, SettleEffect
  <2>3. outbox[m] \in Waiting
    BY <2>1, <2>2 DEF WaitInv, Answered
  <2>4. ~(edits < m)
    BY <2>3 DEF Waiting
  <2>5. ASSUME NEW n \in Mutations
        PROVE  /\ n <= edits => author[n] \in Devices
               /\ edits < n => author[n] = NoDevice /\ outbox'[n] = "unused" /\ n \notin done
    BY <2>1, <2>4
  <2> QED BY <2>2, <2>5
<1>3. ASSUME NEW m \in Mutations, RetryDeadLetter(m) \/ DiscardDeadLetter(m)
      PROVE  AuthorInv'
  BY <1>3, DeadLetterEffect DEF serverVars
<1>4. ASSUME NEW s \in Slots, ServerStep(s) \/ ServerCrash(s) PROVE AuthorInv'
  <2>1. UNCHANGED <<edits, author, outbox>>
    BY <1>4, ServerFrame
  <2>2. UNCHANGED done
        \/ \E m \in Mutations : author[m] \in Devices /\ done' = done \union {m}
    BY <1>4, DoneGrowth
  <2>3. \A m \in Mutations : edits < m => author[m] \notin Devices
    BY SyncAssumption
  <2> QED BY <2>1, <2>2, <2>3
<1>5. CASE \/ \E d \in Devices, s \in Slots : StartPush(d, s)
           \/ \E d \in Devices : ReceivePush(d) \/ QuietStep(d)
           \/ RecoverLease
           \/ UNCHANGED vars
  <2>1. UNCHANGED <<edits, author, outbox, done>>
    BY <1>5, QuietEffect DEF StartPush, ReceivePush, RecoverLease, vars,
       clientVars, serverVars
  <2> QED BY <2>1
<1> QED BY <1>1, <1>2, <1>3, <1>4, <1>5, StepCases

WaitingAtPush ==
    \A d \in Devices : step[d] = "pushing" =>
      \A m \in req[call[d]].muts : outbox[m] \in Waiting

WaitingAtSettling ==
    \A d \in Devices : step[d] = "settling" =>
      \A m \in Mutations : inbox[d].results[m] # "none" =>
        outbox[m] \in Waiting /\ author[m] = d

WaitingToApply ==
    \A s \in Slots :
      /\ req[s].phase \in {"check", "reserve"} /\ req[s].base = revision
           => \A m \in req[s].muts : Settling(m)
      /\ req[s].phase \in Holding => \A m \in req[s].todo : Settling(m)

(* The three parts of the invariant.                                       *)
LEMMA WaitInvParts ==
  WaitInv <=> WaitingAtPush /\ WaitingAtSettling /\ WaitingToApply
BY DEF WaitInv, WaitingAtPush, WaitingAtSettling, WaitingToApply, Answered

(* While a device settles a result that parks a mutation, no request that  *)
(* carries the mutation can still take effect.                             *)
LEMMA ParkedIsStale ==
  ASSUME TypeOK, RevisionInv, HoldInv, VerdictInv, PushInv, WaitInv,
         NEW d \in Devices, step[d] = "settling",
         NEW m \in Mutations, Parks(inbox[d].results[m]),
         NEW s \in Slots, m \in req[s].muts, req[s].phase # "none"
  PROVE  /\ req[s].base # revision
         /\ req[s].phase \notin Holding
<1>1. inbox[d].results[m] # "none"
  BY DEF Parks
<1>2. author[m] = d /\ link[d] < revision
  BY <1>1, WaitInvParts DEF WaitingAtSettling, VerdictInv
<1>3. req[s].dev = d
  BY <1>2 DEF PushInv
<1>4. req[s].base <= link[d]
  BY <1>3 DEF RevisionInv, BaseInv
<1>5. req[s].base # revision
  BY <1>2, <1>4, NumberTypes
<1> QED BY <1>5 DEF HoldInv

(* A device that settles touches no row another push waits for.            *)
LEMMA WaitInvSettle ==
  ASSUME OrderInv, NEW d \in Devices, SettleResult(d)
  PROVE  WaitInv'
<1> USE DEF OrderInv, ForgetInv
<1>1. PICK m \in Mutations :
         /\ inbox[d].results[m] # "none"
         /\ \A n \in Mutations :
              /\ outbox'[n] = IF n = m THEN Settled(inbox[d].results[m])
                              ELSE outbox[n]
              /\ inbox'[d].results[n] = IF n = m THEN "none"
                                        ELSE inbox[d].results[n]
  BY SettleEffect
<1>2. /\ OtherDevicesKept(d)
      /\ step[d] = "settling" /\ step'[d] = "settling"
      /\ UNCHANGED <<author, revision, call, req, done>>
  BY SettleEffect
<1>3. WaitingAtPush /\ WaitingAtSettling /\ WaitingToApply
  BY WaitInvParts
<1>4. author[m] = d
  BY <1>1, <1>2, <1>3 DEF WaitingAtSettling
<1>5. WaitingAtPush'
  <2> SUFFICES ASSUME NEW e \in Devices, step'[e] = "pushing",
                      NEW n \in req'[call'[e]].muts
               PROVE  outbox'[n] \in Waiting
    BY DEF WaitingAtPush, Waiting
  <2>1. e # d /\ step[e] = "pushing" /\ call[e] \in Slots
        /\ req[call[e]].dev = e /\ n \in req[call[e]].muts
    BY <1>2 DEF OtherDevicesKept, CallInv, RevisionInv, CallerInv
  <2>2. n \in Mutations /\ author[n] = e
    BY <2>1 DEF TypeOK, RequestType, PushInv
  <2> QED BY <1>1, <1>3, <1>4, <2>1, <2>2 DEF WaitingAtPush
<1>6. WaitingAtSettling'
  <2> SUFFICES ASSUME NEW e \in Devices, step'[e] = "settling",
                      NEW n \in Mutations, inbox'[e].results[n] # "none"
               PROVE  outbox'[n] \in Waiting /\ author[n] = e
    BY <1>2 DEF WaitingAtSettling, Waiting
  <2>1. CASE e = d
    BY <1>1, <1>2, <1>3, <2>1 DEF WaitingAtSettling
  <2>2. CASE e # d
    BY <1>1, <1>2, <1>3, <1>4, <2>2 DEF WaitingAtSettling, OtherDevicesKept
  <2> QED BY <2>1, <2>2
<1>7. ASSUME NEW n \in Mutations, Settling(n), ~Parks(inbox[d].results[m]) \/ n # m
      PROVE  Settling(n)'
  <2>1. CASE n # m
    BY <1>1, <1>2, <1>7, <2>1 DEF Settling
  <2>2. CASE n = m /\ Acknowledges(inbox[d].results[m])
    BY <1>2, <2>2 DEF Settling, ReportInv
  <2>3. CASE n = m /\ ~Acknowledges(inbox[d].results[m])
    <3>1. Settled(inbox[d].results[m]) = "failed"
      BY <1>7, <2>3 DEF Settled, Acknowledges, Parks
    <3> QED BY <1>1, <2>3, <3>1 DEF Settling, Waiting
  <2> QED BY <2>1, <2>2, <2>3
<1>8. WaitingToApply'
  <2> SUFFICES ASSUME NEW s \in Slots
               PROVE  /\ req[s].phase \in {"check", "reserve"} /\ req[s].base = revision
                           => \A n \in req[s].muts : Settling(n)'
                      /\ req[s].phase \in Holding => \A n \in req[s].todo : Settling(n)'
    BY <1>2 DEF WaitingToApply
  <2>1. req[s].muts \subseteq Mutations /\ req[s].todo \subseteq req[s].muts
    BY DEF TypeOK, RequestType, PushInv
  <2>2. CASE Parks(inbox[d].results[m]) /\ m \in req[s].muts /\ req[s].phase # "none"
    BY <1>2, <2>2, ParkedIsStale, <1>3, <1>7, <2>1 DEF WaitingToApply
  <2>3. CASE ~Parks(inbox[d].results[m]) \/ m \notin req[s].muts
    BY <1>3, <1>7, <2>1, <2>3 DEF WaitingToApply
  <2>4. CASE req[s].phase = "none"
    BY <2>4 DEF Holding
  <2> QED BY <2>2, <2>3, <2>4
<1> QED
  <2>1. (WaitingAtPush /\ WaitingAtSettling /\ WaitingToApply)'
    BY <1>5, <1>6, <1>8
  <2> QED BY <2>1 DEF WaitInv, WaitingAtPush, WaitingAtSettling, WaitingToApply, Answered

(* A step of the server neither moves a waiting row nor lets a push take   *)
(* effect whose mutations no longer wait.                                  *)
LEMMA WaitInvServer ==
  ASSUME OrderInv, RevisionInv', HoldInv', NEW s \in Slots,
         ServerStep(s) \/ ServerCrash(s)
  PROVE  WaitInv'
<1> USE DEF OrderInv, ForgetInv
<1>1. /\ UNCHANGED <<author, outbox, inbox>>
      /\ OthersKept(s)
      /\ \A d \in Devices :
           \/ step'[d] = "idle"
           \/ step'[d] = step[d] /\ call'[d] = call[d]
  BY ServerFrame
<1>2. /\ SameOrigin(s) \/ req'[s] = NoRequest
      /\ done \subseteq done'
  BY ServerGrows
<1>3. WaitingAtPush /\ WaitingAtSettling /\ WaitingToApply
  BY WaitInvParts
<1>4. WaitingAtPush'
  <2> SUFFICES ASSUME NEW d \in Devices, step'[d] = "pushing",
                      NEW m \in req'[call'[d]].muts
               PROVE  outbox[m] \in Waiting
    BY <1>1 DEF WaitingAtPush, Waiting
  <2>1. step[d] = "pushing" /\ call'[d] = call[d] /\ call[d] \in Slots
    BY <1>1 DEF CallInv
  <2>2. req'[call[d]].muts \subseteq req[call[d]].muts
    BY <1>1, <1>2, <2>1, NoRequestFields DEF SameOrigin, OthersKept
  <2> QED BY <1>3, <2>1, <2>2 DEF WaitingAtPush
<1>5. WaitingAtSettling'
  BY <1>1, <1>3 DEF WaitingAtSettling, Waiting
<1>6. \A m \in Mutations : Settling(m) => Settling(m)'
  BY <1>1, <1>2 DEF Settling, Waiting
<1>7. \A t \in Slots : req[t].muts \subseteq Mutations /\ req[t].todo \subseteq Mutations
  BY DEF TypeOK, RequestType
<1>8. ASSUME NEW t \in Slots, req'[t].phase # "none", req'[t].base = revision'
      PROVE  /\ req[t].base = revision /\ req'[t].base = req[t].base
             /\ req'[t].muts = req[t].muts /\ req[t].phase # "none"
  <2>1. /\ req'[t].base = req[t].base /\ req'[t].muts = req[t].muts
        /\ req[t].phase # "none"
    <3>1. req[s].phase # "none"
      BY DEF ServerStep, ServerCrash, CheckCompleted, ReservePush, SkipDuplicate,
         RunHandler, MarkDone, HandlerFails, FinalizePush, PushBreaks,
         ConfirmPush, DropResponse
    <3> QED BY <1>1, <1>2, <1>8, <3>1, NoRequestFields DEF SameOrigin, OthersKept
  <2>2. /\ req[t].base <= link[req[t].dev] /\ req[t].dev \in Devices
        /\ link[req[t].dev] <= revision
    BY <2>1 DEF RevisionInv, BaseInv, LinkInv
  <2>3. revision <= revision'
    BY ServerFrame
  <2>4. revision' = req[t].base
    BY <1>8, <2>1
  <2> QED BY <2>1, <2>2, <2>3, <2>4, NumberTypes
<1>9. ASSUME NEW t \in Slots, req'[t].phase \in {"check", "reserve"},
             req'[t].base = revision', NEW m \in req'[t].muts
      PROVE  Settling(m)'
  <2>1. req[t].base = revision /\ m \in req[t].muts /\ m \in Mutations
    BY <1>7, <1>8, <1>9
  <2>2. req[t].phase \in {"check", "reserve"}
    <3>1. CASE t # s
      BY <1>1, <1>9, <3>1 DEF OthersKept
    <3>2. CASE t = s
      BY <1>9, <3>2, CheckEffect, ReserveEffect, NotReservedEffect, LoopEffect,
         ReportEffect, PhaseEffect, GoneEffect, NoRequestFields
      DEF ServerStep, Results
    <3> QED BY <3>1, <3>2
  <2> QED BY <1>3, <1>6, <2>1, <2>2 DEF WaitingToApply
<1>10. ASSUME NEW t \in Slots, req'[t].phase \in Holding, NEW m \in req'[t].todo
       PROVE  Settling(m)'
  <2>1. CASE t # s
    BY <1>1, <1>3, <1>6, <1>7, <1>10, <2>1 DEF OthersKept, WaitingToApply
  <2>2. CASE t = s /\ req[s].phase \in Holding
    <3>1. req'[s].todo \subseteq req[s].todo
      BY <1>10, <2>2, CheckEffect, ReserveEffect, NotReservedEffect, LoopEffect,
         ReportEffect, PhaseEffect, GoneEffect, NoRequestFields
      DEF ServerStep, Results, Holding
    <3> QED BY <1>3, <1>6, <1>7, <1>10, <2>2, <3>1 DEF WaitingToApply
  <2>3. CASE t = s /\ req[s].phase \notin Holding
    <3>1. /\ req[s].phase = "reserve" /\ req[s].base = revision
          /\ req'[s].todo = req[s].muts
      BY <1>10, <2>3, CheckEffect, ReserveEffect, NotReservedEffect, LoopEffect,
         ReportEffect, PhaseEffect, GoneEffect, NoRequestFields
      DEF ServerStep, Results, Holding
    <3> QED BY <1>3, <1>6, <1>7, <1>10, <2>3, <3>1 DEF WaitingToApply
  <2> QED BY <2>1, <2>2, <2>3
<1>11. WaitingToApply'
  BY <1>9, <1>10 DEF WaitingToApply, Holding
<1> QED
  <2>1. (WaitingAtPush /\ WaitingAtSettling /\ WaitingToApply)'
    BY <1>4, <1>5, <1>11
  <2> QED BY <2>1 DEF WaitInv, WaitingAtPush, WaitingAtSettling, WaitingToApply, Answered

(* What is on its way to the server or back still waits in the outbox.     *)
LEMMA WaitInvStep ==
  OrderInv /\ RevisionInv' /\ HoldInv' /\ [Next]_vars => WaitInv'
<1> SUFFICES ASSUME OrderInv, RevisionInv', HoldInv', [Next]_vars PROVE WaitInv'
  OBVIOUS
<1> USE DEF OrderInv, ForgetInv
<1>0. WaitingAtPush /\ WaitingAtSettling /\ WaitingToApply
  BY WaitInvParts
<1>1. ASSUME (WaitingAtPush /\ WaitingAtSettling /\ WaitingToApply)'
      PROVE  WaitInv'
  BY <1>1 DEF WaitInv, WaitingAtPush, WaitingAtSettling, WaitingToApply, Answered
<1>2. /\ \A s \in Slots : /\ req[s].muts \subseteq Mutations
                          /\ req[s].todo \subseteq req[s].muts
      /\ \A d \in Devices : step[d] = "pushing" => call[d] \in Slots
  BY DEF TypeOK, RequestType, PushInv, CallInv
<1>3. ASSUME NEW d \in Devices, NEW s \in Slots, StartPush(d, s) PROVE WaitInv'
  <2>1. /\ OthersKept(s) /\ req[s].phase = "none" /\ req'[s].phase = "check"
        /\ req'[s].muts = PendingOf(d)
    BY <1>3, StartEffect
  <2>2. /\ UNCHANGED <<author, outbox, inbox, done, revision>>
        /\ step' = [step EXCEPT ![d] = "pushing"]
        /\ call' = [call EXCEPT ![d] = s]
    BY <1>3 DEF StartPush, Goto
  <2>3. \A m \in PendingOf(d) : m \in Mutations /\ outbox[m] \in Waiting
    BY DEF PendingOf
  <2>4. WaitingAtPush'
    <3> SUFFICES ASSUME NEW e \in Devices, step'[e] = "pushing",
                        NEW m \in req'[call'[e]].muts
                 PROVE  outbox[m] \in Waiting
      BY <2>2 DEF WaitingAtPush, Waiting
    <3>1. CASE e = d
      BY <2>1, <2>2, <2>3, <3>1 DEF TypeOK
    <3>2. CASE e # d
      <4>1. step[e] = "pushing" /\ call'[e] = call[e] /\ call[e] \in Slots
        BY <1>2, <2>2, <3>2 DEF TypeOK
      <4>2. call[e] # s
        BY <2>1, <4>1 DEF RevisionInv, CallerInv
      <4> QED BY <1>0, <2>1, <4>1, <4>2 DEF OthersKept, WaitingAtPush
    <3> QED BY <3>1, <3>2
  <2>5. WaitingAtSettling'
    BY <1>0, <2>2 DEF WaitingAtSettling, Waiting, TypeOK
  <2>6. WaitingToApply'
    BY <1>0, <2>1, <2>2, <2>3
    DEF OthersKept, WaitingToApply, Settling, Waiting, Holding
  <2> QED BY <1>1, <2>4, <2>5, <2>6
<1>4. ASSUME NEW d \in Devices, ReceivePush(d) PROVE WaitInv'
  <2> DEFINE s == call[d]
  <2>1. /\ OtherDevicesKept(d)
        /\ UNCHANGED <<author, outbox, done, revision>>
        /\ s \in Slots /\ step[d] = "pushing"
        /\ OthersKept(s) /\ req'[s] = NoRequest
        /\ \/ step'[d] = "idle"
           \/ /\ step'[d] = "settling"
              /\ inbox'[d].results = req[s].results
    BY <1>4, ReceiveEffect
  <2>2. req[s].dev = d
    BY <2>1 DEF RevisionInv, CallerInv
  <2>3. \A m \in Mutations :
           req[s].results[m] # "none" => outbox[m] \in Waiting /\ author[m] = d
    BY <1>0, <2>1, <2>2 DEF PushInv, Answered, WaitingAtPush
  <2> HIDE DEF s
  <2>4. WaitingAtPush'
    <3> SUFFICES ASSUME NEW e \in Devices, step'[e] = "pushing",
                        NEW m \in req'[call'[e]].muts
                 PROVE  outbox[m] \in Waiting
      BY <2>1 DEF WaitingAtPush, Waiting
    <3>1. e # d /\ step[e] = "pushing" /\ call'[e] = call[e] /\ call[e] \in Slots
      BY <1>2, <2>1 DEF OtherDevicesKept
    <3>2. call[e] # s
      BY <2>2, <3>1 DEF RevisionInv, CallerInv
    <3> QED BY <1>0, <2>1, <3>1, <3>2 DEF OthersKept, WaitingAtPush
  <2>5. WaitingAtSettling'
    BY <1>0, <2>1, <2>3 DEF WaitingAtSettling, OtherDevicesKept, Waiting
  <2>6. WaitingToApply'
    BY <1>0, <2>1, NoRequestFields
    DEF OthersKept, WaitingToApply, Settling, Waiting, Holding
  <2> QED BY <1>1, <2>4, <2>5, <2>6
<1>5. ASSUME NEW d \in Devices, QuietStep(d) PROVE WaitInv'
  <2>1. /\ OtherDevicesKept(d) /\ step'[d] \notin {"settling", "pushing"}
        /\ UNCHANGED <<author, outbox, req, done, revision>>
    BY <1>5, QuietEffect
  <2> QED
    BY <1>0, <1>1, <2>1
    DEF OtherDevicesKept, WaitingAtPush, WaitingAtSettling, WaitingToApply,
        Settling, Waiting
<1>6. ASSUME NEW d \in Devices, Edit(d) PROVE WaitInv'
  <2>1. /\ edits + 1 \in Mutations /\ edits < edits + 1
        /\ UNCHANGED <<step, call, inbox, done, revision, req>>
        /\ \A m \in Mutations :
             /\ m # edits + 1 => author'[m] = author[m]
             /\ outbox'[m] = IF m = edits + 1 THEN "pending" ELSE outbox[m]
    BY <1>6, EditEffect, NumberTypes DEF serverVars
  <2>2. outbox[edits + 1] \notin Waiting
    BY <2>1 DEF AuthorInv, Waiting
  <2>3. \A m \in Mutations :
           /\ outbox[m] \in Waiting => outbox'[m] \in Waiting
           /\ outbox[m] \in Waiting => author'[m] = author[m]
    BY <2>1, <2>2 DEF Waiting
  <2>4. WaitingAtPush'
    BY <1>0, <1>2, <2>1, <2>3 DEF WaitingAtPush, Waiting
  <2>5. WaitingAtSettling'
    BY <1>0, <2>1, <2>3 DEF WaitingAtSettling, Waiting
  <2>6. WaitingToApply'
    BY <1>0, <1>2, <2>1, <2>3 DEF WaitingToApply, Settling, Waiting, Holding
  <2> QED BY <1>1, <2>4, <2>5, <2>6
<1>7. ASSUME NEW k \in Mutations, RetryDeadLetter(k) \/ DiscardDeadLetter(k)
      PROVE  WaitInv'
  <2>1. /\ UNCHANGED <<author, step, call, inbox, done, revision, req>>
        /\ outbox[k] = "dead_letter"
        /\ \A m \in Mutations : m # k => outbox'[m] = outbox[m]
    BY <1>7, DeadLetterEffect DEF serverVars
  <2>2. \A m \in Mutations : outbox[m] \in Waiting => outbox'[m] \in Waiting
    BY <2>1 DEF Waiting
  <2>4. WaitingAtPush'
    BY <1>0, <1>2, <2>1, <2>2 DEF WaitingAtPush, Waiting
  <2>5. WaitingAtSettling'
    BY <1>0, <2>1, <2>2 DEF WaitingAtSettling, Waiting
  <2>6. WaitingToApply'
    BY <1>0, <1>2, <2>1, <2>2 DEF WaitingToApply, Settling, Waiting, Holding
  <2> QED BY <1>1, <2>4, <2>5, <2>6
<1>8. CASE RecoverLease
  <2>1. /\ revision' = revision + 1
        /\ UNCHANGED <<author, outbox, step, call, inbox, done, req>>
    BY <1>8 DEF RecoverLease, clientVars
  <2>2. \A s \in Slots : req[s].phase # "none" => req[s].base # revision'
    <3> SUFFICES ASSUME NEW s \in Slots, req[s].phase # "none"
                 PROVE  req[s].base # revision + 1
      BY <2>1
    <3>1. /\ req[s].base <= link[req[s].dev] /\ req[s].dev \in Devices
          /\ link[req[s].dev] <= revision
      BY DEF RevisionInv, BaseInv, LinkInv
    <3> QED BY <3>1, NumberTypes
  <2>3. WaitingAtPush' /\ WaitingAtSettling'
    BY <1>0, <2>1 DEF WaitingAtPush, WaitingAtSettling, Waiting
  <2>4. WaitingToApply'
    BY <1>0, <2>1, <2>2 DEF WaitingToApply, Settling, Waiting, Holding
  <2> QED BY <1>1, <2>3, <2>4
<1>9. CASE UNCHANGED vars
  BY <1>9 DEF vars, clientVars, serverVars, WaitInv, Settling, Waiting, Holding
<1> QED
  BY <1>3, <1>4, <1>5, <1>6, <1>7, <1>8, <1>9, WaitInvSettle, WaitInvServer,
     StepCases

-----------------------------------------------------------------------------
(* Order.                                                                  *)

(* A parked or discarded mutation was reported failed.                     *)
LEMMA FailedInvStep ==
  TypeOK /\ CallInv /\ FailedInv /\ [Next]_vars => FailedInv'
<1> SUFFICES ASSUME TypeOK, CallInv, FailedInv, [Next]_vars PROVE FailedInv'
  OBVIOUS
<1> USE DEF FailedInv
<1>1. ASSUME NEW d \in Devices, NEW s \in Slots, StartPush(d, s) PROVE FailedInv'
  <2>1. UNCHANGED <<outbox, inbox, failedOnce>>
    BY <1>1 DEF StartPush
  <2> QED BY <1>1, <2>1, StartEffect DEF OthersKept, Parks
<1>2. ASSUME NEW d \in Devices, ReceivePush(d) PROVE FailedInv'
  <2>1. /\ UNCHANGED <<outbox, failedOnce>> /\ OtherDevicesKept(d)
        /\ call[d] \in Slots /\ OthersKept(call[d]) /\ req'[call[d]] = NoRequest
        /\ \/ inbox'[d] = inbox[d]
           \/ inbox'[d].results = req[call[d]].results
    BY <1>2, ReceiveEffect
  <2> QED BY <2>1, NoRequestFields DEF OthersKept, OtherDevicesKept, Parks
<1>3. ASSUME NEW d \in Devices, SettleResult(d) PROVE FailedInv'
  <2>1. PICK m \in Mutations :
           \A n \in Mutations :
             /\ outbox'[n] = IF n = m THEN Settled(inbox[d].results[m])
                             ELSE outbox[n]
             /\ inbox'[d].results[n] = IF n = m THEN "none"
                                       ELSE inbox[d].results[n]
    BY <1>3, SettleEffect
  <2>2. UNCHANGED <<req, failedOnce>> /\ OtherDevicesKept(d)
    BY <1>3, SettleEffect
  <2>3. Settled(inbox[d].results[m]) \in {"dead_letter", "discarded"}
          => m \in failedOnce
    BY DEF Settled, Parks
  <2>4. ASSUME NEW n \in Mutations, outbox'[n] \in {"dead_letter", "discarded"}
        PROVE  n \in failedOnce
    BY <2>1, <2>3, <2>4
  <2>5. ASSUME NEW e \in Devices, NEW n \in Mutations, Parks(inbox'[e].results[n])
        PROVE  n \in failedOnce
    BY <2>1, <2>2, <2>5 DEF OtherDevicesKept, Parks
  <2> QED BY <2>2, <2>4, <2>5
<1>4. ASSUME NEW d \in Devices, QuietStep(d) PROVE FailedInv'
  BY <1>4, QuietEffect DEF OtherDevicesKept, Parks
<1>5. ASSUME NEW d \in Devices, Edit(d) PROVE FailedInv'
  BY <1>5, EditEffect DEF serverVars
<1>6. ASSUME NEW m \in Mutations, RetryDeadLetter(m) \/ DiscardDeadLetter(m)
      PROVE  FailedInv'
  BY <1>6, DeadLetterEffect DEF serverVars
<1>7. ASSUME NEW s \in Slots, ServerStep(s) \/ ServerCrash(s) PROVE FailedInv'
  <2>1. /\ UNCHANGED <<outbox, inbox>> /\ OthersKept(s)
        /\ failedOnce \subseteq failedOnce'
    BY <1>7, ServerFrame, ServerGrows
  <2>2. ASSUME \A m \in Mutations : Parks(req'[s].results[m]) => m \in failedOnce'
        PROVE  FailedInv'
    BY <2>1, <2>2 DEF OthersKept
  <2>3. CASE CheckCompleted(s)
    BY <2>1, <2>2, <2>3, CheckEffect DEF Parks
  <2>4. CASE ReservePush(s)
    <3>1. ASSUME NEW v \in Results, NotReserved(s, v)
          PROVE  \A m \in Mutations : Parks(req'[s].results[m]) => m \in failedOnce'
      <4>1. failedOnce' = failedOnce \union Unapplied(s)
        BY <3>1 DEF NotReserved
      <4>2. ASSUME NEW m \in Mutations, m \notin Unapplied(s)
            PROVE  req'[s].results[m] \in {"duplicate", "none"}
        BY <3>1, <4>2, NotReservedEffect
      <4> QED BY <4>1, <4>2 DEF Parks
    <3> QED BY <2>1, <2>2, <2>4, <3>1, ReserveEffect DEF Results
  <2>5. CASE SkipDuplicate(s) \/ MarkDone(s) \/ HandlerFails(s)
    <3>1. ASSUME NEW m \in Mutations, NEW r \in Results, Report(s, m, r),
                 Parks(r) => m \in failedOnce'
          PROVE  \A n \in Mutations : Parks(req'[s].results[n]) => n \in failedOnce'
      <4>1. \A n \in Mutations :
               req'[s].results[n] = IF n = m THEN r ELSE req[s].results[n]
        BY <3>1, ReportEffect
      <4>2. \A n \in Mutations : Parks(req[s].results[n]) => n \in failedOnce
        OBVIOUS
      <4> QED BY <2>1, <3>1, <4>1, <4>2
    <3> QED BY <2>2, <2>5, <3>1, LoopEffect DEF Results, Parks
  <2>6. CASE RunHandler(s) \/ FinalizePush(s) \/ PushBreaks(s) \/ ConfirmPush(s)
    BY <2>1, <2>2, <2>6, PhaseEffect
  <2>7. CASE DropResponse(s) \/ ServerCrash(s)
    BY <2>2, <2>7, GoneEffect, NoRequestFields DEF Parks
  <2> QED BY <1>7, <2>3, <2>4, <2>5, <2>6, <2>7 DEF ServerStep
<1>8. CASE RecoverLease \/ UNCHANGED vars
  BY <1>8 DEF RecoverLease, vars, clientVars, serverVars
<1> QED BY <1>1, <1>2, <1>3, <1>4, <1>5, <1>6, <1>7, <1>8, StepCases

(* Everything a device made before an edit that waits is waiting with it,  *)
(* done, or failed.                                                        *)
LEMMA EarlierAccounted ==
  ASSUME TypeOK, NothingForgotten, AuthorInv, FailedInv,
         NEW d \in Devices, NEW m \in Mutations, author[m] = d
  PROVE  m \in PendingOf(d) \union done \union failedOnce
<1>1. m \in 1..edits
  <2>1. ~(edits < m)
    BY SyncAssumption DEF AuthorInv
  <2> QED BY <2>1, SyncAssumption DEF Mutations, TypeOK
<1>2. /\ outbox[m] \in Statuses /\ outbox[m] # "unused"
      /\ outbox[m] = "acknowledged" => m \in done
  BY <1>1 DEF NothingForgotten, TypeOK
<1>3. outbox[m] \in {"dead_letter", "discarded"} => m \in failedOnce
  BY DEF FailedInv
<1> QED BY <1>2, <1>3 DEF Statuses, PendingOf

(* A push carries whatever came before and is neither done nor failed.     *)
LEMMA CarryInvStep == OrderInv /\ [Next]_vars => CarryInv'
<1> SUFFICES ASSUME OrderInv, [Next]_vars PROVE CarryInv'
  OBVIOUS
<1> USE DEF OrderInv, ForgetInv, CarryInv
<1>0. \A s \in Slots : /\ req[s].muts \subseteq Mutations
                       /\ req[s].known \subseteq done
  BY DEF TypeOK, RequestType, ReportInv
<1>1. ASSUME NEW d \in Devices, NEW s \in Slots, StartPush(d, s) PROVE CarryInv'
  <2>1. /\ OthersKept(s) /\ req'[s].phase = "check" /\ req'[s].muts = PendingOf(d)
    BY <1>1, StartEffect
  <2>2. UNCHANGED <<author, done, failedOnce>>
    BY <1>1 DEF StartPush
  <2>3. ASSUME NEW n \in PendingOf(d), NEW m \in Mutations, author[m] = author[n]
        PROVE  m \in PendingOf(d) \union done \union failedOnce
    <3>1. author[n] = d
      BY DEF PendingOf
    <3> QED BY <2>3, <3>1, EarlierAccounted
  <2> QED BY <2>1, <2>2, <2>3 DEF OthersKept, Holding
<1>2. ASSUME NEW d \in Devices, ReceivePush(d) PROVE CarryInv'
  BY <1>2, ReceiveEffect, NoRequestFields DEF OthersKept, Holding
<1>3. ASSUME NEW d \in Devices, SettleResult(d) \/ QuietStep(d) PROVE CarryInv'
  <2>1. UNCHANGED <<author, req, done, failedOnce>>
    BY <1>3, SettleEffect, QuietEffect
  <2> QED BY <2>1 DEF Holding
<1>4. ASSUME NEW d \in Devices, Edit(d) PROVE CarryInv'
  <2>1. /\ edits + 1 \in Mutations /\ edits \in Nat
        /\ UNCHANGED <<done, failedOnce, req>>
        /\ \A m \in Mutations : m # edits + 1 => author'[m] = author[m]
    BY <1>4, EditEffect, NumberTypes DEF serverVars
  <2>2. ASSUME NEW s \in Slots, NEW n \in req[s].muts PROVE n <= edits
    <3>1. n \in Mutations /\ author[n] \in Devices
      BY <1>0 DEF PushInv
    <3>2. ~(edits < n)
      BY <3>1, SyncAssumption DEF AuthorInv
    <3> QED BY <2>1, <3>1, <3>2, NumberTypes
  <2>3. ASSUME NEW s \in Slots, NEW n \in req[s].muts, NEW m \in Mutations, m < n,
               author'[m] = author'[n]
        PROVE  m \in req[s].muts \union done \union failedOnce
    <3>1. n \in Mutations /\ n # edits + 1 /\ m # edits + 1
      BY <1>0, <2>1, <2>2, <2>3, NumberTypes
    <3>2. author[m] = author[n]
      BY <2>1, <2>3, <3>1
    <3> QED BY <2>3, <3>2
  <2> QED BY <2>1, <2>3 DEF Holding
<1>5. CASE \/ \E m \in Mutations : RetryDeadLetter(m) \/ DiscardDeadLetter(m)
           \/ RecoverLease
           \/ UNCHANGED vars
  <2>1. UNCHANGED <<author, req, done, failedOnce>>
    BY <1>5 DEF RetryDeadLetter, DiscardDeadLetter, RecoverLease, vars, serverVars
  <2> QED BY <2>1 DEF Holding
<1>6. ASSUME NEW s \in Slots, ServerStep(s) \/ ServerCrash(s) PROVE CarryInv'
  <2>1. /\ UNCHANGED author /\ OthersKept(s)
        /\ SameOrigin(s) \/ req'[s] = NoRequest
        /\ done \subseteq done' /\ failedOnce \subseteq failedOnce'
    BY <1>6, ServerFrame, ServerGrows
  <2>2. ASSUME NEW t \in Slots, NEW n \in req'[t].muts, NEW m \in Mutations, m < n,
               author[m] = author[n]
        PROVE  m \in req'[t].muts \union done' \union failedOnce'
    <3>1. req'[t].muts = req[t].muts
      BY <2>1, <2>2, NoRequestFields DEF SameOrigin, OthersKept
    <3> QED BY <2>1, <2>2, <3>1
  <2>3. ASSUME NEW t \in Slots, req'[t].phase \in Holding
        PROVE  req'[t].muts \subseteq req'[t].todo \union done' \union failedOnce'
    <3>1. CASE t # s
      BY <2>1, <2>3, <3>1 DEF OthersKept
    <3>2. CASE t = s /\ req[s].phase \notin Holding
      <4>1. req'[s].todo = req'[s].muts
        BY <1>6, <2>3, <3>2, CheckEffect, ReserveEffect, NotReservedEffect,
           LoopEffect, ReportEffect, PhaseEffect, GoneEffect, NoRequestFields
        DEF ServerStep, Results, Holding, SameOrigin
      <4> QED BY <3>2, <4>1
    <3>3. CASE t = s /\ req[s].phase \in Holding
      <4>1. req[s].muts \subseteq req[s].todo \union done \union failedOnce
        BY <3>3
      <4>2. req'[s].muts = req[s].muts
        BY <2>1, <2>3, <3>3, NoRequestFields DEF SameOrigin, Holding
      <4>3. CASE SkipDuplicate(s) \/ MarkDone(s) \/ HandlerFails(s)
        <5>1. PICK m \in Mutations :
                 /\ req'[s].todo = req[s].todo \ {m}
                 /\ m \in done' \union failedOnce'
          BY <1>0, <2>1, <4>3, LoopEffect, ReportEffect DEF Results
        <5> QED BY <2>1, <3>3, <4>1, <4>2, <5>1
      <4>4. CASE ~(SkipDuplicate(s) \/ MarkDone(s) \/ HandlerFails(s))
        <5>1. req'[s].todo = req[s].todo
          BY <1>6, <2>3, <3>3, <4>4, CheckEffect, ReserveEffect,
             NotReservedEffect, PhaseEffect, GoneEffect, NoRequestFields
          DEF ServerStep, Results, Holding
        <5> QED BY <2>1, <3>3, <4>1, <4>2, <5>1
      <4> QED BY <4>3, <4>4
    <3> QED BY <3>1, <3>2, <3>3
  <2> QED BY <2>1, <2>2, <2>3 DEF Holding
<1> QED BY <1>1, <1>2, <1>3, <1>4, <1>5, <1>6, StepCases

(* No step of the protocol makes an edit effective before an earlier one   *)
(* of the same device that is neither effective nor failed.                *)
LEMMA InOrderStep == OrderInv /\ [Next]_vars => InOrderUnlessFailed'
<1> SUFFICES ASSUME OrderInv, [Next]_vars PROVE InOrderUnlessFailed'
  OBVIOUS
<1> USE DEF OrderInv, ForgetInv, InOrderUnlessFailed
<1>1. ASSUME NEW s \in Slots, ServerStep(s) \/ ServerCrash(s)
      PROVE  InOrderUnlessFailed'
  <2>1. /\ UNCHANGED author
        /\ done \subseteq done' /\ failedOnce \subseteq failedOnce'
    BY <1>1, ServerFrame, ServerGrows
  <2>2. CASE UNCHANGED done
    BY <2>1, <2>2
  <2>3. ASSUME NEW k \in req[s].todo, req[s].phase \in Holding,
               Lowest(k, req[s].todo), k \in Mutations, k \in req[s].muts,
               done' = done \union {k}
        PROVE  InOrderUnlessFailed'
    <3>1. ASSUME NEW m \in Mutations, m < k, author[m] = author[k]
          PROVE  m \in done \union failedOnce
      <4>1. m \in req[s].muts \union done \union failedOnce
        BY <2>3, <3>1 DEF CarryInv
      <4>2. m \notin req[s].todo
        BY <2>3, <3>1, NumberTypes DEF Lowest
      <4>3. req[s].muts \subseteq req[s].todo \union done \union failedOnce
        BY <2>3 DEF CarryInv
      <4> QED BY <4>1, <4>2, <4>3
    <3> QED BY <2>1, <2>3, <3>1
  <2> QED BY <1>1, <2>2, <2>3, DoneGrowth
<1>2. ASSUME NEW d \in Devices, Edit(d) PROVE InOrderUnlessFailed'
  <2>1. /\ edits + 1 \in Mutations /\ edits \in Nat
        /\ UNCHANGED <<done, failedOnce>>
        /\ \A m \in Mutations : m # edits + 1 => author'[m] = author[m]
    BY <1>2, EditEffect, NumberTypes DEF serverVars
  <2>2. \A n \in Mutations : n \in done => n <= edits
    <3> SUFFICES ASSUME NEW n \in Mutations, n \in done PROVE n <= edits
      OBVIOUS
    <3>1. ~(edits < n)
      BY DEF AuthorInv
    <3> QED BY <2>1, <3>1, NumberTypes
  <2>3. ASSUME NEW m \in Mutations, NEW n \in Mutations, m < n,
               author'[m] = author'[n], n \in done
        PROVE  m \in done \union failedOnce
    <3>1. m # edits + 1 /\ n # edits + 1
      BY <2>1, <2>2, <2>3, NumberTypes
    <3> QED BY <2>1, <2>3, <3>1
  <2> QED BY <2>1, <2>3
<1>3. CASE \/ \E d \in Devices, s \in Slots : StartPush(d, s)
           \/ \E d \in Devices : ReceivePush(d) \/ SettleResult(d) \/ QuietStep(d)
           \/ \E m \in Mutations : RetryDeadLetter(m) \/ DiscardDeadLetter(m)
           \/ RecoverLease
           \/ UNCHANGED vars
  <2>1. UNCHANGED <<author, done, failedOnce>>
    BY <1>3, SettleEffect, QuietEffect
    DEF StartPush, ReceivePush, RetryDeadLetter, DiscardDeadLetter, RecoverLease,
        vars, serverVars
  <2> QED BY <2>1
<1> QED BY <1>1, <1>2, <1>3, StepCases

-----------------------------------------------------------------------------
(* The invariant, and what follows from it.                                *)

(* The initial state satisfies the invariant.                              *)
LEMMA OrderInvInit == Init => OrderInv
<1> SUFFICES ASSUME Init PROVE OrderInv
  OBVIOUS
<1>1. ForgetInv
  BY ForgetInvInit
<1>2. /\ edits = 0 /\ revision = 0 /\ done = {} /\ lease = "free"
      /\ \A m \in Mutations : author[m] = NoDevice /\ outbox[m] = "unused"
      /\ \A d \in Devices : link[d] = 0 /\ step[d] = "idle" /\ inbox[d] = NoResponse
      /\ \A s \in Slots : req[s] = NoRequest
  BY DEF Init
<1>3. /\ NoResponse.results = NoResults
      /\ \A m \in Mutations : ~Parks(NoResults[m])
      /\ Answered(NoResults) = {}
  BY NoRequestFields DEF NoResponse, Parks, Answered
<1>4. \A m \in Mutations : 0 < m
  BY SyncAssumption DEF Mutations
<1>5. RevisionInv /\ HoldInv
  BY <1>2, NoRequestFields
  DEF RevisionInv, LinkInv, BaseInv, CallerInv, HoldInv, Reading, Holding
<1>6. VerdictInv /\ PushInv
  BY <1>2, <1>3, NoRequestFields DEF VerdictInv, PushInv
<1>7. AuthorInv
  BY <1>2, <1>4, SyncAssumption DEF AuthorInv, Mutations
<1>8. WaitInv /\ FailedInv
  BY <1>2, <1>3, NoRequestFields DEF WaitInv, FailedInv, Holding
<1>9. CarryInv /\ InOrderUnlessFailed
  BY <1>2, NoRequestFields DEF CarryInv, InOrderUnlessFailed, Holding
<1> QED BY <1>1, <1>5, <1>6, <1>7, <1>8, <1>9 DEF OrderInv

(* The strengthened invariant holds in every reachable state: revisions    *)
(* only grow, one push takes effect at a time, and what is under way is    *)
(* neither parked nor overtaken.                                           *)
THEOREM OrderInvariant == Spec => []OrderInv
<1>1. OrderInv /\ [Next]_vars => OrderInv'
  <2> SUFFICES ASSUME OrderInv, [Next]_vars PROVE OrderInv'
    OBVIOUS
  <2>1. ForgetInv'
    BY TypeOKStep, CallInvStep, ReportInvStep, NothingForgottenStep
    DEF OrderInv, ForgetInv
  <2>2. RevisionInv' /\ HoldInv' /\ VerdictInv'
    BY RevisionInvStep, HoldInvStep, VerdictInvStep DEF OrderInv, ForgetInv
  <2>3. PushInv' /\ AuthorInv'
    BY PushInvStep, AuthorInvStep DEF OrderInv, ForgetInv
  <2>4. WaitInv'
    BY <2>2, WaitInvStep
  <2>5. FailedInv' /\ CarryInv' /\ InOrderUnlessFailed'
    BY FailedInvStep, CarryInvStep, InOrderStep DEF OrderInv, ForgetInv
  <2> QED BY <2>1, <2>2, <2>3, <2>4, <2>5 DEF OrderInv
<1> QED BY <1>1, OrderInvInit, PTL DEF Spec

(* Edits of one device take effect in the order they were made, unless the *)
(* server reported the earlier one failed: for any number of devices,      *)
(* lost answers, dead workers, closed tabs and retried dead letters        *)
(* (sortMutations and the base revision check in server/sync/routes.ts,    *)
(* listPendingSyncMutations in outbox.ts).                                 *)
THEOREM InOrderHolds == Spec => []InOrderUnlessFailed
<1>1. OrderInv => InOrderUnlessFailed
  BY DEF OrderInv
<1> QED BY <1>1, OrderInvariant, PTL

-----------------------------------------------------------------------------
(* The protocol implements SyncLedger.                                     *)

(* One settled result acknowledges an effective change, parks a waiting    *)
(* one, or leaves it waiting.                                              *)
LEMMA SettleImplements ==
  ASSUME OrderInv, NEW d \in Devices, SettleResult(d)
  PROVE  [Ledger!Next]_(Ledger!ledger)
<1> USE DEF OrderInv, ForgetInv
<1>1. PICK m \in Mutations :
         /\ inbox[d].results[m] # "none"
         /\ \A n \in Mutations :
              outbox'[n] = IF n = m THEN Settled(inbox[d].results[m])
                           ELSE outbox[n]
  BY SettleEffect
<1>2. UNCHANGED done /\ step[d] = "settling"
  BY SettleEffect
<1>3. outbox[m] \in Waiting
  BY <1>1, <1>2 DEF WaitInv, Answered
<1>4. CASE Acknowledges(inbox[d].results[m])
  <2>1. m \in done
    BY <1>4 DEF ReportInv
  <2>2. outbox'[m] = "acknowledged"
    BY <1>1, <1>4 DEF Settled, Acknowledges
  <2>3. Ledger!Acknowledge(m)
    BY <1>1, <1>2, <1>3, <2>1, <2>2 DEF Ledger!Acknowledge, Waiting
  <2> QED BY <2>3 DEF Ledger!Next
<1>5. CASE Parks(inbox[d].results[m])
  <2>1. outbox'[m] = "dead_letter"
    BY <1>1, <1>5 DEF Settled, Parks
  <2>2. Ledger!Park(m)
    BY <1>1, <1>2, <1>3, <2>1 DEF Ledger!Park, Waiting
  <2> QED BY <2>2 DEF Ledger!Next
<1>6. CASE ~Acknowledges(inbox[d].results[m]) /\ ~Parks(inbox[d].results[m])
  <2>1. outbox'[m] = "failed"
    BY <1>1, <1>6 DEF Settled, Acknowledges, Parks
  <2>2. UNCHANGED Ledger!ledger
    BY <1>1, <1>2, <1>3, <2>1 DEF Ledger!ledger, Waiting
  <2> QED BY <2>2
<1> QED BY <1>4, <1>5, <1>6

(* A step of the server that marks a mutation done makes a waiting change  *)
(* effective; every other one shows the ledger nothing.                    *)
LEMMA ServerImplements ==
  ASSUME OrderInv, NEW s \in Slots, ServerStep(s) \/ ServerCrash(s)
  PROVE  [Ledger!Next]_(Ledger!ledger)
<1> USE DEF OrderInv, ForgetInv
<1>1. UNCHANGED outbox
  BY ServerFrame
<1>2. CASE UNCHANGED done
  BY <1>1, <1>2 DEF Ledger!ledger, Waiting
<1>3. ASSUME NEW m \in req[s].todo, req[s].phase \in Holding, m \in Mutations,
             done' = done \union {m}, m \notin done
      PROVE  Ledger!Next
  <2>1. outbox[m] \in Waiting
    BY <1>3 DEF WaitInv, Settling
  <2>2. Ledger!TakeEffect(m)
    BY <1>1, <1>3, <2>1 DEF Ledger!TakeEffect, Waiting
  <2> QED BY <2>2, <1>3 DEF Ledger!Next
<1> QED BY <1>2, <1>3, DoneGrowth

(* Every step of the protocol is a step of the ledger or shows it nothing. *)
LEMMA StepImplements ==
  OrderInv /\ [Next]_vars => [Ledger!Next]_(Ledger!ledger)
<1> SUFFICES ASSUME OrderInv, [Next]_vars PROVE [Ledger!Next]_(Ledger!ledger)
  OBVIOUS
<1> USE DEF OrderInv, ForgetInv
<1>1. ASSUME NEW d \in Devices, Edit(d) PROVE Ledger!Next
  <2>1. PICK m \in Mutations :
           /\ edits < m /\ UNCHANGED done
           /\ \A n \in Mutations :
                outbox'[n] = IF n = m THEN "pending" ELSE outbox[n]
    BY <1>1, EditEffect, NumberTypes DEF serverVars
  <2>2. outbox[m] = "unused" /\ m \notin done
    BY <2>1 DEF AuthorInv
  <2>3. Ledger!Make(m)
    BY <2>1, <2>2 DEF Ledger!Make, Waiting
  <2> QED BY <2>3 DEF Ledger!Next
<1>2. ASSUME NEW m \in Mutations, RetryDeadLetter(m) \/ DiscardDeadLetter(m)
      PROVE  Ledger!Next
  <2>1. /\ outbox[m] = "dead_letter" /\ UNCHANGED done
        /\ \A n \in Mutations : n # m => outbox'[n] = outbox[n]
        /\ outbox'[m] \in {"pending", "discarded"}
    BY <1>2, DeadLetterEffect DEF serverVars
  <2>2. CASE outbox'[m] = "pending"
    BY <2>1, <2>2 DEF Ledger!Next, Ledger!Unpark, Waiting
  <2>3. CASE outbox'[m] = "discarded"
    BY <2>1, <2>3 DEF Ledger!Next, Ledger!Drop, Waiting
  <2> QED BY <2>1, <2>2, <2>3
<1>3. CASE \/ \E d \in Devices, s \in Slots : StartPush(d, s)
           \/ \E d \in Devices : ReceivePush(d) \/ QuietStep(d)
           \/ RecoverLease
           \/ UNCHANGED vars
  <2>1. UNCHANGED <<outbox, done>>
    BY <1>3, QuietEffect
    DEF StartPush, ReceivePush, RecoverLease, vars, clientVars, serverVars
  <2> QED BY <2>1 DEF Ledger!ledger, Waiting
<1> QED BY <1>1, <1>2, <1>3, SettleImplements, ServerImplements, StepCases

(* The protocol keeps the promise of SyncLedger for every change: it takes *)
(* effect only while it waits on its device, it leaves the device only     *)
(* when it is effective, and a change that is parked or dropped does not   *)
(* take effect behind the user's back.                                     *)
THEOREM LedgerImplemented == Spec => LedgerSpec
<1>1. Init => Ledger!Init
  BY DEF Init, Ledger!Init, Waiting
<1>2. OrderInv /\ [Next]_vars => [Ledger!Next]_(Ledger!ledger)
  BY StepImplements
<1> QED BY <1>1, <1>2, OrderInvariant, PTL DEF Spec, LedgerSpec, Ledger!Spec

=============================================================================
