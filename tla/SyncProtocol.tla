---------------------------- MODULE SyncProtocol ----------------------------
(***************************************************************************)
(* Devices that edit offline and synchronise through one workspace on the  *)
(* server: client/sync/engine.ts and client/sync/outbox.ts on the devices, *)
(* server/sync/routes.ts on the server, an unreliable network in between.  *)
(*                                                                         *)
(* A mutation is the number of the edit that made it, so the order of      *)
(* numbers is the order of createdAt.  The contents of a database are the  *)
(* set of mutations whose effect it shows.  The write lease and the stable *)
(* read are atomic here, which is what WorkspaceLease establishes.         *)
(*                                                                         *)
(* A device runs one sync at a time.  The code sees to that within a tab   *)
(* (workspace-operation.ts); that no two tabs of a browser sync at once is *)
(* assumed, and nothing is claimed here of the revision a device works     *)
(* from, which such tabs can take back (engine.ts stores what it fetched   *)
(* without comparing).                                                     *)
(***************************************************************************)
EXTENDS Integers, FiniteSets

CONSTANTS
    Devices,
    NoDevice,
    Slots,          \* requests the server may be serving at one time
    NoSlot,
    MaxEdits,       \* bound: edits made by all devices together
    PushLimit,      \* mutations a push may carry (100 in the code)
    Refusable,      \* mutations a handler may refuse for good
    Faults,         \* kinds of fault that may happen, see FaultKinds
    MaxFaults       \* bound: faults of all kinds together

Mutations == 1..MaxEdits

(* A response is lost, a handler fails for the moment, a worker dies, a    *)
(* tab dies, the user puts a dead letter back.                             *)
FaultKinds == {"loss", "transient", "worker", "tab", "retry"}

ASSUME SyncAssumption ==
    /\ NoDevice \notin Devices /\ NoSlot \notin Slots
    /\ MaxEdits \in Nat /\ PushLimit \in Nat
    /\ Refusable \subseteq Mutations
    /\ Faults \subseteq FaultKinds /\ MaxFaults \in Nat

VARIABLES
    edits,      \* number of edits made so far
    author,     \* device that made each edit
    outbox,     \* status of each mutation in its author's outbox
    local,      \* contents of each device's IndexedDB
    link,       \* serverRevision of each device's cloud link
    step,       \* where each device stands in runWorkspaceSyncUnlocked
    call,       \* the request whose response a device waits for
    inbox,      \* the response a device is working through
    db,         \* contents of the server's tables
    done,       \* idempotency keys with status 'done'
    revision,   \* workspace revision
    lease,      \* "free", "held" by a live push, "abandoned" by a dead one
    req,        \* requests on the server
    failedOnce, \* history: mutations reported failed, for any reason
    faults      \* number of faults so far

clientVars == <<outbox, local, link, step, call, inbox>>
serverVars == <<db, done, revision, lease, req, failedOnce>>
vars == <<edits, author, clientVars, serverVars, faults>>

Waiting == {"pending", "failed"}      \* listPendingSyncMutations
Statuses == Waiting \union {"unused", "dead_letter", "acknowledged", "discarded"}
Steps == {"idle", "pushing", "settling", "deciding", "fetching", "applying",
          "relinking"}
Phases == {"none", "check", "reserve", "apply", "mark", "finalize", "confirm",
           "answer", "error"}
Holding == {"apply", "mark", "finalize"}   \* phases that own the lease
Results == {"none", "applied", "duplicate", "retryable", "refused", "conflict"}

NoResults == [m \in Mutations |-> "none"]
NoRequest == [phase |-> "none", dev |-> NoDevice, base |-> 0, muts |-> {},
              known |-> {}, todo |-> {}, results |-> NoResults, rev |-> 0]
NoResponse == [results |-> NoResults, data |-> {}, rev |-> 0]

(* The rows of d's outbox that listPendingSyncMutations returns.           *)
PendingOf(d) == {m \in Mutations : author[m] = d /\ outbox[m] \in Waiting}

Answered(results) == {m \in Mutations : results[m] # "none"}

Lowest(m, S) == m \in S /\ \A n \in S : m <= n

Fault(kind) ==
    /\ kind \in Faults
    /\ faults < MaxFaults
    /\ faults' = faults + 1

Init ==
    /\ edits = 0
    /\ author = [m \in Mutations |-> NoDevice]
    /\ outbox = [m \in Mutations |-> "unused"]
    /\ local = [d \in Devices |-> {}]
    /\ link = [d \in Devices |-> 0]
    /\ step = [d \in Devices |-> "idle"]
    /\ call = [d \in Devices |-> NoSlot]
    /\ inbox = [d \in Devices |-> NoResponse]
    /\ db = {}
    /\ done = {}
    /\ revision = 0
    /\ lease = "free"
    /\ req = [s \in Slots |-> NoRequest]
    /\ failedOnce = {}
    /\ faults = 0

-----------------------------------------------------------------------------
(* The user.                                                               *)

\* Mutated form of Enqueue: the command forgets its outbox row.
EnqueueNothing(m) == outbox

Enqueue(m) == [outbox EXCEPT ![m] = "pending"]

(* A local command: entity rows and outbox row in one transaction.  It does *)
(* not take the workspace operation lock, so it runs at any step of a sync. *)
Edit(d) ==
    /\ edits < MaxEdits
    /\ edits' = edits + 1
    /\ author' = [author EXCEPT ![edits + 1] = d]
    /\ outbox' = Enqueue(edits + 1)
    /\ local' = [local EXCEPT ![d] = @ \union {edits + 1}]
    /\ UNCHANGED <<link, step, call, inbox, serverVars, faults>>

(* retryDeadLetterSyncMutation.                                            *)
RetryDeadLetter(m) ==
    /\ outbox[m] = "dead_letter"
    /\ Fault("retry")
    /\ outbox' = [outbox EXCEPT ![m] = "pending"]
    /\ UNCHANGED <<edits, author, local, link, step, call, inbox, serverVars>>

(* The user drops a conflicting change (CloudAccess, removeSyncMutation).  *)
DiscardDeadLetter(m) ==
    /\ outbox[m] = "dead_letter"
    /\ outbox' = [outbox EXCEPT ![m] = "discarded"]
    /\ UNCHANGED <<edits, author, local, link, step, call, inbox, serverVars,
                   faults>>

-----------------------------------------------------------------------------
(* runWorkspaceSyncUnlocked on device d, one await at a time.              *)

Goto(d, s) == step' = [step EXCEPT ![d] = s]

(* Post every pending mutation with the last known revision.  A push over  *)
(* the limit fails validation (400) and the run ends where it began.       *)
StartPush(d, s) ==
    /\ step[d] = "idle"
    /\ PendingOf(d) # {}
    /\ Cardinality(PendingOf(d)) <= PushLimit
    /\ req[s].phase = "none"
    /\ req' = [req EXCEPT ![s] =
                 [NoRequest EXCEPT !.phase = "check", !.dev = d,
                                   !.base = link[d], !.muts = PendingOf(d)]]
    /\ call' = [call EXCEPT ![d] = s]
    /\ Goto(d, "pushing")
    /\ UNCHANGED <<edits, author, outbox, local, link, inbox, db, done,
                   revision, lease, failedOnce, faults>>

StartWithoutPush(d) ==
    /\ step[d] = "idle"
    /\ PendingOf(d) = {}
    /\ Goto(d, "deciding")
    /\ UNCHANGED <<edits, author, outbox, local, link, call, inbox,
                   serverVars, faults>>

(* The response arrives; an error response ends the run.                   *)
ReceivePush(d) ==
    /\ step[d] = "pushing"
    /\ LET s == call[d] IN
       /\ req[s].phase \in {"answer", "error"}
       /\ IF req[s].phase = "answer"
          THEN /\ inbox' = [inbox EXCEPT ![d] =
                   [NoResponse EXCEPT !.results = req[s].results,
                                      !.rev = req[s].rev]]
               /\ Goto(d, "settling")
          ELSE Goto(d, "idle") /\ UNCHANGED inbox
       /\ req' = [req EXCEPT ![s] = NoRequest]
    /\ call' = [call EXCEPT ![d] = NoSlot]
    /\ UNCHANGED <<edits, author, outbox, local, link, db, done, revision,
                   lease, failedOnce, faults>>

(* The connection breaks: the client gives up, the request lives on.       *)
LosePush(d) ==
    /\ step[d] = "pushing"
    /\ Fault("loss")
    /\ call' = [call EXCEPT ![d] = NoSlot]
    /\ Goto(d, "idle")
    /\ UNCHANGED <<edits, author, outbox, local, link, inbox, serverVars>>

\* Mutated form of Settled: failed mutations are dropped like applied ones.
SettledBlindly(result) == "acknowledged"

(* What becomes of an outbox row, by the result the server reports.        *)
Settled(result) ==
    CASE result \in {"applied", "duplicate"} -> "acknowledged"
      [] result \in {"refused", "conflict"} -> "dead_letter"
      [] OTHER -> "failed"

(* One result of the response, in a transaction of its own.                *)
SettleResult(d) ==
    /\ step[d] = "settling"
    /\ \E m \in Answered(inbox[d].results) :
         /\ Lowest(m, Answered(inbox[d].results))
         /\ outbox' = [outbox EXCEPT ![m] = Settled(inbox[d].results[m])]
         /\ inbox' = [inbox EXCEPT ![d].results[m] = "none"]
    /\ UNCHANGED <<edits, author, local, link, step, call, serverVars, faults>>

(* updateCloudLink after the push, whatever the results were.              *)
AdoptRevision(d) ==
    /\ step[d] = "settling"
    /\ Answered(inbox[d].results) = {}
    /\ link' = [link EXCEPT ![d] = inbox[d].rev]
    /\ inbox' = [inbox EXCEPT ![d] = NoResponse]
    /\ Goto(d, "deciding")
    /\ UNCHANGED <<edits, author, outbox, local, call, serverVars, faults>>

\* Mutated form of NothingWaiting: dead letters block the pull as well.
NothingQueued(d) ==
    \A m \in Mutations :
      author[m] = d => outbox[m] \in {"unused", "acknowledged", "discarded"}

NothingWaiting(d) == PendingOf(d) = {}

(* No snapshot is fetched while mutations are waiting.                     *)
Decide(d) ==
    /\ step[d] = "deciding"
    /\ Goto(d, IF NothingWaiting(d) THEN "fetching" ELSE "idle")
    /\ UNCHANGED <<edits, author, outbox, local, link, call, inbox,
                   serverVars, faults>>

(* GET snapshot.  A write in progress makes it fail after three attempts.  *)
FetchSnapshot(d) ==
    /\ step[d] = "fetching"
    /\ IF lease = "free"
       THEN /\ inbox' = [inbox EXCEPT ![d] =
                  [NoResponse EXCEPT !.data = db, !.rev = revision]]
            /\ Goto(d, "applying")
       ELSE Goto(d, "idle") /\ UNCHANGED inbox
    /\ UNCHANGED <<edits, author, outbox, local, link, call, serverVars, faults>>

(* applySnapshot replaces every business row of the workspace.             *)
ApplySnapshot(d) ==
    /\ step[d] = "applying"
    /\ local' = [local EXCEPT ![d] = inbox[d].data]
    /\ Goto(d, "relinking")
    /\ UNCHANGED <<edits, author, outbox, link, call, inbox, serverVars, faults>>

(* The second updateCloudLink, after the snapshot.                         *)
RelinkRevision(d) ==
    /\ step[d] = "relinking"
    /\ link' = [link EXCEPT ![d] = inbox[d].rev]
    /\ inbox' = [inbox EXCEPT ![d] = NoResponse]
    /\ Goto(d, "idle")
    /\ UNCHANGED <<edits, author, outbox, local, call, serverVars, faults>>

(* The tab is closed or reloaded: IndexedDB stays, the run is gone.        *)
CloseTab(d) ==
    /\ step[d] # "idle"
    /\ Fault("tab")
    /\ Goto(d, "idle")
    /\ call' = [call EXCEPT ![d] = NoSlot]
    /\ inbox' = [inbox EXCEPT ![d] = NoResponse]
    /\ UNCHANGED <<edits, author, outbox, local, link, serverVars>>

-----------------------------------------------------------------------------
(* POST /push on the server, request s.                                    *)

Unapplied(s) == req[s].muts \ req[s].known

(* completedMutationIds and partitionByCompletedIdempotency.  When nothing *)
(* is left to apply the answer needs only a stable revision.               *)
CheckCompleted(s) ==
    /\ req[s].phase = "check"
    /\ LET known == req[s].muts \intersect done
           allDone == known = req[s].muts
       IN  req' = [req EXCEPT ![s].known = known,
                     ![s].phase = IF ~allDone THEN "reserve"
                                  ELSE IF lease = "free" THEN "answer"
                                  ELSE "error",
                     ![s].results = IF allDone
                                    THEN [m \in Mutations |->
                                            IF m \in known THEN "duplicate"
                                            ELSE "none"]
                                    ELSE @,
                     ![s].rev = IF allDone THEN revision ELSE @]
    /\ UNCHANGED <<edits, author, clientVars, db, done, revision, lease,
                   failedOnce, faults>>

CurrentRevision == revision

(* The answer to a push that could not reserve its base revision.          *)
NotReserved(s, verdict) ==
    /\ req' = [req EXCEPT ![s].phase = "answer", ![s].rev = CurrentRevision,
                 ![s].results = [m \in Mutations |->
                    CASE m \in req[s].known -> "duplicate"
                      [] m \in Unapplied(s) -> verdict
                      [] OTHER -> "none"]]
    /\ failedOnce' = failedOnce \union Unapplied(s)
    /\ UNCHANGED lease

BaseMatches(s) == revision = req[s].base

ReservePush(s) ==
    /\ req[s].phase = "reserve"
    /\ IF lease # "free" THEN NotReserved(s, "retryable")
       ELSE IF ~BaseMatches(s) THEN NotReserved(s, "conflict")
       ELSE /\ lease' = "held"
            /\ req' = [req EXCEPT ![s].phase = "apply",
                                  ![s].todo = req[s].muts]
            /\ UNCHANGED failedOnce
    /\ UNCHANGED <<edits, author, clientVars, db, done, revision, faults>>

\* Mutated form of NextInLine: any mutation of the push may go first.
AnyInLine(m, s) == m \in req[s].todo

(* Mutations are applied in the order they were queued.                    *)
NextInLine(m, s) == Lowest(m, req[s].todo)

Report(s, m, result) ==
    req' = [req EXCEPT ![s].phase = "apply", ![s].todo = @ \ {m},
                       ![s].results[m] = result]

SkipDuplicate(s) ==
    /\ req[s].phase = "apply"
    /\ \E m \in req[s].todo :
         /\ NextInLine(m, s)
         /\ m \in req[s].known \union done
         /\ Report(s, m, "duplicate")
    /\ UNCHANGED <<edits, author, clientVars, db, done, revision, lease,
                   failedOnce, faults>>

(* The handler and its hooks change the tables statement by statement; the *)
(* idempotency key is marked in a statement of its own.                    *)
RunHandler(s) ==
    /\ req[s].phase = "apply"
    /\ \E m \in req[s].todo :
         /\ NextInLine(m, s)
         /\ m \notin req[s].known \union done
         /\ db' = db \union {m}
    /\ req' = [req EXCEPT ![s].phase = "mark"]
    /\ UNCHANGED <<edits, author, clientVars, done, revision, lease,
                   failedOnce, faults>>

MarkDone(s) ==
    /\ req[s].phase = "mark"
    /\ \E m \in req[s].todo :
         /\ NextInLine(m, s)
         /\ done' = done \union {m}
         /\ Report(s, m, "applied")
    /\ UNCHANGED <<edits, author, clientVars, db, revision, lease, failedOnce,
                   faults>>

(* The handler fails, with or without effects left behind (phase "apply"   *)
(* or "mark"); the loop goes on with the next mutation.                    *)
HandlerFails(s) ==
    /\ req[s].phase \in {"apply", "mark"}
    /\ \E m \in req[s].todo :
         /\ NextInLine(m, s)
         /\ m \notin req[s].known \union done
         /\ \/ m \in Refusable /\ Report(s, m, "refused") /\ UNCHANGED faults
            \/ Report(s, m, "retryable") /\ Fault("transient")
         /\ failedOnce' = failedOnce \union {m}
    /\ UNCHANGED <<edits, author, clientVars, db, done, revision, lease>>

(* finalizeWorkspaceWrite: advance and release; the stable read that       *)
(* follows may meet the next writer, and then a committed push fails.      *)
FinalizePush(s) ==
    /\ req[s].phase = "apply"
    /\ req[s].todo = {}
    /\ revision' = revision + 1
    /\ lease' = "free"
    /\ req' = [req EXCEPT ![s].phase = "confirm"]
    /\ UNCHANGED <<edits, author, clientVars, db, done, failedOnce, faults>>

(* A statement outside any handler fails: the loop stops, the lease is     *)
(* finalized all the same, and the client gets an error.                   *)
PushBreaks(s) ==
    /\ req[s].phase = "apply"
    /\ req[s].todo # {}
    /\ Fault("transient")
    /\ revision' = revision + 1
    /\ lease' = "free"
    /\ req' = [req EXCEPT ![s].phase = "error"]
    /\ UNCHANGED <<edits, author, clientVars, db, done, failedOnce>>

ConfirmPush(s) ==
    /\ req[s].phase = "confirm"
    /\ req' = [req EXCEPT
                 ![s].phase = IF lease = "free" THEN "answer" ELSE "error",
                 ![s].rev = revision]
    /\ UNCHANGED <<edits, author, clientVars, db, done, revision, lease,
                   failedOnce, faults>>

(* A response nobody waits for any more.                                   *)
DropResponse(s) ==
    /\ req[s].phase \in {"answer", "error"}
    /\ \A d \in Devices : call[d] # s
    /\ req' = [req EXCEPT ![s] = NoRequest]
    /\ UNCHANGED <<edits, author, clientVars, db, done, revision, lease,
                   failedOnce, faults>>

(* The worker dies between two statements; its client sees a failed fetch. *)
ServerCrash(s) ==
    /\ req[s].phase # "none"
    /\ Fault("worker")
    /\ req' = [req EXCEPT ![s] = NoRequest]
    /\ lease' = IF req[s].phase \in Holding THEN "abandoned" ELSE lease
    /\ step' = [d \in Devices |-> IF call[d] = s THEN "idle" ELSE step[d]]
    /\ call' = [d \in Devices |-> IF call[d] = s THEN NoSlot ELSE call[d]]
    /\ UNCHANGED <<edits, author, outbox, local, link, inbox, db, done,
                   revision, failedOnce>>

(* recoverStaleWriteLease, run by the first request after ten minutes.     *)
RecoverLease ==
    /\ lease = "abandoned"
    /\ revision' = revision + 1
    /\ lease' = "free"
    /\ UNCHANGED <<edits, author, clientVars, db, done, req, failedOnce, faults>>

-----------------------------------------------------------------------------
ClientStep(d) ==
    \/ \E s \in Slots : StartPush(d, s)
    \/ StartWithoutPush(d) \/ ReceivePush(d) \/ SettleResult(d)
    \/ AdoptRevision(d) \/ Decide(d) \/ FetchSnapshot(d) \/ ApplySnapshot(d)
    \/ RelinkRevision(d)

ServerStep(s) ==
    \/ CheckCompleted(s) \/ ReservePush(s) \/ SkipDuplicate(s)
    \/ RunHandler(s) \/ MarkDone(s) \/ HandlerFails(s) \/ FinalizePush(s)
    \/ PushBreaks(s) \/ ConfirmPush(s) \/ DropResponse(s)

Next ==
    \/ \E d \in Devices : ClientStep(d) \/ Edit(d) \/ LosePush(d) \/ CloseTab(d)
    \/ \E m \in Mutations : RetryDeadLetter(m) \/ DiscardDeadLetter(m)
    \/ \E s \in Slots : ServerStep(s) \/ ServerCrash(s)
    \/ RecoverLease

Spec == Init /\ [][Next]_vars

(* Sync runs again and again (on focus, when online, every minute), live   *)
(* requests go on, and some request always comes after ten minutes.        *)
FairSpec ==
    /\ Spec
    /\ \A d \in Devices : WF_vars(ClientStep(d))
    /\ \A s \in Slots : WF_vars(ServerStep(s))
    /\ WF_vars(RecoverLease)

-----------------------------------------------------------------------------
(* Correctness.                                                            *)

ResponseType ==
    [results : [Mutations -> Results], data : SUBSET Mutations, rev : Nat]
RequestType ==
    [phase : Phases, dev : Devices \union {NoDevice}, base : Nat,
     muts : SUBSET Mutations, known : SUBSET Mutations,
     todo : SUBSET Mutations, results : [Mutations -> Results], rev : Nat]

(* Every variable keeps to its domain; the declared status "syncing" is    *)
(* never written.                                                          *)
TypeOK ==
    /\ edits \in 0..MaxEdits
    /\ author \in [Mutations -> Devices \union {NoDevice}]
    /\ outbox \in [Mutations -> Statuses]
    /\ local \in [Devices -> SUBSET Mutations]
    /\ link \in [Devices -> Nat]
    /\ step \in [Devices -> Steps]
    /\ call \in [Devices -> Slots \union {NoSlot}]
    /\ inbox \in [Devices -> ResponseType]
    /\ db \subseteq Mutations /\ done \subseteq Mutations
    /\ revision \in Nat
    /\ lease \in {"free", "held", "abandoned"}
    /\ req \in [Slots -> RequestType]
    /\ failedOnce \subseteq Mutations
    /\ faults \in 0..MaxFaults

(* Every edit has an outbox row from the moment it is made until the       *)
(* server has marked it done with its effect in place, or the user         *)
(* discards it: no loss, crash or retry forgets it.                        *)
NothingForgotten ==
    \A m \in 1..edits :
      /\ outbox[m] # "unused"
      /\ outbox[m] = "acknowledged" => m \in done \intersect db

(* Edits of one device take effect in the order they were made, unless the *)
(* server reported the earlier one as failed.                              *)
InOrderUnlessFailed ==
    \A m, n \in Mutations :
      m < n /\ author[m] = author[n] /\ n \in done
        => m \in done \union failedOnce

(* When editing stops and faults cease, every device ends up with the      *)
(* server's contents and nothing waiting.                                  *)
Converges ==
    <>[](\A d \in Devices : PendingOf(d) = {} /\ local[d] = db)

(* What the devices are promised, see SyncLedger.                          *)
Ledger == INSTANCE SyncLedger WITH
    Changes   <- Mutations,
    waiting   <- {m \in Mutations : outbox[m] \in Waiting},
    parked    <- {m \in Mutations : outbox[m] = "dead_letter"},
    dropped   <- {m \in Mutations : outbox[m] = "discarded"},
    effective <- done

LedgerSpec == Ledger!Spec

-----------------------------------------------------------------------------
(* What the documentation says and the code does not keep.                 *)

(* "if a pending mutation cannot be pushed, Sozan2 does not pull a cloud   *)
(* snapshot over that unsynced local change" (README.md): a pulled         *)
(* snapshot leaves every waiting edit of the device in place.              *)
PullKeepsUnsynced ==
    [][\A d \in Devices : ApplySnapshot(d) => PendingOf(d) \subseteq local'[d]]_vars

=============================================================================
