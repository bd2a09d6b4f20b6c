--------------------------- MODULE WorkspaceLease ---------------------------
(***************************************************************************)
(* The revision counter and write lease of one workspace                   *)
(* (src/server/sync/workspace-revision.ts) under the requests that use it: *)
(* pushes, backup imports, guarded writes (legacy restore, Sozan1 import)  *)
(* and stable reads (snapshot, backup export).                             *)
(*                                                                         *)
(* Every D1 statement is one step, so requests interleave between any two  *)
(* statements.  A request is served once and a worker may crash anywhere;  *)
(* a retry by the client is another request.  `data' stands for all        *)
(* business tables: for each part, the request that wrote it last.         *)
(***************************************************************************)
EXTENDS Integers

CONSTANTS
    Pushers,     \* POST /push requests with work to apply
    Importers,   \* POST /import requests (Backup Engine V2)
    Guarded,     \* requests run by withWorkspaceWrite
    Readers,     \* requests run by withStableWorkspaceRead
    Parts,       \* parts of the workspace written and read separately
    NoWriter,    \* writer_token IS NULL, and the author of initial data
    Attempts,    \* attempts of withStableWorkspaceRead (3 in the code)
    Overrun      \* TRUE: a live request may hold its lease over 10 minutes

Writers == Pushers \union Importers \union Guarded
Requests == Writers \union Readers

ASSUME LeaseAssumption ==
    /\ NoWriter \notin Requests
    /\ Writers \intersect Readers = {}
    /\ Pushers \intersect Importers = {}
    /\ Guarded \intersect (Pushers \union Importers) = {}
    /\ Attempts \in Nat \ {0}
    /\ Overrun \in BOOLEAN

VARIABLES
    revision,      \* core_workspace_sync_revisions.revision
    writerToken,   \* writer_token
    leaseAge,      \* "stale" once write_started_at is 10 minutes old
    data,          \* author of each part of the business tables
    pc,            \* where each request stands
    recovered,     \* requests between the UPDATE and the SELECT of a read
    base,          \* expected revision (writer), "before" revision (reader)
    wrote,         \* writers that changed business data
    copy, unread,  \* what a reader has fetched, and the parts still to fetch
    attempt        \* attempts a reader has used up

lease == <<revision, writerToken, leaseAge>>
reading == <<copy, unread, attempt>>
vars == <<revision, writerToken, leaseAge, data, pc, recovered, base,
          wrote, copy, unread, attempt>>

(* The calls of readWorkspaceRevisionState, by what the caller does next.  *)
ReadPoints == {"acquire", "reserve", "recheck", "confirm", "before", "after"}
Final == {"done", "busy", "conflict", "unconfirmed", "leaseLost", "failed",
          "unstable", "crashed"}
Steps == {"idle", "cas", "writing", "aborting", "reading"}

(* A live request: it may still execute statements.                        *)
Running(r) == pc[r] \notin Final \union {"idle"}

Init ==
    /\ revision = 0
    /\ writerToken = NoWriter
    /\ leaseAge = "fresh"
    /\ data = [p \in Parts |-> NoWriter]
    /\ pc = [r \in Requests |-> "idle"]
    /\ recovered = {}
    /\ base = [r \in Requests |-> 0]
    /\ wrote = {}
    /\ copy = [r \in Readers |-> [p \in Parts |-> NoWriter]]
    /\ unread = [r \in Readers |-> Parts]
    /\ attempt = [r \in Readers |-> 0]

Goto(r, step) == pc' = [pc EXCEPT ![r] = step]

-----------------------------------------------------------------------------
(* readWorkspaceRevisionState: recoverStaleWriteLease, then the SELECT.    *)

\* Mutated form of RecoveryAdvances: an abandoned lease is only released.
RecoveryKeepsRevision == revision

RecoveryAdvances == revision + 1

RecoverStale(r) ==
    /\ pc[r] \in ReadPoints
    /\ r \notin recovered
    /\ recovered' = recovered \union {r}
    /\ IF writerToken # NoWriter /\ leaseAge = "stale"
       THEN /\ revision' = RecoveryAdvances
            /\ writerToken' = NoWriter
            /\ leaseAge' = "fresh"
       ELSE UNCHANGED lease
    /\ UNCHANGED <<data, pc, base, wrote, reading>>

(* The SELECT issued at read point `point'.                                *)
Select(r, point) ==
    /\ pc[r] = point
    /\ r \in recovered
    /\ recovered' = recovered \ {r}
    /\ UNCHANGED <<revision, writerToken, leaseAge, data, wrote>>

-----------------------------------------------------------------------------
(* Arrival of requests.  A push or an import brings the revision its       *)
(* device last heard of, which is any revision up to the current one.      *)

ArriveReserving(w) ==
    /\ w \in Pushers \union Importers
    /\ pc[w] = "idle"
    /\ \E b \in 0..revision : base' = [base EXCEPT ![w] = b]
    /\ Goto(w, "reserve")
    /\ UNCHANGED <<lease, data, recovered, wrote, reading>>

ArriveGuarded(w) ==
    /\ w \in Guarded
    /\ pc[w] = "idle"
    /\ Goto(w, "acquire")
    /\ UNCHANGED <<lease, data, recovered, base, wrote, reading>>

(* acquireWorkspaceWrite: reserve from whatever revision is current.       *)
Acquire(w) ==
    /\ Select(w, "acquire")
    /\ IF writerToken # NoWriter
       THEN Goto(w, "busy") /\ UNCHANGED base
       ELSE Goto(w, "reserve") /\ base' = [base EXCEPT ![w] = revision]
    /\ UNCHANGED reading

(* reserveWorkspaceWrite up to its early returns.                          *)
Reserve(w) ==
    /\ Select(w, "reserve")
    /\ Goto(w, IF writerToken # NoWriter THEN "busy"
               ELSE IF revision # base[w] THEN "conflict" ELSE "cas")
    /\ UNCHANGED <<base, reading>>

\* Mutated form of CasSucceeds: the UPDATE does not test the revision.
CasWithoutRevision(w) == writerToken = NoWriter

\* Mutated form of CasSucceeds: the UPDATE does not test the token.
CasWithoutToken(w) == revision = base[w]

CasSucceeds(w) == revision = base[w] /\ writerToken = NoWriter

(* The compare-and-swap UPDATE of reserveWorkspaceWrite.                   *)
CompareAndSwap(w) ==
    /\ pc[w] = "cas"
    /\ IF CasSucceeds(w)
       THEN /\ writerToken' = w
            /\ leaseAge' = "fresh"
            /\ Goto(w, "writing")
       ELSE /\ Goto(w, "recheck")
            /\ UNCHANGED <<writerToken, leaseAge>>
    /\ UNCHANGED <<revision, data, recovered, base, wrote, reading>>

(* The lost race of reserveWorkspaceWrite: report what is there now.       *)
Recheck(w) ==
    /\ Select(w, "recheck")
    /\ Goto(w, IF writerToken # NoWriter THEN "busy" ELSE "conflict")
    /\ UNCHANGED <<base, reading>>

-----------------------------------------------------------------------------
(* The holder of the lease changes the business tables.  A push applies    *)
(* its mutations statement by statement, a guarded write its batches; an   *)
(* import replaces everything in one D1 batch.  None of them looks at the  *)
(* lease again.                                                            *)

WrittenTogether(w) ==
    IF w \in Importers THEN {Parts} ELSE SUBSET Parts \ {{}}

Write(w) ==
    /\ pc[w] = "writing"
    /\ w \in Importers => w \notin wrote
    /\ \E ps \in WrittenTogether(w) :
         data' = [p \in Parts |-> IF p \in ps THEN w ELSE data[p]]
    /\ wrote' = wrote \union {w}
    /\ UNCHANGED <<lease, pc, recovered, base, reading>>

\* Mutated form of FinalizedRevision: finalize releases without advancing.
FinalizedRevisionSame == revision

FinalizedRevision == revision + 1

(* finalizeWorkspaceWrite.  It also runs when the work itself failed.      *)
FinalizeWrite(w) ==
    /\ pc[w] = "writing"
    /\ w \in Importers => w \in wrote
    /\ IF writerToken = w
       THEN /\ revision' = FinalizedRevision
            /\ writerToken' = NoWriter
            /\ leaseAge' = "fresh"
            /\ Goto(w, "confirm")
       ELSE Goto(w, "leaseLost") /\ UNCHANGED lease
    /\ UNCHANGED <<data, recovered, base, wrote, reading>>

(* The stable read that ends finalizeWorkspaceWrite: it fails when another *)
(* writer got in between.                                                  *)
Confirm(w) ==
    /\ Select(w, "confirm")
    /\ Goto(w, IF writerToken # NoWriter THEN "unconfirmed" ELSE "done")
    /\ UNCHANGED <<base, reading>>

(* An import whose batch failed: nothing was written.                      *)
BatchFails(w) ==
    /\ w \in Importers \ wrote
    /\ pc[w] = "writing"
    /\ Goto(w, "aborting")
    /\ UNCHANGED <<lease, data, recovered, base, wrote, reading>>

(* abortWorkspaceWrite; the route swallows SYNC_WRITE_LEASE_LOST.          *)
AbortWrite(w) ==
    /\ pc[w] = "aborting"
    /\ IF writerToken = w
       THEN writerToken' = NoWriter /\ leaseAge' = "fresh"
       ELSE UNCHANGED <<writerToken, leaseAge>>
    /\ Goto(w, "failed")
    /\ UNCHANGED <<revision, data, recovered, base, wrote, reading>>

-----------------------------------------------------------------------------
(* withStableWorkspaceRead.                                                *)

ArriveReader(r) ==
    /\ r \in Readers
    /\ pc[r] = "idle"
    /\ Goto(r, "before")
    /\ UNCHANGED <<lease, data, recovered, base, wrote, reading>>

\* Mutated form of AttemptsUsed: the loop never counts.
AttemptsForgotten(r) == attempt[r]

AttemptsUsed(r) == attempt[r] + 1

LastAttempt(r) == AttemptsUsed(r) >= Attempts

(* One attempt ended without a stable snapshot.                            *)
NextAttempt(r) ==
    IF LastAttempt(r)
    THEN Goto(r, "unstable") /\ UNCHANGED attempt
    ELSE Goto(r, "before") /\ attempt' = [attempt EXCEPT ![r] = AttemptsUsed(r)]

ReadBefore(r) ==
    /\ Select(r, "before")
    /\ IF writerToken # NoWriter
       THEN NextAttempt(r) /\ UNCHANGED <<base, unread>>
       ELSE /\ Goto(r, "reading")
            /\ base' = [base EXCEPT ![r] = revision]
            /\ unread' = [unread EXCEPT ![r] = Parts]
            /\ UNCHANGED attempt
    /\ UNCHANGED copy

(* The read callback: the module handlers query concurrently.              *)
ReadPart(r, p) ==
    /\ pc[r] = "reading"
    /\ p \in unread[r]
    /\ copy' = [copy EXCEPT ![r][p] = data[p]]
    /\ unread' = [unread EXCEPT ![r] = @ \ {p}]
    /\ UNCHANGED <<lease, data, pc, recovered, base, wrote, attempt>>

ReadFinished(r) ==
    /\ pc[r] = "reading"
    /\ unread[r] = {}
    /\ Goto(r, "after")
    /\ UNCHANGED <<lease, data, recovered, base, wrote, reading>>

\* Mutated form of StableSince: the second check looks at the lease only.
NoWriterNow(r) == writerToken = NoWriter

StableSince(r) == writerToken = NoWriter /\ revision = base[r]

ReadAfter(r) ==
    /\ Select(r, "after")
    /\ IF StableSince(r)
       THEN Goto(r, "done") /\ UNCHANGED attempt
       ELSE NextAttempt(r)
    /\ UNCHANGED <<base, copy, unread>>

-----------------------------------------------------------------------------
(* The environment: a worker dies, ten minutes pass.                       *)

Crash(w) ==
    /\ w \in Writers
    /\ Running(w)
    /\ Goto(w, "crashed")
    /\ recovered' = recovered \ {w}
    /\ UNCHANGED <<lease, data, base, wrote, reading>>

LeaseAges ==
    /\ writerToken # NoWriter
    /\ leaseAge = "fresh"
    /\ Overrun \/ ~Running(writerToken)
    /\ leaseAge' = "stale"
    /\ UNCHANGED <<revision, writerToken, data, pc, recovered, base, wrote,
                   reading>>

WriterStep(w) ==
    \/ RecoverStale(w) \/ Acquire(w) \/ Reserve(w) \/ CompareAndSwap(w)
    \/ Recheck(w) \/ Write(w) \/ FinalizeWrite(w) \/ Confirm(w)
    \/ BatchFails(w) \/ AbortWrite(w)

ReaderStep(r) ==
    \/ RecoverStale(r) \/ ReadBefore(r) \/ ReadFinished(r) \/ ReadAfter(r)
    \/ \E p \in Parts : ReadPart(r, p)

Next ==
    \/ \E w \in Writers : ArriveReserving(w) \/ ArriveGuarded(w)
    \/ \E w \in Writers : WriterStep(w)
    \/ \E w \in Writers : Crash(w)
    \/ \E r \in Readers : ArriveReader(r) \/ ReaderStep(r)
    \/ LeaseAges

Spec == Init /\ [][Next]_vars

(* A worker that is neither done nor crashed keeps executing statements,   *)
(* and a writer has finitely many of them: it comes to finalize.           *)
FairSpec ==
    /\ Spec
    /\ \A w \in Writers : WF_vars(WriterStep(w)) /\ WF_vars(FinalizeWrite(w))
    /\ \A r \in Readers : WF_vars(ReaderStep(r))

-----------------------------------------------------------------------------
(* Correctness.                                                            *)

(* Every variable keeps to its domain.                                     *)
TypeOK ==
    /\ revision \in Nat
    /\ writerToken \in Writers \union {NoWriter}
    /\ leaseAge \in {"fresh", "stale"}
    /\ data \in [Parts -> Writers \union {NoWriter}]
    /\ pc \in [Requests -> ReadPoints \union Final \union Steps]
    /\ recovered \subseteq Requests
    /\ base \in [Requests -> Nat]
    /\ wrote \subseteq Writers
    /\ copy \in [Readers -> [Parts -> Writers \union {NoWriter}]]
    /\ unread \in [Readers -> SUBSET Parts]
    /\ attempt \in [Readers -> 0..(Attempts - 1)]

(* Two requests never change data from the same base revision ("Two        *)
(* devices cannot both write from the same base revision", migration 0011),*)
(* whatever crashes, aborts and stale recoveries come in between.          *)
OneWriterPerBase ==
    \A w, x \in wrote : base[w] = base[x] => w = x

(* A write is never hidden behind the revision it started from: once its   *)
(* author no longer holds the lease the workspace has a newer revision, so *)
(* a device that saw the old one is told of a conflict.                    *)
WriteAdvancesRevision ==
    \A w \in wrote : writerToken # w => base[w] < revision

(* A revision number names one state of the workspace: two snapshots       *)
(* answered with the same revision are equal.                              *)
RevisionIdentifiesData ==
    \A r, s \in Readers :
      pc[r] = "done" /\ pc[s] = "done" /\ base[r] = base[s]
        => copy[r] = copy[s]

(* Optimistic concurrency: a writer that has just reserved revision b      *)
(* starts from the very data every snapshot of revision b showed.          *)
WriterSeesItsBase ==
    \A w \in Writers, r \in Readers :
      writerToken = w /\ w \notin wrote /\ pc[r] = "done" /\ base[r] = base[w]
        => copy[r] = data

(* Business data changes only while the author of the change holds the     *)
(* lease.                                                                  *)
WritesHoldLease ==
    [][\A p \in Parts : data'[p] # data[p] => data'[p] = writerToken]_vars

(* The revision never goes back, and a lease with written data is never    *)
(* given up at an unchanged revision.                                      *)
RevisionMonotone ==
    [][/\ revision' >= revision
       /\ writerToken \in wrote /\ writerToken' # writerToken
            => revision' > revision]_vars

(* Every request that started is answered or dies: no reader loops for     *)
(* ever behind a stream of writers.                                        *)
EveryRequestEnds ==
    \A r \in Requests : pc[r] # "idle" ~> pc[r] \in Final
=============================================================================
