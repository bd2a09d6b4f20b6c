--------------------------- MODULE CloudWorkspace ---------------------------
(***************************************************************************)
(* One device's workspace and its cloud copy, moved as a whole: linking a  *)
(* local workspace to a new account, finishing an interrupted promotion,   *)
(* importing a backup file, resuming the upload of an import, and ordinary *)
(* synchronisation between them.                                           *)
(*                                                                         *)
(*   client/cloud/link-workflow.ts, client/cloud/CloudAccess.tsx           *)
(*   client/backup/workspace-backup.ts, client/backup/import-workflow.ts   *)
(*   client/sync/engine.ts, client/sync/workspace-operation.ts             *)
(*   client/adapters/indexeddb/platform.repository.ts (the cloud link)     *)
(*   server/backup/routes.ts                                               *)
(*                                                                         *)
(* The contents of a workspace are a set of changes: an edit is its        *)
(* number, a backup file and another device's change a value of their own. *)
(* Tabs share IndexedDB; what a tab runs is in its memory alone.  Most     *)
(* workflows hold the tab's mutex; linking does not, so a browser tab may  *)
(* run a link beside another workflow: each has a place of its own, and    *)
(* the places of one window share its mutex and its snapshot.              *)
(***************************************************************************)
EXTENDS Integers, Sequences, FiniteSets

CONSTANTS
    Tabs,           \* places a workflow may run
    Window,         \* the browser tab each place belongs to
    Imports,        \* importIds a client may draw
    Posts,          \* restore requests the server may be serving at once
    Nothing,        \* no importId, no request, no lease
    File,           \* contents of the backup file the user imports
    Foreign,        \* changes other devices may push
    AtomicRows,     \* contents that fit MAX_ATOMIC_STATEMENTS
    MaxEdits,       \* bound: local edits
    MaxFaults       \* bound: faults of all kinds

ASSUME CloudAssumption ==
    /\ MaxEdits \in Nat /\ MaxFaults \in Nat /\ AtomicRows \in Nat
    /\ Nothing \notin Imports \union Posts /\ Imports \intersect Posts = {}
    /\ (1..MaxEdits) \intersect (File \union Foreign) = {}
    /\ DOMAIN Window = Tabs

VARIABLES
    rows,       \* IndexedDB: the business rows
    outbox,     \* IndexedDB: edits waiting for a push
    parked,     \* IndexedDB: dead letters
    link,       \* IndexedDB: the cloud link record
    tab,        \* what each tab runs, and the snapshot its screens hold
    account,    \* server: the workspace exists
    cloud,      \* server: the workspace's rows
    history,    \* server: contents at each revision, the last is current
    lease,      \* server: request that holds the write lease
    job,        \* server: requests and the import journal
    edits, faults,
    imported,   \* history: the file was imported, and is protected
    replaced,   \* history: edits an import replaced on purpose
    uncarried,  \* history: edits dropped from the outbox that no backup had
    clobbered,  \* history: contents of the cloud a restore had not and overwrote
    overtaken,  \* history: edits a pull took from the rows before their push
    overlapped  \* history: a tab ran a link beside another workflow

deviceVars == <<rows, outbox, parked, link>>
serverVars == <<account, cloud, history, lease, job>>
auxVars == <<imported, replaced, uncarried, clobbered, overtaken, overlapped>>
vars == <<deviceVars, tab, serverVars, edits, faults, auxVars>>

Requests == Imports \union Posts
Changes == (1..MaxEdits) \union File \union Foreign
Revision == Len(history) - 1

NoLink == [state |-> "none", reason |-> "none", pending |-> Nothing, rev |-> 0]
(* "age" is the number of edits made when a synchronisation read "data".   *)
Idle == [pc |-> "idle", kind |-> "none", data |-> {}, id |-> Nothing,
         age |-> 0, base |-> 0, rev |-> 0]
NoJob == [at |-> "unused", data |-> {}, base |-> 0, status |-> "none",
          error |-> "none", rev |-> 0, wrote |-> FALSE]
Retryable == {"SYNC_WRITE_IN_PROGRESS", "BACKUP_IMPORT_STALE"}

Init ==
    /\ rows = {} /\ outbox = {} /\ parked = {}
    /\ link = NoLink
    /\ tab = [t \in Tabs |-> [run |-> Idle, seen |-> NoLink]]
    /\ account = FALSE /\ cloud = {} /\ history = << {} >> /\ lease = Nothing
    /\ job = [i \in Requests |-> NoJob]
    /\ edits = 0 /\ faults = 0
    /\ imported = FALSE /\ replaced = {} /\ uncarried = {} /\ clobbered = {} /\ overtaken = {}
    /\ overlapped = FALSE

Fault == faults < MaxFaults /\ faults' = faults + 1

-----------------------------------------------------------------------------
(* The user's side.                                                        *)

(* A local command; no workflow keeps it out.                              *)
Edit ==
    /\ edits < MaxEdits
    /\ edits' = edits + 1
    /\ rows' = rows \union {edits + 1}
    /\ outbox' = outbox \union {edits + 1}
    /\ UNCHANGED <<parked, link, tab, serverVars, faults, auxVars>>

(* The tab at pc continues with run r.                                     *)
Runs(t, pc) == tab[t].run.pc = pc

Continue(t, r) == tab' = [tab EXCEPT ![t].run = r]

Together(t, u) == Window[t] = Window[u]

(* What holds the mutex (activeOperations): all workflows, and of a link   *)
(* the synchronisation it ends with.                                       *)
Holds(r) == r.pc \in {"checking", "pushing", "fetching", "applying"}
            \/ r.kind \notin {"none", "link"}

(* beginWorkspaceOperation finds no operation of the tab.                  *)
Free(t) == \A u \in Tabs : u # t /\ Together(t, u) => ~Holds(tab[u].run)

(* The screens reload their snapshot: loadLocalPlatform.                   *)
End(t, shown) ==
    tab' = [u \in Tabs |->
              [run |-> IF u = t THEN Idle ELSE tab[u].run,
               seen |-> IF Together(t, u) THEN shown ELSE tab[u].seen]]

Finish(t) == End(t, link')

(* A workflow begins; that it does so beside another one of its tab, of    *)
(* which one is a link, is bounded like the faults.                        *)
Start(t, r) ==
    /\ Continue(t, r)
    /\ IF \E u \in Tabs : u # t /\ Together(t, u) /\ ~Runs(u, "idle")
       THEN overlapped' = TRUE /\ Fault ELSE UNCHANGED <<overlapped, faults>>
    /\ UNCHANGED <<imported, replaced, uncarried, clobbered, overtaken>>

Goto(t, pc) == tab' = [tab EXCEPT ![t].run.pc = pc]

(* A workflow throws: its locals are gone, the screens keep what they had. *)
Throw(t) == Continue(t, Idle)

(* The page is loaded again: whatever the tab ran is gone.                 *)
Renew(t) ==
    tab' = [u \in Tabs |->
              IF Together(t, u) THEN [run |-> Idle, seen |-> link] ELSE tab[u]]

Reload(t) ==
    /\ (\A u \in Tabs : Together(t, u) => Runs(u, "idle")) /\ tab[t].seen # link
    /\ UNCHANGED deviceVars /\ Renew(t)
    /\ UNCHANGED <<serverVars, edits, faults, auxVars>>

CloseTab(t) ==
    /\ ~Runs(t, "idle") /\ Fault
    /\ UNCHANGED deviceVars /\ Renew(t)
    /\ UNCHANGED <<serverVars, edits, auxVars>>

(* createLocalWorkspaceBackup: one read transaction over every store.      *)
LocalBackup == rows

(* linkExistingLocalWorkspaceToCloud: the backup is taken, and then the    *)
(* account is registered.  Nothing keeps it from a tab that runs another.  *)
StartLink(t) ==
    /\ Runs(t, "idle") /\ tab[t].seen.state = "none"
    /\ Start(t, [Idle EXCEPT !.pc = "registering", !.kind = "link",
                             !.data = LocalBackup])
    /\ UNCHANGED <<deviceVars, serverVars, edits>>

Register(t) ==
    /\ Runs(t, "registering")
    /\ \/ ~account /\ account' = TRUE /\ Goto(t, "linking") /\ UNCHANGED faults
       \/ ~account /\ account' = TRUE /\ Throw(t) /\ Fault
       \/ account /\ Throw(t) /\ UNCHANGED <<account, faults>>
    /\ UNCHANGED <<deviceVars, cloud, history, lease, job, edits, auxVars>>

(* linkLocalPlatformToCloud with state 'provisioning'.                     *)
PersistLink(t) ==
    /\ Runs(t, "linking")
    /\ link' = [NoLink EXCEPT !.state = "provisioning", !.reason = "cloud-link"]
    /\ Goto(t, "restoring")
    /\ UNCHANGED <<rows, outbox, parked, serverVars, edits, faults, auxVars>>

(* resumeCloudWorkspacePromotion.                                          *)
StartPromotion(t) ==
    /\ Runs(t, "idle") /\ Free(t)
    /\ tab[t].seen.state = "provisioning" /\ tab[t].seen.reason = "cloud-link"
    /\ Start(t, [Idle EXCEPT !.pc = "restoring", !.kind = "promotion",
                             !.data = LocalBackup])
    /\ UNCHANGED <<deviceVars, serverVars, edits>>

(* restoreCloudWorkspaceBackup: POST /restore, which names no revision.    *)
PostRestore(t, i) ==
    /\ Runs(t, "restoring") /\ job[i].at = "unused"
    /\ job' = [job EXCEPT ![i] =
                 [NoJob EXCEPT !.at = "reserve", !.data = tab[t].run.data]]
    /\ Continue(t, [tab[t].run EXCEPT !.pc = "awaiting", !.id = i])
    /\ UNCHANGED <<deviceVars, account, cloud, history, lease, edits, faults,
                   auxVars>>

(* clearWorkspaceSyncOutbox: every row, also those the backup came before. *)
ClearOutbox(t) ==
    /\ Runs(t, "clearing")
    /\ uncarried' = uncarried
                    \union ((outbox \union parked) \ tab[t].run.data)
    /\ outbox' = {} /\ parked' = {}
    /\ Goto(t, "readying")
    /\ UNCHANGED <<rows, link, serverVars, edits, faults, imported, replaced, clobbered,
                   overtaken, overlapped>>

ReadyAt(r) == [state |-> "ready", reason |-> "none", pending |-> Nothing, rev |-> r]

(* markLocalCloudLinkReady; a link goes on with a synchronisation, if the  *)
(* mutex lets it.                                                          *)
MarkReady(t) ==
    /\ Runs(t, "readying")
    /\ link' = ReadyAt(tab[t].run.rev)
    /\ IF tab[t].run.kind \notin {"link", "promotion"} THEN Finish(t)
       ELSE IF Free(t) THEN Goto(t, "checking") ELSE Throw(t)
    /\ UNCHANGED <<rows, outbox, parked, serverVars, edits, faults, auxVars>>

-----------------------------------------------------------------------------
(* importWorkspaceBackupLocalFirst and resumePendingBackupImport.          *)

Unused(i) == job[i].at = "unused" /\ \A t \in Tabs : tab[t].run.id # i
             /\ link.pending # i

(* The revision the import expects is the one the screens last loaded.     *)
StartImport(t) ==
    /\ Runs(t, "idle") /\ Free(t)
    /\ IF tab[t].seen.state = "none"
       THEN Start(t, [Idle EXCEPT !.pc = "replacing", !.kind = "local-import",
                                     !.data = File])
       ELSE \E i \in Imports :
              /\ Unused(i)
              /\ Start(t, [Idle EXCEPT !.pc = "marking", !.kind = "import",
                     !.data = File, !.id = i, !.base = tab[t].seen.rev])
    /\ UNCHANGED <<deviceVars, serverVars, edits>>

(* markLocalCloudLinkProvisioning, before the local rows change and before *)
(* each upload.                                                            *)
MarkProvisioning(t) ==
    /\ Runs(t, "marking")
    /\ link' = [link EXCEPT !.state = "provisioning", !.reason = "backup-import",
                            !.pending = tab[t].run.id]
    /\ Goto(t, IF tab[t].run.kind = "import" THEN "replacing" ELSE "publishing")
    /\ UNCHANGED <<rows, outbox, parked, serverVars, edits, faults, auxVars>>

(* The screens know that the workspace is linked, if it is.                *)
Aware(t) == tab[t].run.kind = "import" \/ link.state = "none"

(* restoreLocalWorkspaceBackup: all stores and the outbox, one transaction. *)
ReplaceLocal(t) ==
    /\ Runs(t, "replacing")
    /\ rows' = tab[t].run.data /\ outbox' = {} /\ parked' = {}
    /\ imported' = (imported \/ Aware(t)) /\ replaced' = replaced \union (1..edits)
    /\ UNCHANGED link
    /\ IF tab[t].run.kind = "local-import" THEN Finish(t) ELSE Goto(t, "publishing")
    /\ UNCHANGED <<serverVars, edits, faults, uncarried, clobbered, overtaken,
                   overlapped>>

(* An earlier import still waits for its upload.                           *)
UploadPending(t) == tab[t].seen.state = "provisioning"

(* The transaction fails: the link is made ready again at the revision the *)
(* screens knew, also when an earlier import is still waiting for its      *)
(* upload; nothing protects that one any more.                             *)
ReplaceFails(t) ==
    /\ Runs(t, "replacing") /\ Fault
    /\ IF tab[t].run.kind = "local-import" THEN Throw(t)
       ELSE Continue(t, [tab[t].run EXCEPT !.pc = "readying",
                                           !.rev = tab[t].run.base])
    /\ imported' = (imported /\ ~UploadPending(t))
    /\ UNCHANGED <<deviceVars, serverVars, edits, replaced, uncarried, clobbered,
                   overtaken, overlapped>>

(* resumePendingBackupImport: the current rows are what will be uploaded.  *)
StartResume(t) ==
    /\ Runs(t, "idle") /\ Free(t)
    /\ tab[t].seen.state = "provisioning" /\ tab[t].seen.reason = "backup-import"
    /\ Start(t, [Idle EXCEPT !.pc = "asking", !.kind = "resume",
          !.data = LocalBackup, !.id = tab[t].seen.pending, !.base = tab[t].seen.rev])
    /\ UNCHANGED <<deviceVars, serverVars, edits>>

PostImport(t) ==
    /\ Runs(t, "publishing")
    /\ LET i == tab[t].run.id IN
       job' = [job EXCEPT ![i] = [NoJob EXCEPT !.at = "begin",
                 !.data = tab[t].run.data, !.base = tab[t].run.base]]
    /\ Goto(t, "awaiting")
    /\ UNCHANGED <<deviceVars, account, cloud, history, lease, edits, faults,
                   auxVars>>

(* The POST is lost on its way and the client begins to ask.               *)
LoseImport(t) ==
    /\ Runs(t, "publishing") /\ Fault
    /\ Goto(t, "polling")
    /\ UNCHANGED <<deviceVars, serverVars, edits, auxVars>>

Succeed(t, rev) ==
    Continue(t, [tab[t].run EXCEPT !.rev = rev,
       !.pc = IF tab[t].run.kind \in {"link", "promotion"} THEN "clearing" ELSE "readying"])

(* What an import that could not be confirmed leaves to the screens: the   *)
(* outcome 'pending' is returned and they reload; a resume throws.         *)
GiveUp(t) ==
    IF tab[t].run.kind = "import" THEN End(t, link) ELSE Throw(t)

Answered(i) == job[i].at \in {"done", "refused"}

ReceiveAnswer(t) ==
    /\ Runs(t, "awaiting")
    /\ LET i == tab[t].run.id IN
       \/ job[i].at = "done" /\ Succeed(t, job[i].rev)
       \/ job[i].at = "refused" /\ GiveUp(t)
    /\ UNCHANGED <<deviceVars, serverVars, edits, faults, auxVars>>

(* Timeout or broken connection: a restore throws, an import polls.        *)
LoseAnswer(t) ==
    /\ Runs(t, "awaiting")
    /\ IF job[tab[t].run.id].at = "dead" THEN UNCHANGED faults ELSE Fault
    /\ IF tab[t].run.kind \in {"link", "promotion"} THEN Throw(t)
       ELSE Goto(t, "polling")
    /\ UNCHANGED <<deviceVars, serverVars, edits, auxVars>>

(* Job i as a status request finds it: a job whose worker is gone for ten  *)
(* minutes is stale.                                                       *)
StatusOf(i) ==
    {job[i].status}
      \union (IF job[i].status = "applying" /\ job[i].at = "dead" THEN {"stale"} ELSE {})

MarkStale(i, s) ==
    IF s = "stale"
    THEN job' = [job EXCEPT ![i].status = "failed", ![i].error = "BACKUP_IMPORT_STALE"]
    ELSE UNCHANGED job

\* Mutated form of PollConfirms: an unknown outcome is taken for success.
PollAssumes(s) == s \in {"completed", "applying"}

PollConfirms(s) == s = "completed"

(* publishBackupImportToCloud after a lost response: up to four status     *)
(* requests; nothing found, a failure or no verdict ends the attempt.      *)
Poll(t) ==
    /\ Runs(t, "polling")
    /\ LET i == tab[t].run.id IN
       \E s \in StatusOf(i) :
         /\ MarkStale(i, s)
         /\ IF PollConfirms(s) THEN Succeed(t, job[i].rev) ELSE GiveUp(t)
    /\ UNCHANGED <<deviceVars, account, cloud, history, lease, edits, faults,
                   auxVars>>

(* A resume draws a new importId only for a job that can no longer apply.  *)
MayRetry(s, error) ==
    \/ s \in {"none", "stale"}
    \/ s = "failed" /\ error \in Retryable

Ask(t) ==
    /\ Runs(t, "asking")
    /\ LET i == tab[t].run.id IN
       \E s \in IF i = Nothing THEN {"none"} ELSE StatusOf(i) :
         /\ IF i = Nothing THEN UNCHANGED job ELSE MarkStale(i, s)
         /\ \/ s = "completed" /\ Succeed(t, job[i].rev)
            \/ /\ MayRetry(s, IF i = Nothing THEN "none" ELSE job[i].error)
               /\ \E n \in Imports :
                    /\ Unused(n)
                    /\ Continue(t, [tab[t].run EXCEPT !.pc = "marking", !.id = n])
            \/ /\ s \in {"applying", "failed"}
               /\ ~MayRetry(s, job[i].error)
               /\ Throw(t)
            \/ (\A n \in Imports : ~Unused(n)) /\ Throw(t)   \* bound
    /\ UNCHANGED <<deviceVars, account, cloud, history, lease, edits, faults,
                   auxVars>>

-----------------------------------------------------------------------------
(* runWorkspaceSync; SyncProtocol has the details of a push.               *)

StartSync(t) ==
    /\ Runs(t, "idle") /\ Free(t) /\ tab[t].seen.state # "none"
    /\ Start(t, [Idle EXCEPT !.pc = "checking", !.kind = "sync"])
    /\ UNCHANGED <<deviceVars, serverVars, edits>>

\* Mutated form of InitializationReady: provisioning does not stop a sync.
InitializationIgnored == TRUE

(* assertCloudInitializationReady reads the record, not the snapshot.      *)
InitializationReady == link.state # "provisioning"

Check(t) ==
    /\ Runs(t, "checking")
    /\ IF InitializationReady
       THEN Continue(t, [tab[t].run EXCEPT !.pc = "pushing", !.data = outbox,
                                           !.age = edits, !.base = link.rev])
       ELSE Throw(t)
    /\ UNCHANGED <<deviceVars, serverVars, edits, faults, auxVars>>

(* Only a synchronisation the user asked for reloads the screens; the      *)
(* timer's and the one after a command leave them as they were.            *)
SyncEnds(t) == Finish(t) \/ (tab[t].run.kind = "sync" /\ Throw(t))

(* The push and the settling of its results: applied, or all conflicting   *)
(* when the base revision is not the current one.                          *)
Push(t) ==
    /\ Runs(t, "pushing")
    /\ IF tab[t].run.data = {}
       THEN Goto(t, "fetching") /\ UNCHANGED <<deviceVars, cloud, history>>
       ELSE \/ /\ lease = Nothing
               /\ LET ours == tab[t].run.base = Revision
                      sent == tab[t].run.data
                      now == IF ours THEN cloud \union sent ELSE cloud
                  IN /\ cloud' = now
                     /\ history' = IF ours THEN Append(history, now) ELSE history
                     /\ outbox' = outbox \ sent
                     /\ parked' = IF ours THEN parked
                                  ELSE parked \union (sent \intersect outbox)
                     /\ link' = [link EXCEPT !.rev = Len(history') - 1]
               /\ IF outbox' = {} THEN Goto(t, "fetching") ELSE SyncEnds(t)
               /\ UNCHANGED rows
            \/ /\ lease # Nothing
               /\ UNCHANGED <<deviceVars, cloud, history>> /\ SyncEnds(t)
    /\ UNCHANGED <<account, lease, job, edits, faults, auxVars>>

Fetch(t) ==
    /\ Runs(t, "fetching")
    /\ IF lease = Nothing
       THEN Continue(t, [tab[t].run EXCEPT !.pc = "applying", !.data = cloud,
                                           !.rev = Revision])
       ELSE Throw(t)
    /\ UNCHANGED <<deviceVars, serverVars, edits, faults, auxVars>>

(* The connection fails: the screens keep what they had, also after a link *)
(* that is ready by then.                                                  *)
LoseSync(t) ==
    /\ (Runs(t, "pushing") \/ Runs(t, "fetching")) /\ Fault
    /\ Throw(t)
    /\ UNCHANGED <<deviceVars, serverVars, edits, auxVars>>

(* applySnapshot, and updateCloudLink on the record as it is by then.      *)
ApplySnapshot(t) ==
    /\ Runs(t, "applying")
    /\ rows' = tab[t].run.data
    /\ link' = [link EXCEPT !.rev = tab[t].run.rev]
    /\ overtaken' = overtaken \union ((tab[t].run.age + 1)..edits)
    /\ SyncEnds(t)
    /\ UNCHANGED <<outbox, parked, serverVars, edits, faults, imported,
                   replaced, uncarried, clobbered, overlapped>>

-----------------------------------------------------------------------------
(* The server.                                                             *)

At(i, place) == job' = [job EXCEPT ![i].at = place]

(* beginImportJob: the journal row, status 'applying'.                     *)
BeginJob(i) ==
    /\ job[i].at = "begin"
    /\ job' = [job EXCEPT ![i].at = "reserve", ![i].status = "applying"]
    /\ UNCHANGED <<deviceVars, tab, account, cloud, history, lease, edits,
                   faults, auxVars>>

\* Mutated form of BaseMatches: an import overwrites whatever is there.
AnyBase(i) == TRUE

(* An import names the revision it replaces, a restore takes the current.  *)
BaseMatches(i) == i \in Imports => job[i].base = Revision

Refused(i, error) ==
    [job[i] EXCEPT !.at = "refused",
                   !.status = IF i \in Imports THEN "failed" ELSE @,
                   !.error = error]

ReserveJob(i) ==
    /\ job[i].at = "reserve"
    /\ IF lease # Nothing
       THEN job' = [job EXCEPT ![i] = Refused(i, "SYNC_WRITE_IN_PROGRESS")]
            /\ UNCHANGED lease
       ELSE IF ~BaseMatches(i)
       THEN job' = [job EXCEPT ![i] = Refused(i, "BACKUP_IMPORT_REVISION_CONFLICT")]
            /\ UNCHANGED lease
       ELSE lease' = i /\ At(i, "restore")
    /\ UNCHANGED <<deviceVars, tab, account, cloud, history, edits, faults,
                   auxVars>>

Fits(data) == Cardinality(data) <= AtomicRows

(* What the cloud has and the backup of request i has not.                 *)
Missing(i) == cloud \ job[i].data

(* restoreBackupAtomic: one batch, or none when the budget is exceeded.    *)
RestoreBatch(i) ==
    /\ job[i].at = "restore"
    /\ IF Fits(job[i].data)
       THEN /\ cloud' = job[i].data
            /\ job' = [job EXCEPT ![i].at = "finalize", ![i].wrote = TRUE]
            /\ clobbered' = IF i \in Posts THEN clobbered \union Missing(i)
                            ELSE clobbered
            /\ UNCHANGED lease
       ELSE /\ job' = [job EXCEPT ![i] =
                         Refused(i, "BACKUP_TOO_LARGE_FOR_ATOMIC_RESTORE")]
            /\ lease' = Nothing
            /\ UNCHANGED <<cloud, clobbered>>
    /\ UNCHANGED <<deviceVars, tab, account, history, edits, faults, imported,
                   replaced, uncarried, overtaken, overlapped>>

(* finalizeWorkspaceWrite.                                                 *)
FinalizeJob(i) ==
    /\ job[i].at = "finalize"
    /\ history' = Append(history, cloud) /\ lease' = Nothing
    /\ job' = [job EXCEPT ![i].rev = Len(history),
                          ![i].at = IF i \in Imports THEN "complete" ELSE "done"]
    /\ UNCHANGED <<deviceVars, tab, account, cloud, edits, faults, auxVars>>

CompleteJob(i) ==
    /\ job[i].at = "complete"
    /\ job' = [job EXCEPT ![i].at = "done", ![i].status = "completed",
                          ![i].error = "none"]
    /\ UNCHANGED <<deviceVars, tab, account, cloud, history, lease, edits,
                   faults, auxVars>>

Working == {"begin", "reserve", "restore", "finalize", "complete"}

(* The worker is gone; its lease, if it holds one, is left behind.         *)
WorkerDies(i) ==
    /\ job[i].at \in Working /\ Fault
    /\ At(i, "dead")
    /\ UNCHANGED <<deviceVars, tab, account, cloud, history, lease, edits,
                   auxVars>>

(* recoverStaleWriteLease, by the first request after ten minutes.         *)
RecoverLease ==
    /\ lease # Nothing /\ job[lease].at = "dead"
    /\ lease' = Nothing /\ history' = Append(history, cloud)
    /\ UNCHANGED <<deviceVars, tab, account, cloud, job, edits, faults, auxVars>>

(* A restore keeps no journal: nothing remains once nobody waits for it.   *)
ForgetPost(i) ==
    /\ i \in Posts /\ job[i].at \in {"done", "refused", "dead"}
    /\ lease # i /\ \A t \in Tabs : tab[t].run.id # i
    /\ job' = [job EXCEPT ![i] = NoJob]
    /\ UNCHANGED <<deviceVars, tab, account, cloud, history, lease, edits,
                   faults, auxVars>>

(* Another device of the account pushes a change of its own.               *)
ForeignPush ==
    \E f \in Foreign \ UNION {history[k] : k \in 1..Len(history)} :
      /\ account /\ lease = Nothing
      /\ cloud' = cloud \union {f} /\ history' = Append(history, cloud')
      /\ UNCHANGED <<deviceVars, tab, account, lease, job, edits, faults, auxVars>>

-----------------------------------------------------------------------------
UserStarts(t) == StartPromotion(t) \/ StartResume(t) \/ Reload(t)

TabStep(t) ==
    \/ Register(t) \/ PersistLink(t) \/ (\E i \in Posts : PostRestore(t, i))
    \/ ClearOutbox(t) \/ MarkReady(t) \/ MarkProvisioning(t) \/ ReplaceLocal(t)
    \/ PostImport(t) \/ ReceiveAnswer(t) \/ LoseAnswer(t) \/ Poll(t) \/ Ask(t)
    \/ Check(t) \/ Push(t) \/ Fetch(t) \/ ApplySnapshot(t)

ServerStep(i) ==
    \/ BeginJob(i) \/ ReserveJob(i) \/ RestoreBatch(i) \/ FinalizeJob(i)
    \/ CompleteJob(i) \/ ForgetPost(i)

Next ==
    \/ Edit \/ ForeignPush \/ RecoverLease
    \/ \E t \in Tabs :
         \/ StartLink(t) \/ StartImport(t) \/ StartSync(t) \/ UserStarts(t)
         \/ TabStep(t) \/ ReplaceFails(t) \/ LoseImport(t) \/ LoseSync(t) \/ CloseTab(t)
    \/ \E i \in Requests : ServerStep(i) \/ WorkerDies(i)

Spec == Init /\ [][Next]_vars

-----------------------------------------------------------------------------
(* Correctness.                                                            *)

(* The import journal is what a device decides by when a response was      *)
(* lost (publishBackupImportToCloud, resumePendingBackupImport).  A job    *)
(* that is completed names a revision that was exactly its backup and      *)
(* followed the revision it expected; one that failed for any reason but   *)
(* staleness, or that the client may send again under a new id for being   *)
(* refused, has written nothing.                                           *)
JournalTellsTruth ==
    \A i \in Imports :
      /\ job[i].status = "completed" =>
           /\ history[job[i].rev + 1] = job[i].data
           /\ job[i].rev = job[i].base + 1
      /\ job[i].status = "failed" /\ job[i].error # "BACKUP_IMPORT_STALE"
           => ~job[i].wrote

(* What the tabs and the live requests still carry.                        *)
Carried ==
    UNION {tab[t].run.data : t \in Tabs}
      \union UNION {job[i].data : i \in {r \in Requests : job[r].at \in Working}}

Explained == replaced \union uncarried \union clobbered \union overtaken

(* An edit made on the device, and the file once it was imported, is on    *)
(* the device or in the cloud or on its way, whatever was closed, lost or  *)
(* repeated.  The exceptions are all the code has.  For an edit: an import *)
(* replaces it on purpose (replaced); clearOutbox drops one that the       *)
(* backup had not (uncarried); a restore names no revision and overwrites  *)
(* one that its backup had not, as when it lands late (clobbered); a pull  *)
(* takes it from the rows when it was made while the pull ran, and an      *)
(* upload of the rows then forgets it (overtaken).  For the file: a        *)
(* restore overwrites it; the screens do not know of the link (Aware); a   *)
(* later import fails on the device and makes the link ready while this    *)
(* one waits for its upload (UploadPending); a link, which holds no mutex, *)
(* ran beside another workflow (overlapped).                               *)
EditsSurvive ==
    (1..edits) \union (IF imported /\ ~overlapped THEN File ELSE {}) \subseteq
      rows \union outbox \union parked \union cloud \union Carried \union Explained

(* The upload of the tab's request was confirmed as revision r.            *)
Uploaded(t, r) ==
    LET i == tab[t].run.id IN job[i].at # "unused" /\ history[r + 1] = job[i].data

(* The tab's import failed on the device, before anything was sent.        *)
NeverSent(t) == tab[t].run.kind = "import" /\ job[tab[t].run.id].at = "unused"

(* Sync stays away from a workspace whose upload is not confirmed ("keeps  *)
(* cloud sync blocked if that publish cannot be confirmed",                *)
(* workspace-backup.ts): a link becomes ready at the revision that the     *)
(* uploaded backup was, or (NeverSent) at the one an import began from     *)
(* that could not replace the local rows.  The second is an exception      *)
(* where an earlier import still waits for its upload (UploadPending): the *)
(* code makes the link ready all the same.                                 *)
ReadyMeansUploaded ==
    [][\A t \in Tabs :
         MarkReady(t) => \/ Uploaded(t, link'.rev)
                         \/ NeverSent(t) /\ link'.rev = tab[t].run.base]_vars

=============================================================================
