------------------------ MODULE CloudWorkspaceProofs ------------------------
(***************************************************************************)
(* Proofs about CloudWorkspace, for any number of tabs, imports, requests  *)
(* and faults: the import journal tells what happened, and a link becomes  *)
(* ready only with a revision that was the uploaded backup, or the one a   *)
(* failed import began from.  In a browser that has the workspace open in  *)
(* one window, what the user made survives until a link runs beside        *)
(* another workflow.                                                       *)
(***************************************************************************)
EXTENDS CloudWorkspace, TLAPS

Ids == Requests \union {Nothing}

Places == {"idle", "registering", "linking", "restoring", "awaiting", "clearing", "readying",
           "marking", "replacing", "publishing", "polling", "asking", "checking", "pushing",
           "fetching", "applying"}

Kinds == {"none", "link", "promotion", "local-import", "import", "resume", "sync"}

Stages == {"unused", "begin", "reserve", "restore", "finalize", "complete", "done", "refused",
           "dead"}

Errors == {"none", "SYNC_WRITE_IN_PROGRESS", "BACKUP_IMPORT_STALE",
           "BACKUP_IMPORT_REVISION_CONFLICT", "BACKUP_TOO_LARGE_FOR_ATOMIC_RESTORE"}

Links == [state : {"none", "provisioning", "ready"},
          reason : {"none", "cloud-link", "backup-import"}, pending : Ids, rev : Nat]

Runnings == [pc : Places, kind : Kinds, data : SUBSET Changes, id : Ids,
             age : Nat, base : Nat, rev : Nat]

Jobs == [at : Stages, data : SUBSET Changes, base : Nat,
         status : {"none", "applying", "failed", "completed"}, error : Errors, rev : Nat,
         wrote : BOOLEAN]

TypeInv ==
    /\ rows \subseteq Changes /\ outbox \subseteq Changes /\ cloud \subseteq Changes
    /\ link \in Links
    /\ tab \in [Tabs -> [run : Runnings, seen : Links]]
    /\ history \in Seq(SUBSET Changes) /\ Len(history) > 0
    /\ lease \in Ids
    /\ job \in [Requests -> Jobs]
    /\ edits \in 0 .. MaxEdits

(* Revision r was exactly the contents D.                                  *)
WasAt(r, D) == r + 1 <= Len(history) /\ history[r + 1] = D

(* Where request i stands, and what it has done so far.                    *)
StageInv(i) ==
    /\ job[i].at \in {"unused", "begin", "reserve", "restore", "refused"} => ~job[i].wrote
    /\ job[i].at \in {"restore", "finalize"} => lease = i
    /\ job[i].at = "finalize" => cloud = job[i].data
    /\ job[i].at \in {"complete", "done"} => WasAt(job[i].rev, job[i].data)

(* What the journal says of a restore, which has no entry, and an import.  *)
JournalInv(i) ==
    /\ i \in Posts => job[i].status = "none" /\ job[i].at \notin {"begin", "complete"}
    /\ i \in Imports =>
         /\ job[i].at \in {"unused", "begin"} => job[i].status = "none"
         /\ job[i].at \in {"reserve", "restore", "finalize", "complete"} =>
               job[i].status = "applying"
         /\ job[i].at = "done" => job[i].status = "completed"
         /\ job[i].at = "refused" => job[i].status = "failed"
         /\ job[i].at = "dead" =>
               \/ job[i].status \in {"none", "applying"}
               \/ job[i].status = "failed" /\ job[i].error = "BACKUP_IMPORT_STALE"
         /\ job[i].at \in {"restore", "finalize"} => job[i].base = Revision
         /\ job[i].at \in {"complete", "done"} => job[i].rev = job[i].base + 1

JobInv == \A i \in Requests : StageInv(i) /\ JournalInv(i)

(* Tab t holds an importId it drew, and no request came of it yet.         *)
Fresh(t) ==
    /\ tab[t].run.pc \in {"marking", "replacing", "publishing", "readying"}
    /\ tab[t].run.id \in Imports /\ job[tab[t].run.id].at = "unused"

(* What a tab knows of its request.                                        *)
RunInv(t) ==
    /\ tab[t].run.pc = "idle" => tab[t].run = Idle
    /\ \/ tab[t].run.pc \in {"marking", "publishing"}
       \/ tab[t].run.pc = "replacing" /\ tab[t].run.kind # "local-import"
       => Fresh(t)
    /\ tab[t].run.pc = "replacing" => tab[t].run.kind \in {"local-import", "import"}
    /\ tab[t].run.pc \in {"awaiting", "polling", "clearing", "readying"} =>
          tab[t].run.id \in Requests
    /\ tab[t].run.pc = "awaiting" => job[tab[t].run.id].at # "unused"
    /\ tab[t].run.pc \in {"clearing", "readying"} =>
          \/ Fresh(t) /\ tab[t].run.kind = "import" /\ tab[t].run.rev = tab[t].run.base
          \/ /\ job[tab[t].run.id].at # "unused"
             /\ WasAt(tab[t].run.rev, job[tab[t].run.id].data)

TabInv ==
    /\ \A t \in Tabs : RunInv(t)
    /\ \A t, u \in Tabs : Fresh(t) /\ Fresh(u) /\ t # u => tab[t].run.id # tab[u].run.id

CloudInv == TypeInv /\ JobInv /\ TabInv

-----------------------------------------------------------------------------
(* Types                                                                   *)

TabsType == [Tabs -> [run : Runnings, seen : Links]]

(* What may become of a tab.                                               *)
LEMMA TabTypes ==
    ASSUME TypeInv, NEW t \in Tabs
    PROVE  /\ tab[t].run \in Runnings /\ tab[t].seen \in Links
           /\ \A r \in Runnings : Continue(t, r) => tab' \in TabsType
           /\ \A pc \in Places : Goto(t, pc) => tab' \in TabsType
           /\ Throw(t) => tab' \in TabsType
           /\ \A shown \in Links : End(t, shown) => tab' \in TabsType
           /\ (Finish(t) \/ SyncEnds(t)) /\ link' \in Links => tab' \in TabsType
           /\ GiveUp(t) \/ Renew(t) => tab' \in TabsType
  <1> USE DEF TypeInv, TabsType
  <1>1. tab[t].run \in Runnings /\ tab[t].seen \in Links /\ link \in Links
    OBVIOUS
  <1>2. Idle \in Runnings
    BY DEF Idle, Runnings, Ids, Places, Kinds
  <1>3. \A r \in Runnings : Continue(t, r) => tab' \in TabsType
    BY DEF Continue
  <1>4. ASSUME NEW pc \in Places, Goto(t, pc)
        PROVE  tab' \in TabsType
    <2>1. [tab[t].run EXCEPT !.pc = pc] \in Runnings
      BY <1>1 DEF Runnings
    <2>2. tab' = [tab EXCEPT ![t].run = [tab[t].run EXCEPT !.pc = pc]]
      BY <1>4 DEF Goto
    <2> QED
      BY <2>1, <2>2
  <1>5. Throw(t) => tab' \in TabsType
    BY <1>2, <1>3 DEF Throw
  <1>6. ASSUME NEW shown \in Links, End(t, shown)
        PROVE  tab' \in TabsType
    BY <1>2, <1>6 DEF End
  <1>7. Renew(t) => tab' \in TabsType
    BY <1>1, <1>2 DEF Renew
  <1>8. (Finish(t) \/ SyncEnds(t)) /\ link' \in Links => tab' \in TabsType
    BY <1>5, <1>6 DEF Finish, SyncEnds
  <1>9. GiveUp(t) => tab' \in TabsType
    BY <1>1, <1>5, <1>6 DEF GiveUp
  <1> QED
    BY <1>1, <1>3, <1>4, <1>5, <1>6, <1>7, <1>8, <1>9

(* A step of a tab that leaves the server and the device alone.            *)
LEMMA LooseType ==
    ASSUME TypeInv, UNCHANGED <<deviceVars, serverVars, edits>>, tab' \in TabsType
    PROVE  TypeInv'
  BY DEF TypeInv, TabsType, deviceVars, serverVars, Jobs, Runnings, Links, Ids

(* Contents are sets of changes.                                          *)
LEMMA ContentTypes == TypeInv => File \subseteq Changes /\ Foreign \subseteq Changes
                                 /\ edits \in Nat /\ Revision \in Nat
  BY CloudAssumption DEF TypeInv, Changes, Revision

(* Tabs begin.                                                             *)
LEMMA StartTypes ==
    ASSUME TypeInv, NEW t \in Tabs,
           StartLink(t) \/ StartPromotion(t) \/ StartResume(t) \/ StartImport(t) \/ StartSync(t)
             \/ Reload(t) \/ CloseTab(t)
    PROVE  TypeInv'
  <1>1. link' = link /\ link' \in Links
    BY DEF TypeInv, StartLink, StartPromotion, StartResume, StartImport, StartSync, Reload,
       CloseTab, deviceVars
  <1>2. tab[t].seen \in Links /\ edits \in Nat /\ rows \subseteq Changes /\ File \subseteq Changes
        /\ Imports \subseteq Ids /\ Nothing \in Ids
    BY TabTypes, ContentTypes DEF TypeInv, Ids, Requests
  <1>3. CASE StartLink(t)
    <2>1. [Idle EXCEPT !.pc = "registering", !.kind = "link", !.data = LocalBackup]
            \in Runnings
      BY <1>2 DEF Idle, Places, Kinds, Runnings, LocalBackup
    <2> QED
      BY <1>3, <2>1, TabTypes, LooseType DEF StartLink, Start
  <1>4. CASE StartPromotion(t)
    <2>1. [Idle EXCEPT !.pc = "restoring", !.kind = "promotion", !.data = LocalBackup]
            \in Runnings
      BY <1>2 DEF Idle, Places, Kinds, Runnings, LocalBackup
    <2> QED
      BY <1>4, <2>1, TabTypes, LooseType DEF StartPromotion, Start
  <1>5. CASE StartResume(t)
    <2>1. [Idle EXCEPT !.pc = "asking", !.kind = "resume", !.data = LocalBackup,
                       !.id = tab[t].seen.pending, !.base = tab[t].seen.rev] \in Runnings
      BY <1>2 DEF Idle, Places, Kinds, Runnings, LocalBackup, Links
    <2> QED
      BY <1>5, <2>1, TabTypes, LooseType DEF StartResume, Start
  <1>6. CASE StartImport(t)
    <2>1. [Idle EXCEPT !.pc = "replacing", !.kind = "local-import", !.data = File] \in Runnings
      BY <1>2 DEF Idle, Places, Kinds, Runnings
    <2>2. \A i \in Imports : [Idle EXCEPT !.pc = "marking", !.kind = "import",
                     !.data = File, !.id = i, !.base = tab[t].seen.rev] \in Runnings
      BY <1>2 DEF Idle, Places, Kinds, Runnings, Links
    <2>3. tab' \in TabsType
      BY <1>6, <2>1, <2>2, TabTypes DEF StartImport, Start
    <2> QED
      BY <1>6, <2>3, LooseType DEF StartImport
  <1>7. CASE StartSync(t)
    <2>1. [Idle EXCEPT !.pc = "checking", !.kind = "sync"] \in Runnings
      BY <1>2 DEF Idle, Places, Kinds, Runnings
    <2> QED
      BY <1>7, <2>1, TabTypes, LooseType DEF StartSync, Start
  <1>8. CASE Reload(t) \/ CloseTab(t)
    BY <1>1, <1>8, TabTypes, LooseType DEF Reload, CloseTab
  <1> QED
    BY <1>3, <1>4, <1>5, <1>6, <1>7, <1>8

(* The rest of what a tab does to the device and the cloud link.           *)
LEMMA TabStepTypes ==
    ASSUME TypeInv, NEW t \in Tabs,
           Register(t) \/ PersistLink(t) \/ ClearOutbox(t) \/ MarkReady(t) \/ MarkProvisioning(t)
             \/ ReplaceLocal(t) \/ ReplaceFails(t) \/ LoseImport(t) \/ LoseAnswer(t) \/ Check(t)
             \/ Fetch(t) \/ ApplySnapshot(t) \/ LoseSync(t)
    PROVE  TypeInv'
  <1> DEFINE r == tab[t].run
  <1>1. r \in Runnings /\ tab[t].seen \in Links /\ link \in Links
    BY TabTypes DEF TypeInv
  <1>2. Revision \in Nat /\ edits \in Nat /\ cloud \in SUBSET Changes /\ outbox \in SUBSET Changes
    BY ContentTypes DEF TypeInv
  <1>3. \A x \in SUBSET Changes : \A n \in Nat : \A pc \in Places :
           /\ [r EXCEPT !.pc = pc, !.rev = n] \in Runnings
           /\ [r EXCEPT !.pc = pc, !.data = x, !.rev = n] \in Runnings
           /\ \A a \in Nat : [r EXCEPT !.pc = pc, !.data = x, !.age = a, !.base = n] \in Runnings
    BY <1>1 DEF Runnings
  <1> HIDE DEF r
  <1>4. CASE Register(t)
    <2>1. tab' \in TabsType
      BY <1>4, TabTypes DEF Register, Places
    <2> QED
      BY <1>4, <2>1 DEF Register, TypeInv, deviceVars, TabsType
  <1>5. CASE PersistLink(t)
    <2>1. link' \in Links
      BY <1>5 DEF PersistLink, NoLink, Links, Ids
    <2>2. tab' \in TabsType
      BY <1>5, TabTypes DEF PersistLink, Places
    <2> QED
      BY <1>5, <2>1, <2>2 DEF PersistLink, TypeInv, serverVars, TabsType
  <1>6. CASE ClearOutbox(t)
    <2>1. tab' \in TabsType
      BY <1>6, TabTypes DEF ClearOutbox, Places
    <2> QED
      BY <1>6, <2>1 DEF ClearOutbox, TypeInv, serverVars, TabsType
  <1>7. CASE MarkReady(t)
    <2>1. r.rev \in Nat
      BY <1>1 DEF Runnings
    <2>2. link' \in Links
      BY <1>7, <2>1 DEF MarkReady, ReadyAt, Links, Ids, r
    <2>3. tab' \in TabsType
      BY <1>7, <2>2, TabTypes DEF MarkReady, Places
    <2> QED
      BY <1>7, <2>2, <2>3 DEF MarkReady, TypeInv, serverVars, TabsType
  <1>8. CASE MarkProvisioning(t)
    <2>1. r.id \in Ids
      BY <1>1 DEF Runnings
    <2>2. link' \in Links
      BY <1>1, <1>8, <2>1 DEF MarkProvisioning, Links, r
    <2>3. tab' \in TabsType
      <3>1. Goto(t, "replacing") \/ Goto(t, "publishing")
        BY <1>8 DEF MarkProvisioning
      <3> QED
        BY <3>1, TabTypes DEF Places
    <2> QED
      BY <1>8, <2>2, <2>3 DEF MarkProvisioning, TypeInv, serverVars, TabsType
  <1>9. CASE ReplaceLocal(t)
    <2>1. r.data \in SUBSET Changes
      BY <1>1 DEF Runnings
    <2>2. tab' \in TabsType
      BY <1>1, <1>9, TabTypes DEF ReplaceLocal, Places
    <2> QED
      BY <1>9, <2>1, <2>2 DEF ReplaceLocal, TypeInv, serverVars, TabsType, r
  <1>10. CASE ReplaceFails(t)
    <2>1. r.base \in Nat
      BY <1>1 DEF Runnings
    <2>2. [r EXCEPT !.pc = "readying", !.rev = r.base] \in Runnings
      BY <1>3, <2>1 DEF Places
    <2>3. tab' \in TabsType
      BY <1>10, <2>2, TabTypes DEF ReplaceFails, r
    <2> QED
      BY <1>10, <2>3, LooseType DEF ReplaceFails
  <1>11. CASE LoseImport(t)
    BY <1>11, TabTypes, LooseType DEF LoseImport, Places
  <1>12. CASE LoseAnswer(t)
    <2>1. tab' \in TabsType
      BY <1>12, TabTypes DEF LoseAnswer, Places
    <2> QED
      BY <1>12, <2>1, LooseType DEF LoseAnswer
  <1>13. CASE Check(t)
    <2>1. link.rev \in Nat
      BY <1>1 DEF Links
    <2>2. [r EXCEPT !.pc = "pushing", !.data = outbox, !.age = edits, !.base = link.rev]
             \in Runnings
      BY <1>2, <1>3, <2>1 DEF Places
    <2>3. tab' \in TabsType
      BY <1>13, <2>2, TabTypes DEF Check, r
    <2> QED
      BY <1>13, <2>3, LooseType DEF Check
  <1>14. CASE Fetch(t)
    <2>1. [r EXCEPT !.pc = "applying", !.data = cloud, !.rev = Revision] \in Runnings
      BY <1>2, <1>3 DEF Places
    <2>2. tab' \in TabsType
      BY <1>14, <2>1, TabTypes DEF Fetch, r
    <2> QED
      BY <1>14, <2>2, LooseType DEF Fetch
  <1>15. CASE ApplySnapshot(t)
    <2>1. r.data \in SUBSET Changes /\ r.rev \in Nat
      BY <1>1 DEF Runnings
    <2>2. link' \in Links
      BY <1>1, <1>15, <2>1 DEF ApplySnapshot, Links, r
    <2>3. tab' \in TabsType
      BY <1>15, <2>2, TabTypes DEF ApplySnapshot
    <2> QED
      BY <1>15, <2>1, <2>2, <2>3 DEF ApplySnapshot, TypeInv, serverVars, TabsType, r
  <1>16. CASE LoseSync(t)
    BY <1>16, TabTypes, LooseType DEF LoseSync
  <1> QED
    BY <1>4, <1>5, <1>6, <1>7, <1>8, <1>9, <1>10, <1>11, <1>12, <1>13, <1>14, <1>15, <1>16

(* What may become of the journal.                                         *)
LEMMA JobTypes ==
    ASSUME TypeInv, NEW i \in Requests
    PROVE  /\ job[i] \in Jobs
           /\ \A j \in Jobs : job' = [job EXCEPT ![i] = j] => job' \in [Requests -> Jobs]
           /\ \A place \in Stages : At(i, place) => job' \in [Requests -> Jobs]
           /\ \A s : MarkStale(i, s) => job' \in [Requests -> Jobs]
           /\ \A e \in Errors : Refused(i, e) \in Jobs
           /\ NoJob \in Jobs
  <1> USE DEF TypeInv
  <1>1. job[i] \in Jobs
    OBVIOUS
  <1>2. ASSUME NEW place \in Stages, At(i, place)
        PROVE  job' \in [Requests -> Jobs]
    <2>1. [job[i] EXCEPT !.at = place] \in Jobs
      BY <1>1 DEF Jobs
    <2>2. job' = [job EXCEPT ![i] = [job[i] EXCEPT !.at = place]]
      BY <1>2 DEF At
    <2> QED
      BY <2>1, <2>2
  <1>3. ASSUME NEW s, MarkStale(i, s)
        PROVE  job' \in [Requests -> Jobs]
    <2> DEFINE j == [job[i] EXCEPT !.status = "failed", !.error = "BACKUP_IMPORT_STALE"]
    <2>1. j \in Jobs
      BY <1>1 DEF Jobs, Errors
    <2>2. job' = job \/ job' = [job EXCEPT ![i] = j]
      BY <1>3 DEF MarkStale
    <2> HIDE DEF j
    <2> QED
      BY <2>1, <2>2
  <1>4. ASSUME NEW e \in Errors
        PROVE  Refused(i, e) \in Jobs
    BY <1>1 DEF Refused, Jobs, Stages
  <1>5. NoJob \in Jobs
    BY DEF NoJob, Jobs, Stages, Errors
  <1> QED
    BY <1>1, <1>2, <1>3, <1>4, <1>5

(* A step that leaves the device and the contents of the cloud alone.      *)
LEMMA JobStepTypes ==
    ASSUME TypeInv, UNCHANGED <<deviceVars, cloud, history, edits>>, tab' \in TabsType,
           job' \in [Requests -> Jobs], lease' \in Ids
    PROVE  TypeInv'
  BY DEF TypeInv, TabsType, deviceVars, Jobs, Runnings, Links, Ids

(* Steps of a tab that speak with the server.                              *)
LEMMA AskTypes ==
    ASSUME CloudInv, NEW t \in Tabs,
           (\E i \in Posts : PostRestore(t, i)) \/ PostImport(t) \/ ReceiveAnswer(t) \/ Poll(t)
             \/ Ask(t)
    PROVE  TypeInv'
  <1> DEFINE r == tab[t].run
  <1>1. TypeInv /\ RunInv(t)
    BY DEF CloudInv, TabInv
  <1>2. r \in Runnings /\ (\A i \in Requests : job[i].rev \in Nat) /\ lease \in Ids
        /\ tab \in TabsType
    BY <1>1, TabTypes DEF TypeInv, Jobs, TabsType
  <1>3. ASSUME NEW i \in Requests, Succeed(t, job[i].rev)
        PROVE  tab' \in TabsType
    <2>1. \A pc \in Places : [r EXCEPT !.rev = job[i].rev, !.pc = pc] \in Runnings
      BY <1>2 DEF Runnings
    <2>2. Continue(t, [r EXCEPT !.rev = job[i].rev, !.pc = "clearing"])
             \/ Continue(t, [r EXCEPT !.rev = job[i].rev, !.pc = "readying"])
      BY <1>3 DEF Succeed
    <2> HIDE DEF r
    <2> QED
      BY <1>1, <2>1, <2>2, TabTypes DEF Places
  <1>4. GiveUp(t) => tab' \in TabsType
    BY <1>1, TabTypes
  <1>5. ASSUME NEW i \in Posts, PostRestore(t, i)
        PROVE  TypeInv'
    <2>1. [NoJob EXCEPT !.at = "reserve", !.data = r.data] \in Jobs
      BY <1>2 DEF NoJob, Jobs, Runnings, Stages, Errors
    <2>2. i \in Requests /\ i \in Ids
      BY DEF Requests, Ids
    <2>3. [r EXCEPT !.pc = "awaiting", !.id = i] \in Runnings
      BY <1>2, <2>2 DEF Runnings, Places
    <2>4. tab' \in TabsType
      BY <1>1, <1>5, <2>3, TabTypes DEF PostRestore
    <2>5. job' \in [Requests -> Jobs]
      BY <1>1, <1>5, <2>1, <2>2, JobTypes DEF PostRestore
    <2> QED
      BY <1>1, <1>2, <1>5, <2>4, <2>5, JobStepTypes DEF PostRestore
  <1>6. CASE PostImport(t)
    <2>1. [NoJob EXCEPT !.at = "begin", !.data = r.data, !.base = r.base] \in Jobs
      BY <1>2 DEF NoJob, Jobs, Runnings, Stages, Errors
    <2>2. r.id \in Requests
      BY <1>1, <1>6 DEF PostImport, RunInv, Fresh, Runs, Requests
    <2>3. tab' \in TabsType
      BY <1>1, <1>6, TabTypes DEF PostImport, Places
    <2>4. job' \in [Requests -> Jobs]
      BY <1>1, <1>6, <2>1, <2>2, JobTypes DEF PostImport
    <2> QED
      BY <1>1, <1>2, <1>6, <2>3, <2>4, JobStepTypes DEF PostImport
  <1>7. CASE ReceiveAnswer(t)
    <2>1. r.id \in Requests
      BY <1>1, <1>7 DEF ReceiveAnswer, RunInv, Runs
    <2>2. tab' \in TabsType
      BY <1>3, <1>4, <1>7, <2>1 DEF ReceiveAnswer
    <2> QED
      BY <1>1, <1>7, <2>2, LooseType DEF ReceiveAnswer
  <1>8. CASE Poll(t)
    <2>1. r.id \in Requests
      BY <1>1, <1>8 DEF Poll, RunInv, Runs
    <2>2. tab' \in TabsType
      BY <1>3, <1>4, <1>8, <2>1 DEF Poll
    <2>3. job' \in [Requests -> Jobs]
      BY <1>1, <1>8, <2>1, JobTypes DEF Poll
    <2> QED
      BY <1>1, <1>2, <1>8, <2>2, <2>3, JobStepTypes DEF Poll
  <1>9. CASE Ask(t)
    <2>1. r.id \in Requests \/ r.id = Nothing
      BY <1>2 DEF Runnings, Ids
    <2>2. \A n \in Imports : [r EXCEPT !.pc = "marking", !.id = n] \in Runnings
      BY <1>2 DEF Runnings, Places, Ids, Requests
    <2>3. job' \in [Requests -> Jobs]
      BY <1>1, <1>9, <2>1, JobTypes DEF Ask, TypeInv
    <2>4. \/ r.id # Nothing /\ Succeed(t, job[r.id].rev)
          \/ \E n \in Imports : Continue(t, [r EXCEPT !.pc = "marking", !.id = n])
          \/ Throw(t)
      BY <1>9 DEF Ask
    <2>5. tab' \in TabsType
      BY <1>1, <1>3, <2>1, <2>2, <2>4, TabTypes
    <2> QED
      BY <1>1, <1>2, <1>9, <2>3, <2>5, JobStepTypes DEF Ask
  <1> QED
    BY <1>5, <1>6, <1>7, <1>8, <1>9

(* Contents that are added to stay a sequence of contents.                 *)
LEMMA HistoryTypes ==
    ASSUME TypeInv, NEW x \in SUBSET Changes
    PROVE  /\ Append(history, x) \in Seq(SUBSET Changes)
           /\ Len(Append(history, x)) = Len(history) + 1
           /\ Append(history, x)[Len(history) + 1] = x
           /\ \A k \in 1 .. Len(history) : Append(history, x)[k] = history[k]
           /\ Len(history) \in Nat \ {0}
  BY DEF TypeInv

(* A push, and the settling of its results.                                *)
LEMMA PushTypes ==
    ASSUME TypeInv, NEW t \in Tabs, Push(t)
    PROVE  TypeInv'
  <1> DEFINE r == tab[t].run
  <1>1. r \in Runnings /\ link \in Links /\ cloud \in SUBSET Changes /\ outbox \in SUBSET Changes
        /\ history \in Seq(SUBSET Changes) /\ Len(history) \in Nat \ {0}
    BY TabTypes DEF TypeInv
  <1>2. r.data \in SUBSET Changes
    BY <1>1 DEF Runnings
  <1>3. /\ cloud' \in SUBSET Changes /\ outbox' \in SUBSET Changes
        /\ history' \in Seq(SUBSET Changes) /\ Len(history') \in Nat \ {0}
    <2>1. CASE history' = history
      BY <1>1, <1>2, <2>1 DEF Push, deviceVars
    <2>2. CASE history' # history
      <3>1. /\ history' = Append(history, cloud \union r.data) /\ cloud' = cloud \union r.data
            /\ outbox' = outbox \ r.data
        BY <2>2 DEF Push
      <3> QED
        BY <1>1, <1>2, <3>1, HistoryTypes
    <2> QED
      BY <2>1, <2>2
  <1>4. link' \in Links
    <2>1. link' = link \/ link' = [link EXCEPT !.rev = Len(history') - 1]
      BY DEF Push, deviceVars
    <2> QED
      BY <1>1, <1>3, <2>1 DEF Links
  <1>5. tab' \in TabsType
    <2>1. Goto(t, "fetching") \/ SyncEnds(t)
      BY DEF Push
    <2> QED
      BY <1>4, <2>1, TabTypes DEF Places
  <1>6. rows' = rows /\ UNCHANGED <<lease, job, edits>>
    BY DEF Push, deviceVars
  <1> QED
    BY <1>3, <1>4, <1>5, <1>6 DEF TypeInv, TabsType

(* The server's statements.                                                *)
LEMMA ServerTypes ==
    ASSUME TypeInv, NEW i \in Requests, ServerStep(i) \/ WorkerDies(i)
    PROVE  TypeInv'
  <1>1. tab' = tab /\ tab' \in TabsType /\ lease \in Ids /\ i \in Ids /\ Nothing \in Ids
        /\ job[i] \in Jobs /\ cloud \in SUBSET Changes
    BY JobTypes DEF TypeInv, TabsType, ServerStep, BeginJob, ReserveJob, RestoreBatch, FinalizeJob,
       CompleteJob, ForgetPost, WorkerDies, Ids
  <1>2. CASE BeginJob(i) \/ CompleteJob(i)
    <2>1. /\ [job[i] EXCEPT !.at = "reserve", !.status = "applying"] \in Jobs
          /\ [job[i] EXCEPT !.at = "done", !.status = "completed", !.error = "none"] \in Jobs
      BY <1>1 DEF Jobs, Stages, Errors
    <2>2. job' \in [Requests -> Jobs]
      <3>1. \/ job' = [job EXCEPT ![i] = [job[i] EXCEPT !.at = "reserve", !.status = "applying"]]
            \/ job' = [job EXCEPT ![i] = [job[i] EXCEPT !.at = "done", !.status = "completed",
                                                       !.error = "none"]]
        BY <1>2 DEF BeginJob, CompleteJob, TypeInv
      <3> QED
        BY <2>1, <3>1, JobTypes
    <2> QED
      BY <1>1, <1>2, <2>2, JobStepTypes DEF BeginJob, CompleteJob
  <1>3. CASE ReserveJob(i)
    <2>1. job' \in [Requests -> Jobs] /\ lease' \in Ids
      BY <1>1, <1>3, JobTypes DEF ReserveJob, Stages, Errors
    <2> QED
      BY <1>1, <1>3, <2>1, JobStepTypes DEF ReserveJob
  <1>4. CASE RestoreBatch(i)
    <2>1. /\ [job[i] EXCEPT !.at = "finalize", !.wrote = TRUE] \in Jobs
          /\ job[i].data \in SUBSET Changes
      BY <1>1 DEF Jobs, Stages
    <2>2. Refused(i, "BACKUP_TOO_LARGE_FOR_ATOMIC_RESTORE") \in Jobs
      BY JobTypes DEF Errors
    <2>3. job' \in [Requests -> Jobs] /\ cloud' \in SUBSET Changes /\ lease' \in Ids
      <3>1. \/ /\ job' = [job EXCEPT ![i] = [job[i] EXCEPT !.at = "finalize", !.wrote = TRUE]]
               /\ cloud' = job[i].data /\ lease' = lease
            \/ /\ job' = [job EXCEPT ![i] = Refused(i, "BACKUP_TOO_LARGE_FOR_ATOMIC_RESTORE")]
               /\ cloud' = cloud /\ lease' = Nothing
        BY <1>4 DEF RestoreBatch, TypeInv
      <3> QED
        BY <1>1, <2>1, <2>2, <3>1, JobTypes
    <2>4. UNCHANGED <<rows, outbox, link, history, edits>>
      BY <1>4 DEF RestoreBatch, deviceVars
    <2> QED
      BY <1>1, <2>3, <2>4 DEF TypeInv, TabsType
  <1>5. CASE FinalizeJob(i)
    <2>1. history' \in Seq(SUBSET Changes) /\ Len(history') > 0 /\ Len(history) \in Nat
      BY <1>1, <1>5, HistoryTypes DEF FinalizeJob
    <2>2. \A pc \in Stages : [job[i] EXCEPT !.rev = Len(history), !.at = pc] \in Jobs
      BY <1>1, <2>1 DEF Jobs
    <2>3. job' = [job EXCEPT ![i] = [job[i] EXCEPT !.rev = Len(history), !.at = "complete"]]
          \/ job' = [job EXCEPT ![i] = [job[i] EXCEPT !.rev = Len(history), !.at = "done"]]
      BY <1>5 DEF FinalizeJob
    <2>4. job' \in [Requests -> Jobs]
      BY <2>2, <2>3, JobTypes DEF Stages
    <2>5. UNCHANGED <<rows, outbox, link, cloud, edits>> /\ lease' = Nothing
      BY <1>5 DEF FinalizeJob, deviceVars
    <2> QED
      BY <1>1, <2>1, <2>4, <2>5 DEF TypeInv, TabsType
  <1>6. CASE ForgetPost(i)
    <2>1. job' \in [Requests -> Jobs]
      BY <1>6, JobTypes DEF ForgetPost
    <2> QED
      BY <1>1, <1>6, <2>1, JobStepTypes DEF ForgetPost
  <1>7. CASE WorkerDies(i)
    <2>1. job' \in [Requests -> Jobs]
      BY <1>7, JobTypes DEF WorkerDies, Stages
    <2> QED
      BY <1>1, <1>7, <2>1, JobStepTypes DEF WorkerDies
  <1> QED
    BY <1>2, <1>3, <1>4, <1>5, <1>6, <1>7 DEF ServerStep

(* The user, the other devices and the recovery of a lease.                *)
LEMMA OtherTypes ==
    ASSUME TypeInv, Edit \/ ForeignPush \/ RecoverLease \/ UNCHANGED vars
    PROVE  TypeInv'
  <1>1. CASE Edit
    <2>1. edits \in Nat /\ MaxEdits \in Nat /\ edits + 1 \in Changes /\ edits' = edits + 1
          /\ edits' \in 0 .. MaxEdits
      BY <1>1, ContentTypes, CloudAssumption DEF Edit, Changes, TypeInv
    <2>2. UNCHANGED <<link, tab, cloud, history, lease, job>>
      BY <1>1 DEF Edit, serverVars
    <2>3. rows' \subseteq Changes /\ outbox' \subseteq Changes
      BY <1>1, <2>1 DEF Edit, TypeInv
    <2> QED
      BY <2>1, <2>2, <2>3 DEF TypeInv
  <1>2. CASE ForeignPush
    <2>1. PICK f \in Foreign : cloud' = cloud \union {f} /\ history' = Append(history, cloud')
      BY <1>2 DEF ForeignPush
    <2>2. cloud' \in SUBSET Changes
      BY <2>1, ContentTypes DEF TypeInv
    <2>3. history' \in Seq(SUBSET Changes) /\ Len(history') > 0
      BY <2>1, <2>2, HistoryTypes
    <2>4. UNCHANGED <<rows, outbox, link, tab, lease, job, edits>>
      BY <1>2 DEF ForeignPush, deviceVars
    <2> QED
      BY <2>2, <2>3, <2>4 DEF TypeInv
  <1>3. CASE RecoverLease
    <2>1. history' \in Seq(SUBSET Changes) /\ Len(history') > 0
      BY <1>3, HistoryTypes DEF RecoverLease, TypeInv
    <2>2. UNCHANGED <<rows, outbox, link, tab, cloud, job, edits>> /\ lease' = Nothing
      BY <1>3 DEF RecoverLease, deviceVars
    <2> QED
      BY <2>1, <2>2 DEF TypeInv, Ids
  <1>4. CASE UNCHANGED vars
    BY <1>4 DEF TypeInv, vars, deviceVars, serverVars
  <1> QED
    BY <1>1, <1>2, <1>3, <1>4

(* The type invariant of the module.                                       *)
LEMMA TypeStep == CloudInv /\ [Next]_vars => TypeInv'
  <1> SUFFICES ASSUME CloudInv, [Next]_vars
               PROVE  TypeInv'
    OBVIOUS
  <1>1. TypeInv
    BY DEF CloudInv
  <1>2. ASSUME NEW t \in Tabs,
               \/ StartLink(t) \/ StartImport(t) \/ StartSync(t) \/ UserStarts(t)
               \/ TabStep(t) \/ ReplaceFails(t) \/ LoseImport(t) \/ LoseSync(t) \/ CloseTab(t)
        PROVE  TypeInv'
    BY <1>1, <1>2, StartTypes, TabStepTypes, AskTypes, PushTypes DEF UserStarts, TabStep
  <1>3. ASSUME NEW i \in Requests, ServerStep(i) \/ WorkerDies(i)
        PROVE  TypeInv'
    BY <1>1, <1>3, ServerTypes
  <1> QED
    BY <1>1, <1>2, <1>3, OtherTypes DEF Next

-----------------------------------------------------------------------------
(* The journal                                                             *)

Grown == history' = history \/ \E x \in SUBSET Changes : history' = Append(history, x)

(* What a revision was, it stays.                                          *)
LEMMA GrownKeeps ==
    ASSUME TypeInv, Grown
    PROVE  /\ Len(history) \in Nat \ {0} /\ Len(history') \in Nat /\ Len(history') >= Len(history)
           /\ \A k \in 1 .. Len(history) : history'[k] = history[k]
  BY HistoryTypes DEF Grown

(* A request no step touches stands where it stood, unless the lease or    *)
(* the cloud changes under it.                                             *)
LEMMA StageKept ==
    ASSUME CloudInv, Grown, NEW i \in Requests, job'[i] = job[i],
           job[i].at \in {"restore", "finalize"} => UNCHANGED <<lease, cloud, history>>
    PROVE  StageInv(i)' /\ JournalInv(i)'
  <1>1. StageInv(i) /\ JournalInv(i) /\ TypeInv /\ job[i].rev \in Nat
    BY DEF CloudInv, JobInv, TypeInv, Jobs
  <1>2. job[i].at \in {"complete", "done"} => WasAt(job[i].rev, job[i].data)'
    <2>1. ASSUME WasAt(job[i].rev, job[i].data)
          PROVE  WasAt(job[i].rev, job[i].data)'
      BY <1>1, <2>1, GrownKeeps DEF WasAt
    <2> QED
      BY <1>1, <2>1 DEF StageInv
  <1>3. StageInv(i)'
    BY <1>1, <1>2 DEF StageInv
  <1>4. JournalInv(i)'
    BY <1>1 DEF JournalInv, Revision
  <1> QED
    BY <1>3, <1>4

(* A step that touches no request and not the lease.                       *)
LEMMA JobsKept ==
    ASSUME CloudInv, Grown, job' = job,
           \A i \in Requests : job[i].at \in {"restore", "finalize"} =>
              UNCHANGED <<lease, cloud, history>>
    PROVE  JobInv'
  BY StageKept DEF JobInv

(* A job found stale was left by its worker, and stays so.                 *)
LEMMA StaleKeeps ==
    ASSUME CloudInv, UNCHANGED <<cloud, history, lease>>,
           NEW i \in Requests, NEW s \in StatusOf(i), MarkStale(i, s)
    PROVE  JobInv'
  <1>1. TypeInv /\ StageInv(i) /\ JournalInv(i)
    BY DEF CloudInv, JobInv
  <1>2. CASE s # "stale"
    BY <1>2, JobsKept DEF MarkStale, Grown
  <1>3. CASE s = "stale"
    <2>1. job[i].at = "dead" /\ job[i].status # "none" /\ i \in Imports
      <3>1. job[i].status # "stale"
        BY <1>1 DEF TypeInv, Jobs
      <3> QED
        BY <1>1, <1>3, <3>1 DEF StatusOf, JournalInv, Requests
    <2>2. /\ job'[i].at = "dead" /\ job'[i].status = "failed"
          /\ job'[i].error = "BACKUP_IMPORT_STALE" /\ job'[i].wrote = job[i].wrote
          /\ \A j \in Requests : j # i => job'[j] = job[j]
      BY <1>1, <1>3, <2>1 DEF MarkStale, TypeInv, Jobs
    <2>3. StageInv(i)' /\ JournalInv(i)'
      BY <1>1, <2>1, <2>2, CloudAssumption DEF StageInv, JournalInv
    <2> QED
      BY <2>2, <2>3, StageKept DEF JobInv, Grown
  <1> QED
    BY <1>2, <1>3

(* A request that arrives has done nothing yet.                            *)
LEMMA PostKeeps ==
    ASSUME CloudInv, NEW t \in Tabs, (\E i \in Posts : PostRestore(t, i)) \/ PostImport(t)
    PROVE  JobInv'
  <1>1. TypeInv
    BY DEF CloudInv
  <1>2. ASSUME NEW i \in Posts, PostRestore(t, i)
        PROVE  JobInv'
    <2>1. i \in Requests /\ i \notin Imports
      BY CloudAssumption DEF Requests
    <2>2. /\ job'[i].at = "reserve" /\ ~job'[i].wrote /\ job'[i].status = "none"
          /\ \A j \in Requests : j # i => job'[j] = job[j]
          /\ UNCHANGED <<cloud, history, lease>>
      BY <1>1, <1>2, <2>1 DEF PostRestore, TypeInv, NoJob
    <2>3. StageInv(i)' /\ JournalInv(i)'
      BY <2>1, <2>2 DEF StageInv, JournalInv
    <2> QED
      BY <2>2, <2>3, StageKept DEF JobInv, Grown
  <1>3. CASE PostImport(t)
    <2> SUFFICES ASSUME NEW i, i = tab[t].run.id
                 PROVE  JobInv'
      OBVIOUS
    <2>1. i \in Imports /\ i \in Requests /\ i \notin Posts
      BY <1>3, CloudAssumption DEF CloudInv, TabInv, RunInv, Fresh, PostImport, Runs, Requests
    <2>2. /\ job'[i].at = "begin" /\ ~job'[i].wrote /\ job'[i].status = "none"
          /\ \A j \in Requests : j # i => job'[j] = job[j]
          /\ UNCHANGED <<cloud, history, lease>>
      BY <1>1, <1>3, <2>1 DEF PostImport, TypeInv, NoJob
    <2>3. StageInv(i)' /\ JournalInv(i)'
      BY <2>1, <2>2 DEF StageInv, JournalInv
    <2> QED
      BY <2>2, <2>3, StageKept DEF JobInv, Grown
  <1> QED
    BY <1>2, <1>3

(* A request that is refused wrote nothing more.                           *)
LEMMA RefusedIs ==
    ASSUME TypeInv, NEW i \in Requests, NEW e
    PROVE  /\ Refused(i, e).at = "refused" /\ Refused(i, e).wrote = job[i].wrote
           /\ Refused(i, e).data = job[i].data
           /\ Refused(i, e).status = IF i \in Imports THEN "failed" ELSE job[i].status
  <1>1. job[i] \in Jobs
    BY DEF TypeInv
  <1> QED
    BY <1>1 DEF Refused, Jobs

(* The statements of a request: it holds the lease from its reservation to *)
(* its last write, and so the base it reserved is the current revision.    *)
LEMMA ServerKeeps ==
    ASSUME CloudInv, NEW i \in Requests, ServerStep(i) \/ WorkerDies(i)
    PROVE  JobInv'
  <1>1. TypeInv /\ StageInv(i) /\ JournalInv(i) /\ job[i] \in Jobs
        /\ \A j \in Requests : StageInv(j) /\ JournalInv(j)
    BY DEF CloudInv, JobInv, TypeInv
  <1>2. (i \in Imports /\ i \notin Posts) \/ (i \in Posts /\ i \notin Imports)
    BY CloudAssumption DEF Requests
  <1>3. i # Nothing
    BY CloudAssumption DEF Requests
  <1>4. \A j \in Requests : j # i => job'[j] = job[j]
    BY <1>1 DEF ServerStep, BeginJob, ReserveJob, RestoreBatch, FinalizeJob, CompleteJob,
       ForgetPost, WorkerDies, At, TypeInv
  <1>5. SUFFICES /\ Grown /\ StageInv(i)' /\ JournalInv(i)'
                 /\ \A j \in Requests : j # i /\ job[j].at \in {"restore", "finalize"} =>
                       UNCHANGED <<lease, cloud, history>>
    BY <1>4, StageKept DEF JobInv
  <1>6. CASE BeginJob(i)
    <2>1. /\ job'[i].at = "reserve" /\ job'[i].status = "applying" /\ job'[i].wrote = job[i].wrote
          /\ UNCHANGED <<lease, cloud, history>> /\ job[i].at = "begin"
      BY <1>1, <1>6 DEF BeginJob, TypeInv, Jobs
    <2> QED
      BY <1>1, <1>2, <2>1 DEF StageInv, JournalInv, Grown
  <1>7. CASE ReserveJob(i)
    <2>1. /\ UNCHANGED <<cloud, history>> /\ job[i].at = "reserve" /\ job'[i].wrote = job[i].wrote
          /\ \/ /\ lease' = lease /\ job'[i].at = "refused"
                /\ job'[i].status = IF i \in Imports THEN "failed" ELSE job[i].status
             \/ /\ lease = Nothing /\ lease' = i /\ job'[i].at = "restore"
                /\ job'[i].status = job[i].status /\ job'[i].base = job[i].base
                /\ i \in Imports => job[i].base = Revision
      <3>1. CASE lease = Nothing /\ BaseMatches(i)
        BY <1>1, <1>3, <1>7, <3>1 DEF ReserveJob, BaseMatches, At, TypeInv, Jobs
      <3>2. CASE ~(lease = Nothing /\ BaseMatches(i))
        <4>1. /\ \E e \in Errors : job' = [job EXCEPT ![i] = Refused(i, e)]
              /\ job[i].at = "reserve" /\ UNCHANGED <<lease, cloud, history>>
          BY <1>7, <3>2 DEF ReserveJob, Errors
        <4> QED
          BY <1>1, <4>1, RefusedIs DEF TypeInv
      <3> QED
        BY <3>1, <3>2
    <2>2. \A j \in Requests : job[j].at \in {"restore", "finalize"} => lease # Nothing
      BY <1>1, CloudAssumption DEF StageInv, Requests
    <2> QED
      BY <1>1, <1>2, <2>1, <2>2 DEF StageInv, JournalInv, Grown, Revision
  <1>8. CASE RestoreBatch(i)
    <2>1. /\ history' = history /\ job[i].at = "restore" /\ lease = i
          /\ \/ /\ lease' = Nothing /\ cloud' = cloud /\ job'[i].at = "refused"
                /\ job'[i].wrote = job[i].wrote
                /\ job'[i].status = IF i \in Imports THEN "failed" ELSE job[i].status
             \/ /\ lease' = lease /\ cloud' = job[i].data /\ job'[i].data = job[i].data
                /\ job'[i].at = "finalize" /\ job'[i].status = job[i].status
                /\ job'[i].base = job[i].base
      <3>1. job[i].at = "restore" /\ lease = i /\ history' = history
        BY <1>1, <1>8 DEF RestoreBatch, StageInv
      <3>2. CASE Fits(job[i].data)
        BY <1>1, <1>8, <3>1, <3>2 DEF RestoreBatch, TypeInv, Jobs
      <3>3. CASE ~Fits(job[i].data)
        <4>1. /\ \E e \in Errors : job' = [job EXCEPT ![i] = Refused(i, e)]
              /\ lease' = Nothing /\ cloud' = cloud
          BY <1>8, <3>3 DEF RestoreBatch, Errors
        <4> QED
          BY <1>1, <3>1, <4>1, RefusedIs DEF TypeInv
      <3> QED
        BY <3>2, <3>3
    <2>2. \A j \in Requests : j # i => job[j].at \notin {"restore", "finalize"}
      BY <1>1, <2>1 DEF StageInv
    <2> QED
      BY <1>1, <1>2, <2>1, <2>2 DEF StageInv, JournalInv, Grown, Revision
  <1>9. CASE FinalizeJob(i)
    <2>1. /\ history' = Append(history, cloud) /\ job[i].at = "finalize" /\ lease = i
          /\ job'[i].rev = Len(history) /\ job'[i].data = job[i].data /\ job[i].data = cloud
          /\ job'[i].base = job[i].base /\ job'[i].status = job[i].status
          /\ job'[i].at = IF i \in Imports THEN "complete" ELSE "done"
      BY <1>1, <1>9 DEF FinalizeJob, TypeInv, Jobs, StageInv
    <2>2. \A j \in Requests : j # i => job[j].at \notin {"restore", "finalize"}
      BY <1>1, <2>1 DEF StageInv
    <2>3. Grown /\ WasAt(job[i].rev, job[i].data)'
      BY <1>1, <2>1, HistoryTypes DEF Grown, WasAt, TypeInv
    <2>4. i \in Imports => job[i].base = Len(history) - 1
      BY <1>1, <2>1 DEF JournalInv, Revision
    <2>5. Len(history) \in Nat
      BY <1>1, GrownKeeps, <2>3
    <2>6. StageInv(i)'
      BY <2>1, <2>3 DEF StageInv
    <2>7. JournalInv(i)'
      BY <1>1, <1>2, <2>1, <2>4, <2>5 DEF JournalInv
    <2> QED
      BY <2>2, <2>3, <2>6, <2>7
  <1>10. CASE CompleteJob(i)
    <2>1. /\ UNCHANGED <<lease, cloud, history>> /\ job[i].at = "complete" /\ job'[i].at = "done"
          /\ job'[i].rev = job[i].rev /\ job'[i].data = job[i].data /\ job'[i].base = job[i].base
          /\ job'[i].status = "completed"
      BY <1>1, <1>10 DEF CompleteJob, TypeInv, Jobs
    <2> QED
      BY <1>1, <1>2, <2>1 DEF StageInv, JournalInv, Grown, WasAt
  <1>11. CASE ForgetPost(i)
    <2>1. /\ UNCHANGED <<lease, cloud, history>> /\ job'[i] = NoJob /\ i \in Posts
      BY <1>1, <1>11 DEF ForgetPost, TypeInv
    <2> QED
      BY <1>2, <2>1 DEF StageInv, JournalInv, Grown, NoJob
  <1>12. CASE WorkerDies(i)
    <2>1. /\ UNCHANGED <<lease, cloud, history>> /\ job[i].at \in Working /\ job'[i].at = "dead"
          /\ job'[i].status = job[i].status
      BY <1>1, <1>12 DEF WorkerDies, At, TypeInv, Jobs
    <2> QED
      BY <1>1, <1>2, <2>1 DEF StageInv, JournalInv, Grown, Working
  <1> QED
    BY <1>6, <1>7, <1>8, <1>9, <1>10, <1>11, <1>12 DEF ServerStep

(* A push is let in when nobody holds the lease; a lease left behind is    *)
(* one of a worker that is gone.                                           *)
LEMMA FreeKeeps ==
    ASSUME CloudInv, ForeignPush \/ RecoverLease \/ \E t \in Tabs : Push(t)
    PROVE  JobInv'
  <1>1. TypeInv /\ cloud \in SUBSET Changes /\ \A j \in Requests : StageInv(j)
    BY DEF CloudInv, JobInv, TypeInv
  <1>2. job' = job
    BY DEF ForeignPush, RecoverLease, Push
  <1>3. \A j \in Requests : job[j].at \in {"restore", "finalize"} => lease # Nothing /\ lease = j
    BY <1>1, CloudAssumption DEF StageInv, Requests
  <1>4. CASE ForeignPush
    <2>1. lease = Nothing /\ Grown
      <3>1. lease = Nothing /\ history' = Append(history, cloud')
        BY <1>4 DEF ForeignPush
      <3>2. cloud' \in SUBSET Changes
        BY <1>4, <1>1, ContentTypes DEF ForeignPush
      <3> QED
        BY <3>1, <3>2 DEF Grown
    <2> QED
      BY <1>2, <1>3, <2>1, JobsKept
  <1>5. CASE RecoverLease
    <2>1. job[lease].at = "dead" /\ history' = Append(history, cloud)
      BY <1>5 DEF RecoverLease
    <2> QED
      BY <1>1, <1>2, <1>3, <2>1, JobsKept DEF Grown
  <1>6. ASSUME NEW t \in Tabs, Push(t)
        PROVE  JobInv'
    <2>1. CASE lease = Nothing /\ history' # history
      <3>1. history' = Append(history, cloud \union tab[t].run.data)
        BY <1>6, <2>1 DEF Push
      <3>2. tab[t].run.data \in SUBSET Changes
        BY <1>1, TabTypes DEF Runnings
      <3> QED
        BY <1>1, <1>2, <1>3, <2>1, <3>1, <3>2, JobsKept DEF Grown
    <2>2. CASE history' = history
      <3>1. lease' = lease /\ (lease = Nothing \/ cloud' = cloud)
        BY <1>6 DEF Push
      <3> QED
        BY <1>2, <1>3, <2>2, <3>1, JobsKept DEF Grown
    <2>3. lease = Nothing \/ history' = history
      BY <1>6 DEF Push
    <2> QED
      BY <2>1, <2>2, <2>3
  <1> QED
    BY <1>4, <1>5, <1>6

(* What the journal says stays true.                                       *)
LEMMA JobStep == CloudInv /\ [Next]_vars => JobInv'
  <1> SUFFICES ASSUME CloudInv, [Next]_vars
               PROVE  JobInv'
    OBVIOUS
  <1>1. UNCHANGED <<cloud, history, lease, job>> => JobInv'
    BY JobsKept DEF Grown
  <1>2. CASE UNCHANGED vars \/ Edit
    BY <1>1, <1>2 DEF Edit, vars, serverVars
  <1>3. CASE ForeignPush \/ RecoverLease
    BY <1>3, FreeKeeps
  <1>4. ASSUME NEW t \in Tabs,
               \/ StartLink(t) \/ StartImport(t) \/ StartSync(t) \/ UserStarts(t)
               \/ ReplaceFails(t) \/ LoseImport(t) \/ LoseSync(t) \/ CloseTab(t)
        PROVE  JobInv'
    BY <1>1, <1>4 DEF StartLink, StartImport, StartSync, UserStarts, StartPromotion, StartResume,
       Reload, ReplaceFails, LoseImport, LoseSync, CloseTab, serverVars
  <1>5. ASSUME NEW t \in Tabs,
               \/ Register(t) \/ PersistLink(t) \/ ClearOutbox(t) \/ MarkReady(t)
               \/ MarkProvisioning(t) \/ ReplaceLocal(t) \/ ReceiveAnswer(t) \/ LoseAnswer(t)
               \/ Check(t) \/ Fetch(t) \/ ApplySnapshot(t)
        PROVE  JobInv'
    BY <1>1, <1>5 DEF Register, PersistLink, ClearOutbox, MarkReady, MarkProvisioning, ReplaceLocal,
       ReceiveAnswer, LoseAnswer, Check, Fetch, ApplySnapshot, serverVars
  <1>6. ASSUME NEW t \in Tabs, (\E i \in Posts : PostRestore(t, i)) \/ PostImport(t) \/ Push(t)
        PROVE  JobInv'
    BY <1>6, PostKeeps, FreeKeeps
  <1>7. ASSUME NEW t \in Tabs, Poll(t)
        PROVE  JobInv'
    <2>1. tab[t].run.id \in Requests /\ UNCHANGED <<cloud, history, lease>>
      BY <1>7 DEF CloudInv, TabInv, RunInv, Poll, Runs
    <2>2. \E s \in StatusOf(tab[t].run.id) : MarkStale(tab[t].run.id, s)
      BY <1>7 DEF Poll
    <2> QED
      BY <2>1, <2>2, StaleKeeps
  <1>8. ASSUME NEW t \in Tabs, Ask(t)
        PROVE  JobInv'
    <2>1. UNCHANGED <<cloud, history, lease>>
      BY <1>8 DEF Ask
    <2>2. CASE tab[t].run.id = Nothing
      <3>1. job' = job
        BY <1>8, <2>2 DEF Ask
      <3> QED
        BY <1>1, <2>1, <3>1
    <2>3. CASE tab[t].run.id # Nothing
      <3>1. tab[t].run.id \in Requests
        BY <2>3, TabTypes DEF CloudInv, Runnings, Ids
      <3>2. \E s \in StatusOf(tab[t].run.id) : MarkStale(tab[t].run.id, s)
        BY <1>8, <2>3 DEF Ask
      <3> QED
        BY <2>1, <3>1, <3>2, StaleKeeps
    <2> QED
      BY <2>2, <2>3
  <1>9. ASSUME NEW i \in Requests, ServerStep(i) \/ WorkerDies(i)
        PROVE  JobInv'
    BY <1>9, ServerKeeps
  <1> QED
    BY <1>2, <1>3, <1>4, <1>5, <1>6, <1>7, <1>8, <1>9 DEF Next, TabStep

-----------------------------------------------------------------------------
(* The tabs                                                                *)

Only(t) == \A u \in Tabs : u # t => tab'[u].run = tab[u].run

Into(t, r) == Only(t) /\ tab'[t].run = r

(* A step of a tab gives it a new run.                                     *)
LEMMA TabForms ==
    ASSUME TypeInv, NEW t \in Tabs
    PROVE  /\ \A r : Continue(t, r) => Into(t, r)
           /\ \A pc : Goto(t, pc) => Into(t, [tab[t].run EXCEPT !.pc = pc])
           /\ (Throw(t) \/ Finish(t) \/ GiveUp(t) \/ SyncEnds(t)) => Into(t, Idle)
  <1>1. DOMAIN tab = Tabs /\ DOMAIN tab[t] = {"run", "seen"}
    BY DEF TypeInv
  <1>2. \A r : Continue(t, r) => Into(t, r)
    BY <1>1 DEF Continue, Into, Only
  <1>3. \A pc : Goto(t, pc) => Into(t, [tab[t].run EXCEPT !.pc = pc])
    BY <1>1 DEF Goto, Into, Only
  <1>4. \A shown : End(t, shown) => Into(t, Idle)
    BY <1>1 DEF End, Into, Only
  <1>5. (Throw(t) \/ Finish(t) \/ GiveUp(t) \/ SyncEnds(t)) => Into(t, Idle)
    BY <1>2, <1>4 DEF Throw, Finish, GiveUp, SyncEnds
  <1> QED
    BY <1>2, <1>3, <1>5

(* A request that is under way stays so, with its backup.                  *)
Steady(i) == job[i].at # "unused" => job'[i].at # "unused" /\ job'[i].data = job[i].data

(* A tab that does not move loses nothing by such a step.                  *)
LEMMA OthersKeep ==
    ASSUME CloudInv, Grown, NEW u \in Tabs, tab'[u].run = tab[u].run,
           tab[u].run.id \in Requests => Steady(tab[u].run.id),
           Fresh(u) => job'[tab[u].run.id].at = "unused"
    PROVE  RunInv(u)' /\ (Fresh(u)' <=> Fresh(u))
  <1>1. TypeInv /\ RunInv(u) /\ tab[u].run.rev \in Nat
    BY TabTypes DEF CloudInv, TabInv, Runnings
  <1>2. Fresh(u)' <=> Fresh(u)
    BY DEF Fresh, Steady, Requests
  <1>3. ASSUME NEW i \in Requests, WasAt(tab[u].run.rev, job[i].data), job'[i].data = job[i].data
        PROVE  WasAt(tab[u].run.rev, job[i].data)'
    BY <1>1, <1>3, GrownKeeps DEF WasAt
  <1>4. RunInv(u)'
    <2>1. tab[u].run.pc \in {"clearing", "readying"} =>
             \/ Fresh(u)' /\ tab[u].run.kind = "import" /\ tab[u].run.rev = tab[u].run.base
             \/ /\ job'[tab[u].run.id].at # "unused"
                /\ WasAt(tab[u].run.rev, job[tab[u].run.id].data)'
      BY <1>1, <1>2, <1>3 DEF RunInv, Steady
    <2> QED
      BY <1>1, <1>2, <2>1 DEF RunInv, Steady
  <1> QED
    BY <1>2, <1>4

(* A tab moves: it holds the importId it held, or one no tab holds.        *)
LEMMA MoveKeeps ==
    ASSUME CloudInv, Grown, NEW t \in Tabs, Only(t),
           \A u \in Tabs : u # t =>
              /\ tab[u].run.id \in Requests => Steady(tab[u].run.id)
              /\ Fresh(u) => job'[tab[u].run.id].at = "unused",
           RunInv(t)',
           Fresh(t)' => \/ Fresh(t) /\ tab'[t].run.id = tab[t].run.id
                        \/ \A u \in Tabs : tab[u].run.id # tab'[t].run.id
    PROVE  TabInv'
  <1>1. \A u \in Tabs : u # t => RunInv(u)' /\ (Fresh(u)' => Fresh(u)) /\ tab'[u].run = tab[u].run
    BY OthersKeep DEF Only
  <1>2. ASSUME NEW u \in Tabs, NEW v \in Tabs, Fresh(u)', Fresh(v)', u # v
        PROVE  tab'[u].run.id # tab'[v].run.id
    <2>1. \A x, y \in Tabs : Fresh(x) /\ Fresh(y) /\ x # y => tab[x].run.id # tab[y].run.id
      BY DEF CloudInv, TabInv
    <2> QED
      BY <1>1, <1>2, <2>1
  <1> QED
    BY <1>1, <1>2 DEF TabInv

(* The usual case: nobody's request is disturbed.                          *)
LEMMA QuietMove ==
    ASSUME CloudInv, Grown, NEW t \in Tabs, Only(t),
           \A i \in Requests : job'[i].at = job[i].at /\ job'[i].data = job[i].data,
           RunInv(t)',
           Fresh(t)' => \/ Fresh(t) /\ tab'[t].run.id = tab[t].run.id
                        \/ \A u \in Tabs : tab[u].run.id # tab'[t].run.id
    PROVE  TabInv'
  <1>1. \A u \in Tabs : u # t =>
              /\ tab[u].run.id \in Requests => Steady(tab[u].run.id)
              /\ Fresh(u) => job'[tab[u].run.id].at = "unused"
    BY DEF Steady, Fresh, Requests
  <1> QED
    BY <1>1, MoveKeeps

(* A tab goes where it waits for nothing.                                  *)
LEMMA AwayKeeps ==
    ASSUME CloudInv, Grown, NEW t \in Tabs, NEW r, Into(t, r),
           \A i \in Requests : job'[i].at = job[i].at /\ job'[i].data = job[i].data,
           \/ r = Idle
           \/ r.pc \in {"registering", "linking", "restoring", "asking", "checking",
                        "pushing", "fetching", "applying"}
           \/ r.pc = "replacing" /\ r.kind = "local-import" /\ r.id = Nothing
    PROVE  TabInv'
  <1>0. Idle.pc = "idle"
    BY DEF Idle
  <1>1. tab'[t].run = r /\ Only(t)
    BY DEF Into
  <1>2. ~Fresh(t)'
    BY <1>0, <1>1, CloudAssumption DEF Fresh
  <1>3. RunInv(t)'
    BY <1>1, <1>0 DEF RunInv
  <1> QED
    BY <1>1, <1>2, <1>3, QuietMove

(* What happens elsewhere, or to a tab that goes.                          *)
LEMMA ElsewhereKeeps ==
    ASSUME CloudInv, Grown,
           \A u \in Tabs : tab'[u].run = tab[u].run \/ tab'[u].run = Idle,
           \A i \in Requests : \/ job'[i].data = job[i].data
                                  /\ (job[i].at = "unused" <=> job'[i].at = "unused")
                               \/ i \in Posts /\ \A u \in Tabs : tab[u].run.id # i
    PROVE  TabInv'
  <1>1. ASSUME NEW u \in Tabs
        PROVE  RunInv(u)' /\ (Fresh(u)' => Fresh(u) /\ tab'[u].run = tab[u].run)
    <2>1. CASE tab'[u].run = tab[u].run
      <3>1. /\ tab[u].run.id \in Requests => Steady(tab[u].run.id)
            /\ Fresh(u) => job'[tab[u].run.id].at = "unused"
        BY DEF Steady, Fresh, Requests
      <3> QED
        BY <2>1, <3>1, OthersKeep
    <2>2. CASE tab'[u].run = Idle
      BY <2>2 DEF RunInv, Fresh, Idle
    <2> QED
      BY <2>1, <2>2
  <1>2. ASSUME NEW u \in Tabs, NEW v \in Tabs, Fresh(u)', Fresh(v)', u # v
        PROVE  tab'[u].run.id # tab'[v].run.id
    <2>1. \A x, y \in Tabs : Fresh(x) /\ Fresh(y) /\ x # y => tab[x].run.id # tab[y].run.id
      BY DEF CloudInv, TabInv
    <2> QED
      BY <1>1, <1>2, <2>1
  <1> QED
    BY <1>1, <1>2 DEF TabInv

(* A tab begins.                                                           *)
LEMMA StartKeeps ==
    ASSUME CloudInv, NEW t \in Tabs,
           StartLink(t) \/ StartPromotion(t) \/ StartResume(t) \/ StartImport(t) \/ StartSync(t)
             \/ Reload(t) \/ CloseTab(t)
    PROVE  TabInv'
  <1>1. TypeInv
    BY DEF CloudInv
  <1>2. Grown /\ job' = job
    BY DEF StartLink, StartPromotion, StartResume, StartImport, StartSync, Reload, CloseTab,
           serverVars, Grown
  <1>3. ASSUME NEW r, Into(t, r),
               r.pc \in {"registering", "restoring", "asking", "checking"}
        PROVE  TabInv'
    BY <1>2, <1>3, AwayKeeps
  <1>4. CASE StartLink(t)
    <2> DEFINE r == [Idle EXCEPT !.pc = "registering", !.kind = "link", !.data = LocalBackup]
    <2>1. r.pc = "registering"
      BY DEF Idle
    <2>2. Into(t, r)
      BY <1>1, <1>4, TabForms DEF StartLink, Start
    <2> QED
      BY <1>3, <2>1, <2>2
  <1>5. CASE StartPromotion(t)
    <2> DEFINE r == [Idle EXCEPT !.pc = "restoring", !.kind = "promotion", !.data = LocalBackup]
    <2>1. r.pc = "restoring"
      BY DEF Idle
    <2>2. Into(t, r)
      BY <1>1, <1>5, TabForms DEF StartPromotion, Start
    <2> QED
      BY <1>3, <2>1, <2>2
  <1>6. CASE StartResume(t)
    <2> DEFINE r == [Idle EXCEPT !.pc = "asking", !.kind = "resume", !.data = LocalBackup,
                       !.id = tab[t].seen.pending, !.base = tab[t].seen.rev]
    <2>1. r.pc = "asking"
      BY DEF Idle
    <2>2. Into(t, r)
      BY <1>1, <1>6, TabForms DEF StartResume, Start
    <2> QED
      BY <1>3, <2>1, <2>2
  <1>7. CASE StartSync(t)
    <2> DEFINE r == [Idle EXCEPT !.pc = "checking", !.kind = "sync"]
    <2>1. r.pc = "checking"
      BY DEF Idle
    <2>2. Into(t, r)
      BY <1>1, <1>7, TabForms DEF StartSync, Start
    <2> QED
      BY <1>3, <2>1, <2>2
  <1>8. CASE Reload(t) \/ CloseTab(t)
    <2>1. Renew(t) /\ \A i \in Requests : job'[i].data = job[i].data
                                            /\ (job[i].at = "unused" <=> job'[i].at = "unused")
      BY <1>2, <1>8 DEF Reload, CloseTab
    <2>2. \A u \in Tabs : tab'[u].run = tab[u].run \/ tab'[u].run = Idle
      BY <2>1 DEF Renew
    <2> QED
      BY <1>2, <2>1, <2>2, ElsewhereKeeps
  <1>9. CASE StartImport(t)
    <2>1. CASE tab[t].seen.state = "none"
      <3> DEFINE r == [Idle EXCEPT !.pc = "replacing", !.kind = "local-import", !.data = File]
      <3>1. r.pc = "replacing" /\ r.kind = "local-import" /\ r.id = Nothing
        BY DEF Idle
      <3>2. Into(t, r)
        BY <1>1, <1>9, <2>1, TabForms DEF StartImport, Start
      <3> HIDE DEF r
      <3> QED
        BY <1>2, <3>1, <3>2, AwayKeeps
    <2>2. CASE tab[t].seen.state # "none"
      <3> DEFINE r(i) == [Idle EXCEPT !.pc = "marking", !.kind = "import", !.data = File, !.id = i,
                                      !.base = tab[t].seen.rev]
      <3>1. PICK i \in Imports : Unused(i) /\ Continue(t, r(i))
        BY <1>9, <2>2 DEF StartImport, Start
      <3>2. r(i).pc = "marking" /\ r(i).id = i
        BY DEF Idle
      <3>3. Into(t, r(i))
        BY <1>1, <3>1, TabForms
      <3> HIDE DEF r
      <3>4. Only(t) /\ tab'[t].run.pc = "marking" /\ tab'[t].run.id = i
        BY <3>2, <3>3 DEF Into
      <3>5. RunInv(t)'
        BY <1>2, <3>1, <3>4 DEF RunInv, Fresh, Unused, Requests
      <3>6. \A u \in Tabs : tab[u].run.id # tab'[t].run.id
        BY <3>1, <3>4 DEF Unused
      <3> QED
        BY <1>2, <3>4, <3>5, <3>6, QuietMove
    <2> QED
      BY <2>1, <2>2
  <1> QED
    BY <1>4, <1>5, <1>6, <1>7, <1>8, <1>9

Away == {"registering", "linking", "restoring", "asking", "checking", "pushing", "fetching",
         "applying"}

(* A tab gives up, finishes or goes where it waits for nothing.            *)
LEMMA GoesAway ==
    ASSUME CloudInv, Grown, NEW t \in Tabs,
           \A i \in Requests : job'[i].at = job[i].at /\ job'[i].data = job[i].data,
           Throw(t) \/ Finish(t) \/ GiveUp(t) \/ SyncEnds(t) \/ \E pc \in Away : Goto(t, pc)
    PROVE  TabInv'
  <1>1. tab[t].run \in Runnings /\ TypeInv
    BY TabTypes DEF CloudInv
  <1>2. ASSUME NEW pc \in Away, Goto(t, pc)
        PROVE  TabInv'
    <2>1. [tab[t].run EXCEPT !.pc = pc].pc = pc
      BY <1>1 DEF Runnings
    <2>2. Into(t, [tab[t].run EXCEPT !.pc = pc])
      BY <1>1, <1>2, TabForms
    <2> QED
      BY <1>2, <2>1, <2>2, AwayKeeps DEF Away
  <1>3. CASE Throw(t) \/ Finish(t) \/ GiveUp(t) \/ SyncEnds(t)
    <2>1. Into(t, Idle)
      BY <1>1, <1>3, TabForms
    <2> QED
      BY <2>1, AwayKeeps
  <1> QED
    BY <1>2, <1>3

(* What a push adds to the revisions.                                      *)
LEMMA PushGrows == ASSUME TypeInv, NEW t \in Tabs, Push(t) PROVE Grown
  <1>1. cloud \union tab[t].run.data \in SUBSET Changes
    BY TabTypes DEF TypeInv, Runnings
  <1>2. history' = history \/ history' = Append(history, cloud \union tab[t].run.data)
    BY DEF Push
  <1> QED
    BY <1>1, <1>2 DEF Grown

(* The steps of a link and of a synchronisation.                           *)
LEMMA LinkKeeps ==
    ASSUME CloudInv, NEW t \in Tabs,
           Register(t) \/ PersistLink(t) \/ MarkReady(t) \/ Check(t) \/ Push(t) \/ Fetch(t)
             \/ ApplySnapshot(t) \/ LoseSync(t)
    PROVE  TabInv'
  <1>1. TypeInv /\ tab[t].run \in Runnings
    BY TabTypes DEF CloudInv
  <1>2. job' = job /\ Grown
    <2>1. job' = job /\ (history' = history \/ Push(t))
      BY DEF Register, PersistLink, MarkReady, Check, Push, Fetch, ApplySnapshot, LoseSync, serverVars
    <2> QED
      BY <1>1, <2>1, PushGrows DEF Grown
  <1>3. CASE Throw(t) \/ Finish(t) \/ SyncEnds(t) \/ \E pc \in Away : Goto(t, pc)
    BY <1>2, <1>3, GoesAway
  <1>4. ASSUME NEW r, Continue(t, r), r.pc \in Away
        PROVE  TabInv'
    <2>1. Into(t, r)
      BY <1>1, <1>4, TabForms
    <2> QED
      BY <1>2, <1>4, <2>1, AwayKeeps DEF Away
  <1>5. CASE Register(t) \/ PersistLink(t) \/ MarkReady(t) \/ Push(t) \/ ApplySnapshot(t)
            \/ LoseSync(t)
    BY <1>3, <1>5 DEF Register, PersistLink, MarkReady, Push, ApplySnapshot, LoseSync, Away
  <1>6. CASE Check(t)
    <2> DEFINE r == [tab[t].run EXCEPT !.pc = "pushing", !.data = outbox, !.age = edits,
                                       !.base = link.rev]
    <2>1. r.pc = "pushing"
      BY <1>1 DEF Runnings
    <2>2. Continue(t, r) \/ Throw(t)
      BY <1>6 DEF Check
    <2> QED
      BY <1>3, <1>4, <2>1, <2>2 DEF Away
  <1>7. CASE Fetch(t)
    <2> DEFINE r == [tab[t].run EXCEPT !.pc = "applying", !.data = cloud, !.rev = Revision]
    <2>1. r.pc = "applying"
      BY <1>1 DEF Runnings
    <2>2. Continue(t, r) \/ Throw(t)
      BY <1>7 DEF Fetch
    <2> QED
      BY <1>3, <1>4, <2>1, <2>2 DEF Away
  <1> QED
    BY <1>5, <1>6, <1>7

(* A tab that goes on with the same request.                               *)
LEMMA GoesOn ==
    ASSUME CloudInv, NEW t \in Tabs, NEW pc, Goto(t, pc)
    PROVE  /\ Only(t) /\ tab'[t].run.pc = pc
           /\ tab'[t].run.id = tab[t].run.id /\ tab'[t].run.rev = tab[t].run.rev
           /\ tab'[t].run.kind = tab[t].run.kind /\ tab'[t].run.base = tab[t].run.base
  <1>1. tab[t].run \in Runnings /\ Into(t, [tab[t].run EXCEPT !.pc = pc])
    BY TabTypes, TabForms DEF CloudInv
  <1> QED
    BY <1>1 DEF Into, Runnings

(* The steps of an import on the device, and answers that are lost.        *)
LEMMA DeviceKeeps ==
    ASSUME CloudInv, NEW t \in Tabs,
           ClearOutbox(t) \/ MarkProvisioning(t) \/ ReplaceLocal(t) \/ ReplaceFails(t)
             \/ LoseImport(t) \/ LoseAnswer(t)
    PROVE  TabInv'
  <1>1. TypeInv /\ tab[t].run \in Runnings /\ RunInv(t)
    BY TabTypes DEF CloudInv, TabInv
  <1>2. job' = job /\ Grown /\ history' = history
    BY DEF ClearOutbox, MarkProvisioning, ReplaceLocal, ReplaceFails, LoseImport, LoseAnswer,
           serverVars, Grown
  <1>3. Throw(t) \/ Finish(t) => TabInv'
    BY <1>2, GoesAway
  <1>4. CASE ClearOutbox(t)
    <2>1. Only(t) /\ tab'[t].run.pc = "readying" /\ tab'[t].run.id = tab[t].run.id
          /\ tab'[t].run.rev = tab[t].run.rev /\ tab[t].run.pc = "clearing"
      BY <1>4, GoesOn DEF ClearOutbox, Runs
    <2>2. RunInv(t)' /\ ~Fresh(t)'
      BY <1>1, <1>2, <2>1 DEF RunInv, Fresh, WasAt
    <2> QED
      BY <1>2, <2>1, <2>2, QuietMove
  <1>5. ASSUME Fresh(t), Only(t), tab'[t].run.id = tab[t].run.id,
               tab'[t].run.pc \in {"marking", "replacing", "publishing", "readying"},
               tab'[t].run.pc \in {"replacing", "readying"} => tab'[t].run.kind = "import",
               tab'[t].run.pc = "readying" => tab'[t].run.rev = tab'[t].run.base
        PROVE  TabInv'
    <2>1. Fresh(t)' /\ RunInv(t)'
      BY <1>2, <1>5 DEF RunInv, Fresh, Requests
    <2> QED
      BY <1>2, <1>5, <2>1, QuietMove
  <1>6. CASE MarkProvisioning(t)
    <2>1. Fresh(t) /\ \/ Goto(t, "replacing") /\ tab[t].run.kind = "import"
                      \/ Goto(t, "publishing")
      BY <1>1, <1>6 DEF MarkProvisioning, RunInv, Runs
    <2> QED
      BY <1>5, <2>1, GoesOn
  <1>7. CASE ReplaceLocal(t)
    <2>1. CASE tab[t].run.kind = "local-import"
      BY <1>3, <1>7, <2>1 DEF ReplaceLocal
    <2>2. CASE tab[t].run.kind # "local-import"
      <3>1. Fresh(t) /\ Goto(t, "publishing")
        BY <1>1, <1>7, <2>2 DEF ReplaceLocal, RunInv, Runs
      <3> QED
        BY <1>5, <3>1, GoesOn
    <2> QED
      BY <2>1, <2>2
  <1>8. CASE ReplaceFails(t)
    <2>1. CASE tab[t].run.kind = "local-import"
      BY <1>3, <1>8, <2>1 DEF ReplaceFails
    <2>2. CASE tab[t].run.kind # "local-import"
      <3> DEFINE r == [tab[t].run EXCEPT !.pc = "readying", !.rev = tab[t].run.base]
      <3>1. r.pc = "readying" /\ r.id = tab[t].run.id /\ r.rev = r.base
            /\ r.kind = tab[t].run.kind
        BY <1>1 DEF Runnings
      <3>2. Fresh(t) /\ Into(t, r) /\ tab[t].run.kind = "import"
        BY <1>1, <1>8, <2>2, TabForms DEF ReplaceFails, RunInv, Runs
      <3> HIDE DEF r
      <3> QED
        BY <1>5, <3>1, <3>2 DEF Into
    <2> QED
      BY <2>1, <2>2
  <1>9. ASSUME Goto(t, "polling"), tab[t].run.id \in Requests
        PROVE  TabInv'
    <2>1. Only(t) /\ tab'[t].run.pc = "polling" /\ tab'[t].run.id = tab[t].run.id
      BY <1>9, GoesOn
    <2>2. RunInv(t)' /\ ~Fresh(t)'
      BY <1>9, <2>1 DEF RunInv, Fresh
    <2> QED
      BY <1>2, <2>1, <2>2, QuietMove
  <1>10. CASE LoseImport(t)
    BY <1>1, <1>9, <1>10 DEF LoseImport, RunInv, Fresh, Runs, Requests
  <1>11. CASE LoseAnswer(t)
    BY <1>1, <1>3, <1>9, <1>11 DEF LoseAnswer, RunInv, Runs
  <1> QED
    BY <1>4, <1>6, <1>7, <1>8, <1>10, <1>11

(* A request of a tab arrives: no other tab holds its id, or it is one of  *)
(* a restore.                                                              *)
LEMMA PostMoves ==
    ASSUME CloudInv, NEW t \in Tabs, (\E i \in Posts : PostRestore(t, i)) \/ PostImport(t)
    PROVE  TabInv'
  <1>1. TypeInv /\ tab[t].run \in Runnings /\ RunInv(t)
    BY TabTypes DEF CloudInv, TabInv
  <1>2. history' = history /\ Grown
    BY DEF PostRestore, PostImport, Grown
  <1>3. SUFFICES ASSUME NEW i \in Requests, job[i].at = "unused", job'[i].at # "unused",
                        \A j \in Requests : j # i => job'[j] = job[j],
                        Only(t), tab'[t].run.pc = "awaiting", tab'[t].run.id = i,
                        \A u \in Tabs : u # t /\ Fresh(u) => tab[u].run.id # i
                 PROVE  TabInv'
    <2>1. ASSUME NEW i \in Posts, PostRestore(t, i)
          PROVE  TabInv'
      <3> DEFINE r == [tab[t].run EXCEPT !.pc = "awaiting", !.id = i]
      <3>1. Into(t, r) /\ r.pc = "awaiting" /\ r.id = i
        BY <1>1, <2>1, TabForms DEF PostRestore, Runnings
      <3> HIDE DEF r
      <3>2. i \in Requests /\ i \notin Imports
        BY CloudAssumption DEF Requests
      <3>3. job[i].at = "unused" /\ job'[i].at = "reserve"
            /\ \A j \in Requests : j # i => job'[j] = job[j]
        BY <1>1, <2>1, <3>2 DEF PostRestore, TypeInv, NoJob
      <3> QED
        BY <1>3, <3>1, <3>2, <3>3 DEF Into, Fresh
    <2>2. CASE PostImport(t)
      <3> SUFFICES ASSUME NEW i, i = tab[t].run.id
                   PROVE  TabInv'
        OBVIOUS
      <3>1. Fresh(t) /\ i \in Requests /\ Goto(t, "awaiting")
        BY <1>1, <2>2 DEF PostImport, RunInv, Runs, Fresh, Requests
      <3>2. job[i].at = "unused" /\ job'[i].at = "begin"
            /\ \A j \in Requests : j # i => job'[j] = job[j]
        BY <1>1, <2>2, <3>1 DEF PostImport, TypeInv, NoJob, Fresh
      <3>3. \A u \in Tabs : u # t /\ Fresh(u) => tab[u].run.id # i
        BY <3>1 DEF CloudInv, TabInv
      <3>4. Only(t) /\ tab'[t].run.pc = "awaiting" /\ tab'[t].run.id = i
        BY <3>1, GoesOn
      <3> QED
        BY <1>3, <3>1, <3>2, <3>3, <3>4
    <2> QED
      BY <2>1, <2>2
  <1>4. \A u \in Tabs : u # t =>
              /\ tab[u].run.id \in Requests => Steady(tab[u].run.id)
              /\ Fresh(u) => job'[tab[u].run.id].at = "unused"
    BY <1>3 DEF Steady, Fresh, Requests
  <1>5. RunInv(t)' /\ ~Fresh(t)'
    BY <1>3 DEF RunInv, Fresh
  <1> QED
    BY <1>2, <1>3, <1>4, <1>5, MoveKeeps

(* The outcome of a request is known: the revision it names is its backup. *)
LEMMA OutcomeKeeps ==
    ASSUME CloudInv, Grown, NEW t \in Tabs, NEW i \in Requests, i = tab[t].run.id,
           job[i].at = "done", Succeed(t, job[i].rev),
           \A j \in Requests : job'[j].at = job[j].at /\ job'[j].data = job[j].data
    PROVE  TabInv'
  <1>1. TypeInv /\ tab[t].run \in Runnings /\ job[i].rev \in Nat /\ WasAt(job[i].rev, job[i].data)
    BY TabTypes DEF CloudInv, JobInv, StageInv, TypeInv, Jobs
  <1>2. Only(t) /\ tab'[t].run.pc \in {"clearing", "readying"} /\ tab'[t].run.id = i
        /\ tab'[t].run.rev = job[i].rev
    <2> DEFINE r(pc) == [tab[t].run EXCEPT !.rev = job[i].rev, !.pc = pc]
    <2>1. \A pc : r(pc).pc = pc /\ r(pc).id = i /\ r(pc).rev = job[i].rev
      BY <1>1 DEF Runnings
    <2>2. Continue(t, r("clearing")) \/ Continue(t, r("readying"))
      BY DEF Succeed
    <2>3. Into(t, r("clearing")) \/ Into(t, r("readying"))
      BY <1>1, <2>2, TabForms
    <2> HIDE DEF r
    <2> QED
      BY <2>1, <2>3 DEF Into
  <1>3. ASSUME NEW n \in Nat, NEW D, WasAt(n, D)
        PROVE  n + 1 <= Len(history') /\ history'[n + 1] = D
    BY <1>1, <1>3, GrownKeeps DEF WasAt
  <1>4. WasAt(tab[t].run.rev, job[tab[t].run.id].data)'
    BY <1>1, <1>2, <1>3 DEF WasAt
  <1>5. RunInv(t)' /\ ~Fresh(t)'
    BY <1>2, <1>4 DEF RunInv, Fresh
  <1> QED
    BY <1>2, <1>5, QuietMove

(* What the journal calls completed is done.                               *)
LEMMA CompletedIsDone ==
    ASSUME CloudInv, NEW i \in Requests, "completed" \in StatusOf(i)
    PROVE  job[i].at = "done"
  <1>1. job[i].status = "completed" /\ JournalInv(i) /\ job[i].at \in Stages
    BY DEF StatusOf, CloudInv, JobInv, TypeInv, Jobs
  <1> QED
    BY <1>1 DEF JournalInv, Requests, Stages

(* A status request moves no request and takes no backup from it.          *)
LEMMA StaleMoves ==
    ASSUME CloudInv, NEW i \in Requests, NEW s, MarkStale(i, s)
    PROVE  \A j \in Requests : job'[j].at = job[j].at /\ job'[j].data = job[j].data
  <1>1. job \in [Requests -> Jobs]
    BY DEF CloudInv, TypeInv
  <1> QED
    BY <1>1 DEF MarkStale, Jobs

(* An answer arrives, or the client asks for one.                          *)
LEMMA AnswerKeeps ==
    ASSUME CloudInv, NEW t \in Tabs, ReceiveAnswer(t) \/ Poll(t) \/ Ask(t)
    PROVE  TabInv'
  <1> SUFFICES ASSUME NEW i, i = tab[t].run.id
               PROVE  TabInv'
    OBVIOUS
  <1>1. TypeInv /\ tab[t].run \in Runnings /\ RunInv(t) /\ i \in Ids
    BY TabTypes DEF CloudInv, TabInv, Runnings
  <1>2. Grown
    BY DEF ReceiveAnswer, Poll, Ask, serverVars, Grown
  <1>3. CASE ReceiveAnswer(t)
    <2>1. i \in Requests /\ job' = job
      BY <1>1, <1>3 DEF ReceiveAnswer, RunInv, Runs, serverVars
    <2>2. (job[i].at = "done" /\ Succeed(t, job[i].rev)) \/ GiveUp(t)
      BY <1>3 DEF ReceiveAnswer
    <2> QED
      BY <1>2, <2>1, <2>2, OutcomeKeeps, GoesAway
  <1>4. CASE Poll(t)
    <2>1. i \in Requests
      BY <1>1, <1>4 DEF Poll, RunInv, Runs
    <2>2. PICK s \in StatusOf(i) :
             MarkStale(i, s) /\ ((s = "completed" /\ Succeed(t, job[i].rev)) \/ GiveUp(t))
      BY <1>4 DEF Poll, PollConfirms
    <2>3. \A j \in Requests : job'[j].at = job[j].at /\ job'[j].data = job[j].data
      BY <2>1, <2>2, StaleMoves
    <2>4. s = "completed" => job[i].at = "done"
      BY <2>1, CompletedIsDone
    <2> QED
      BY <1>2, <2>1, <2>2, <2>3, <2>4, OutcomeKeeps, GoesAway
  <1>5. CASE Ask(t)
    <2>1. \A j \in Requests : job'[j].at = job[j].at /\ job'[j].data = job[j].data
      <3>1. CASE i = Nothing
        BY <1>5, <3>1 DEF Ask
      <3>2. CASE i # Nothing
        <4>1. i \in Requests /\ \E s : MarkStale(i, s)
          BY <1>1, <1>5, <3>2 DEF Ask, Ids
        <4> QED
          BY <4>1, StaleMoves
      <3> QED
        BY <3>1, <3>2
    <2>2. ASSUME Throw(t)
          PROVE  TabInv'
      BY <1>2, <2>1, <2>2, GoesAway
    <2>3. ASSUME i # Nothing, "completed" \in StatusOf(i), Succeed(t, job[i].rev)
          PROVE  TabInv'
      <3>1. i \in Requests
        BY <1>1, <2>3 DEF Ids
      <3> QED
        BY <1>2, <2>1, <2>3, <3>1, CompletedIsDone, OutcomeKeeps
    <2>4. ASSUME NEW n \in Imports, Unused(n),
                 Continue(t, [tab[t].run EXCEPT !.pc = "marking", !.id = n])
          PROVE  TabInv'
      <3> DEFINE r == [tab[t].run EXCEPT !.pc = "marking", !.id = n]
      <3>1. r.pc = "marking" /\ r.id = n /\ Into(t, r)
        BY <1>1, <2>4, TabForms DEF Runnings
      <3> HIDE DEF r
      <3>2. Only(t) /\ tab'[t].run.pc = "marking" /\ tab'[t].run.id = n
        BY <3>1 DEF Into
      <3>3. RunInv(t)'
        BY <2>1, <2>4, <3>2 DEF RunInv, Fresh, Unused, Requests
      <3>4. \A u \in Tabs : tab[u].run.id # tab'[t].run.id
        BY <2>4, <3>2 DEF Unused
      <3> QED
        BY <1>2, <2>1, <3>2, <3>3, <3>4, QuietMove
    <2>5. \/ i # Nothing /\ "completed" \in StatusOf(i) /\ Succeed(t, job[i].rev)
          \/ \E n \in Imports :
                Unused(n) /\ Continue(t, [tab[t].run EXCEPT !.pc = "marking", !.id = n])
          \/ Throw(t)
      BY <1>5 DEF Ask
    <2> QED
      BY <2>2, <2>3, <2>4, <2>5
  <1> QED
    BY <1>3, <1>4, <1>5

(* Every step keeps what the tabs know.                                    *)
LEMMA TabStepKeeps == CloudInv /\ [Next]_vars => TabInv'
  <1> SUFFICES ASSUME CloudInv, [Next]_vars
               PROVE  TabInv'
    OBVIOUS
  <1>1. TypeInv
    BY DEF CloudInv
  <1>2. CASE Edit \/ UNCHANGED vars
    BY <1>2, ElsewhereKeeps DEF Edit, vars, serverVars, Grown
  <1>3. CASE ForeignPush \/ RecoverLease
    <2>1. Grown
      <3>1. CASE ForeignPush
        <4>1. cloud' \in SUBSET Changes /\ history' = Append(history, cloud')
          BY <1>1, <3>1, ContentTypes DEF ForeignPush, TypeInv
        <4> QED
          BY <4>1 DEF Grown
      <3>2. CASE RecoverLease
        BY <1>1, <3>2 DEF RecoverLease, TypeInv, Grown
      <3> QED
        BY <1>3, <3>1, <3>2
    <2>2. tab' = tab /\ job' = job
      BY <1>3 DEF ForeignPush, RecoverLease
    <2> QED
      BY <2>1, <2>2, ElsewhereKeeps
  <1>4. ASSUME NEW t \in Tabs,
               \/ StartLink(t) \/ StartImport(t) \/ StartSync(t) \/ UserStarts(t)
               \/ TabStep(t) \/ ReplaceFails(t) \/ LoseImport(t) \/ LoseSync(t) \/ CloseTab(t)
        PROVE  TabInv'
    BY <1>4, StartKeeps, LinkKeeps, DeviceKeeps, PostMoves, AnswerKeeps DEF UserStarts, TabStep
  <1>5. ASSUME NEW i \in Requests, ServerStep(i) \/ WorkerDies(i)
        PROVE  TabInv'
    <2>1. job \in [Requests -> Jobs] /\ cloud \in SUBSET Changes
      BY <1>1 DEF TypeInv
    <2>2. tab' = tab
      BY <1>5 DEF ServerStep, BeginJob, ReserveJob, RestoreBatch, FinalizeJob, CompleteJob,
         ForgetPost, WorkerDies
    <2>3. Grown
      <3>1. history' = history \/ history' = Append(history, cloud)
        BY <1>5 DEF ServerStep, BeginJob, ReserveJob, RestoreBatch, FinalizeJob, CompleteJob,
                    ForgetPost, WorkerDies
      <3> QED
        BY <2>1, <3>1 DEF Grown
    <2>4. CASE ForgetPost(i)
      <3>1. i \in Posts /\ (\A u \in Tabs : tab[u].run.id # i)
            /\ \A j \in Requests : j # i => job'[j] = job[j]
        BY <2>1, <2>4 DEF ForgetPost
      <3> QED
        BY <2>2, <2>3, <3>1, ElsewhereKeeps
    <2>5. CASE ~ForgetPost(i)
      <3>1. \A j \in Requests : job'[j].data = job[j].data
                                /\ (job[j].at = "unused" <=> job'[j].at = "unused")
        <4>1. CASE BeginJob(i) \/ CompleteJob(i)
          <5>1. CASE BeginJob(i)
            BY <2>1, <5>1 DEF BeginJob, Jobs
          <5>2. CASE CompleteJob(i)
            BY <2>1, <5>2 DEF CompleteJob, Jobs
          <5> QED
            BY <4>1, <5>1, <5>2
        <4>2. CASE ReserveJob(i)
          <5>1. /\ job[i].at = "reserve"
                /\ At(i, "restore") \/ \E e \in Errors : job' = [job EXCEPT ![i] = Refused(i, e)]
            BY <4>2 DEF ReserveJob, Errors
          <5>2. CASE At(i, "restore")
            BY <2>1, <5>1, <5>2 DEF At, Jobs
          <5>3. CASE \E e \in Errors : job' = [job EXCEPT ![i] = Refused(i, e)]
            BY <1>1, <2>1, <5>1, <5>3, RefusedIs
          <5> QED
            BY <5>1, <5>2, <5>3
        <4>3. CASE RestoreBatch(i)
          <5>1. /\ job[i].at = "restore"
                /\ \/ job' = [job EXCEPT ![i] = [job[i] EXCEPT !.at = "finalize", !.wrote = TRUE]]
                   \/ \E e \in Errors : job' = [job EXCEPT ![i] = Refused(i, e)]
            BY <2>1, <4>3 DEF RestoreBatch, Errors
          <5>2. CASE job' = [job EXCEPT ![i] = [job[i] EXCEPT !.at = "finalize", !.wrote = TRUE]]
            BY <2>1, <5>1, <5>2 DEF Jobs
          <5>3. CASE \E e \in Errors : job' = [job EXCEPT ![i] = Refused(i, e)]
            BY <1>1, <2>1, <5>1, <5>3, RefusedIs
          <5> QED
            BY <5>1, <5>2, <5>3
        <4>4. CASE FinalizeJob(i)
          BY <2>1, <4>4 DEF FinalizeJob, Jobs
        <4>5. CASE WorkerDies(i)
          BY <2>1, <4>5 DEF WorkerDies, Working, At, Jobs
        <4> QED
          BY <1>5, <2>5, <4>1, <4>2, <4>3, <4>4, <4>5 DEF ServerStep
      <3> QED
        BY <2>2, <2>3, <3>1, ElsewhereKeeps
    <2> QED
      BY <2>4, <2>5
  <1> QED
    BY <1>2, <1>3, <1>4, <1>5 DEF Next

-----------------------------------------------------------------------------
(* Theorems                                                                *)

(* Nothing runs and nothing was written.                                   *)
LEMMA CloudInit == Init => CloudInv
  <1> SUFFICES ASSUME Init
               PROVE  CloudInv
    OBVIOUS
  <1>1. TypeInv
    <2>1. Idle \in Runnings /\ NoLink \in Links /\ NoJob \in Jobs
      BY DEF Idle, Runnings, NoLink, Links, NoJob, Jobs, Ids, Places, Kinds, Stages, Errors
    <2>2. << {} >> \in Seq(SUBSET Changes) /\ Len(<< {} >>) > 0
      OBVIOUS
    <2>3. edits \in 0 .. MaxEdits
      BY CloudAssumption DEF Init
    <2> QED
      BY <2>1, <2>2, <2>3 DEF Init, TypeInv, Ids
  <1>2. JobInv
    BY DEF Init, JobInv, StageInv, JournalInv, NoJob
  <1>3. TabInv
    BY DEF Init, TabInv, RunInv, Fresh, Idle
  <1> QED
    BY <1>1, <1>2, <1>3 DEF CloudInv

(* A request under way holds the lease from its reservation to its last    *)
(* write, the journal and the tabs know no more of it than is true, and a  *)
(* drawn importId belongs to one tab.                                      *)
THEOREM CloudInvariant == Spec => []CloudInv
  <1>1. CloudInv /\ [Next]_vars => CloudInv'
    BY TypeStep, JobStep, TabStepKeeps DEF CloudInv
  <1> QED
    BY <1>1, CloudInit, PTL DEF Spec

(* A job the journal calls completed left exactly its backup as the        *)
(* revision after the one it expected, and one that failed, not by         *)
(* staleness, wrote nothing (server/backup/routes.ts).                     *)
THEOREM JournalTellsTruthHolds == Spec => []JournalTellsTruth
  <1>1. CloudInv => JournalTellsTruth
    <2> SUFFICES ASSUME CloudInv, NEW i \in Imports
                 PROVE  /\ job[i].status = "completed" =>
                             /\ history[job[i].rev + 1] = job[i].data
                             /\ job[i].rev = job[i].base + 1
                        /\ job[i].status = "failed" /\ job[i].error # "BACKUP_IMPORT_STALE"
                             => ~job[i].wrote
      BY DEF JournalTellsTruth
    <2>1. StageInv(i) /\ JournalInv(i) /\ job[i].at \in Stages
      BY DEF CloudInv, JobInv, TypeInv, Jobs, Requests
    <2> QED
      BY <2>1 DEF StageInv, JournalInv, WasAt, Stages
  <1> QED
    BY <1>1, CloudInvariant, PTL

(* A link becomes ready only at a revision at which the cloud had the      *)
(* backup that was uploaded; but for the one an import began from that     *)
(* failed before anything was sent (markLocalCloudLinkReady).              *)
THEOREM ReadyMeansUploadedHolds == Spec => ReadyMeansUploaded
  <1> DEFINE A == \A t \in Tabs :
         MarkReady(t) => \/ Uploaded(t, link'.rev)
                         \/ NeverSent(t) /\ link'.rev = tab[t].run.base
  <1>1. CloudInv => A
    <2> SUFFICES ASSUME CloudInv, NEW t \in Tabs, MarkReady(t)
                 PROVE  \/ Uploaded(t, link'.rev)
                        \/ NeverSent(t) /\ link'.rev = tab[t].run.base
      OBVIOUS
    <2>1. link'.rev = tab[t].run.rev
      BY DEF MarkReady, ReadyAt
    <2>2. \/ Fresh(t) /\ tab[t].run.kind = "import" /\ tab[t].run.rev = tab[t].run.base
          \/ /\ job[tab[t].run.id].at # "unused"
             /\ WasAt(tab[t].run.rev, job[tab[t].run.id].data)
      BY DEF CloudInv, TabInv, RunInv, MarkReady, Runs
    <2> QED
      BY <2>1, <2>2 DEF WasAt, Fresh, Uploaded, NeverSent
  <1> QED
    BY <1>1, CloudInvariant, PTL DEF ReadyMeansUploaded

-----------------------------------------------------------------------------
(* What survives                                                           *)

(* The edits, and the elements of an imported file, that nothing explains  *)
(* the loss of.                                                            *)
Unexplained == (1 .. edits) \ Explained
Wanted == IF imported THEN File \ Explained ELSE {}
UpTo(n) == Unexplained \intersect (1 .. n)

(* What there is to know of a run: what it is, by where it stands.         *)
RunKind(r) ==
    /\ r.pc = "idle" => r.kind = "none"
    /\ r.pc \in {"registering", "linking"} => r.kind = "link"
    /\ r.pc \in {"restoring", "clearing"} => r.kind \in {"link", "promotion"}
    /\ r.pc \in {"marking", "publishing", "polling"} => r.kind \in {"import", "resume"}
    /\ r.pc = "polling" => r.id \in Imports
    /\ r.pc = "replacing" => r.kind \in {"import", "local-import"}
    /\ r.pc = "asking" => r.kind = "resume"
    /\ r.pc \in {"checking", "pushing", "fetching", "applying"} =>
          r.kind \in {"link", "promotion", "sync"}
    /\ r.pc = "awaiting" => \/ r.kind \in {"link", "promotion"} /\ r.id \in Posts
                            \/ r.kind \in {"import", "resume"} /\ r.id \in Imports
    /\ r.pc = "readying" => r.kind \in {"link", "promotion", "import", "resume"}

(* A workspace that no upload was confirmed of, and one whose import still *)
(* waits for its upload.                                                   *)
Young(l) == l.state = "none" \/ (l.state = "provisioning" /\ l.reason = "cloud-link")
Importing(l) == l.state = "provisioning" /\ l.reason = "backup-import"

LinkOK(l) ==
    /\ Young(l) \/ Importing(l) \/ l.state = "ready"
    /\ Importing(l) => l.pending \in Imports
    /\ l.rev < Len(history)

(* What the screens show lags behind the link, but not in everything.      *)
SeenOK(r, seen) ==
    /\ LinkOK(seen)
    /\ seen.state # "none" => link.state # "none"
    /\ seen.state = "none" => ~Importing(link)
    /\ seen.state = "ready" /\ r.kind # "import" => link.state = "ready"
    /\ r.kind \in {"link", "promotion"} => Young(seen)
    /\ r.kind = "resume" => Importing(seen)
    /\ r.kind \in {"sync", "import"} => seen.state # "none"
    /\ r.kind = "local-import" => seen.state = "none"

(* The link during a run.                                                  *)
LinkDuring(r) ==
    /\ r.pc = "checking" => link.state # "none"
    /\ r.pc \in {"pushing", "fetching", "applying"} => link.state = "ready"
    /\ r.pc = "publishing" \/ (r.pc = "replacing" /\ r.kind = "import") =>
          Importing(link) /\ link.pending = r.id

(* Everything there is was made before.                                    *)
Known == (1 .. edits) \union File \union Foreign

KnownWorld ==
    /\ rows \subseteq Known /\ outbox \subseteq Known /\ cloud \subseteq Known
    /\ \A k \in 1 .. Len(history) : history[k] \subseteq Known
    /\ \A i \in Requests : job[i].data \subseteq Known /\ job[i].base < Len(history)

KnownRun(r) ==
    r.data \subseteq Known /\ r.age <= edits /\ r.base < Len(history) /\ r.rev < Len(history)

(* The current revision is what the cloud has, but for a restore that      *)
(* wrote and did not finalize.                                             *)
LeaseInv ==
    \/ cloud = history[Len(history)]
    \/ lease # Nothing /\ job[lease].at \in {"finalize", "dead"}

Live(i) == job[i].at \in {"begin", "reserve", "restore"}

(* Before the first upload is behind a workspace, nothing was imported     *)
(* into the cloud.                                                         *)
Virgin == \A i \in Imports : job[i].at = "unused"

(* What an import that expects revision r replaces is in its backup.       *)
Replaces(r, data) == Unexplained \intersect history[r + 1] \subseteq data \union parked

(* Where the edits are, in general and while a tab runs.                   *)
EditsWorld ==
    /\ Unexplained \subseteq rows \union parked
    /\ Unexplained \subseteq outbox \union parked \union cloud
    /\ \A i \in Imports : Live(i) => Replaces(job[i].base, job[i].data)

EditsRun(r) ==
    /\ r.pc \in {"registering", "linking", "restoring", "clearing"} => r.data \subseteq rows
    /\ r.pc = "awaiting" /\ r.kind \in {"link", "promotion"} =>
          /\ r.data \subseteq rows /\ job[r.id].data = r.data
          /\ job[r.id].at \in {"finalize", "done"} => Unexplained \intersect r.data \subseteq cloud
    /\ r.pc = "clearing" => Unexplained \intersect r.data \subseteq cloud
    /\ r.pc \in {"asking", "publishing"} \/ (r.pc = "marking" /\ r.kind = "resume") =>
          Replaces(r.base, r.data)
    /\ r.pc = "pushing" => r.data \subseteq outbox
                           /\ UpTo(r.age) \subseteq cloud \union parked \union r.data
    /\ r.pc = "fetching" => UpTo(r.age) \subseteq cloud \union parked
    /\ r.pc = "applying" => UpTo(r.age) \subseteq r.data \union parked

(* The cloud has the file, and no import that is still at work takes it.   *)
Safe ==
    /\ Wanted \subseteq cloud
    /\ \A i \in Imports : Live(i) => Wanted \subseteq job[i].data \/ job[i].base < Revision

(* A request whose end may make the link ready.                            *)
Counts(i) ==
    /\ Live(i) \/ job[i].at = "finalize" => Wanted \subseteq job[i].data
    /\ job[i].at \in {"complete", "done"} => Safe

(* Where the file is, in general and while a tab runs.                     *)
FileWorld ==
    /\ Wanted \subseteq rows
    /\ link.state = "ready" => Safe
    /\ Importing(link) => Counts(link.pending)

FileRun(r, seen) ==
    /\ r.pc \in {"registering", "linking", "restoring", "asking", "marking", "publishing",
                 "applying"} => Wanted \subseteq r.data
    /\ r.pc = "replacing" \/ (r.pc = "marking" /\ r.kind = "import") => r.data = File
    /\ r.kind = "import" /\ seen.state = "ready" /\ r.pc \in {"marking", "replacing"} => Safe
    /\ r.pc \in {"clearing", "readying"} => Safe
    /\ r.pc \in {"awaiting", "polling"} \/ (r.pc = "asking" /\ r.id # Nothing) => Counts(r.id)
    /\ Importing(seen) /\ r.kind # "import" => Counts(seen.pending)

(* All that is true of the device and the server, and of a tab with run r  *)
(* that shows seen.                                                        *)
WorldOK ==
    /\ LinkOK(link) /\ KnownWorld /\ LeaseInv
    /\ Young(link) => Virgin
    /\ EditsWorld /\ FileWorld

TabOK(r, seen) ==
    /\ RunKind(r) /\ SeenOK(r, seen) /\ LinkDuring(r) /\ KnownRun(r)
    /\ Young(seen) /\ r.kind # "import" => Virgin
    /\ EditsRun(r) /\ FileRun(r, seen)

SurvivalInv(t) == WorldOK /\ TabOK(tab[t].run, tab[t].seen)

(* The types these proofs keep asking for.                                 *)
LEMMA WorldTypes ==
    ASSUME CloudInv
    PROVE  /\ link \in Links /\ lease \in Ids /\ job \in [Requests -> Jobs]
           /\ Len(history) \in Nat \ {0} /\ edits \in Nat
           /\ Imports \subseteq Requests /\ Posts \subseteq Requests
           /\ Imports \intersect Posts = {} /\ Requests = Imports \union Posts
           /\ Nothing \notin Requests
           /\ \A i \in Ids : i # Nothing => i \in Requests
  <1>1. TypeInv
    BY DEF CloudInv
  <1>2. Len(history) \in Nat \ {0}
    BY <1>1 DEF TypeInv
  <1> QED
    BY <1>1, <1>2, CloudAssumption DEF TypeInv, Requests, Ids

(* The run and the snapshot a tab goes on with.                            *)
LEMMA Turns ==
    ASSUME CloudInv, NEW t \in Tabs
    PROVE  /\ \A r : Continue(t, r) => tab'[t].run = r /\ tab'[t].seen = tab[t].seen
           /\ \A pc : Goto(t, pc) => /\ tab'[t].run = [tab[t].run EXCEPT !.pc = pc]
                                     /\ tab'[t].seen = tab[t].seen
           /\ Throw(t) => tab'[t].run = Idle /\ tab'[t].seen = tab[t].seen
           /\ Finish(t) => tab'[t].run = Idle /\ tab'[t].seen = link'
           /\ GiveUp(t) => /\ tab'[t].run = Idle
                           /\ tab'[t].seen = IF tab[t].run.kind = "import" THEN link
                                             ELSE tab[t].seen
           /\ Renew(t) => tab'[t].run = Idle /\ tab'[t].seen = link
  <1>1. DOMAIN tab = Tabs /\ DOMAIN tab[t] = {"run", "seen"}
    BY DEF CloudInv, TypeInv
  <1>2. \A r : Continue(t, r) => tab'[t].run = r /\ tab'[t].seen = tab[t].seen
    BY <1>1 DEF Continue
  <1>3. \A pc : Goto(t, pc) => /\ tab'[t].run = [tab[t].run EXCEPT !.pc = pc]
                               /\ tab'[t].seen = tab[t].seen
    BY <1>1 DEF Goto
  <1>4. Throw(t) => tab'[t].run = Idle /\ tab'[t].seen = tab[t].seen
    BY <1>2 DEF Throw
  <1>0. \A x : End(t, x) => tab'[t].run = Idle /\ tab'[t].seen = x
    BY <1>1 DEF End, Together
  <1>5. Finish(t) => tab'[t].run = Idle /\ tab'[t].seen = link'
    BY <1>0 DEF Finish
  <1>6. GiveUp(t) => /\ tab'[t].run = Idle
                     /\ tab'[t].seen = IF tab[t].run.kind = "import" THEN link ELSE tab[t].seen
    BY <1>0, <1>4 DEF GiveUp
  <1>7. Renew(t) => tab'[t].run = Idle /\ tab'[t].seen = link
    BY <1>1 DEF Renew, Together
  <1> QED
    BY <1>2, <1>3, <1>4, <1>5, <1>6, <1>7

(* A tab that goes elsewhere takes its run along.                          *)
LEMMA Heads ==
    ASSUME CloudInv, NEW t \in Tabs, NEW pc, Goto(t, pc)
    PROVE  /\ tab'[t].run.pc = pc /\ tab'[t].run.kind = tab[t].run.kind
           /\ tab'[t].run.data = tab[t].run.data /\ tab'[t].run.id = tab[t].run.id
           /\ tab'[t].run.age = tab[t].run.age /\ tab'[t].run.base = tab[t].run.base
           /\ tab'[t].run.rev = tab[t].run.rev /\ tab'[t].seen = tab[t].seen
  <1> DEFINE n == [tab[t].run EXCEPT !.pc = pc]
  <1>1. tab'[t].run = n /\ tab'[t].seen = tab[t].seen
    BY Turns
  <1>2. tab[t].run \in Runnings
    BY DEF CloudInv, TypeInv
  <1>3. /\ n.pc = pc /\ n.kind = tab[t].run.kind /\ n.data = tab[t].run.data
        /\ n.id = tab[t].run.id /\ n.age = tab[t].run.age /\ n.base = tab[t].run.base
        /\ n.rev = tab[t].run.rev
    BY <1>2 DEF Runnings
  <1> HIDE DEF n
  <1> QED
    BY <1>1, <1>3

(* What an idle tab holds.                                                 *)
LEMMA IdleIs == /\ Idle.pc = "idle" /\ Idle.kind = "none" /\ Idle.data = {} /\ Idle.id = Nothing
                /\ Idle.age = 0 /\ Idle.base = 0 /\ Idle.rev = 0
  BY DEF Idle

(* The rows, the requests and the cloud rest.                              *)
LEMMA DataRests ==
    ASSUME CloudInv,
           UNCHANGED <<rows, outbox, parked, cloud, history, lease, edits, auxVars>>,
           \A j \in Requests : /\ job'[j].at = job[j].at /\ job'[j].data = job[j].data
                               /\ job'[j].base = job[j].base
    PROVE  /\ Wanted' = Wanted
           /\ Safe' <=> Safe
           /\ \A i \in Requests : Counts(i)' <=> Counts(i)
           /\ Virgin' <=> Virgin
           /\ \A l : LinkOK(l)' <=> LinkOK(l)
           /\ KnownWorld' <=> KnownWorld
           /\ LeaseInv' <=> LeaseInv
           /\ EditsWorld' <=> EditsWorld
           /\ \A r : KnownRun(r)' <=> KnownRun(r)
           /\ \A r : RunKind(r) /\ EditsRun(r) => EditsRun(r)'
           /\ \A r, s : r.id \in Ids /\ RunKind(r) /\ LinkOK(s) /\ FileRun(r, s) => FileRun(r, s)'
  <1>1. lease \in Ids /\ Imports \subseteq Requests /\ Posts \subseteq Requests
        /\ \A i \in Ids : i # Nothing => i \in Requests
    BY WorldTypes
  <1>2. Unexplained' = Unexplained /\ Wanted' = Wanted
    BY DEF auxVars, Unexplained, Wanted, Explained
  <1>3. Known' = Known /\ \A n : UpTo(n)' = UpTo(n)
    BY <1>2 DEF Known, UpTo
  <1>4. \A i \in Requests : Live(i)' <=> Live(i)
    BY DEF Live
  <1>5. Safe' <=> Safe
    BY <1>1, <1>2, <1>4 DEF Safe, Revision
  <1>6. \A i \in Requests : Counts(i)' <=> Counts(i)
    BY <1>2, <1>4, <1>5 DEF Counts
  <1>7. Virgin' <=> Virgin
    BY <1>1, <1>2 DEF Virgin
  <1>8. \A n, d : Replaces(n, d)' <=> Replaces(n, d)
    BY <1>2 DEF Replaces
  <1>9. \A l : LinkOK(l)' <=> LinkOK(l)
    BY DEF LinkOK
  <1>10. KnownWorld' <=> KnownWorld
    BY <1>3 DEF KnownWorld
  <1>11. LeaseInv' <=> LeaseInv
    BY <1>1 DEF LeaseInv
  <1>12. EditsWorld' <=> EditsWorld
    BY <1>1, <1>2, <1>3, <1>4, <1>8 DEF EditsWorld
  <1>13. \A r : KnownRun(r)' <=> KnownRun(r)
    BY <1>3 DEF KnownRun
  <1>14. ASSUME NEW r, RunKind(r), EditsRun(r)
         PROVE  EditsRun(r)'
    <2>1. r.pc = "awaiting" => r.id \in Requests
      BY <1>1, <1>14 DEF RunKind
    <2>2. r.pc = "awaiting" => job'[r.id].at = job[r.id].at /\ job'[r.id].data = job[r.id].data
      BY <2>1
    <2> QED
      BY <1>2, <1>3, <1>8, <1>14, <2>2 DEF EditsRun
  <1>15. ASSUME NEW r, NEW s, r.id \in Ids, RunKind(r), LinkOK(s), FileRun(r, s)
         PROVE  FileRun(r, s)'
    <2>1. r.pc \in {"awaiting", "polling"} => r.id \in Requests
      BY <1>1, <1>15 DEF RunKind
    <2>2. Importing(s) => s.pending \in Requests
      BY <1>1, <1>15 DEF LinkOK
    <2> QED
      BY <1>1, <1>2, <1>5, <1>6, <1>15, <2>1, <2>2 DEF FileRun
  <1> QED
    BY <1>2, <1>5, <1>6, <1>7, <1>9, <1>10, <1>11, <1>12, <1>13, <1>14, <1>15

(* Nothing these invariants speak of changes outside the tabs.             *)
LEMMA WorldRests ==
    ASSUME CloudInv, WorldOK,
           UNCHANGED <<rows, outbox, parked, link, cloud, history, lease, edits, auxVars>>,
           \A j \in Requests : /\ job'[j].at = job[j].at /\ job'[j].data = job[j].data
                               /\ job'[j].base = job[j].base
    PROVE  WorldOK' /\ \A r \in Runnings, s \in Links : TabOK(r, s) => TabOK(r, s)'
  <1>1. Imports \subseteq Requests
    BY WorldTypes
  <1>2. FileWorld'
    <2>1. FileWorld /\ LinkOK(link)
      BY DEF WorldOK
    <2> QED
      BY <1>1, <2>1, DataRests DEF FileWorld, LinkOK
  <1>3. WorldOK'
    BY <1>2, DataRests DEF WorldOK
  <1>4. ASSUME NEW r \in Runnings, NEW s \in Links, TabOK(r, s)
        PROVE  TabOK(r, s)'
    <2>1. RunKind(r)' /\ SeenOK(r, s)' /\ LinkDuring(r)'
      BY <1>4, DataRests DEF TabOK, RunKind, SeenOK, LinkDuring
    <2>2. r.id \in Ids
      BY DEF Runnings
    <2> QED
      BY <1>4, <2>1, <2>2, DataRests DEF TabOK, SeenOK
  <1> QED
    BY <1>3, <1>4

(* A tab that shows the link as it is and runs nothing.                    *)
LEMMA IdleHolds == ASSUME CloudInv', WorldOK' PROVE TabOK(Idle, link)'
  <1>1. Len(history') \in Nat \ {0} /\ edits' \in Nat
    BY DEF CloudInv, TypeInv
  <1>2. RunKind(Idle)' /\ LinkDuring(Idle)' /\ KnownRun(Idle)' /\ EditsRun(Idle)'
    BY <1>1, IdleIs DEF RunKind, LinkDuring, KnownRun, EditsRun
  <1>3. SeenOK(Idle, link)' /\ FileRun(Idle, link)'
    BY IdleIs DEF SeenOK, FileRun, WorldOK, FileWorld, Importing
  <1> QED
    BY <1>2, <1>3 DEF TabOK, WorldOK

(* A tab that shows what it showed and runs nothing any more.              *)
LEMMA ThrowHolds ==
    ASSUME CloudInv, NEW r, NEW s, TabOK(r, s), r.kind # "import"
    PROVE  TabOK(Idle, s)
  <1>1. Len(history) \in Nat \ {0} /\ edits \in Nat
    BY WorldTypes
  <1>2. RunKind(Idle) /\ LinkDuring(Idle) /\ KnownRun(Idle) /\ EditsRun(Idle)
    BY <1>1, IdleIs DEF RunKind, LinkDuring, KnownRun, EditsRun
  <1>3. SeenOK(Idle, s) /\ FileRun(Idle, s)
    BY IdleIs DEF SeenOK, FileRun, TabOK
  <1> QED
    BY <1>2, <1>3 DEF TabOK

(* Only the tab moves.                                                     *)
LEMMA TabMoves ==
    ASSUME CloudInv, CloudInv', NEW t \in Tabs, SurvivalInv(t),
           UNCHANGED <<rows, outbox, parked, link, cloud, history, lease, edits, auxVars>>,
           \A j \in Requests : /\ job'[j].at = job[j].at /\ job'[j].data = job[j].data
                               /\ job'[j].base = job[j].base,
           \/ Finish(t) \/ GiveUp(t) \/ Renew(t)
           \/ Throw(t) /\ tab[t].run.kind # "import"
           \/ TabOK(tab'[t].run, tab'[t].seen)
    PROVE  SurvivalInv(t)'
  <1> SUFFICES ASSUME NEW r, NEW s, r = tab'[t].run, s = tab'[t].seen
               PROVE  SurvivalInv(t)'
    OBVIOUS
  <1>1. r \in Runnings /\ s \in Links /\ WorldOK /\ TabOK(tab[t].run, tab[t].seen)
    BY DEF CloudInv, TypeInv, SurvivalInv
  <1>2. WorldOK' /\ (TabOK(r, s) => TabOK(r, s)')
    BY <1>1, WorldRests
  <1>3. CASE TabOK(r, s)
    BY <1>2, <1>3 DEF SurvivalInv
  <1>4. CASE r = Idle /\ s = link'
    BY <1>2, <1>4, IdleHolds DEF SurvivalInv
  <1>5. CASE r = Idle /\ s = tab[t].seen /\ tab[t].run.kind # "import"
    BY <1>1, <1>3, <1>5, ThrowHolds
  <1> QED
    BY <1>3, <1>4, <1>5, Turns

(* Tabs begin.                                                             *)
LEMMA StartSurvives ==
    ASSUME CloudInv, CloudInv', NEW t \in Tabs, SurvivalInv(t),
           \/ StartLink(t) \/ StartPromotion(t) \/ StartResume(t) \/ StartImport(t)
           \/ StartSync(t) \/ Reload(t) \/ CloseTab(t),
           ~overlapped'
    PROVE  SurvivalInv(t)'
  <1> DEFINE s == tab[t].seen
  <1>1. /\ UNCHANGED <<rows, outbox, parked, link, cloud, history, lease, edits, auxVars>>
        /\ job' = job
    BY DEF StartLink, StartPromotion, StartResume, StartImport, StartSync, Reload, CloseTab,
           Start, auxVars, deviceVars, serverVars
  <1>2. WorldOK /\ LinkOK(s) /\ EditsWorld /\ FileWorld /\ KnownWorld /\ edits \in Nat
    BY WorldTypes DEF SurvivalInv, WorldOK, TabOK, SeenOK
  <1>3. SUFFICES \/ Renew(t) \/ TabOK(tab'[t].run, tab'[t].seen)
    BY <1>1, TabMoves
  <1>4. CASE Reload(t) \/ CloseTab(t)
    BY <1>4 DEF Reload, CloseTab
  <1> SUFFICES ASSUME ~Reload(t), ~CloseTab(t)
               PROVE  TabOK(tab'[t].run, s) /\ tab'[t].seen = s
    BY <1>4
  <1>5. tab[t].run.pc = "idle"
    BY DEF StartLink, StartPromotion, StartResume, StartImport, StartSync, Runs
  <1>6. /\ tab[t].run.kind = "none" /\ TabOK(tab[t].run, s)
        /\ SeenOK(tab[t].run, s) /\ FileRun(tab[t].run, s)
    BY <1>5 DEF SurvivalInv, TabOK, RunKind
  <1>7. /\ Young(s) => Virgin
        /\ s.state # "none" => link.state # "none"
        /\ s.state = "none" => ~Importing(link)
        /\ s.state = "ready" => Safe
        /\ Importing(s) => Counts(s.pending)
    BY <1>2, <1>6 DEF TabOK, SeenOK, FileRun, FileWorld
  <1>8. CASE StartLink(t) \/ StartPromotion(t)
    <2> SUFFICES ASSUME NEW r, r = tab'[t].run
                 PROVE  TabOK(r, s) /\ tab'[t].seen = s
      OBVIOUS
    <2>1. /\ \/ r.pc = "registering" /\ r.kind = "link"
             \/ r.pc = "restoring" /\ r.kind = "promotion"
          /\ r.data = rows /\ r.age = 0 /\ r.id = Nothing /\ r.base = 0 /\ r.rev = 0
          /\ tab'[t].seen = s /\ Young(s)
      <3> DEFINE n(pc, k) == [Idle EXCEPT !.pc = pc, !.kind = k, !.data = LocalBackup]
      <3>1. (Continue(t, n("registering", "link")) \/ Continue(t, n("restoring", "promotion")))
            /\ Young(s)
        BY <1>8 DEF StartLink, StartPromotion, Start, Young
      <3>2. \A pc, k : /\ n(pc, k).pc = pc /\ n(pc, k).kind = k /\ n(pc, k).data = rows
                       /\ n(pc, k).age = 0 /\ n(pc, k).id = Nothing /\ n(pc, k).base = 0
                       /\ n(pc, k).rev = 0
        BY DEF Idle, LocalBackup
      <3> HIDE DEF n
      <3> QED
        BY <3>1, <3>2, Turns
    <2>2. RunKind(r) /\ SeenOK(r, s) /\ LinkDuring(r)
      BY <1>2, <1>6, <2>1 DEF RunKind, SeenOK, LinkDuring, Young
    <2>3. KnownRun(r)
      BY <1>2, <2>1, WorldTypes DEF KnownRun, KnownWorld
    <2>4. EditsRun(r)
      BY <2>1 DEF EditsRun
    <2>5. FileRun(r, s)
      BY <1>2, <1>7, <2>1 DEF FileRun, FileWorld
    <2> QED
      BY <1>7, <2>1, <2>2, <2>3, <2>4, <2>5 DEF TabOK
  <1>9. CASE StartImport(t)
    <2> SUFFICES ASSUME NEW r, r = tab'[t].run
                 PROVE  TabOK(r, s) /\ tab'[t].seen = s
      OBVIOUS
    <2>1. /\ \/ r.pc = "replacing" /\ r.kind = "local-import" /\ s.state = "none" /\ r.base = 0
             \/ r.pc = "marking" /\ r.kind = "import" /\ s.state # "none" /\ r.base = s.rev
          /\ r.data = File /\ r.age = 0 /\ r.rev = 0 /\ tab'[t].seen = s
      <3>1. CASE s.state = "none"
        <4> DEFINE n == [Idle EXCEPT !.pc = "replacing", !.kind = "local-import", !.data = File]
        <4>1. Continue(t, n)
          BY <1>9, <3>1 DEF StartImport, Start
        <4>2. /\ n.pc = "replacing" /\ n.kind = "local-import" /\ n.data = File /\ n.age = 0
              /\ n.base = 0 /\ n.rev = 0
          BY DEF Idle
        <4> HIDE DEF n
        <4> QED
          BY <3>1, <4>1, <4>2, Turns
      <3>2. CASE s.state # "none"
        <4> DEFINE n(i) == [Idle EXCEPT !.pc = "marking", !.kind = "import", !.data = File,
                                        !.id = i, !.base = s.rev]
        <4>1. PICK i \in Imports : Continue(t, n(i))
          BY <1>9, <3>2 DEF StartImport, Start
        <4>2. /\ n(i).pc = "marking" /\ n(i).kind = "import" /\ n(i).data = File
              /\ n(i).age = 0 /\ n(i).base = s.rev /\ n(i).rev = 0
          BY DEF Idle
        <4> HIDE DEF n
        <4> QED
          BY <3>2, <4>1, <4>2, Turns
      <3> QED
        BY <3>1, <3>2
    <2>2. RunKind(r) /\ SeenOK(r, s) /\ LinkDuring(r)
      BY <1>2, <1>6, <2>1 DEF RunKind, SeenOK, LinkDuring, Young, Importing
    <2>3. KnownRun(r)
      BY <1>2, <2>1, WorldTypes DEF KnownRun, Known, LinkOK
    <2>4. EditsRun(r)
      BY <2>1 DEF EditsRun
    <2>5. FileRun(r, s)
      BY <1>7, <2>1 DEF FileRun, Wanted, Importing
    <2>6. Young(s) /\ r.kind # "import" => Virgin
      BY <1>7
    <2> QED
      BY <2>1, <2>2, <2>3, <2>4, <2>5, <2>6 DEF TabOK
  <1>10. CASE StartResume(t)
    <2> SUFFICES ASSUME NEW r, r = tab'[t].run
                 PROVE  TabOK(r, s) /\ tab'[t].seen = s
      OBVIOUS
    <2>1. /\ r.pc = "asking" /\ r.kind = "resume" /\ r.data = rows /\ r.age = 0
          /\ r.id = s.pending /\ r.base = s.rev /\ r.rev = 0
          /\ tab'[t].seen = s /\ Importing(s)
      <3> DEFINE n == [Idle EXCEPT !.pc = "asking", !.kind = "resume", !.data = LocalBackup,
                         !.id = s.pending, !.base = s.rev]
      <3>1. Continue(t, n) /\ Importing(s)
        BY <1>10 DEF StartResume, Start, Importing
      <3>2. /\ n.pc = "asking" /\ n.kind = "resume" /\ n.data = rows /\ n.age = 0
            /\ n.id = s.pending /\ n.base = s.rev /\ n.rev = 0
        BY DEF Idle, LocalBackup
      <3> HIDE DEF n
      <3> QED
        BY <3>1, <3>2, Turns
    <2>2. RunKind(r) /\ SeenOK(r, s) /\ LinkDuring(r) /\ ~Young(s)
      BY <1>2, <1>6, <2>1 DEF RunKind, SeenOK, LinkDuring, Young, Importing
    <2>3. KnownRun(r)
      BY <1>2, <2>1, WorldTypes DEF KnownRun, KnownWorld, LinkOK
    <2>4. EditsRun(r)
      BY <1>2, <2>1 DEF EditsRun, Replaces, EditsWorld
    <2>5. FileRun(r, s)
      BY <1>2, <1>7, <2>1 DEF FileRun, FileWorld
    <2> QED
      BY <2>1, <2>2, <2>3, <2>4, <2>5 DEF TabOK
  <1>11. CASE StartSync(t)
    <2> SUFFICES ASSUME NEW r, r = tab'[t].run
                 PROVE  TabOK(r, s) /\ tab'[t].seen = s
      OBVIOUS
    <2>1. /\ r.pc = "checking" /\ r.kind = "sync" /\ r.data = {} /\ r.age = 0 /\ r.base = 0
          /\ r.rev = 0 /\ tab'[t].seen = s /\ s.state # "none"
      <3> DEFINE n == [Idle EXCEPT !.pc = "checking", !.kind = "sync"]
      <3>1. Continue(t, n) /\ s.state # "none"
        BY <1>11 DEF StartSync, Start
      <3>2. /\ n.pc = "checking" /\ n.kind = "sync" /\ n.data = {} /\ n.age = 0 /\ n.base = 0
            /\ n.rev = 0
        BY DEF Idle
      <3> HIDE DEF n
      <3> QED
        BY <3>1, <3>2, Turns
    <2>2. RunKind(r) /\ SeenOK(r, s) /\ LinkDuring(r)
      BY <1>2, <1>6, <1>7, <2>1 DEF RunKind, SeenOK, LinkDuring
    <2>3. KnownRun(r)
      BY <2>1, WorldTypes DEF KnownRun
    <2>4. EditsRun(r) /\ FileRun(r, s)
      BY <1>7, <2>1 DEF EditsRun, FileRun
    <2> QED
      BY <1>7, <2>1, <2>2, <2>3, <2>4 DEF TabOK
  <1> QED
    BY <1>8, <1>9, <1>10, <1>11

(* The outcome of a request is known, and it was done.                     *)
LEMMA OutcomeSurvives ==
    ASSUME CloudInv, CloudInv', NEW t \in Tabs, SurvivalInv(t),
           UNCHANGED <<rows, outbox, parked, link, cloud, history, lease, edits, auxVars>>,
           \A j \in Requests : /\ job'[j].at = job[j].at /\ job'[j].data = job[j].data
                               /\ job'[j].base = job[j].base,
           NEW i \in Requests, i = tab[t].run.id, job[i].at = "done",
           tab[t].run.pc \in {"awaiting", "polling", "asking"},
           Succeed(t, job[i].rev)
    PROVE  SurvivalInv(t)'
  <1> DEFINE s == tab[t].seen
             o == tab[t].run
  <1> SUFFICES ASSUME NEW r, r = tab'[t].run
               PROVE  TabOK(r, s) /\ tab'[t].seen = s
    BY TabMoves
  <1>1. o \in Runnings /\ TabOK(o, s) /\ RunKind(o)
    BY DEF CloudInv, TypeInv, SurvivalInv, TabOK
  <1>2. /\ r = [o EXCEPT !.rev = job[i].rev,
              !.pc = IF o.kind \in {"link", "promotion"} THEN "clearing" ELSE "readying"]
        /\ tab'[t].seen = s
    BY Turns DEF Succeed
  <1>3. /\ r.pc = IF o.kind \in {"link", "promotion"} THEN "clearing" ELSE "readying"
        /\ r.kind = o.kind /\ r.data = o.data /\ r.age = o.age /\ r.base = o.base
        /\ r.rev = job[i].rev
    BY <1>1, <1>2 DEF Runnings
  <1>4. job[i].rev \in Nat /\ job[i].rev < Len(history)
    <2>1. WasAt(job[i].rev, job[i].data) /\ job[i].rev \in Nat /\ Len(history) \in Nat
      BY WorldTypes DEF CloudInv, JobInv, StageInv, Jobs
    <2> QED
      BY <2>1 DEF WasAt
  <1>5. Safe
    <2>1. Counts(i)
      BY <1>1, WorldTypes DEF TabOK, FileRun
    <2> QED
      BY <2>1 DEF Counts
  <1>6. RunKind(r) /\ SeenOK(r, s) /\ LinkDuring(r) /\ KnownRun(r)
    BY <1>1, <1>3, <1>4 DEF TabOK, RunKind, SeenOK, LinkDuring, KnownRun
  <1>7. EditsRun(r)
    <2>1. r.pc = "clearing" => o.pc = "awaiting" /\ o.kind \in {"link", "promotion"}
      BY <1>1, <1>3 DEF RunKind
    <2> QED
      BY <1>1, <1>3, <2>1 DEF TabOK, EditsRun
  <1>8. FileRun(r, s)
    BY <1>1, <1>3, <1>5 DEF TabOK, FileRun
  <1> QED
    BY <1>1, <1>2, <1>3, <1>6, <1>7, <1>8 DEF TabOK

(* Answers that arrive or are lost, and questions about them.              *)
LEMMA AnswerSurvives ==
    ASSUME CloudInv, CloudInv', NEW t \in Tabs, SurvivalInv(t),
           ReceiveAnswer(t) \/ LoseAnswer(t) \/ LoseImport(t) \/ Poll(t) \/ Ask(t)
    PROVE  SurvivalInv(t)'
  <1> DEFINE s == tab[t].seen
             o == tab[t].run
             Rests == \A j \in Requests :
                         /\ job'[j].at = job[j].at /\ job'[j].data = job[j].data
                         /\ job'[j].base = job[j].base
  <1>1. /\ o \in Runnings /\ TabOK(o, s) /\ RunKind(o) /\ RunInv(t) /\ job \in [Requests -> Jobs]
        /\ SeenOK(o, s) /\ FileRun(o, s) /\ EditsRun(o) /\ KnownRun(o) /\ o.id \in Ids
    BY DEF CloudInv, TypeInv, SurvivalInv, TabOK, TabInv, Runnings
  <1>2. UNCHANGED <<rows, outbox, parked, link, cloud, history, lease, edits, auxVars>>
    BY DEF ReceiveAnswer, LoseAnswer, LoseImport, Poll, Ask, deviceVars, serverVars
  <1>3. ASSUME NEW i \in Requests, NEW q, MarkStale(i, q)
        PROVE  Rests
    BY <1>1, <1>3 DEF MarkStale, Jobs
  <1>4. job' = job => Rests
    OBVIOUS
  <1>5. ASSUME Goto(t, "polling"), job' = job, o.id \in Imports, Counts(o.id),
               o.kind \in {"import", "resume"}
        PROVE  SurvivalInv(t)'
    <2> SUFFICES ASSUME NEW r, r = tab'[t].run
                 PROVE  TabOK(r, s) /\ tab'[t].seen = s
      BY <1>2, <1>4, <1>5, TabMoves
    <2>1. /\ r.pc = "polling" /\ r.kind = o.kind /\ r.data = o.data /\ r.id = o.id /\ r.age = o.age
          /\ r.base = o.base /\ r.rev = o.rev /\ tab'[t].seen = s
      BY <1>5, Heads
    <2>2. RunKind(r) /\ SeenOK(r, s) /\ LinkDuring(r) /\ KnownRun(r) /\ EditsRun(r)
      BY <1>1, <1>5, <2>1 DEF RunKind, SeenOK, LinkDuring, KnownRun, EditsRun
    <2>3. FileRun(r, s)
      BY <1>1, <1>5, <2>1 DEF FileRun
    <2> QED
      BY <1>1, <2>1, <2>2, <2>3 DEF TabOK
  <1>6. CASE ReceiveAnswer(t)
    <2>1. o.id \in Requests /\ o.pc = "awaiting" /\ job' = job
      BY <1>1, <1>6 DEF ReceiveAnswer, RunInv, Runs, serverVars
    <2>2. (job[o.id].at = "done" /\ Succeed(t, job[o.id].rev)) \/ GiveUp(t)
      BY <1>6 DEF ReceiveAnswer
    <2>3. CASE job[o.id].at = "done" /\ Succeed(t, job[o.id].rev)
      BY <1>2, <1>4, <2>1, <2>3, OutcomeSurvives
    <2>4. CASE GiveUp(t)
      BY <1>2, <1>4, <2>1, <2>4, TabMoves
    <2> QED
      BY <2>2, <2>3, <2>4
  <1>7. CASE LoseAnswer(t)
    <2>1. job' = job /\ o.pc = "awaiting"
      BY <1>7 DEF LoseAnswer, Runs, serverVars
    <2>2. CASE Throw(t) /\ o.kind \in {"link", "promotion"}
      BY <1>2, <1>4, <2>1, <2>2, TabMoves
    <2>3. CASE Goto(t, "polling") /\ o.kind \notin {"link", "promotion"}
      BY <1>1, <1>5, <2>1, <2>3 DEF RunKind, FileRun
    <2> QED
      BY <1>7, <2>2, <2>3 DEF LoseAnswer
  <1>8. CASE LoseImport(t)
    <2>1. job' = job /\ o.pc = "publishing" /\ Goto(t, "polling") /\ Fresh(t)
      BY <1>1, <1>8 DEF LoseImport, Runs, serverVars, RunInv
    <2>2. o.kind \in {"import", "resume"} /\ o.id \in Imports /\ Counts(o.id)
      BY <1>1, <2>1 DEF RunKind, Fresh, Counts, Live
    <2> QED
      BY <1>5, <2>1, <2>2
  <1>9. CASE Poll(t)
    <2>1. o.id \in Requests /\ o.pc = "polling"
      BY <1>1, <1>9 DEF Poll, RunInv, Runs
    <2>2. PICK q \in StatusOf(o.id) :
             /\ MarkStale(o.id, q)
             /\ (q = "completed" /\ Succeed(t, job[o.id].rev)) \/ GiveUp(t)
      BY <1>9 DEF Poll, PollConfirms
    <2>3. Rests
      BY <1>3, <2>1, <2>2
    <2>4. CASE q = "completed" /\ Succeed(t, job[o.id].rev)
      <3>1. job[o.id].at = "done"
        BY <2>1, <2>2, <2>4, CompletedIsDone
      <3> QED
        BY <1>2, <2>1, <2>3, <2>4, <3>1, OutcomeSurvives
    <2>5. CASE GiveUp(t)
      BY <1>2, <2>3, <2>5, TabMoves
    <2> QED
      BY <2>2, <2>4, <2>5
  <1>10. CASE Ask(t)
    <2>1. o.pc = "asking" /\ o.kind = "resume"
      BY <1>1, <1>10 DEF Ask, Runs, RunKind
    <2>2. o.id # Nothing => o.id \in Requests
      BY <1>1, WorldTypes
    <2>3. Rests
      <3>1. CASE o.id = Nothing
        BY <1>4, <1>10, <3>1 DEF Ask
      <3>2. CASE o.id # Nothing
        <4>1. \E q : MarkStale(o.id, q)
          BY <1>10, <3>2 DEF Ask
        <4> QED
          BY <1>3, <2>2, <3>2, <4>1
      <3> QED
        BY <3>1, <3>2
    <2>4. CASE Throw(t)
      BY <1>2, <2>1, <2>3, <2>4, TabMoves
    <2>5. CASE o.id # Nothing /\ "completed" \in StatusOf(o.id) /\ Succeed(t, job[o.id].rev)
      <3>1. job[o.id].at = "done"
        BY <2>2, <2>5, CompletedIsDone
      <3> QED
        BY <1>2, <2>1, <2>2, <2>3, <2>5, <3>1, OutcomeSurvives
    <2>6. ASSUME NEW n \in Imports, Continue(t, [o EXCEPT !.pc = "marking", !.id = n])
          PROVE  SurvivalInv(t)'
      <3> SUFFICES ASSUME NEW r, r = tab'[t].run
                   PROVE  TabOK(r, s) /\ tab'[t].seen = s
        BY <1>2, <2>3, TabMoves
      <3>1. /\ r.pc = "marking" /\ r.kind = "resume" /\ r.data = o.data /\ r.age = o.age
            /\ r.base = o.base /\ r.rev = o.rev /\ tab'[t].seen = s
        <4> DEFINE x == [o EXCEPT !.pc = "marking", !.id = n]
        <4>1. Continue(t, x)
          BY <2>6
        <4>2. /\ x.pc = "marking" /\ x.kind = o.kind /\ x.data = o.data /\ x.age = o.age
              /\ x.base = o.base /\ x.rev = o.rev
          BY <1>1 DEF Runnings
        <4> HIDE DEF x
        <4> QED
          BY <2>1, <4>1, <4>2, Turns
      <3>2. RunKind(r) /\ SeenOK(r, s) /\ LinkDuring(r) /\ KnownRun(r)
        BY <1>1, <2>1, <3>1 DEF RunKind, SeenOK, LinkDuring, KnownRun
      <3>3. EditsRun(r) /\ FileRun(r, s)
        BY <1>1, <2>1, <3>1 DEF EditsRun, FileRun
      <3> QED
        BY <1>1, <2>1, <3>1, <3>2, <3>3 DEF TabOK
    <2>7. \/ o.id # Nothing /\ "completed" \in StatusOf(o.id) /\ Succeed(t, job[o.id].rev)
          \/ \E n \in Imports : Continue(t, [o EXCEPT !.pc = "marking", !.id = n])
          \/ Throw(t)
      BY <1>10 DEF Ask
    <2> QED
      BY <2>4, <2>5, <2>6, <2>7
  <1> QED
    BY <1>6, <1>7, <1>8, <1>9, <1>10

(* With fewer elements of the file to account for, no less is safe.        *)
LEMMA FileFalls ==
    ASSUME CloudInv, Wanted' \subseteq Wanted, UNCHANGED <<cloud, history, job>>
    PROVE  (Safe => Safe') /\ \A i \in Requests : Counts(i) => Counts(i)'
  <1>1. Imports \subseteq Requests
    BY WorldTypes
  <1>2. \A i \in Requests : Live(i)' <=> Live(i)
    BY DEF Live
  <1>3. Safe => Safe'
    BY <1>1, <1>2 DEF Safe, Revision
  <1> QED
    BY <1>2, <1>3 DEF Counts

(* The account is there.                                                   *)
LEMMA RegisterSurvives ==
    ASSUME CloudInv, CloudInv', NEW t \in Tabs, SurvivalInv(t), Register(t)
    PROVE  SurvivalInv(t)'
  <1> DEFINE o == tab[t].run
             s == tab[t].seen
  <1>1. /\ UNCHANGED <<rows, outbox, parked, link, cloud, history, lease, edits, auxVars>>
        /\ job' = job /\ o.pc = "registering" /\ TabOK(o, s) /\ RunKind(o)
    BY DEF Register, deviceVars, Runs, SurvivalInv, TabOK
  <1>2. o.kind = "link"
    BY <1>1 DEF RunKind
  <1>3. CASE Throw(t)
    BY <1>1, <1>2, <1>3, TabMoves
  <1>4. CASE Goto(t, "linking")
    <2> SUFFICES ASSUME NEW r, r = tab'[t].run
                 PROVE  TabOK(r, s) /\ tab'[t].seen = s
      BY <1>1, TabMoves
    <2>1. /\ r.pc = "linking" /\ r.kind = o.kind /\ r.data = o.data /\ r.id = o.id
          /\ r.age = o.age /\ r.base = o.base /\ r.rev = o.rev /\ tab'[t].seen = s
      BY <1>4, Heads
    <2>2. RunKind(r) /\ SeenOK(r, s) /\ LinkDuring(r) /\ KnownRun(r)
      BY <1>1, <1>2, <2>1 DEF TabOK, RunKind, SeenOK, LinkDuring, KnownRun
    <2>3. EditsRun(r) /\ FileRun(r, s)
      BY <1>1, <1>2, <2>1 DEF TabOK, EditsRun, FileRun
    <2> QED
      BY <1>1, <1>2, <2>1, <2>2, <2>3 DEF TabOK
  <1> QED
    BY <1>3, <1>4 DEF Register

(* Only the link record and the tab change.                                *)
LEMMA LinkMoves ==
    ASSUME CloudInv, CloudInv', NEW t \in Tabs, SurvivalInv(t),
           UNCHANGED <<rows, outbox, parked, cloud, history, lease, edits, job, auxVars>>,
           NEW r, r = tab'[t].run, NEW s, s = tab'[t].seen,
           LinkOK(link'), Young(link') => Virgin, link'.state = "ready" => Safe,
           Importing(link') => Counts(link'.pending),
           \/ Finish(t)
           \/ /\ RunKind(r) /\ SeenOK(r, s)' /\ LinkDuring(r)' /\ KnownRun(r)
              /\ Young(s) /\ r.kind # "import" => Virgin
              /\ EditsRun(r) /\ FileRun(r, s) /\ LinkOK(s)
    PROVE  SurvivalInv(t)'
  <1>1. /\ WorldOK /\ Imports \subseteq Requests /\ r \in Runnings
    BY WorldTypes DEF SurvivalInv, CloudInv, TypeInv
  <1>2. FileWorld'
    BY <1>1, DataRests DEF FileWorld, WorldOK, LinkOK
  <1>3. LinkOK(link)'
    BY DEF LinkOK
  <1>4. WorldOK'
    BY <1>1, <1>2, <1>3, DataRests DEF WorldOK
  <1>5. CASE Finish(t)
    BY <1>4, <1>5, IdleHolds, Turns DEF SurvivalInv
  <1>6. CASE ~Finish(t)
    <2>1. r.id \in Ids /\ RunKind(r)'
      BY <1>1, <1>6 DEF Runnings, RunKind
    <2>2. TabOK(r, s)'
      BY <1>6, <2>1, DataRests DEF TabOK
    <2> QED
      BY <1>4, <2>2 DEF SurvivalInv
  <1> QED
    BY <1>5, <1>6

(* The link is recorded as provisioning before the first upload.           *)
LEMMA PersistSurvives ==
    ASSUME CloudInv, CloudInv', NEW t \in Tabs, SurvivalInv(t), PersistLink(t)
    PROVE  SurvivalInv(t)'
  <1> SUFFICES ASSUME NEW r, r = tab'[t].run, NEW s, s = tab'[t].seen, NEW o, o = tab[t].run
               PROVE  SurvivalInv(t)'
    OBVIOUS
  <1>1. /\ o.pc = "linking" /\ r.pc = "restoring" /\ r.kind = o.kind /\ r.data = o.data
        /\ r.id = o.id /\ r.age = o.age /\ r.base = o.base /\ r.rev = o.rev
        /\ s = tab[t].seen
    BY Heads DEF PersistLink, Runs
  <1>2. /\ UNCHANGED <<rows, outbox, parked, cloud, history, lease, edits, job, auxVars>>
        /\ link'.state = "provisioning" /\ link'.reason = "cloud-link" /\ link'.rev = 0
    BY DEF PersistLink, NoLink, serverVars
  <1>3. TabOK(o, s) /\ o.kind = "link" /\ Young(s) /\ Virgin /\ Len(history) > 0
    BY <1>1, WorldTypes DEF SurvivalInv, TabOK, RunKind, SeenOK
  <1>4. LinkOK(link') /\ ~Importing(link') /\ link'.state # "ready"
    BY <1>2, <1>3 DEF LinkOK, Young, Importing
  <1>5. RunKind(r) /\ KnownRun(r) /\ EditsRun(r) /\ FileRun(r, s) /\ LinkOK(s)
    BY <1>1, <1>3 DEF TabOK, RunKind, SeenOK, KnownRun, EditsRun, FileRun
  <1>6. SeenOK(r, s)' /\ LinkDuring(r)'
    <2>1. LinkOK(s)'
      BY <1>2, <1>5, DataRests
    <2> QED
      BY <1>1, <1>2, <1>3, <1>4, <2>1 DEF SeenOK, LinkDuring, Young
  <1> QED
    BY <1>2, <1>3, <1>4, <1>5, <1>6, LinkMoves

(* A link becomes ready: the cloud has what it should have by then.        *)
LEMMA ReadySurvives ==
    ASSUME CloudInv, CloudInv', NEW t \in Tabs, SurvivalInv(t), MarkReady(t), Free(t)
    PROVE  SurvivalInv(t)'
  <1> SUFFICES ASSUME NEW r, r = tab'[t].run, NEW s, s = tab'[t].seen, NEW o, o = tab[t].run
               PROVE  SurvivalInv(t)'
    OBVIOUS
  <1>1. /\ UNCHANGED <<rows, outbox, parked, cloud, history, lease, edits, job, auxVars>>
        /\ link'.state = "ready" /\ link'.rev = o.rev /\ o.pc = "readying"
    BY DEF MarkReady, ReadyAt, serverVars, Runs
  <1>2. TabOK(o, tab[t].seen) /\ Safe /\ o.rev < Len(history)
    BY <1>1 DEF SurvivalInv, TabOK, FileRun, KnownRun
  <1>3. LinkOK(link') /\ ~Importing(link') /\ ~Young(link')
    BY <1>1, <1>2 DEF LinkOK, Young, Importing
  <1>4. CASE Finish(t)
    BY <1>1, <1>2, <1>3, <1>4, LinkMoves
  <1>5. CASE ~Finish(t)
    <2>1. /\ r.pc = "checking" /\ r.kind = o.kind /\ r.data = o.data /\ r.id = o.id
          /\ r.age = o.age /\ r.base = o.base /\ r.rev = o.rev /\ s = tab[t].seen
          /\ r.kind \in {"link", "promotion"}
      BY <1>5, Heads DEF MarkReady
    <2>2. RunKind(r) /\ KnownRun(r) /\ EditsRun(r) /\ LinkOK(s)
      BY <1>2, <2>1 DEF TabOK, RunKind, SeenOK, KnownRun, EditsRun
    <2>3. FileRun(r, s)
      BY <1>2, <2>1 DEF TabOK, FileRun
    <2>4. SeenOK(r, s)' /\ LinkDuring(r)'
      <3>1. LinkOK(s)'
        BY <1>1, <2>2, DataRests
      <3> QED
        BY <1>1, <1>2, <1>3, <2>1, <3>1 DEF TabOK, SeenOK, LinkDuring
    <2>5. Young(s) /\ r.kind # "import" => Virgin
      BY <1>2, <2>1 DEF TabOK
    <2> QED
      BY <1>1, <1>2, <1>3, <2>2, <2>3, <2>4, <2>5, LinkMoves
  <1> QED
    BY <1>4, <1>5

(* The link is recorded as importing before the rows change and before     *)
(* each upload: the request that is named has not been sent.               *)
LEMMA MarkSurvives ==
    ASSUME CloudInv, CloudInv', NEW t \in Tabs, SurvivalInv(t), MarkProvisioning(t)
    PROVE  SurvivalInv(t)'
  <1> SUFFICES ASSUME NEW r, r = tab'[t].run, NEW s, s = tab'[t].seen, NEW o, o = tab[t].run
               PROVE  SurvivalInv(t)'
    OBVIOUS
  <1>1. /\ UNCHANGED <<rows, outbox, parked, cloud, history, lease, edits, job, auxVars>>
        /\ o.pc = "marking" /\ link \in Links
    BY WorldTypes DEF MarkProvisioning, serverVars, Runs
  <1>2. /\ link'.state = "provisioning" /\ link'.reason = "backup-import"
        /\ link'.pending = o.id /\ link'.rev = link.rev
    BY <1>1 DEF MarkProvisioning, Links
  <1>3. /\ r.pc = IF o.kind = "import" THEN "replacing" ELSE "publishing"
        /\ r.kind = o.kind /\ r.data = o.data /\ r.id = o.id
        /\ r.age = o.age /\ r.base = o.base /\ r.rev = o.rev /\ s = tab[t].seen
    BY Heads DEF MarkProvisioning
  <1>4. TabOK(o, s) /\ o.kind \in {"import", "resume"} /\ LinkOK(link)
    BY <1>1, <1>3 DEF SurvivalInv, WorldOK, TabOK, RunKind
  <1>5. o.id \in Imports /\ Counts(o.id)
    <2>1. Fresh(t)
      BY <1>1 DEF CloudInv, TabInv, RunInv
    <2> QED
      BY <2>1 DEF Fresh, Counts, Live
  <1>6. LinkOK(link') /\ Importing(link') /\ ~Young(link')
    BY <1>2, <1>4, <1>5 DEF LinkOK, Young, Importing
  <1>7. RunKind(r) /\ KnownRun(r) /\ LinkOK(s)
    BY <1>3, <1>4 DEF TabOK, RunKind, SeenOK, KnownRun
  <1>8. EditsRun(r) /\ FileRun(r, s)
    BY <1>1, <1>3, <1>4 DEF TabOK, EditsRun, FileRun
  <1>9. SeenOK(r, s)' /\ LinkDuring(r)'
    <2>1. LinkOK(s)'
      BY <1>1, <1>7, DataRests
    <2> QED
      BY <1>2, <1>3, <1>4, <1>6, <2>1 DEF TabOK, SeenOK, LinkDuring, Importing
  <1>10. Young(s) /\ r.kind # "import" => Virgin
    BY <1>3, <1>4 DEF TabOK
  <1> QED
    BY <1>1, <1>2, <1>5, <1>6, <1>7, <1>8, <1>9, <1>10, LinkMoves

(* A synchronisation begins, and a snapshot is fetched.                    *)
LEMMA FetchSurvives ==
    ASSUME CloudInv, CloudInv', NEW t \in Tabs, SurvivalInv(t),
           Check(t) \/ Fetch(t) \/ LoseSync(t)
    PROVE  SurvivalInv(t)'
  <1> SUFFICES ASSUME NEW r, r = tab'[t].run, NEW s, s = tab[t].seen, NEW o, o = tab[t].run
               PROVE  SurvivalInv(t)'
    OBVIOUS
  <1>1. /\ UNCHANGED <<rows, outbox, parked, link, cloud, history, lease, edits, auxVars>>
        /\ job' = job /\ o.pc \in {"checking", "pushing", "fetching"}
    BY DEF Check, Fetch, LoseSync, deviceVars, serverVars, Runs
  <1>2. /\ TabOK(o, s) /\ WorldOK /\ o \in Runnings /\ o.kind \in {"link", "promotion", "sync"}
        /\ LinkOK(link) /\ KnownWorld /\ EditsWorld /\ FileWorld
    BY <1>1 DEF SurvivalInv, TabOK, RunKind, CloudInv, TypeInv, WorldOK
  <1>3. CASE Throw(t)
    BY <1>1, <1>2, <1>3, TabMoves
  <1>4. SUFFICES ASSUME ~Throw(t)
                 PROVE  tab'[t].seen = s /\ TabOK(r, s)
    BY <1>1, <1>3, TabMoves
  <1>5. CASE Check(t)
    <2> DEFINE n == [o EXCEPT !.pc = "pushing", !.data = outbox, !.age = edits, !.base = link.rev]
    <2>1. Continue(t, n) /\ link.state # "provisioning" /\ o.pc = "checking"
      BY <1>4, <1>5 DEF Check, InitializationReady, Runs
    <2>2. /\ n.pc = "pushing" /\ n.kind = o.kind /\ n.data = outbox /\ n.age = edits
          /\ n.base = link.rev /\ n.rev = o.rev
      BY <1>2 DEF Runnings
    <2> HIDE DEF n
    <2>3. tab'[t].seen = s /\ r = n
      BY <2>1, Turns
    <2>4. link.state = "ready"
      BY <1>2, <2>1 DEF TabOK, LinkDuring, LinkOK, Young, Importing
    <2>5. RunKind(r) /\ SeenOK(r, s) /\ LinkDuring(r)
      BY <1>2, <2>2, <2>3, <2>4 DEF TabOK, RunKind, SeenOK, LinkDuring
    <2>6. KnownRun(r)
      BY <1>2, <2>2, <2>3, WorldTypes DEF TabOK, KnownRun, KnownWorld, LinkOK
    <2>7. EditsRun(r)
      BY <1>2, <2>2, <2>3 DEF EditsRun, EditsWorld, UpTo
    <2>8. FileRun(r, s)
      BY <1>2, <2>2, <2>3 DEF TabOK, FileRun
    <2> QED
      BY <1>2, <2>2, <2>3, <2>5, <2>6, <2>7, <2>8 DEF TabOK
  <1>6. CASE Fetch(t)
    <2> DEFINE n == [o EXCEPT !.pc = "applying", !.data = cloud, !.rev = Revision]
    <2>1. Continue(t, n) /\ o.pc = "fetching"
      BY <1>4, <1>6 DEF Fetch, Runs
    <2>2. /\ n.pc = "applying" /\ n.kind = o.kind /\ n.data = cloud /\ n.age = o.age
          /\ n.base = o.base /\ n.rev = Revision
      BY <1>2 DEF Runnings
    <2> HIDE DEF n
    <2>3. tab'[t].seen = s /\ r = n
      BY <2>1, Turns
    <2>4. link.state = "ready"
      BY <1>2, <2>1 DEF TabOK, LinkDuring
    <2>5. RunKind(r) /\ SeenOK(r, s) /\ LinkDuring(r)
      BY <1>2, <2>2, <2>3, <2>4 DEF TabOK, RunKind, SeenOK, LinkDuring
    <2>6. KnownRun(r)
      BY <1>2, <2>2, <2>3, WorldTypes DEF TabOK, KnownRun, KnownWorld, Revision
    <2>7. EditsRun(r)
      BY <1>2, <2>1, <2>2, <2>3 DEF TabOK, EditsRun
    <2>8. FileRun(r, s)
      BY <1>2, <2>2, <2>3, <2>4 DEF TabOK, FileRun, FileWorld, Safe
    <2> QED
      BY <1>2, <2>2, <2>3, <2>5, <2>6, <2>7, <2>8 DEF TabOK
  <1> QED
    BY <1>4, <1>5, <1>6 DEF LoseSync

(* The tab settles what it began, and the world it leaves is in order.     *)
LEMMA FinishSurvives ==
    ASSUME CloudInv, CloudInv', NEW t \in Tabs, WorldOK', Finish(t)
    PROVE  SurvivalInv(t)'
  BY IdleHolds, Turns DEF SurvivalInv

(* A synchronisation ends, and the screens may go on with what they had.   *)
LEMMA SyncEndSurvives ==
    ASSUME CloudInv, CloudInv', NEW t \in Tabs, SurvivalInv(t), WorldOK', SyncEnds(t),
           link'.state = "ready", Len(history) <= Len(history'), job' = job,
           \A i \in Requests : Counts(i) => Counts(i)'
    PROVE  SurvivalInv(t)'
  <1> SUFFICES ASSUME NEW s, s = tab[t].seen
               PROVE  SurvivalInv(t)'
    OBVIOUS
  <1>1. CASE Finish(t)
    BY <1>1, FinishSurvives
  <1>2. CASE tab[t].run.kind = "sync" /\ Throw(t)
    <2>1. TabOK(Idle, s)
      BY <1>2, ThrowHolds DEF SurvivalInv
    <2>2. Len(history) \in Nat /\ Len(history') \in Nat \ {0} /\ edits' \in Nat /\ s \in Links
      BY DEF CloudInv, TypeInv
    <2>3. LinkOK(s)'
      BY <2>1, <2>2 DEF TabOK, SeenOK, LinkOK, Links
    <2>4. RunKind(Idle)' /\ LinkDuring(Idle)' /\ KnownRun(Idle)' /\ EditsRun(Idle)'
      BY <2>2, IdleIs DEF RunKind, LinkDuring, KnownRun, EditsRun
    <2>5. SeenOK(Idle, s)'
      BY <2>1, <2>3, IdleIs DEF TabOK, SeenOK, Importing
    <2>6. FileRun(Idle, s)'
      <3>1. Importing(s) => s.pending \in Requests
        BY <2>1, WorldTypes DEF TabOK, SeenOK, LinkOK
      <3> QED
        BY <2>1, <3>1, IdleIs DEF TabOK, FileRun
    <2>7. Young(s) => Virgin'
      BY <2>1, IdleIs DEF TabOK, Virgin
    <2>8. TabOK(Idle, s)'
      BY <2>3, <2>4, <2>5, <2>6, <2>7 DEF TabOK
    <2> QED
      BY <1>2, <2>8, Turns DEF SurvivalInv
  <1> QED
    BY <1>1, <1>2 DEF SyncEnds

(* The snapshot is applied: what it lacks is in the dead letters, or was   *)
(* made while it was fetched.                                              *)
LEMMA ApplySurvives ==
    ASSUME CloudInv, CloudInv', NEW t \in Tabs, SurvivalInv(t), ApplySnapshot(t)
    PROVE  SurvivalInv(t)'
  <1> SUFFICES ASSUME NEW o, o = tab[t].run
               PROVE  SurvivalInv(t)'
    OBVIOUS
  <1>1. /\ UNCHANGED <<outbox, parked, account, cloud, history, lease, job, edits>>
        /\ rows' = o.data /\ overtaken' = overtaken \union ((o.age + 1) .. edits)
        /\ UNCHANGED <<imported, replaced, uncarried, clobbered>> /\ o.pc = "applying"
        /\ link \in Links
    BY WorldTypes DEF ApplySnapshot, serverVars, Runs
  <1>2. link' = [link EXCEPT !.rev = o.rev]
    BY DEF ApplySnapshot
  <1>3. link'.state = link.state /\ link'.rev = o.rev
    BY <1>1, <1>2 DEF Links
  <1>4. /\ TabOK(o, tab[t].seen) /\ LinkOK(link) /\ KnownWorld /\ LeaseInv /\ EditsWorld
        /\ FileWorld
    BY DEF SurvivalInv, WorldOK
  <1>5. /\ link.state = "ready" /\ o.data \subseteq Known /\ o.age \in Nat /\ o.age <= edits
        /\ UpTo(o.age) \subseteq o.data \union parked /\ Wanted \subseteq o.data
        /\ o.rev < Len(history) /\ edits \in Nat
    <2>1. o \in Runnings
      BY DEF CloudInv, TypeInv
    <2> QED
      BY <1>1, <1>4, <2>1, WorldTypes DEF TabOK, LinkDuring, KnownRun, EditsRun, FileRun, Runnings
  <1>6. Unexplained' \subseteq UpTo(o.age) /\ Unexplained' \subseteq Unexplained
        /\ Wanted' \subseteq Wanted
    BY <1>1, <1>5 DEF Unexplained, Explained, UpTo, Wanted
  <1>7. LinkOK(link)' /\ ~Young(link)' /\ ~Importing(link)'
    BY <1>1, <1>3, <1>5 DEF LinkOK, Young, Importing
  <1>8. KnownWorld' /\ LeaseInv'
    BY <1>1, <1>4, <1>5 DEF KnownWorld, Known, LeaseInv
  <1>9. \A i \in Requests : Live(i)' <=> Live(i)
    BY <1>1 DEF Live
  <1>10. EditsWorld'
    BY <1>1, <1>4, <1>5, <1>6, <1>9, WorldTypes DEF EditsWorld, UpTo, Replaces
  <1>11. FileWorld'
    <2>1. Safe => Safe'
      BY <1>1, <1>6, FileFalls
    <2> QED
      BY <1>1, <1>3, <1>4, <1>5, <1>6, <1>7, <2>1 DEF FileWorld
  <1>12. WorldOK'
    BY <1>7, <1>8, <1>10, <1>11 DEF WorldOK
  <1>13. \A i \in Requests : Counts(i) => Counts(i)'
    BY <1>1, <1>6, FileFalls
  <1>14. SyncEnds(t) /\ Len(history) <= Len(history')
    BY <1>1, WorldTypes DEF ApplySnapshot
  <1> QED
    BY <1>1, <1>3, <1>5, <1>12, <1>13, <1>14, SyncEndSurvives

(* The outbox is cleared behind an upload: every edit the backup had is in *)
(* the cloud.                                                              *)
LEMMA ClearSurvives ==
    ASSUME CloudInv, CloudInv', NEW t \in Tabs, SurvivalInv(t), ClearOutbox(t)
    PROVE  SurvivalInv(t)'
  <1> SUFFICES ASSUME NEW r, r = tab'[t].run, NEW s, s = tab[t].seen, NEW o, o = tab[t].run
               PROVE  SurvivalInv(t)'
    OBVIOUS
  <1>1. /\ UNCHANGED <<rows, link, cloud, history, lease, job, edits>>
        /\ outbox' = {} /\ parked' = {} /\ o.pc = "clearing"
        /\ uncarried' = uncarried \union ((outbox \union parked) \ o.data)
        /\ UNCHANGED <<imported, replaced, clobbered, overtaken>>
    BY DEF ClearOutbox, serverVars, Runs
  <1>2. /\ r.pc = "readying" /\ r.kind = o.kind /\ r.data = o.data /\ r.id = o.id
        /\ r.age = o.age /\ r.base = o.base /\ r.rev = o.rev /\ tab'[t].seen = s
    BY Heads DEF ClearOutbox
  <1>3. /\ TabOK(o, s) /\ LinkOK(link) /\ KnownWorld /\ LeaseInv /\ EditsWorld /\ FileWorld
        /\ o.kind \in {"link", "promotion"}
    BY <1>1 DEF SurvivalInv, WorldOK, TabOK, RunKind
  <1>4. Virgin /\ Safe /\ Unexplained \intersect o.data \subseteq cloud /\ o.data \subseteq rows /\ Young(s)
    BY <1>1, <1>3 DEF TabOK, SeenOK, EditsRun, FileRun
  <1>5. Unexplained' \subseteq Unexplained /\ Unexplained' \subseteq cloud /\ Wanted' \subseteq Wanted
    <2>1. Unexplained' \subseteq Unexplained /\ Wanted' \subseteq Wanted
      BY <1>1 DEF Unexplained, Explained, Wanted
    <2>2. ASSUME NEW x \in Unexplained', x \notin cloud
          PROVE  FALSE
      <3>1. x \in outbox \union parked /\ x \notin o.data /\ x \in Unexplained
        BY <1>3, <1>4, <2>1, <2>2 DEF EditsWorld
      <3>2. x \in uncarried'
        BY <1>1, <3>1
      <3> QED
        BY <2>2, <3>2 DEF Unexplained, Explained
    <2> QED
      BY <2>1, <2>2
  <1>6. Virgin'
    BY <1>1, <1>4, <1>5, WorldTypes DEF Virgin
  <1>7. (Safe => Safe') /\ \A i \in Requests : Counts(i) => Counts(i)'
    BY <1>1, <1>5, FileFalls
  <1>8. WorldOK'
    <2>1. LinkOK(link)' /\ LeaseInv' /\ KnownWorld'
      BY <1>1, <1>3 DEF LinkOK, LeaseInv, KnownWorld, Known
    <2>2. EditsWorld'
      <3>1. Unexplained' \subseteq rows
        <4>1. Unexplained' \intersect parked \subseteq o.data
          BY <1>1 DEF Unexplained, Explained
        <4> QED
          BY <1>3, <1>4, <1>5, <4>1 DEF EditsWorld
      <3>2. \A i \in Imports : ~Live(i)'
        BY <1>6 DEF Virgin, Live
      <3> QED
        BY <1>1, <1>5, <3>1, <3>2 DEF EditsWorld
    <2>3. FileWorld'
      BY <1>1, <1>3, <1>4, <1>5, <1>7, WorldTypes DEF FileWorld, LinkOK
    <2> QED
      BY <1>6, <2>1, <2>2, <2>3 DEF WorldOK
  <1>9. TabOK(r, s)'
    <2>1. RunKind(r)' /\ SeenOK(r, s)' /\ LinkDuring(r)' /\ KnownRun(r)'
      BY <1>1, <1>2, <1>3 DEF TabOK, RunKind, SeenOK, LinkOK, LinkDuring, KnownRun, Known
    <2>2. EditsRun(r)'
      BY <1>2, <1>3 DEF EditsRun
    <2>3. FileRun(r, s)'
      BY <1>2, <1>3, <1>4, <1>7 DEF FileRun, Young, Importing
    <2> QED
      BY <1>6, <2>1, <2>2, <2>3 DEF TabOK
  <1> QED
    BY <1>2, <1>8, <1>9 DEF SurvivalInv

(* An import replaces the rows, and all local edits with them.             *)
LEMMA ReplaceSurvives ==
    ASSUME CloudInv, CloudInv', NEW t \in Tabs, SurvivalInv(t), ReplaceLocal(t)
    PROVE  SurvivalInv(t)'
  <1> SUFFICES ASSUME NEW r, r = tab'[t].run, NEW s, s = tab[t].seen, NEW o, o = tab[t].run
               PROVE  SurvivalInv(t)'
    OBVIOUS
  <1>1. /\ UNCHANGED <<link, cloud, history, lease, job, edits, uncarried, clobbered, overtaken>>
        /\ rows' = o.data /\ outbox' = {} /\ parked' = {} /\ o.pc = "replacing"
        /\ replaced' = replaced \union (1 .. edits)
        /\ imported' = (imported \/ o.kind = "import" \/ link.state = "none")
    BY DEF ReplaceLocal, serverVars, Runs, Aware
  <1>2. /\ TabOK(o, s) /\ LinkOK(link) /\ KnownWorld /\ LeaseInv /\ EditsWorld /\ FileWorld
        /\ o.kind \in {"import", "local-import"} /\ o.data = File /\ o.data \subseteq Known
    BY <1>1 DEF SurvivalInv, WorldOK, TabOK, RunKind, FileRun, KnownRun
  <1>3. Unexplained' = {} /\ Wanted' \subseteq File
    BY <1>1 DEF Unexplained, Explained, Wanted
  <1>4. Virgin => Virgin'
    BY <1>1, <1>3, WorldTypes DEF Virgin
  <1>5. o.kind = "import" => /\ Importing(link) /\ link.pending = o.id /\ o.id \in Imports
                             /\ job[o.id].at = "unused"
    <2>1. o.kind = "import" => Fresh(t)
      BY <1>1 DEF CloudInv, TabInv, RunInv
    <2> QED
      BY <1>1, <1>2, <2>1 DEF TabOK, LinkDuring, Fresh
  <1>6. ASSUME link.state # "none", o.kind # "import"
        PROVE  (Safe => Safe') /\ \A i \in Requests : Counts(i) => Counts(i)'
    <2>1. Wanted' \subseteq Wanted
      BY <1>1, <1>6 DEF Wanted, Explained
    <2> QED
      BY <1>1, <2>1, FileFalls
  <1>7. WorldOK'
    <2>1. LinkOK(link)' /\ LeaseInv' /\ KnownWorld'
      BY <1>1, <1>2 DEF LinkOK, LeaseInv, KnownWorld, Known
    <2>2. EditsWorld'
      BY <1>3 DEF EditsWorld, UpTo, Replaces
    <2>3. FileWorld'
      <3>1. CASE o.kind = "import"
        <4>1. Counts(o.id)' /\ link'.pending = o.id /\ link'.state # "ready"
          BY <1>1, <1>5, <3>1 DEF Counts, Live, Importing
        <4> QED
          BY <1>1, <1>2, <1>3, <4>1 DEF FileWorld
      <3>2. CASE o.kind # "import" /\ link.state = "none"
        BY <1>1, <1>2, <1>3, <3>2 DEF FileWorld, Importing
      <3>3. CASE o.kind # "import" /\ link.state # "none"
        BY <1>1, <1>2, <1>3, <1>6, <3>3, WorldTypes DEF FileWorld, LinkOK, Importing
      <3> QED
        BY <3>1, <3>2, <3>3
    <2>4. Young(link)' => Virgin'
      <3>1. Young(link) => Virgin
        BY DEF SurvivalInv, WorldOK
      <3> QED
        BY <1>1, <1>4, <3>1 DEF Young
    <2> QED
      BY <2>1, <2>2, <2>3, <2>4 DEF WorldOK
  <1>8. CASE Finish(t)
    BY <1>7, <1>8, FinishSurvives
  <1>9. CASE ~Finish(t)
    <2>1. /\ r.pc = "publishing" /\ r.kind = o.kind /\ r.data = o.data /\ r.id = o.id
          /\ r.age = o.age /\ r.base = o.base /\ r.rev = o.rev /\ tab'[t].seen = s
          /\ o.kind = "import"
      BY <1>2, <1>9, Heads DEF ReplaceLocal
    <2>2. RunKind(r)' /\ SeenOK(r, s)' /\ LinkDuring(r)' /\ KnownRun(r)'
      BY <1>1, <1>2, <1>5, <2>1 DEF TabOK, RunKind, SeenOK, LinkOK, LinkDuring, KnownRun, Known
    <2>3. EditsRun(r)'
      BY <1>3, <2>1 DEF EditsRun, Replaces
    <2>4. FileRun(r, s)'
      BY <1>2, <1>3, <2>1 DEF FileRun
    <2>5. TabOK(r, s)'
      BY <2>1, <2>2, <2>3, <2>4 DEF TabOK
    <2> QED
      BY <1>7, <2>1, <2>5 DEF SurvivalInv
  <1> QED
    BY <1>8, <1>9

(* The replacement fails.                                                  *)
LEMMA FailSurvives ==
    ASSUME CloudInv, CloudInv', NEW t \in Tabs, SurvivalInv(t), ReplaceFails(t)
    PROVE  SurvivalInv(t)'
  <1> SUFFICES ASSUME NEW r, r = tab'[t].run, NEW s, s = tab[t].seen, NEW o, o = tab[t].run
               PROVE  SurvivalInv(t)'
    OBVIOUS
  <1>1. /\ UNCHANGED <<rows, outbox, parked, link, cloud, history, lease, job, edits>>
        /\ UNCHANGED <<replaced, uncarried, clobbered, overtaken>>
        /\ imported' = (imported /\ s.state # "provisioning") /\ o.pc = "replacing"
    BY DEF ReplaceFails, UploadPending, deviceVars, serverVars, Runs
  <1>2. /\ TabOK(o, s) /\ LinkOK(link) /\ KnownWorld /\ LeaseInv /\ EditsWorld /\ FileWorld
        /\ o.kind \in {"import", "local-import"} /\ o \in Runnings
    BY <1>1 DEF SurvivalInv, WorldOK, TabOK, RunKind, CloudInv, TypeInv
  <1>3. Unexplained' = Unexplained /\ Wanted' \subseteq Wanted
    BY <1>1 DEF Unexplained, Explained, Wanted
  <1>4. (Safe => Safe') /\ \A i \in Requests : Counts(i) => Counts(i)'
    BY <1>1, <1>3, FileFalls
  <1>5. Virgin' <=> Virgin
    BY <1>1, <1>3, WorldTypes DEF Virgin
  <1>6. WorldOK'
    <2>1. LinkOK(link)' /\ LeaseInv' /\ KnownWorld'
      BY <1>1, <1>2 DEF LinkOK, LeaseInv, KnownWorld, Known
    <2>2. EditsWorld'
      BY <1>1, <1>2, <1>3, WorldTypes DEF EditsWorld, UpTo, Replaces, Live
    <2>3. FileWorld'
      BY <1>1, <1>2, <1>3, <1>4, WorldTypes DEF FileWorld, LinkOK
    <2>4. Young(link)' => Virgin'
      BY <1>1, <1>5 DEF SurvivalInv, WorldOK, Young
    <2> QED
      BY <2>1, <2>2, <2>3, <2>4 DEF WorldOK
  <1>7. CASE o.kind = "local-import"
    <2>1. /\ r.pc = "idle" /\ r.kind = "none" /\ r.data = {} /\ r.age = 0 /\ r.base = 0
          /\ r.rev = 0 /\ tab'[t].seen = s /\ s.state = "none"
      BY <1>2, <1>7, Turns, IdleIs DEF ReplaceFails, TabOK, SeenOK
    <2>2. RunKind(r)' /\ SeenOK(r, s)' /\ LinkDuring(r)' /\ KnownRun(r)' /\ EditsRun(r)'
      BY <1>1, <1>2, <1>7, <2>1, WorldTypes
         DEF TabOK, RunKind, SeenOK, LinkOK, LinkDuring, KnownRun, EditsRun
    <2>3. FileRun(r, s)'
      BY <2>1 DEF FileRun, Importing
    <2>4. TabOK(r, s)'
      BY <1>2, <1>5, <1>7, <2>1, <2>2, <2>3 DEF TabOK
    <2> QED
      BY <1>6, <2>1, <2>4 DEF SurvivalInv
  <1>8. CASE o.kind = "import"
    <2> DEFINE n == [o EXCEPT !.pc = "readying", !.rev = o.base]
    <2>1. Continue(t, n)
      BY <1>8 DEF ReplaceFails
    <2>2. /\ n.pc = "readying" /\ n.kind = "import" /\ n.data = o.data /\ n.age = o.age
          /\ n.base = o.base /\ n.rev = o.base
      BY <1>2, <1>8 DEF Runnings
    <2> HIDE DEF n
    <2>3. r = n /\ tab'[t].seen = s
      BY <2>1, Turns
    <2>4. Safe'
      <3>1. CASE s.state = "provisioning"
        <4>1. Wanted' = {}
          BY <1>1, <3>1 DEF Wanted
        <4> QED
          BY <4>1 DEF Safe
      <3>2. CASE s.state # "provisioning"
        <4>1. s.state = "ready" /\ Safe
          BY <1>1, <1>2, <1>8, <3>2 DEF TabOK, SeenOK, LinkOK, Young, Importing, FileRun
        <4> QED
          BY <1>4, <4>1
      <3> QED
        BY <3>1, <3>2
    <2>5. TabOK(r, s)'
      <3>1. RunKind(r)' /\ SeenOK(r, s)' /\ LinkDuring(r)' /\ KnownRun(r)' /\ EditsRun(r)'
        BY <1>1, <1>2, <1>8, <2>2, <2>3
           DEF TabOK, RunKind, SeenOK, LinkOK, LinkDuring, KnownRun, Known, EditsRun
      <3>2. FileRun(r, s)'
        BY <2>2, <2>3, <2>4 DEF FileRun
      <3> QED
        BY <2>2, <2>3, <3>1, <3>2 DEF TabOK
    <2> QED
      BY <1>6, <2>3, <2>5 DEF SurvivalInv
  <1> QED
    BY <1>2, <1>7, <1>8

(* A request arrives: no lease is its own, and it carries what its tab     *)
(* carried.                                                                *)
LEMMA PostSurvives ==
    ASSUME CloudInv, CloudInv', NEW t \in Tabs, SurvivalInv(t),
           (\E i \in Posts : PostRestore(t, i)) \/ PostImport(t)
    PROVE  SurvivalInv(t)'
  <1> SUFFICES ASSUME NEW r, r = tab'[t].run, NEW s, s = tab[t].seen, NEW o, o = tab[t].run
               PROVE  SurvivalInv(t)'
    OBVIOUS
  <1>1. /\ TabOK(o, s) /\ LinkOK(link) /\ KnownWorld /\ LeaseInv /\ EditsWorld /\ FileWorld
        /\ o \in Runnings /\ RunKind(o) /\ (Young(link) => Virgin)
    BY DEF SurvivalInv, WorldOK, TabOK, CloudInv, TypeInv
  <1>2. UNCHANGED <<rows, outbox, parked, link, cloud, history, lease, edits, auxVars>>
    BY DEF PostRestore, PostImport, deviceVars
  <1>3. \/ o.pc = "restoring" /\ o.kind \in {"link", "promotion"} /\ Young(s) /\ Virgin
        \/ o.pc = "publishing" /\ o.kind \in {"import", "resume"} /\ Importing(link)
             /\ link.pending = o.id
    BY <1>1 DEF PostRestore, PostImport, Runs, RunKind, TabOK, SeenOK, LinkDuring
  <1> DEFINE Posted(i) ==
          /\ job[i].at = "unused" /\ \A j \in Requests : j # i => job'[j] = job[j]
          /\ job'[i].data = o.data /\ job'[i].at \in {"begin", "reserve"}
          /\ r.pc = "awaiting" /\ r.kind = o.kind /\ r.data = o.data /\ r.age = o.age
          /\ r.base = o.base /\ r.rev = o.rev /\ r.id = i /\ tab'[t].seen = s
          /\ \/ i \in Posts /\ o.pc = "restoring" /\ job'[i].base = 0
             \/ i \in Imports /\ o.pc = "publishing" /\ job'[i].base = o.base /\ i = o.id
  <1>4. PICK i \in Requests : Posted(i)
    <2>1. ASSUME NEW i \in Posts, PostRestore(t, i)
          PROVE  i \in Requests /\ Posted(i)
      <3> DEFINE n == [o EXCEPT !.pc = "awaiting", !.id = i]
      <3>1. Continue(t, n) /\ o.pc = "restoring" /\ job[i].at = "unused" /\ i \in Requests
        BY <2>1, WorldTypes DEF PostRestore, Runs
      <3>2. /\ n.pc = "awaiting" /\ n.kind = o.kind /\ n.data = o.data /\ n.age = o.age
            /\ n.base = o.base /\ n.rev = o.rev /\ n.id = i
        BY <1>1 DEF Runnings
      <3> HIDE DEF n
      <3>3. r = n /\ tab'[t].seen = s
        BY <3>1, Turns
      <3>4. /\ job'[i].data = o.data /\ job'[i].at = "reserve"
            /\ job'[i].base = 0 /\ \A j \in Requests : j # i => job'[j] = job[j]
        BY <2>1, <3>1, WorldTypes DEF PostRestore, NoJob
      <3> QED
        BY <3>1, <3>2, <3>3, <3>4
    <2>2. ASSUME PostImport(t)
          PROVE  \E i \in Requests : Posted(i)
      <3>1. Goto(t, "awaiting") /\ o.pc = "publishing" /\ Fresh(t)
        BY <2>2 DEF PostImport, Runs, CloudInv, TabInv, RunInv
      <3>2. o.id \in Requests /\ o.id \in Imports /\ job[o.id].at = "unused"
        BY <3>1, WorldTypes DEF Fresh
      <3>3. /\ job'[o.id].data = o.data /\ job'[o.id].at = "begin"
            /\ job'[o.id].base = o.base /\ \A j \in Requests : j # o.id => job'[j] = job[j]
        BY <2>2, <3>2, WorldTypes DEF PostImport, NoJob
      <3>4. /\ r.pc = "awaiting" /\ r.kind = o.kind /\ r.data = o.data /\ r.age = o.age
            /\ r.base = o.base /\ r.rev = o.rev /\ r.id = o.id /\ tab'[t].seen = s
        BY <3>1, Heads
      <3> QED
        BY <3>1, <3>2, <3>3, <3>4
    <2> QED
      BY <2>1, <2>2
  <1>5. Unexplained' = Unexplained /\ Wanted' = Wanted /\ Known' = Known
        /\ (\A n : UpTo(n)' = UpTo(n)) /\ (\A n, d : Replaces(n, d)' <=> Replaces(n, d))
    BY <1>2 DEF auxVars, Unexplained, Wanted, Explained, Known, UpTo, Replaces
  <1>6. \A j \in Requests : j # i => (Live(j)' <=> Live(j))
    BY <1>4 DEF Live
  <1>7. /\ o.data \subseteq Known /\ o.age <= edits /\ o.base < Len(history)
        /\ o.rev < Len(history) /\ Wanted \subseteq o.data
    BY <1>1, <1>3 DEF TabOK, KnownRun, FileRun
  <1>8. i \in Imports => Replaces(o.base, o.data)
    BY <1>1, <1>3, <1>4, WorldTypes DEF TabOK, EditsRun
  <1>9. Safe => Safe'
    BY <1>2, <1>4, <1>5, <1>6, <1>7, WorldTypes DEF Safe, Revision
  <1>10. \A j \in Requests : Counts(j) \/ j = i => Counts(j)'
    BY <1>4, <1>5, <1>6, <1>7, <1>9 DEF Counts
  <1>11. i \in Posts /\ Virgin => Virgin'
    BY <1>2, <1>4, <1>5, WorldTypes DEF Virgin
  <1>12. WorldOK'
    <2>1. LinkOK(link)'
      BY <1>1, <1>2 DEF LinkOK
    <2>2. LeaseInv'
      BY <1>1, <1>2, <1>4, WorldTypes DEF LeaseInv
    <2>3. KnownWorld'
      BY <1>1, <1>2, <1>4, <1>5, <1>7, WorldTypes DEF KnownWorld
    <2>4. EditsWorld'
      BY <1>1, <1>2, <1>4, <1>5, <1>6, <1>8, WorldTypes DEF EditsWorld
    <2>5. FileWorld'
      <3>1. Importing(link) => link.pending \in Requests
        BY <1>1, WorldTypes DEF LinkOK
      <3> QED
        BY <1>1, <1>2, <1>5, <1>9, <1>10, <3>1 DEF FileWorld
    <2>6. Young(link)' => Virgin'
      BY <1>1, <1>2, <1>3, <1>4, <1>11, WorldTypes DEF Young, Importing
    <2> QED
      BY <2>1, <2>2, <2>3, <2>4, <2>5, <2>6 DEF WorldOK
  <1>13. TabOK(r, s)'
    <2>1. RunKind(r)'
      BY <1>3, <1>4, WorldTypes DEF RunKind
    <2>2. SeenOK(r, s)' /\ LinkDuring(r)' /\ KnownRun(r)'
      BY <1>1, <1>2, <1>4, <1>5 DEF TabOK, SeenOK, LinkOK, LinkDuring, KnownRun
    <2>3. EditsRun(r)'
      <3>1. r.kind \in {"link", "promotion"} => r.data \subseteq rows
        BY <1>1, <1>3, <1>4 DEF TabOK, EditsRun
      <3> QED
        BY <1>2, <1>4, <3>1 DEF EditsRun
    <2>4. FileRun(r, s)'
      <3>1. Importing(s) => s.pending \in Requests
        BY <1>1, WorldTypes DEF TabOK, SeenOK, LinkOK
      <3> QED
        BY <1>1, <1>4, <1>10, <3>1 DEF TabOK, FileRun
    <2>5. Young(s) /\ r.kind # "import" => Virgin'
      BY <1>1, <1>3, <1>4, <1>11, WorldTypes DEF TabOK, SeenOK, Young, Importing
    <2> QED
      BY <2>1, <2>2, <2>3, <2>4, <2>5 DEF TabOK
  <1> QED
    BY <1>4, <1>12, <1>13 DEF SurvivalInv

(* A push: what it sent is in the cloud, or in the dead letters.           *)
LEMMA PushSurvives ==
    ASSUME CloudInv, CloudInv', NEW t \in Tabs, SurvivalInv(t), Push(t)
    PROVE  SurvivalInv(t)'
  <1> SUFFICES ASSUME NEW r, r = tab'[t].run, NEW s, s = tab[t].seen, NEW o, o = tab[t].run
               PROVE  SurvivalInv(t)'
    OBVIOUS
  <1>1. /\ TabOK(o, s) /\ LinkOK(link) /\ KnownWorld /\ LeaseInv /\ EditsWorld /\ FileWorld
        /\ o \in Runnings /\ RunKind(o) /\ link \in Links
    BY WorldTypes DEF SurvivalInv, WorldOK, TabOK, CloudInv, TypeInv
  <1>2. o.pc = "pushing" /\ UNCHANGED <<rows, account, lease, job, edits, auxVars>>
    BY DEF Push, Runs, deviceVars
  <1>3. /\ link.state = "ready" /\ o.data \subseteq outbox
        /\ UpTo(o.age) \subseteq cloud \union parked \union o.data
        /\ o.kind \in {"link", "promotion", "sync"} /\ Safe
    BY <1>1, <1>2 DEF TabOK, LinkDuring, EditsRun, RunKind, FileWorld
  <1>4. /\ history' = history \/ history' = Append(history, cloud')
        /\ cloud \subseteq cloud' /\ cloud' \subseteq cloud \union o.data
        /\ cloud' = history'[Len(history')] \/ (cloud' = cloud /\ history' = history)
        /\ outbox' = outbox \/ outbox' = outbox \ o.data
        /\ outbox \subseteq outbox' \union parked' \union cloud'
        /\ parked \subseteq parked' /\ parked' \subseteq parked \union o.data
        /\ o.data \subseteq parked' \union cloud' \/ SyncEnds(t)
        /\ link'.state = link.state
        /\ link' = link \/ link'.rev = Len(history') - 1
    <2>1. CASE o.data = {} \/ lease # Nothing
      <3>1. UNCHANGED <<deviceVars, cloud, history>> /\ (o.data = {} \/ SyncEnds(t))
        BY <2>1 DEF Push
      <3> QED
        BY <3>1 DEF deviceVars
    <2>2. CASE o.data # {} /\ lease = Nothing
      <3>1. link' = [link EXCEPT !.rev = Len(history') - 1] /\ outbox' = outbox \ o.data
        BY <2>2 DEF Push
      <3>2. link'.state = link.state /\ link'.rev = Len(history') - 1
        BY <1>1, <3>1 DEF Links
      <3>3. CASE o.base = Revision
        <4>1. cloud' = cloud \union o.data /\ history' = Append(history, cloud') /\ parked' = parked
          BY <2>2, <3>3 DEF Push
        <4>2. cloud' = history'[Len(history')]
          BY <4>1, WorldTypes DEF CloudInv, TypeInv
        <4> QED
          BY <3>1, <3>2, <4>1, <4>2
      <3>4. CASE o.base # Revision
        <4>1. cloud' = cloud /\ history' = history
              /\ parked' = parked \union (o.data \intersect outbox)
          BY <2>2, <3>4 DEF Push
        <4> QED
          BY <1>3, <3>1, <3>2, <4>1
      <3> QED
        BY <3>3, <3>4
    <2> QED
      BY <2>1, <2>2
  <1>5. /\ Len(history) \in Nat \ {0} /\ Len(history') \in Nat /\ Len(history') >= Len(history)
        /\ \A k \in 1 .. Len(history) : history'[k] = history[k]
        /\ \A k \in 1 .. Len(history') : history'[k] = cloud' \/ k \in 1 .. Len(history)
    <2>1. CASE history' = history
      BY <2>1, WorldTypes
    <2>2. CASE history' = Append(history, cloud')
      <3>1. TypeInv /\ cloud' \in SUBSET Changes
        BY DEF CloudInv, TypeInv
      <3> QED
        BY <2>2, <3>1, HistoryTypes
    <2> QED
      BY <1>4, <2>1, <2>2
  <1>6. Unexplained' = Unexplained /\ Wanted' = Wanted /\ Known' = Known
        /\ (\A n : UpTo(n)' = UpTo(n)) /\ (\A j \in Requests : Live(j)' <=> Live(j))
    BY <1>2 DEF auxVars, Unexplained, Wanted, Explained, Known, UpTo, Live
  <1>7. Safe'
    BY <1>2, <1>3, <1>4, <1>5, <1>6, WorldTypes DEF Safe, Revision, KnownWorld, Jobs
  <1>8. \A j \in Requests : Counts(j) => Counts(j)'
    BY <1>2, <1>6, <1>7 DEF Counts
  <1>9. LinkOK(link)' /\ ~Young(link)' /\ ~Importing(link)'
    BY <1>1, <1>3, <1>4, <1>5 DEF LinkOK, Young, Importing, Links
  <1>10. WorldOK'
    <2>1. LeaseInv'
      <3>1. lease \in Requests => job'[lease] = job[lease]
        BY <1>2
      <3> QED
        BY <1>1, <1>2, <1>4 DEF LeaseInv
    <2>2. KnownWorld'
      <3>1. o.data \subseteq Known /\ cloud' \subseteq Known /\ outbox' \subseteq Known
        BY <1>1, <1>3, <1>4 DEF KnownWorld
      <3>2. \A k \in 1 .. Len(history') : history'[k] \subseteq Known
        BY <1>1, <1>5, <3>1 DEF KnownWorld
      <3>3. \A j \in Requests : job[j].base < Len(history')
        BY <1>1, <1>5 DEF KnownWorld, CloudInv, TypeInv, Jobs
      <3> QED
        BY <1>1, <1>2, <1>6, <3>1, <3>2, <3>3 DEF KnownWorld
    <2>3. EditsWorld'
      <3>1. ASSUME NEW j \in Imports, Live(j)
            PROVE  Replaces(job[j].base, job[j].data)'
        <4>1. Replaces(job[j].base, job[j].data) /\ job[j].base \in Nat /\ job[j].base < Len(history)
          BY <1>1, <3>1, WorldTypes DEF EditsWorld, KnownWorld, Jobs
        <4>2. history'[job[j].base + 1] = history[job[j].base + 1]
          BY <1>5, <4>1
        <4> QED
          BY <1>2, <1>4, <1>6, <4>1, <4>2 DEF Replaces
      <3> QED
        BY <1>1, <1>2, <1>4, <1>6, <3>1, WorldTypes DEF EditsWorld
    <2>4. FileWorld'
      BY <1>1, <1>2, <1>6, <1>7, <1>9 DEF FileWorld
    <2> QED
      BY <1>9, <2>1, <2>2, <2>3, <2>4 DEF WorldOK
  <1>11. CASE SyncEnds(t)
    BY <1>2, <1>3, <1>4, <1>5, <1>8, <1>10, <1>11, SyncEndSurvives
  <1>12. CASE ~SyncEnds(t)
    <2>1. /\ r.pc = "fetching" /\ r.kind = o.kind /\ r.data = o.data /\ r.id = o.id
          /\ r.age = o.age /\ r.base = o.base /\ r.rev = o.rev /\ tab'[t].seen = s
      BY <1>12, Heads DEF Push
    <2>2. RunKind(r)' /\ SeenOK(r, s)' /\ LinkDuring(r)' /\ KnownRun(r)'
      <3>1. LinkOK(s)'
        BY <1>1, <1>5 DEF TabOK, SeenOK, LinkOK, CloudInv, TypeInv, Links
      <3>2. RunKind(r)' /\ LinkDuring(r)' /\ SeenOK(r, s)'
        BY <1>1, <1>3, <1>4, <1>9, <2>1, <3>1 DEF TabOK, RunKind, SeenOK, LinkDuring
      <3>3. KnownRun(r)'
        BY <1>1, <1>2, <1>5, <1>6, <2>1 DEF TabOK, KnownRun, Runnings
      <3> QED
        BY <3>2, <3>3
    <2>3. EditsRun(r)'
      BY <1>3, <1>4, <1>6, <1>12, <2>1 DEF EditsRun
    <2>4. FileRun(r, s)'
      <3>1. Importing(s) => s.pending \in Requests
        BY <1>1, WorldTypes DEF TabOK, SeenOK, LinkOK
      <3> QED
        BY <1>1, <1>8, <2>1, <1>3, <3>1 DEF TabOK, FileRun
    <2>5. Young(s) => Virgin'
      BY <1>1, <1>2, <1>3, <1>6 DEF TabOK, Virgin
    <2>6. TabOK(r, s)'
      BY <2>1, <2>2, <2>3, <2>4, <2>5 DEF TabOK
    <2> QED
      BY <1>10, <2>1, <2>6 DEF SurvivalInv
  <1> QED
    BY <1>11, <1>12

(* What happens elsewhere, and what it must leave a tab.                   *)
LEMMA WorldMoves ==
    ASSUME CloudInv, CloudInv', NEW t \in Tabs, SurvivalInv(t), UNCHANGED <<tab, link>>,
           KnownWorld', LeaseInv', EditsWorld', Virgin => Virgin',
           edits <= edits', Len(history) <= Len(history'),
           Wanted' \subseteq Wanted, rows \subseteq rows',
           Safe => Safe', \A j \in Requests : Counts(j) => Counts(j)',
           NEW o, o = tab[t].run, EditsRun(o)'
    PROVE  SurvivalInv(t)'
  <1> SUFFICES ASSUME NEW s, s = tab[t].seen
               PROVE  SurvivalInv(t)'
    OBVIOUS
  <1>1. /\ TabOK(o, s) /\ LinkOK(link) /\ FileWorld /\ (Young(link) => Virgin)
        /\ o \in Runnings /\ s \in Links /\ link \in Links /\ Imports \subseteq Requests
        /\ RunKind(o) /\ LinkOK(s) /\ RunInv(t)
    BY WorldTypes DEF SurvivalInv, WorldOK, TabOK, SeenOK, CloudInv, TypeInv, TabInv
  <1>2. Len(history) \in Nat /\ Len(history') \in Nat /\ edits \in Nat /\ edits' \in Nat
    BY DEF CloudInv, TypeInv
  <1>3. Known \subseteq Known'
    BY <1>2 DEF Known
  <1>4. LinkOK(link)' /\ LinkOK(s)'
    BY <1>1, <1>2 DEF LinkOK, Links
  <1>5. FileWorld'
    BY <1>1 DEF FileWorld, LinkOK
  <1>6. WorldOK'
    BY <1>1, <1>4, <1>5 DEF WorldOK
  <1>7. RunKind(o)' /\ SeenOK(o, s)' /\ LinkDuring(o)'
    BY <1>1, <1>4 DEF TabOK, RunKind, SeenOK, LinkDuring
  <1>8. KnownRun(o)'
    BY <1>1, <1>2, <1>3 DEF TabOK, KnownRun, Runnings
  <1>9. FileRun(o, s)'
    <2>1. Importing(s) => s.pending \in Requests
      BY <1>1 DEF LinkOK
    <2>2. /\ o.pc \in {"awaiting", "polling"} \/ (o.pc = "asking" /\ o.id # Nothing) =>
                o.id \in Requests
      BY <1>1, WorldTypes DEF RunKind, Runnings
    <2> QED
      BY <1>1, <2>1, <2>2 DEF TabOK, FileRun
  <1>10. TabOK(o, s)'
    BY <1>1, <1>7, <1>8, <1>9 DEF TabOK
  <1> QED
    BY <1>6, <1>10 DEF SurvivalInv

(* An edit is in the rows and waits for its push.                          *)
LEMMA EditSurvives ==
    ASSUME CloudInv, CloudInv', NEW t \in Tabs, SurvivalInv(t), Edit
    PROVE  SurvivalInv(t)'
  <1> SUFFICES ASSUME NEW o, o = tab[t].run
               PROVE  SurvivalInv(t)'
    OBVIOUS
  <1>1. /\ UNCHANGED <<parked, link, tab, cloud, history, lease, job, auxVars>>
        /\ rows' = rows \union {edits + 1} /\ outbox' = outbox \union {edits + 1}
        /\ edits' = edits + 1 /\ edits' <= MaxEdits /\ edits \in Nat /\ MaxEdits \in Nat
    BY WorldTypes, CloudAssumption DEF Edit, serverVars, CloudInv, TypeInv
  <1>2. /\ TabOK(o, tab[t].seen) /\ KnownWorld /\ LeaseInv /\ EditsWorld /\ o \in Runnings
    BY DEF SurvivalInv, WorldOK, CloudInv, TypeInv
  <1>3. /\ Unexplained \subseteq Unexplained' /\ Unexplained' \subseteq Unexplained \union {edits + 1}
        /\ Wanted' = Wanted /\ Known \subseteq Known' /\ edits + 1 \in Known'
    BY <1>1 DEF auxVars, Unexplained, Explained, Wanted, Known
  <1>4. edits + 1 \notin Known
    BY <1>1, CloudAssumption DEF Known
  <1>5. \A n \in Nat : n <= edits => UpTo(n)' = UpTo(n)
    BY <1>1, <1>3 DEF UpTo
  <1>6. \A n \in Nat : \A d : n < Len(history) /\ Replaces(n, d) => Replaces(n, d)'
    <2> SUFFICES ASSUME NEW n \in Nat, n < Len(history)
                 PROVE  edits + 1 \notin history[n + 1]
      BY <1>1, <1>3 DEF Replaces
    <2>1. history[n + 1] \subseteq Known
      BY <1>2, WorldTypes DEF KnownWorld
    <2> QED
      BY <1>4, <2>1
  <1>7. (\A j \in Requests : Live(j)' <=> Live(j)) /\ (Safe => Safe')
    BY <1>1, <1>3, WorldTypes DEF Live, Safe, Revision
  <1>8. \A j \in Requests : Counts(j) => Counts(j)'
    BY <1>1, <1>3, <1>7 DEF Counts
  <1>9. Virgin => Virgin'
    BY <1>1, <1>3, WorldTypes DEF Virgin
  <1>10. KnownWorld'
    BY <1>1, <1>2, <1>3, WorldTypes DEF KnownWorld, Jobs
  <1>11. LeaseInv'
    BY <1>1, <1>2 DEF LeaseInv
  <1>12. EditsWorld'
    <2>1. \A j \in Requests : job[j].base \in Nat
      BY WorldTypes DEF Jobs
    <2> QED
      BY <1>1, <1>2, <1>3, <1>5, <1>6, <1>7, <2>1, WorldTypes DEF EditsWorld, KnownWorld
  <1>13. EditsRun(o)'
    <2>1. o.age \in Nat /\ o.base \in Nat /\ o.age <= edits /\ o.base < Len(history)
      BY <1>2 DEF TabOK, KnownRun, Runnings
    <2>2. UpTo(o.age)' = UpTo(o.age) /\ (Replaces(o.base, o.data) => Replaces(o.base, o.data)')
      BY <1>1, <1>5, <1>6, <2>1
    <2>3. Unexplained' \intersect o.data \subseteq Unexplained \intersect o.data
      BY <1>2, <1>3, <1>4 DEF TabOK, KnownRun
    <2> QED
      BY <1>1, <1>2, <2>2, <2>3 DEF TabOK, EditsRun
  <1> QED
    BY <1>1, <1>3, <1>7, <1>8, <1>9, <1>10, <1>11, <1>12, <1>13, WorldTypes, WorldMoves

(* The cloud grows by a revision.                                          *)
LEMMA CloudGrows ==
    ASSUME CloudInv, CloudInv', NEW t \in Tabs, SurvivalInv(t),
           UNCHANGED <<tab, rows, outbox, parked, link, job, edits, auxVars>>,
           lease' = Nothing, history' = Append(history, cloud'),
           cloud \subseteq cloud', cloud' \subseteq Known
    PROVE  SurvivalInv(t)'
  <1> SUFFICES ASSUME NEW o, o = tab[t].run
               PROVE  SurvivalInv(t)'
    OBVIOUS
  <1>1. /\ TabOK(o, tab[t].seen) /\ KnownWorld /\ LeaseInv /\ EditsWorld /\ o \in Runnings
    BY DEF SurvivalInv, WorldOK, CloudInv, TypeInv
  <1>2. /\ Len(history) \in Nat \ {0} /\ Len(history') = Len(history) + 1
        /\ \A k \in 1 .. Len(history) : history'[k] = history[k]
        /\ history'[Len(history')] = cloud'
    BY HistoryTypes DEF CloudInv, TypeInv
  <1>3. Unexplained' = Unexplained /\ Wanted' = Wanted /\ Known' = Known
        /\ (\A n : UpTo(n)' = UpTo(n)) /\ (\A j \in Requests : Live(j)' <=> Live(j))
    BY DEF auxVars, Unexplained, Wanted, Explained, Known, UpTo, Live
  <1>4. \A n \in Nat : \A d : n < Len(history) /\ Replaces(n, d) => Replaces(n, d)'
    BY <1>2, <1>3 DEF Replaces
  <1>5. \A j \in Requests : job[j].base \in Nat /\ job[j].base < Len(history)
    BY <1>1, WorldTypes DEF Jobs, KnownWorld
  <1>6. Safe => Safe'
    BY <1>2, <1>3, <1>5, WorldTypes DEF Safe, Revision
  <1>7. \A j \in Requests : Counts(j) => Counts(j)'
    BY <1>3, <1>6 DEF Counts
  <1>8. Virgin => Virgin'
    BY <1>3 DEF Virgin
  <1>9. KnownWorld' /\ LeaseInv'
    BY <1>1, <1>2, <1>3, <1>5 DEF KnownWorld, LeaseInv
  <1>10. EditsWorld'
    BY <1>1, <1>3, <1>4, <1>5, WorldTypes DEF EditsWorld
  <1>11. EditsRun(o)'
    <2>1. o.base \in Nat /\ o.base < Len(history)
      BY <1>1 DEF TabOK, KnownRun, Runnings
    <2> QED
      BY <1>1, <1>3, <1>4, <2>1 DEF TabOK, EditsRun
  <1> QED
    BY <1>2, <1>3, <1>6, <1>7, <1>8, <1>9, <1>10, <1>11, WorldTypes, WorldMoves

(* Another device pushes, and a lease is recovered.                        *)
LEMMA ElsewhereSurvives ==
    ASSUME CloudInv, CloudInv', NEW t \in Tabs, SurvivalInv(t), ForeignPush \/ RecoverLease
    PROVE  SurvivalInv(t)'
  <1>1. cloud \subseteq Known
    BY DEF SurvivalInv, WorldOK, KnownWorld
  <1>2. CASE ForeignPush
    <2>1. PICK f \in Foreign : cloud' = cloud \union {f} /\ history' = Append(history, cloud')
      BY <1>2 DEF ForeignPush
    <2>2. /\ UNCHANGED <<tab, rows, outbox, parked, link, job, edits, auxVars>> /\ lease' = Nothing
      BY <1>2 DEF ForeignPush, deviceVars
    <2> QED
      BY <1>1, <2>1, <2>2, CloudGrows DEF Known
  <1>3. CASE RecoverLease
    <2>1. /\ UNCHANGED <<tab, rows, outbox, parked, link, job, edits, cloud, auxVars>>
          /\ lease' = Nothing /\ history' = Append(history, cloud')
      BY <1>3 DEF RecoverLease, deviceVars
    <2> QED
      BY <1>1, <2>1, CloudGrows
  <1> QED
    BY <1>2, <1>3

(* Requests move, and nothing reaches the cloud by it: what is at work was *)
(* at work before, with the same backup.                                   *)
LEMMA RequestsMove ==
    ASSUME CloudInv, CloudInv', NEW t \in Tabs, SurvivalInv(t), LeaseInv',
           UNCHANGED <<tab, rows, outbox, parked, link, cloud, history, edits, auxVars>>,
           \A j \in Requests :
              /\ \/ job'[j].data = job[j].data /\ job'[j].base = job[j].base
                 \/ job'[j] = NoJob /\ j \in Posts /\ tab[t].run.id # j
              /\ Live(j)' => Live(j)
              /\ job'[j].at = "finalize" => job[j].at = "finalize"
              /\ job'[j].at \in {"complete", "done"} => job[j].at \in {"complete", "done"}
              /\ j \in Posts /\ job'[j].at = "done" => job[j].at = "done"
              /\ j \in Imports /\ job[j].at = "unused" => job'[j].at = "unused"
    PROVE  SurvivalInv(t)'
  <1> SUFFICES ASSUME NEW o, o = tab[t].run
               PROVE  SurvivalInv(t)'
    OBVIOUS
  <1>1. /\ TabOK(o, tab[t].seen) /\ KnownWorld /\ EditsWorld /\ o \in Runnings /\ RunKind(o)
    BY DEF SurvivalInv, WorldOK, TabOK, CloudInv, TypeInv
  <1>2. Unexplained' = Unexplained /\ Wanted' = Wanted /\ Known' = Known
        /\ (\A n : UpTo(n)' = UpTo(n)) /\ (\A n, d : Replaces(n, d)' <=> Replaces(n, d))
    BY DEF auxVars, Unexplained, Wanted, Explained, Known, UpTo, Replaces
  <1>3. /\ NoJob.at = "unused" /\ NoJob.data = {} /\ NoJob.base = 0
    BY DEF NoJob
  <1>4. \A j \in Requests : Live(j)' \/ job'[j].at = "finalize" =>
           /\ job'[j].data = job[j].data /\ job'[j].base = job[j].base
    BY <1>3 DEF Live
  <1>5. Safe => Safe'
    BY <1>2, <1>4, WorldTypes DEF Safe, Revision
  <1>6. \A j \in Requests : Counts(j) => Counts(j)'
    BY <1>2, <1>4, <1>5 DEF Counts
  <1>7. Virgin => Virgin'
    BY <1>2, WorldTypes DEF Virgin
  <1>8. KnownWorld'
    BY <1>1, <1>2, <1>3, WorldTypes DEF KnownWorld
  <1>9. EditsWorld'
    BY <1>1, <1>2, <1>4, WorldTypes DEF EditsWorld
  <1>10. EditsRun(o)'
    <2>1. EditsRun(o)
      BY <1>1 DEF TabOK
    <2>2. ASSUME o.pc = "awaiting", o.kind \in {"link", "promotion"}
          PROVE  /\ job'[o.id].data = o.data
                 /\ job'[o.id].at \in {"finalize", "done"} =>
                       Unexplained \intersect o.data \subseteq cloud
      <3>1. o.id \in Posts /\ o.id \in Requests
        BY <1>1, <2>2, WorldTypes DEF RunKind
      <3> QED
        BY <2>1, <2>2, <3>1 DEF EditsRun
    <2> QED
      BY <1>2, <2>1, <2>2 DEF EditsRun
  <1> QED
    BY <1>2, <1>5, <1>6, <1>7, <1>8, <1>9, <1>10, WorldTypes, WorldMoves

(* The steps of a request but those that write.                            *)
LEMMA RequestSurvives ==
    ASSUME CloudInv, CloudInv', NEW t \in Tabs, SurvivalInv(t), NEW i \in Requests,
           \/ BeginJob(i) \/ ReserveJob(i) \/ CompleteJob(i) \/ ForgetPost(i) \/ WorkerDies(i)
           \/ RestoreBatch(i) /\ ~Fits(job[i].data)
    PROVE  SurvivalInv(t)'
  <1>1. /\ UNCHANGED <<tab, rows, outbox, parked, link, cloud, history, edits, auxVars>>
        /\ \A j \in Requests : j # i => job'[j] = job[j]
    BY WorldTypes DEF BeginJob, ReserveJob, CompleteJob, ForgetPost, WorkerDies, RestoreBatch, At,
       deviceVars, auxVars
  <1>2. /\ job \in [Requests -> Jobs] /\ job[i] \in Jobs /\ LeaseInv /\ StageInv(i)
        /\ JournalInv(i) /\ i # Nothing /\ TypeInv
    BY WorldTypes DEF SurvivalInv, WorldOK, CloudInv, JobInv
  <1> DEFINE Same == job'[i].data = job[i].data /\ job'[i].base = job[i].base
  <1>3. \A e : job' = [job EXCEPT ![i] = Refused(i, e)] => Same /\ job'[i].at = "refused"
    BY <1>2 DEF Refused, Jobs
  <1>4. CASE BeginJob(i)
    <2>1. Same /\ job'[i].at = "reserve" /\ job[i].at = "begin" /\ lease' = lease
      BY <1>2, <1>4 DEF BeginJob, Jobs
    <2>2. LeaseInv'
      BY <1>1, <1>2, <2>1, WorldTypes DEF LeaseInv
    <2> QED
      BY <1>1, <2>1, <2>2, RequestsMove DEF Live
  <1>5. CASE ReserveJob(i)
    <2>1. /\ Same /\ job[i].at = "reserve"
          /\ \/ job'[i].at = "refused" /\ lease' = lease
             \/ job'[i].at = "restore" /\ lease' = i /\ lease = Nothing
      <3>1. CASE lease = Nothing /\ BaseMatches(i)
        BY <1>2, <1>5, <3>1 DEF ReserveJob, At, Jobs
      <3>2. CASE ~(lease = Nothing /\ BaseMatches(i))
        <4>1. /\ \E e : job' = [job EXCEPT ![i] = Refused(i, e)]
              /\ job[i].at = "reserve" /\ lease' = lease
          BY <1>5, <3>2 DEF ReserveJob
        <4> QED
          BY <1>3, <4>1
      <3> QED
        BY <3>1, <3>2
    <2>2. LeaseInv'
      BY <1>1, <1>2, <2>1, WorldTypes DEF LeaseInv
    <2> QED
      BY <1>1, <2>1, <2>2, RequestsMove DEF Live
  <1>6. CASE CompleteJob(i)
    <2>1. /\ Same /\ job'[i].at = "done" /\ job[i].at = "complete" /\ lease' = lease
          /\ i \notin Posts
      BY <1>2, <1>6 DEF CompleteJob, Jobs, JournalInv
    <2>2. LeaseInv'
      BY <1>1, <1>2, <2>1, WorldTypes DEF LeaseInv
    <2> QED
      BY <1>1, <2>1, <2>2, WorldTypes, RequestsMove DEF Live
  <1>7. CASE ForgetPost(i)
    <2>1. /\ job'[i] = NoJob /\ i \in Posts /\ lease' = lease /\ lease # i /\ tab[t].run.id # i
          /\ NoJob.at = "unused"
      BY <1>2, <1>7 DEF ForgetPost, NoJob
    <2>2. LeaseInv'
      BY <1>1, <1>2, <2>1, WorldTypes DEF LeaseInv
    <2> QED
      BY <1>1, <2>1, <2>2, WorldTypes, RequestsMove DEF Live
  <1>8. CASE WorkerDies(i)
    <2>1. Same /\ job'[i].at = "dead" /\ job[i].at \in Working /\ lease' = lease
      BY <1>2, <1>8 DEF WorkerDies, At, Jobs
    <2>2. LeaseInv'
      BY <1>1, <1>2, <2>1, WorldTypes DEF LeaseInv
    <2> QED
      BY <1>1, <2>1, <2>2, RequestsMove DEF Live, Working
  <1>9. CASE RestoreBatch(i) /\ ~Fits(job[i].data)
    <2>1. Same /\ job'[i].at = "refused" /\ job[i].at = "restore" /\ lease' = Nothing /\ lease = i
      BY <1>2, <1>3, <1>9 DEF RestoreBatch, StageInv
    <2>2. LeaseInv'
      BY <1>1, <1>2, <2>1, WorldTypes DEF LeaseInv
    <2> QED
      BY <1>1, <2>1, <2>2, RequestsMove DEF Live
  <1> QED
    BY <1>4, <1>5, <1>6, <1>7, <1>8, <1>9

(* The rows of a request reach the cloud: what they overwrite is in them,  *)
(* or came after the backup was taken.                                     *)
LEMMA RestoreSurvives ==
    ASSUME CloudInv, CloudInv', NEW t \in Tabs, SurvivalInv(t), NEW i \in Requests,
           RestoreBatch(i), Fits(job[i].data)
    PROVE  SurvivalInv(t)'
  <1> SUFFICES ASSUME NEW o, o = tab[t].run
               PROVE  SurvivalInv(t)'
    OBVIOUS
  <1>1. /\ UNCHANGED <<tab, rows, outbox, parked, link, history, lease, edits>>
        /\ UNCHANGED <<imported, replaced, uncarried, overtaken>>
        /\ cloud' = job[i].data /\ job[i].at = "restore"
        /\ clobbered' = IF i \in Posts THEN clobbered \union Missing(i)
                        ELSE clobbered
    BY DEF RestoreBatch, deviceVars
  <1>2. /\ TabOK(o, tab[t].seen) /\ KnownWorld /\ LeaseInv /\ EditsWorld /\ o \in Runnings
        /\ RunKind(o) /\ StageInv(i) /\ JournalInv(i) /\ job[i] \in Jobs /\ TypeInv
    BY DEF SurvivalInv, WorldOK, TabOK, CloudInv, TypeInv, JobInv
  <1>3. /\ \A j \in Requests : j # i => job'[j] = job[j]
        /\ job'[i].at = "finalize" /\ job'[i].data = job[i].data
        /\ job'[i].base = job[i].base /\ lease = i /\ lease' = i /\ i # Nothing
        /\ i \in Imports => job[i].base = Revision
    BY <1>1, <1>2, WorldTypes DEF RestoreBatch, Jobs, StageInv, JournalInv
  <1>4. Unexplained' \subseteq Unexplained /\ Wanted' \subseteq Wanted /\ Known' = Known
        /\ (\A n : UpTo(n)' \subseteq UpTo(n)) /\ Live(i)
        /\ (\A n, d : Replaces(n, d) => Replaces(n, d)')
        /\ (\A j \in Requests : j # i => (Live(j)' <=> Live(j))) /\ ~Live(i)'
    BY <1>1, <1>3 DEF Unexplained, Wanted, Explained, Known, UpTo, Live, Replaces
  <1>5. i \in Posts => Unexplained' \intersect cloud \subseteq cloud'
    BY <1>1 DEF Unexplained, Explained, Missing
  <1>6. i \in Imports => Unexplained \intersect cloud \subseteq cloud' \union parked
    <2>1. cloud = history[Len(history)]
      BY <1>1, <1>2, <1>3 DEF LeaseInv
    <2> SUFFICES ASSUME i \in Imports
                 PROVE  Unexplained \intersect cloud \subseteq cloud' \union parked
      OBVIOUS
    <2>2. Replaces(job[i].base, job[i].data)
      BY <1>2, <1>4 DEF EditsWorld
    <2>3. job[i].base + 1 = Len(history)
      BY <1>3, WorldTypes DEF Revision
    <2> QED
      BY <1>1, <2>1, <2>2, <2>3 DEF Replaces
  <1>7. Safe => Safe'
    <2> SUFFICES ASSUME Safe
                 PROVE  Safe'
      OBVIOUS
    <2>1. Wanted' \subseteq cloud'
      <3>1. CASE i \in Imports
        BY <1>1, <1>3, <1>4, <3>1, WorldTypes DEF Safe, Revision
      <3>2. CASE i \in Posts
        <4> SUFFICES ASSUME NEW x \in Wanted', x \notin cloud'
                     PROVE  FALSE
          OBVIOUS
        <4>1. x \in cloud /\ x \in File /\ x \notin clobbered'
          BY <1>4 DEF Safe, Wanted, Explained
        <4> QED
          BY <1>1, <3>2, <4>1 DEF Missing
      <3> QED
        BY <3>1, <3>2, WorldTypes
    <2> QED
      BY <1>1, <1>3, <1>4, <2>1, WorldTypes DEF Safe, Revision
  <1>8. \A j \in Requests : Counts(j) => Counts(j)'
    BY <1>1, <1>3, <1>4, <1>7 DEF Counts
  <1>9. Virgin => Virgin'
    BY <1>1, <1>3, <1>4, WorldTypes DEF Virgin
  <1>10. KnownWorld' /\ LeaseInv'
    BY <1>1, <1>2, <1>3, <1>4, WorldTypes DEF KnownWorld, LeaseInv
  <1>11. EditsWorld'
    <2>1. Unexplained' \subseteq rows' \union parked'
      BY <1>1, <1>2, <1>4 DEF EditsWorld
    <2>2. Unexplained' \subseteq outbox' \union parked' \union cloud'
      BY <1>1, <1>2, <1>4, <1>5, <1>6, WorldTypes DEF EditsWorld
    <2>4. ASSUME NEW j \in Imports, Live(j)'
          PROVE  Replaces(job[j].base, job[j].data)'
      <3>1. j # i /\ j \in Requests /\ Live(j)
        BY <1>4, <2>4, WorldTypes
      <3>2. Replaces(job[j].base, job[j].data)
        BY <1>2, <3>1 DEF EditsWorld
      <3>3. job'[j] = job[j]
        BY <1>3, <3>1
      <3> QED
        BY <1>1, <1>4, <3>2, <3>3 DEF Replaces
    <2> QED
      BY <2>1, <2>2, <2>4 DEF EditsWorld
  <1>12. EditsRun(o)'
    <2>1. EditsRun(o) /\ \A n : UpTo(n)' \subseteq Unexplained'
      BY <1>2 DEF TabOK, UpTo
    <2>2. o.kind \in {"link", "promotion"} => i \in Posts
      BY <1>1, <1>2, WorldTypes DEF TabOK, SeenOK, Virgin
    <2>3. ASSUME o.pc = "awaiting", o.kind \in {"link", "promotion"}
          PROVE  /\ job'[o.id].data = o.data
                 /\ job'[o.id].at \in {"finalize", "done"} =>
                       Unexplained' \intersect o.data \subseteq cloud'
      <3>1. o.id \in Requests /\ i \in Posts /\ o.data = job[o.id].data
        BY <1>2, <2>1, <2>2, <2>3, WorldTypes DEF RunKind, EditsRun
      <3>2. CASE o.id = i
        BY <1>1, <1>3, <3>1, <3>2
      <3>3. CASE o.id # i
        BY <1>3, <1>4, <1>5, <2>1, <2>3, <3>1, <3>3 DEF EditsRun
      <3> QED
        BY <3>2, <3>3
    <2>4. o.pc = "clearing" => Unexplained' \intersect o.data \subseteq cloud'
      BY <1>2, <1>4, <1>5, <2>1, <2>2 DEF EditsRun, RunKind
    <2>5. /\ o.pc = "pushing" => UpTo(o.age)' \subseteq cloud' \union parked \union o.data
          /\ o.pc = "fetching" => UpTo(o.age)' \subseteq cloud' \union parked
      BY <1>4, <1>5, <1>6, <2>1, WorldTypes DEF EditsRun
    <2>6. /\ o.pc \in {"registering", "linking", "restoring", "clearing"} => o.data \subseteq rows
          /\ o.pc = "awaiting" /\ o.kind \in {"link", "promotion"} => o.data \subseteq rows
          /\ o.pc = "applying" => UpTo(o.age)' \subseteq o.data \union parked
          /\ o.pc \in {"asking", "publishing"} \/ (o.pc = "marking" /\ o.kind = "resume") =>
                Replaces(o.base, o.data)'
          /\ o.pc = "pushing" => o.data \subseteq outbox
      BY <1>4, <2>1 DEF EditsRun
    <2> QED
      BY <1>1, <2>3, <2>4, <2>5, <2>6 DEF EditsRun
  <1> QED
    BY <1>1, <1>4, <1>7, <1>8, <1>9, <1>10, <1>11, <1>12, WorldTypes, WorldMoves

(* The revision a request wrote is current, and no request that is at work *)
(* expects it.                                                             *)
LEMMA FinalizeSurvives ==
    ASSUME CloudInv, CloudInv', NEW t \in Tabs, SurvivalInv(t), NEW i \in Requests, FinalizeJob(i)
    PROVE  SurvivalInv(t)'
  <1> SUFFICES ASSUME NEW o, o = tab[t].run
               PROVE  SurvivalInv(t)'
    OBVIOUS
  <1>1. /\ UNCHANGED <<tab, rows, outbox, parked, link, cloud, edits, auxVars>>
        /\ history' = Append(history, cloud) /\ lease' = Nothing /\ job[i].at = "finalize"
    BY DEF FinalizeJob, deviceVars
  <1>2. /\ TabOK(o, tab[t].seen) /\ KnownWorld /\ EditsWorld /\ o \in Runnings
        /\ RunKind(o) /\ StageInv(i) /\ job[i] \in Jobs /\ cloud = job[i].data
    BY <1>1 DEF SurvivalInv, WorldOK, TabOK, CloudInv, TypeInv, JobInv, StageInv
  <1>3. /\ \A j \in Requests : j # i => job'[j] = job[j]
        /\ job'[i].at \in {"complete", "done"} /\ job'[i].data = job[i].data
        /\ job'[i].base = job[i].base
    BY <1>1, <1>2, WorldTypes DEF FinalizeJob, Jobs
  <1>4. /\ Len(history) \in Nat \ {0} /\ Len(history') = Len(history) + 1
        /\ \A k \in 1 .. Len(history) : history'[k] = history[k]
        /\ history'[Len(history')] = cloud
    BY <1>1, HistoryTypes DEF CloudInv, TypeInv
  <1>5. Unexplained' = Unexplained /\ Wanted' = Wanted /\ Known' = Known
        /\ (\A n : UpTo(n)' = UpTo(n)) /\ (\A j \in Requests : Live(j)' <=> Live(j))
    BY <1>1, <1>3 DEF auxVars, Unexplained, Wanted, Explained, Known, UpTo, Live
  <1>6. \A j \in Requests : /\ job[j].base \in Nat /\ job[j].base < Len(history)
                            /\ job'[j].data = job[j].data /\ job'[j].base = job[j].base
    BY <1>2, <1>3, WorldTypes DEF Jobs, KnownWorld
  <1>7. Wanted \subseteq cloud => Safe'
    BY <1>1, <1>4, <1>5, <1>6, WorldTypes DEF Safe, Revision
  <1>8. Safe => Safe'
    BY <1>7 DEF Safe
  <1>9. ASSUME NEW j \in Requests, Counts(j)
        PROVE  Counts(j)'
    <2>1. CASE j = i
      <3>1. Wanted \subseteq cloud
        BY <1>1, <1>2, <1>9, <2>1 DEF Counts
      <3>2. ~Live(j)' /\ job'[j].at # "finalize"
        BY <1>3, <2>1 DEF Live
      <3> QED
        BY <1>7, <3>1, <3>2 DEF Counts
    <2>2. CASE j # i
      BY <1>3, <1>5, <1>8, <1>9, <2>2 DEF Counts
    <2> QED
      BY <2>1, <2>2
  <1>10. Virgin => Virgin'
    BY <1>1, <1>3, <1>5, WorldTypes DEF Virgin
  <1>11. KnownWorld' /\ LeaseInv'
    BY <1>1, <1>2, <1>4, <1>5, <1>6 DEF KnownWorld, LeaseInv
  <1>12. \A n \in Nat : \A d : n < Len(history) /\ Replaces(n, d) => Replaces(n, d)'
    BY <1>1, <1>4, <1>5 DEF Replaces
  <1>13. EditsWorld'
    BY <1>1, <1>2, <1>5, <1>6, <1>12, WorldTypes DEF EditsWorld
  <1>14. EditsRun(o)'
    <2>1. EditsRun(o) /\ o.base \in Nat /\ o.base < Len(history)
      BY <1>2 DEF TabOK, KnownRun, Runnings
    <2>2. ASSUME o.pc = "awaiting", o.kind \in {"link", "promotion"}
          PROVE  /\ job'[o.id].data = o.data
                 /\ job'[o.id].at \in {"finalize", "done"} =>
                       Unexplained \intersect o.data \subseteq cloud
      <3>1. o.id \in Requests
        BY <1>2, <2>2, WorldTypes DEF RunKind
      <3> QED
        BY <1>1, <1>3, <1>6, <2>1, <2>2, <3>1 DEF EditsRun
    <2> QED
      BY <1>1, <1>5, <1>12, <2>1, <2>2 DEF EditsRun
  <1> QED
    BY <1>1, <1>4, <1>5, <1>8, <1>9, <1>10, <1>11, <1>13, <1>14, WorldTypes, WorldMoves

(* One place of the window runs a workflow; the others rest, and show what *)
(* it shows.                                                               *)
Rest(t) == \A u \in Tabs : u # t => tab[u].run = Idle /\ tab[u].seen = tab[t].seen

OneRuns(t) == SurvivalInv(t) /\ Rest(t)

OneWindow == \A t, u \in Tabs : Together(t, u)

(* While all rest, it is any place that may run one.                       *)
LEMMA AllRest ==
    ASSUME CloudInv, NEW t \in Tabs, OneRuns(t), tab[t].run.pc = "idle", NEW u \in Tabs
    PROVE  OneRuns(u)
  <1>1. tab[t].run = Idle
    BY DEF CloudInv, TabInv, RunInv
  <1> QED
    BY <1>1 DEF OneRuns, SurvivalInv, Rest

(* What a step of a place does to the others of its window.                *)
LEMMA OthersRest ==
    ASSUME CloudInv, OneWindow, NEW t \in Tabs, Rest(t),
           \/ \E r : Continue(t, r)
           \/ \E pc : Goto(t, pc)
           \/ \E x : End(t, x)
           \/ Renew(t)
    PROVE  Rest(t)'
  <1>1. DOMAIN tab = Tabs /\ \A u \in Tabs : DOMAIN tab[u] = {"run", "seen"}
    BY DEF CloudInv, TypeInv
  <1>2. CASE \E r : Continue(t, r)
    BY <1>1, <1>2 DEF Continue, Rest
  <1>3. CASE \E pc : Goto(t, pc)
    BY <1>1, <1>3 DEF Goto, Rest
  <1>4. CASE \E x : End(t, x)
    BY <1>1, <1>4 DEF End, Rest, OneWindow
  <1>5. CASE Renew(t)
    BY <1>1, <1>5 DEF Renew, Rest, OneWindow
  <1> QED
    BY <1>2, <1>3, <1>4, <1>5

Starts(t) ==
    StartLink(t) \/ StartImport(t) \/ StartSync(t) \/ StartPromotion(t) \/ StartResume(t)

Works(t) == TabStep(t) \/ ReplaceFails(t) \/ LoseImport(t) \/ LoseSync(t)

(* Every step of a place is one of these.                                  *)
LEMMA Shapes ==
    ASSUME NEW t \in Tabs, Starts(t) \/ Reload(t) \/ CloseTab(t) \/ Works(t)
    PROVE  \/ \E r : Continue(t, r)
           \/ \E pc : Goto(t, pc)
           \/ \E x : End(t, x)
           \/ Renew(t)
  <1> DEFINE Shape == \/ \E r : Continue(t, r)
                      \/ \E pc : Goto(t, pc)
                      \/ \E x : End(t, x)
                      \/ Renew(t)
  <1>1. (Throw(t) \/ Finish(t) \/ GiveUp(t) \/ SyncEnds(t)) => Shape
    BY DEF Throw, Finish, GiveUp, SyncEnds
  <1>2. \A n : Succeed(t, n) => Shape
    BY DEF Succeed
  <1>3. (\E r : Continue(t, r)) \/ (\E pc : Goto(t, pc)) \/ Renew(t) => Shape
    OBVIOUS
  <1> SUFFICES Shape
    OBVIOUS
  <1> HIDE DEF Shape
  <1>4. CASE Starts(t)
    BY <1>3, <1>4 DEF Starts, StartLink, StartImport, StartSync, StartPromotion, StartResume, Start
  <1>5. CASE Reload(t) \/ CloseTab(t)
    BY <1>3, <1>5 DEF Reload, CloseTab
  <1>6. CASE ReplaceFails(t) \/ LoseImport(t) \/ LoseSync(t)
    BY <1>1, <1>3, <1>6 DEF ReplaceFails, LoseImport, LoseSync
  <1>7. CASE \/ Register(t) \/ PersistLink(t) \/ (\E i \in Posts : PostRestore(t, i))
             \/ ClearOutbox(t) \/ MarkReady(t) \/ MarkProvisioning(t)
    BY <1>1, <1>3, <1>7 DEF Register, PersistLink, PostRestore, ClearOutbox, MarkReady,
       MarkProvisioning
  <1>8. CASE \/ ReplaceLocal(t) \/ PostImport(t) \/ ReceiveAnswer(t) \/ LoseAnswer(t) \/ Poll(t)
    BY <1>1, <1>2, <1>3, <1>8 DEF ReplaceLocal, PostImport, ReceiveAnswer, LoseAnswer, Poll
  <1>9. CASE Ask(t) \/ Check(t) \/ Push(t) \/ Fetch(t) \/ ApplySnapshot(t)
    BY <1>1, <1>2, <1>3, <1>9 DEF Ask, Check, Push, Fetch, ApplySnapshot
  <1> QED
    BY <1>4, <1>5, <1>6, <1>7, <1>8, <1>9 DEF Works, TabStep

(* A place that works, or whose tab is closed, runs something.             *)
LEMMA WorksRuns ==
    ASSUME NEW t \in Tabs, CloseTab(t) \/ Works(t)
    PROVE  tab[t].run.pc # "idle"
  BY DEF CloseTab, Works, TabStep, ReplaceFails, LoseImport, LoseSync, Register, PersistLink,
     PostRestore, ClearOutbox, MarkReady, MarkProvisioning, ReplaceLocal, PostImport,
     ReceiveAnswer, LoseAnswer, Poll, Ask, Check, Push, Fetch, ApplySnapshot, Runs

(* A step of the place that runs, or of any when none does.                *)
LEMMA TabSurvives ==
    ASSUME CloudInv, CloudInv', NEW t \in Tabs, OneRuns(t), ~overlapped',
           Starts(t) \/ Reload(t) \/ CloseTab(t) \/ Works(t)
    PROVE  SurvivalInv(t)'
  <1>1. SurvivalInv(t)
    BY DEF OneRuns
  <1>2. CASE Starts(t) \/ Reload(t) \/ CloseTab(t)
    BY <1>1, <1>2, StartSurvives DEF Starts
  <1>3. CASE Register(t) \/ PersistLink(t) \/ MarkProvisioning(t)
    BY <1>1, <1>3, RegisterSurvives, PersistSurvives, MarkSurvives
  <1>4. CASE MarkReady(t)
    <2>1. Free(t)
      BY IdleIs DEF Free, Holds, OneRuns, Rest
    <2> QED
      BY <1>1, <1>4, <2>1, ReadySurvives
  <1>5. CASE (\E i \in Posts : PostRestore(t, i)) \/ PostImport(t)
    BY <1>1, <1>5, PostSurvives
  <1>6. CASE ClearOutbox(t) \/ ReplaceLocal(t) \/ ReplaceFails(t)
    BY <1>1, <1>6, ClearSurvives, ReplaceSurvives, FailSurvives
  <1>7. CASE ReceiveAnswer(t) \/ LoseAnswer(t) \/ LoseImport(t) \/ Poll(t) \/ Ask(t)
    BY <1>1, <1>7, AnswerSurvives
  <1>8. CASE Check(t) \/ Push(t) \/ Fetch(t) \/ ApplySnapshot(t) \/ LoseSync(t)
    BY <1>1, <1>8, FetchSurvives, PushSurvives, ApplySurvives
  <1> QED
    BY <1>2, <1>3, <1>4, <1>5, <1>6, <1>7, <1>8 DEF Works, TabStep

(* Once a link ran beside another workflow, it did.                        *)
LEMMA OverlapStays == ASSUME [Next]_vars, overlapped PROVE overlapped'
  <1>1. CASE UNCHANGED vars \/ Edit \/ ForeignPush \/ RecoverLease
    BY <1>1 DEF vars, auxVars, Edit, ForeignPush, RecoverLease
  <1>2. ASSUME NEW t \in Tabs, Starts(t) \/ Reload(t) \/ CloseTab(t)
        PROVE  overlapped'
    BY <1>2 DEF Starts, StartLink, StartImport, StartSync, StartPromotion, StartResume, Start,
       Reload, CloseTab, auxVars
  <1>3. ASSUME NEW t \in Tabs, Works(t)
        PROVE  overlapped'
    BY <1>3 DEF Works, TabStep, ReplaceFails, LoseImport, LoseSync, Register, PersistLink,
       PostRestore, ClearOutbox, MarkReady, MarkProvisioning, ReplaceLocal, PostImport,
       ReceiveAnswer, LoseAnswer, Poll, Ask, Check, Push, Fetch, ApplySnapshot, auxVars
  <1>4. ASSUME NEW i \in Requests, ServerStep(i) \/ WorkerDies(i)
        PROVE  overlapped'
    BY <1>4 DEF ServerStep, BeginJob, ReserveJob, RestoreBatch, FinalizeJob, CompleteJob,
       ForgetPost, WorkerDies, auxVars
  <1> QED
    BY <1>1, <1>2, <1>3, <1>4 DEF Next, UserStarts, Starts, Works

(* In one window every step keeps what survives, until a link runs beside  *)
(* another workflow.                                                       *)
LEMMA SurvivalStep ==
    ASSUME OneWindow, CloudInv, CloudInv', [Next]_vars, NEW t \in Tabs, OneRuns(t), ~overlapped'
    PROVE  \E u \in Tabs : OneRuns(u)'
  <1>0. SurvivalInv(t) /\ Rest(t)
    BY DEF OneRuns
  <1>1. ASSUME tab' = tab, SurvivalInv(t)'
        PROVE  OneRuns(t)'
    BY <1>0, <1>1 DEF OneRuns, Rest
  <1>2. CASE UNCHANGED vars
    <2>1. tab' = tab /\ job' = job
          /\ UNCHANGED <<rows, outbox, parked, link, cloud, history, lease, edits, auxVars>>
      BY <1>2 DEF vars, deviceVars, serverVars
    <2>2. TabOK(tab'[t].run, tab'[t].seen)
      BY <1>0, <2>1 DEF SurvivalInv
    <2> QED
      BY <1>0, <1>1, <2>1, <2>2, TabMoves
  <1>3. CASE Edit \/ ForeignPush \/ RecoverLease
    <2>1. tab' = tab
      BY <1>3 DEF Edit, ForeignPush, RecoverLease
    <2> QED
      BY <1>0, <1>1, <1>3, <2>1, EditSurvives, ElsewhereSurvives
  <1>4. ASSUME NEW u \in Tabs, Starts(u) \/ Reload(u) \/ CloseTab(u) \/ Works(u)
        PROVE  OneRuns(u)'
    <2>1. OneRuns(u)
      <3>1. CASE u = t
        BY <3>1
      <3>2. CASE u # t
        <4>1. tab[u].run.pc = "idle"
          BY <1>0, <3>2, IdleIs DEF Rest
        <4>2. Starts(u) \/ Reload(u)
          BY <1>4, <4>1, WorksRuns
        <4>3. tab[t].run.pc = "idle"
          BY <3>2, <4>2 DEF Starts, StartLink, StartImport, StartSync, StartPromotion, StartResume,
             Reload, Start, Runs, OneWindow
        <4> QED
          BY <4>3, AllRest
      <3> QED
        BY <3>1, <3>2
    <2>2. Rest(u)'
      BY <1>4, <2>1, Shapes, OthersRest DEF OneRuns
    <2> QED
      BY <1>4, <2>1, <2>2, TabSurvives DEF OneRuns
  <1>5. ASSUME NEW i \in Requests, ServerStep(i) \/ WorkerDies(i)
        PROVE  OneRuns(t)'
    <2>1. tab' = tab
      BY <1>5 DEF ServerStep, BeginJob, ReserveJob, RestoreBatch, FinalizeJob, CompleteJob,
         ForgetPost, WorkerDies
    <2> QED
      BY <1>0, <1>1, <1>5, <2>1, RequestSurvives, RestoreSurvives, FinalizeSurvives DEF ServerStep
  <1> QED
    BY <1>2, <1>3, <1>4, <1>5 DEF Next, UserStarts, Starts, Works

(* An empty workspace has lost nothing.                                    *)
LEMMA SurvivalInit == ASSUME NEW t \in Tabs PROVE Init => SurvivalInv(t)
  <1> SUFFICES ASSUME Init
               PROVE  SurvivalInv(t)
    OBVIOUS
  <1>1. /\ rows = {} /\ outbox = {} /\ parked = {} /\ link = NoLink /\ cloud = {} /\ edits = 0
        /\ history = << {} >> /\ lease = Nothing /\ job = [i \in Requests |-> NoJob]
        /\ tab[t].run = Idle /\ tab[t].seen = NoLink /\ ~imported
    BY DEF Init
  <1>2. Len(history) = 1 /\ history[1] = {}
    BY <1>1
  <1>3. /\ NoLink.state = "none" /\ NoLink.rev = 0 /\ NoJob.at = "unused" /\ NoJob.data = {}
        /\ NoJob.base = 0
    BY DEF NoLink, NoJob
  <1>4. Unexplained = {} /\ Wanted = {} /\ \A i \in Requests : job[i] = NoJob
    BY <1>1 DEF Unexplained, Wanted
  <1>5. Imports \subseteq Requests /\ Posts \subseteq Requests
    BY DEF Requests
  <1>6. LinkOK(link) /\ ~Importing(link) /\ link.state # "ready" /\ link = NoLink
    BY <1>1, <1>2, <1>3 DEF LinkOK, Young, Importing
  <1>7. Virgin
    BY <1>3, <1>4, <1>5 DEF Virgin
  <1>8. WorldOK
    <2>1. KnownWorld /\ LeaseInv
      BY <1>1, <1>2, <1>3, <1>4, <1>5 DEF KnownWorld, LeaseInv
    <2>2. EditsWorld /\ FileWorld
      BY <1>3, <1>4, <1>5, <1>6 DEF EditsWorld, FileWorld, Live
    <2> QED
      BY <1>6, <1>7, <2>1, <2>2 DEF WorldOK
  <1>9. TabOK(Idle, NoLink)
    <2>1. RunKind(Idle) /\ LinkDuring(Idle) /\ KnownRun(Idle) /\ EditsRun(Idle)
      BY <1>1, <1>2, IdleIs DEF RunKind, LinkDuring, KnownRun, EditsRun
    <2>2. SeenOK(Idle, NoLink) /\ FileRun(Idle, NoLink)
      BY <1>3, <1>6, IdleIs DEF SeenOK, FileRun, Importing
    <2> QED
      BY <1>7, <2>1, <2>2 DEF TabOK
  <1> QED
    BY <1>1, <1>8, <1>9 DEF SurvivalInv

(* In a browser that has the workspace open in one window, and until a     *)
(* link runs beside another workflow, an edit made on the device, and the  *)
(* file once it was imported, is on the device or in the cloud or on its   *)
(* way, whatever was closed, lost, refused or repeated, but for the        *)
(* exceptions the code has (link-workflow.ts, workspace-backup.ts,         *)
(* import-workflow.ts, engine.ts, workspace-operation.ts,                  *)
(* backup/routes.ts).                                                      *)
THEOREM EditsSurviveInOneWindow ==
    ASSUME OneWindow, Tabs # {}
    PROVE  Spec => [](~overlapped => EditsSurvive)
  <1> DEFINE I == overlapped \/ \E t \in Tabs : OneRuns(t)
  <1>1. Init => I
    <2> SUFFICES ASSUME Init, NEW t \in Tabs
                 PROVE  OneRuns(t)
      OBVIOUS
    <2>1. Rest(t)
      BY DEF Init, Rest
    <2> QED
      BY <2>1, SurvivalInit DEF OneRuns
  <1>2. CloudInv /\ CloudInv' /\ I /\ [Next]_vars => I'
    <2> SUFFICES ASSUME CloudInv, CloudInv', I, [Next]_vars, ~overlapped'
                 PROVE  \E u \in Tabs : OneRuns(u)'
      OBVIOUS
    <2>1. ~overlapped
      BY OverlapStays
    <2>2. PICK t \in Tabs : OneRuns(t)
      BY <2>1
    <2> QED
      BY <2>2, SurvivalStep
  <1>3. I => (~overlapped => EditsSurvive)
    <2> SUFFICES ASSUME NEW t \in Tabs, SurvivalInv(t), ~overlapped
                 PROVE  EditsSurvive
      BY DEF OneRuns
    <2>1. Unexplained \subseteq rows \union parked /\ Wanted \subseteq rows
      BY DEF SurvivalInv, WorldOK, EditsWorld, FileWorld
    <2> QED
      BY <2>1 DEF EditsSurvive, Unexplained, Wanted
  <1> QED
    BY <1>1, <1>2, <1>3, CloudInvariant, PTL DEF Spec

=============================================================================
