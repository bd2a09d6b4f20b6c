------------------------ MODULE WorkspaceLeaseProofs ------------------------
(***************************************************************************)
(* Proofs about WorkspaceLease for every set of requests.                  *)
(*                                                                         *)
(* LeaseInv needs nothing about time: it holds even when a live request    *)
(* overstays its lease.  SnapshotInv needs ~Overrun.                       *)
(***************************************************************************)
EXTENDS WorkspaceLease, TLAPS

(* Writers that were granted a base revision and may change data under it, *)
(* or did.                                                                 *)
Granted(w) == w \in wrote \/ pc[w] = "writing"

(* The lease names a request that was granted it, at its own base.         *)
HolderInv ==
    writerToken # NoWriter =>
      /\ base[writerToken] = revision
      /\ pc[writerToken] \in {"writing", "aborting", "crashed"}

(* Nobody is ahead of the workspace.                                       *)
BaseInv == \A r \in Requests : base[r] <= revision

(* Without the lease, a granted base is in the past.                       *)
PastInv ==
    \A w \in Writers : Granted(w) => writerToken = w \/ base[w] < revision

(* Only requests past the compare-and-swap have written.                   *)
WroteInv ==
    \A w \in wrote : pc[w] \in {"writing", "confirm"} \union Final

(* A base revision is granted to one writer at a time and, once it has     *)
(* written, to no other.                                                   *)
GrantInv ==
    \A w, x \in Writers :
      Granted(w) /\ Granted(x) /\ base[w] = base[x] => w = x

LeaseInv ==
    /\ TypeOK /\ HolderInv /\ BaseInv /\ PastInv /\ WroteInv /\ GrantInv

-----------------------------------------------------------------------------
(* Reading readWorkspaceRevisionState and its users step by step: LeaseInv *)
(* holds initially and every action keeps it.                              *)

(* The initial state of a workspace.                                       *)
LEMMA LeaseInvInit == Init => LeaseInv
<1> SUFFICES ASSUME Init PROVE LeaseInv
  OBVIOUS
<1>1. TypeOK
  <2> USE DEF Init
  <2>1. pc \in [Requests -> ReadPoints \union Final \union Steps]
    BY DEF Steps
  <2>2. 0 \in 0..(Attempts - 1)
    BY LeaseAssumption
  <2>3. attempt \in [Readers -> 0..(Attempts - 1)]
    BY <2>2
  <2>4. copy \in [Readers -> [Parts -> Writers \union {NoWriter}]]
    OBVIOUS
  <2> QED BY <2>1, <2>3, <2>4 DEF TypeOK
<1>2. HolderInv /\ BaseInv /\ WroteInv
  BY DEF Init, HolderInv, BaseInv, WroteInv
<1>3. \A w \in Writers : ~Granted(w)
  BY DEF Init, Granted, Requests
<1> QED BY <1>1, <1>2, <1>3 DEF LeaseInv, PastInv, GrantInv

(* Every action keeps every variable in its domain.                        *)
LEMMA TypeOKStep == TypeOK /\ [Next]_vars => TypeOK'
<1> SUFFICES ASSUME TypeOK, [Next]_vars PROVE TypeOK'
  OBVIOUS
<1> USE DEF TypeOK, lease, reading, Goto, Select
<1>1. ASSUME NEW r \in Requests, RecoverStale(r) PROVE TypeOK'
  <2>1. revision' \in Nat
    BY <1>1 DEF RecoverStale, RecoveryAdvances
  <2>2. writerToken' \in Writers \union {NoWriter} /\ leaseAge' \in {"fresh", "stale"}
    BY <1>1 DEF RecoverStale
  <2> QED BY <1>1, <2>1, <2>2 DEF RecoverStale
<1>2. ASSUME NEW w \in Writers, ArriveReserving(w) \/ ArriveGuarded(w) PROVE TypeOK'
  <2>1. pc' \in [Requests -> ReadPoints \union Final \union Steps]
    BY <1>2 DEF ArriveReserving, ArriveGuarded, ReadPoints
  <2>2. base' \in [Requests -> Nat]
    BY <1>2 DEF ArriveReserving, ArriveGuarded
  <2> QED BY <1>2, <2>1, <2>2 DEF ArriveReserving, ArriveGuarded
<1>3. ASSUME NEW w \in Writers, Acquire(w) \/ Reserve(w) \/ Recheck(w) \/ Confirm(w)
      PROVE  TypeOK'
  <2>1. pc' \in [Requests -> ReadPoints \union Final \union Steps]
    BY <1>3 DEF Acquire, Reserve, Recheck, Confirm, ReadPoints, Final, Steps
  <2>2. base' \in [Requests -> Nat]
    BY <1>3 DEF Acquire, Reserve, Recheck, Confirm
  <2> QED BY <1>3, <2>1, <2>2 DEF Acquire, Reserve, Recheck, Confirm
<1>4. ASSUME NEW w \in Writers, CompareAndSwap(w) PROVE TypeOK'
  <2>1. pc' \in [Requests -> ReadPoints \union Final \union Steps]
    BY <1>4 DEF CompareAndSwap, ReadPoints, Steps
  <2> QED BY <1>4, <2>1 DEF CompareAndSwap
<1>5. ASSUME NEW w \in Writers, Write(w) PROVE TypeOK'
  BY <1>5 DEF Write
<1>6. ASSUME NEW w \in Writers, FinalizeWrite(w) PROVE TypeOK'
  <2>1. pc' \in [Requests -> ReadPoints \union Final \union Steps]
    BY <1>6 DEF FinalizeWrite, ReadPoints, Final
  <2>2. revision' \in Nat
    BY <1>6 DEF FinalizeWrite, FinalizedRevision
  <2> QED BY <1>6, <2>1, <2>2 DEF FinalizeWrite
<1>7. ASSUME NEW w \in Writers, BatchFails(w) \/ AbortWrite(w) \/ Crash(w)
      PROVE  TypeOK'
  <2>1. pc' \in [Requests -> ReadPoints \union Final \union Steps]
    BY <1>7 DEF BatchFails, AbortWrite, Crash, Final, Steps
  <2> QED BY <1>7, <2>1 DEF BatchFails, AbortWrite, Crash
<1>8. ASSUME NEW r \in Readers, ArriveReader(r) \/ ReadFinished(r) PROVE TypeOK'
  <2>1. pc' \in [Requests -> ReadPoints \union Final \union Steps]
    BY <1>8 DEF ArriveReader, ReadFinished, ReadPoints
  <2> QED BY <1>8, <2>1 DEF ArriveReader, ReadFinished
<1>9. ASSUME NEW r \in Readers, NextAttempt(r)
      PROVE  /\ pc' \in [Requests -> ReadPoints \union Final \union Steps]
             /\ attempt' \in [Readers -> 0..(Attempts - 1)]
  <2>1. CASE LastAttempt(r)
    BY <1>9, <2>1 DEF NextAttempt, Final
  <2>2. CASE ~LastAttempt(r)
    <3>1. attempt[r] \in 0..(Attempts - 1)
      OBVIOUS
    <3>2. AttemptsUsed(r) \in 0..(Attempts - 1)
      BY <2>2, <3>1, LeaseAssumption DEF LastAttempt, AttemptsUsed
    <3> QED BY <1>9, <2>2, <3>2 DEF NextAttempt, ReadPoints
  <2> QED BY <2>1, <2>2
<1>10. ASSUME NEW r \in Readers, ReadBefore(r) PROVE TypeOK'
  <2>1. CASE writerToken # NoWriter
    BY <1>9, <1>10, <2>1 DEF ReadBefore
  <2>2. CASE writerToken = NoWriter
    BY <1>10, <2>2 DEF ReadBefore, Steps
  <2> QED BY <2>1, <2>2
<1>11. ASSUME NEW r \in Readers, ReadAfter(r) PROVE TypeOK'
  <2>1. CASE StableSince(r)
    BY <1>11, <2>1 DEF ReadAfter, Final
  <2>2. CASE ~StableSince(r)
    BY <1>9, <1>11, <2>2 DEF ReadAfter
  <2> QED BY <2>1, <2>2
<1>12. ASSUME NEW r \in Readers, NEW p \in Parts, ReadPart(r, p) PROVE TypeOK'
  <2>1. copy' \in [Readers -> [Parts -> Writers \union {NoWriter}]]
    BY <1>12 DEF ReadPart
  <2>2. unread' \in [Readers -> SUBSET Parts]
    BY <1>12 DEF ReadPart
  <2> QED BY <1>12, <2>1, <2>2 DEF ReadPart
<1>13. ASSUME LeaseAges PROVE TypeOK'
  BY <1>13 DEF LeaseAges
<1>14. ASSUME UNCHANGED vars PROVE TypeOK'
  BY <1>14 DEF vars
<1> QED
  BY <1>1, <1>2, <1>3, <1>4, <1>5, <1>6, <1>7, <1>8, <1>10, <1>11, <1>12,
     <1>13, <1>14
  DEF Next, WriterStep, ReaderStep, Requests

(* A stale lease is taken away and the revision moves past its base.       *)
LEMMA RecoverStaleLeaseInv ==
  ASSUME LeaseInv, TypeOK', NEW r \in Requests, RecoverStale(r)
  PROVE  LeaseInv'
<1>1. CASE writerToken # NoWriter /\ leaseAge = "stale"
  <2>1. revision' = revision + 1 /\ writerToken' = NoWriter
    BY <1>1 DEF RecoverStale, RecoveryAdvances
  <2>2. UNCHANGED <<base, pc, wrote>>
    BY DEF RecoverStale
  <2>3. \A q \in Requests : base[q] < revision'
    BY <2>1 DEF LeaseInv, TypeOK, BaseInv
  <2> QED
    BY <2>1, <2>2, <2>3
    DEF LeaseInv, TypeOK, HolderInv, BaseInv, PastInv, WroteInv, GrantInv,
        Granted, Requests
<1>2. CASE ~(writerToken # NoWriter /\ leaseAge = "stale")
  BY <1>2
  DEF RecoverStale, lease, LeaseInv, HolderInv, BaseInv, PastInv, WroteInv,
      GrantInv, Granted
<1> QED BY <1>1, <1>2

(* Steps that only move a request that holds no grant and keep the row.    *)
LEMMA UngrantedStepLeaseInv ==
  ASSUME LeaseInv, TypeOK', NEW r \in Requests,
         UNCHANGED <<revision, writerToken, wrote>>,
         r \notin wrote,
         pc[r] \notin {"writing", "aborting", "crashed"},
         pc'[r] # "writing",
         base'[r] <= revision,
         \A q \in Requests : q # r => pc'[q] = pc[q] /\ base'[q] = base[q]
  PROVE  LeaseInv'
<1>1. writerToken # r
  BY LeaseAssumption DEF LeaseInv, TypeOK, HolderInv, Requests
<1>2. HolderInv'
  BY <1>1, LeaseAssumption DEF LeaseInv, TypeOK, HolderInv, Requests
<1>3. BaseInv'
  BY DEF LeaseInv, BaseInv
<1>4. PastInv'
  BY DEF LeaseInv, PastInv, Granted, Requests
<1>5. WroteInv'
  BY DEF LeaseInv, TypeOK, WroteInv, Requests
<1>6. GrantInv'
  BY DEF LeaseInv, TypeOK, GrantInv, Granted, Requests
<1> QED BY <1>2, <1>3, <1>4, <1>5, <1>6 DEF LeaseInv

(* Steps that end a request, or its last read, and keep the row.           *)
LEMMA EndingStepLeaseInv ==
  ASSUME LeaseInv, TypeOK', NEW w \in Writers,
         UNCHANGED <<revision, writerToken, wrote, base>>,
         pc' = [pc EXCEPT ![w] = pc'[w]],
         pc'[w] \in Final,
         writerToken = w => pc'[w] = "crashed"
  PROVE  LeaseInv'
<1>1. HolderInv'
  BY LeaseAssumption DEF LeaseInv, TypeOK, HolderInv, Requests
<1>2. BaseInv'
  BY DEF LeaseInv, BaseInv
<1>3. \A x \in Writers : Granted(x)' => Granted(x)
  BY DEF LeaseInv, TypeOK, Granted, Requests, Final
<1>4. PastInv' /\ GrantInv'
  BY <1>3 DEF LeaseInv, PastInv, GrantInv
<1>5. WroteInv'
  BY DEF LeaseInv, TypeOK, WroteInv, Requests
<1> QED BY <1>1, <1>2, <1>4, <1>5 DEF LeaseInv

(* The compare-and-swap grants the current revision, which nobody else may *)
(* still write from.                                                       *)
LEMMA CompareAndSwapLeaseInv ==
  ASSUME LeaseInv, TypeOK', NEW w \in Writers, CompareAndSwap(w)
  PROVE  LeaseInv'
<1> USE DEF CompareAndSwap, CasSucceeds, Goto, lease, reading
<1>0. w \notin wrote
  BY DEF LeaseInv, WroteInv, Final
<1>1. CASE CasSucceeds(w)
  <2>1. HolderInv' /\ BaseInv' /\ WroteInv'
    BY <1>1 DEF LeaseInv, TypeOK, HolderInv, BaseInv, WroteInv, Requests
  <2>2. \A x \in Writers \ {w} : Granted(x)' => Granted(x) /\ base[x] < revision
    BY <1>1, LeaseAssumption
    DEF LeaseInv, TypeOK, PastInv, Granted, Requests
  <2>3. PastInv'
    BY <1>1, <2>2 DEF PastInv
  <2>4. GrantInv'
    BY <1>1, <2>2 DEF LeaseInv, TypeOK, GrantInv, Requests
  <2> QED BY <2>1, <2>3, <2>4 DEF LeaseInv
<1>2. CASE ~CasSucceeds(w)
  <2>1. pc' = [pc EXCEPT ![w] = "recheck"]
    BY <1>2
  <2>2. pc'[w] = "recheck" /\ (\A q \in Requests : q # w => pc'[q] = pc[q])
    BY <2>1 DEF LeaseInv, TypeOK, Requests
  <2>3. base[w] <= revision /\ w \in Requests
    BY DEF LeaseInv, BaseInv, Requests
  <2> QED BY <1>0, <1>2, <2>2, <2>3, UngrantedStepLeaseInv
<1> QED BY <1>1, <1>2

(* The holder writes.                                                      *)
LEMMA WriteLeaseInv ==
  ASSUME LeaseInv, TypeOK', NEW w \in Writers, Write(w)
  PROVE  LeaseInv'
<1> USE DEF Write, lease, reading
<1>1. \A x \in Writers : Granted(x)' <=> Granted(x)
  BY DEF Granted
<1>2. WroteInv'
  BY DEF LeaseInv, WroteInv
<1> QED
  BY <1>1, <1>2 DEF LeaseInv, HolderInv, BaseInv, PastInv, GrantInv

(* Finalizing advances the revision past every granted base.               *)
LEMMA FinalizeWriteLeaseInv ==
  ASSUME LeaseInv, TypeOK', NEW w \in Writers, FinalizeWrite(w)
  PROVE  LeaseInv'
<1> USE DEF FinalizeWrite, FinalizedRevision, Goto, lease, reading
<1>1. CASE writerToken = w
  <2>1. HolderInv'
    BY <1>1, LeaseAssumption DEF HolderInv, Requests
  <2>2. \A q \in Requests : base'[q] < revision'
    BY <1>1, LeaseAssumption DEF LeaseInv, TypeOK, BaseInv, Requests
  <2>3. BaseInv' /\ PastInv'
    BY <2>2 DEF LeaseInv, TypeOK, BaseInv, PastInv, Requests
  <2>4. WroteInv'
    BY <1>1 DEF LeaseInv, TypeOK, WroteInv, Requests
  <2>5. \A x \in Writers : Granted(x)' => Granted(x)
    BY <1>1 DEF LeaseInv, TypeOK, Granted, Requests
  <2>6. GrantInv'
    BY <2>5 DEF LeaseInv, GrantInv
  <2> QED BY <2>1, <2>3, <2>4, <2>6 DEF LeaseInv
<1>2. CASE writerToken # w
  <2>1. pc' = [pc EXCEPT ![w] = pc'[w]] /\ pc'[w] \in Final
    BY <1>2 DEF LeaseInv, TypeOK, Requests, Final
  <2> QED BY <1>2, <2>1, EndingStepLeaseInv
<1> QED BY <1>1, <1>2

(* An aborting import has written nothing, so its base may be granted anew. *)
LEMMA AbortLeaseInv ==
  ASSUME LeaseInv, TypeOK', NEW w \in Writers, BatchFails(w) \/ AbortWrite(w)
  PROVE  LeaseInv'
<1> USE DEF BatchFails, AbortWrite, Goto, lease, reading
<1>1. w \notin wrote
  BY DEF LeaseInv, WroteInv, Final
<1>2. HolderInv'
  BY LeaseAssumption DEF LeaseInv, TypeOK, HolderInv, Requests
<1>3. BaseInv'
  BY DEF LeaseInv, BaseInv
<1>4. \A x \in Writers : Granted(x)' => Granted(x) /\ x # w
  BY <1>1 DEF LeaseInv, TypeOK, Granted, Requests
<1>5. PastInv' /\ GrantInv'
  BY <1>4 DEF LeaseInv, PastInv, GrantInv
<1>6. WroteInv'
  BY <1>1 DEF LeaseInv, TypeOK, WroteInv, Requests
<1> QED BY <1>2, <1>3, <1>5, <1>6 DEF LeaseInv

(* Every action keeps the strengthened invariant.                          *)
LEMMA LeaseInvStep == LeaseInv /\ [Next]_vars => LeaseInv'
<1> SUFFICES ASSUME LeaseInv, [Next]_vars PROVE LeaseInv'
  OBVIOUS
<1>t. TypeOK'
  BY TypeOKStep DEF LeaseInv
<1>r. \A q \in Requests : base[q] <= revision
  BY DEF LeaseInv, BaseInv
<1>1. ASSUME NEW r \in Requests, RecoverStale(r) PROVE LeaseInv'
  BY <1>t, <1>1, RecoverStaleLeaseInv
<1>2. ASSUME NEW w \in Writers,
             \/ ArriveReserving(w) \/ ArriveGuarded(w) \/ Acquire(w)
             \/ Reserve(w) \/ Recheck(w)
      PROVE  LeaseInv'
  <2> USE DEF ArriveReserving, ArriveGuarded, Acquire, Reserve, Recheck,
              Goto, Select, lease, reading
  <2>1. w \in Requests /\ w \notin wrote
    BY <1>2 DEF LeaseInv, WroteInv, Final, Requests
  <2>2. pc[w] \notin {"writing", "aborting", "crashed"} /\ pc'[w] # "writing"
    BY <1>2, <2>1 DEF LeaseInv, TypeOK
  <2>3. base'[w] <= revision
    BY <1>2, <1>r, <2>1 DEF LeaseInv, TypeOK
  <2>4. \A q \in Requests : q # w => pc'[q] = pc[q] /\ base'[q] = base[q]
    BY <1>2, <2>1 DEF LeaseInv, TypeOK
  <2>5. UNCHANGED <<revision, writerToken, wrote>>
    BY <1>2
  <2> QED BY <1>t, <2>1, <2>2, <2>3, <2>4, <2>5, UngrantedStepLeaseInv
<1>3. ASSUME NEW w \in Writers, CompareAndSwap(w) PROVE LeaseInv'
  BY <1>t, <1>3, CompareAndSwapLeaseInv
<1>4. ASSUME NEW w \in Writers, Write(w) PROVE LeaseInv'
  BY <1>t, <1>4, WriteLeaseInv
<1>5. ASSUME NEW w \in Writers, FinalizeWrite(w) PROVE LeaseInv'
  BY <1>t, <1>5, FinalizeWriteLeaseInv
<1>6. ASSUME NEW w \in Writers, BatchFails(w) \/ AbortWrite(w) PROVE LeaseInv'
  BY <1>t, <1>6, AbortLeaseInv
<1>7. ASSUME NEW w \in Writers, Confirm(w) \/ Crash(w) PROVE LeaseInv'
  <2> USE DEF Confirm, Crash, Goto, Select, lease, reading
  <2>1. pc' = [pc EXCEPT ![w] = pc'[w]] /\ pc'[w] \in Final
    BY <1>7 DEF LeaseInv, TypeOK, Requests, Final
  <2>2. writerToken = w => pc'[w] = "crashed"
    BY <1>7, LeaseAssumption DEF LeaseInv, TypeOK, HolderInv, Requests
  <2>3. UNCHANGED <<revision, writerToken, wrote, base>>
    BY <1>7
  <2> QED BY <1>t, <2>1, <2>2, <2>3, EndingStepLeaseInv
<1>8. ASSUME NEW r \in Readers,
             \/ ArriveReader(r) \/ ReadBefore(r) \/ ReadFinished(r)
             \/ ReadAfter(r) \/ \E p \in Parts : ReadPart(r, p)
      PROVE  LeaseInv'
  <2> USE DEF ArriveReader, ReadBefore, ReadFinished, ReadAfter, ReadPart,
              NextAttempt, Goto, Select, lease, reading
  <2>1. r \in Requests /\ r \notin wrote
    BY LeaseAssumption DEF LeaseInv, TypeOK, Requests
  <2>2. pc[r] \notin {"writing", "aborting", "crashed"} /\ pc'[r] # "writing"
    BY <1>8, <2>1 DEF LeaseInv, TypeOK
  <2>3. base'[r] <= revision
    BY <1>8, <1>r, <2>1 DEF LeaseInv, TypeOK
  <2>4. \A q \in Requests : q # r => pc'[q] = pc[q] /\ base'[q] = base[q]
    BY <1>8, <2>1 DEF LeaseInv, TypeOK
  <2>5. UNCHANGED <<revision, writerToken, wrote>>
    BY <1>8
  <2> QED BY <1>t, <2>1, <2>2, <2>3, <2>4, <2>5, UngrantedStepLeaseInv
<1>9. ASSUME LeaseAges \/ UNCHANGED vars PROVE LeaseInv'
  BY <1>t, <1>9
  DEF LeaseAges, vars, reading, LeaseInv, HolderInv, BaseInv, PastInv,
      WroteInv, GrantInv, Granted
<1> QED
  BY <1>1, <1>2, <1>3, <1>4, <1>5, <1>6, <1>7, <1>8, <1>9
  DEF Next, WriterStep, ReaderStep, Requests

(* The strengthened invariant of the lease: who may hold it, from which    *)
(* base, and that each base was granted once.                              *)
THEOREM LeaseInvariant == Spec => []LeaseInv
  BY LeaseInvInit, LeaseInvStep, PTL DEF Spec
-----------------------------------------------------------------------------
(* Safety that holds whatever time does.                                   *)

(* Every variable keeps its domain; a reader never starts an attempt too   *)
(* many (withStableWorkspaceRead).                                         *)
THEOREM TypeCorrect == Spec => []TypeOK
  BY LeaseInvariant, PTL DEF LeaseInv

(* reserveWorkspaceWrite grants each base revision to one writer: two      *)
(* devices cannot both write from the same base revision.                  *)
THEOREM OneWriterPerBaseHolds == Spec => []OneWriterPerBase
<1>1. LeaseInv => OneWriterPerBase
  BY DEF LeaseInv, TypeOK, GrantInv, Granted, OneWriterPerBase
<1> QED BY <1>1, LeaseInvariant, PTL

(* finalizeWorkspaceWrite and recoverStaleWriteLease never let go of       *)
(* written data at the revision it was written from.                       *)
THEOREM WriteAdvancesRevisionHolds == Spec => []WriteAdvancesRevision
<1>1. LeaseInv => WriteAdvancesRevision
  BY DEF LeaseInv, TypeOK, PastInv, Granted, WriteAdvancesRevision
<1> QED BY <1>1, LeaseInvariant, PTL

(* The revision only grows, and grows whenever written data is let go of.  *)
THEOREM RevisionMonotoneHolds == Spec => RevisionMonotone
<1> DEFINE A == /\ revision' >= revision
                /\ writerToken \in wrote /\ writerToken' # writerToken
                     => revision' > revision
<1>1. ASSUME LeaseInv, [Next]_vars PROVE A
  <2> USE DEF lease, reading, Select
  <2>0. revision \in Nat /\ NoWriter \notin wrote
    <3>1. wrote \subseteq Requests /\ revision \in Nat
      BY <1>1 DEF LeaseInv, TypeOK, Requests
    <3> QED BY <3>1, LeaseAssumption
  <2>1. ASSUME NEW r \in Requests, RecoverStale(r) PROVE A
    BY <2>0, <2>1 DEF RecoverStale, RecoveryAdvances
  <2>2. ASSUME NEW w \in Writers, FinalizeWrite(w) PROVE A
    BY <2>0, <2>2 DEF FinalizeWrite, FinalizedRevision
  <2>3. ASSUME NEW w \in Writers, AbortWrite(w) PROVE A
    <3>1. writerToken' # writerToken => writerToken = w
      BY <2>3 DEF AbortWrite
    <3>2. w \notin wrote
      BY <1>1, <2>3 DEF AbortWrite, LeaseInv, WroteInv, Final
    <3>3. revision' = revision
      BY <2>3 DEF AbortWrite
    <3> QED BY <2>0, <3>1, <3>2, <3>3
  <2>4. ASSUME NEW w \in Writers, CompareAndSwap(w) PROVE A
    BY <2>0, <2>4 DEF CompareAndSwap, CasSucceeds
  <2>5. CASE UNCHANGED <<revision, writerToken>>
    BY <2>0, <2>5
  <2>6. ASSUME NEW w \in Writers,
               \/ ArriveReserving(w) \/ ArriveGuarded(w) \/ Acquire(w)
               \/ Reserve(w) \/ Recheck(w) \/ Write(w) \/ Confirm(w)
               \/ BatchFails(w) \/ Crash(w)
        PROVE  UNCHANGED <<revision, writerToken>>
    BY <2>6 DEF ArriveReserving, ArriveGuarded, Acquire, Reserve, Recheck,
                Write, Confirm, BatchFails, Crash
  <2>7. ASSUME NEW r \in Readers,
               \/ ArriveReader(r) \/ ReadBefore(r) \/ ReadFinished(r)
               \/ ReadAfter(r) \/ \E p \in Parts : ReadPart(r, p)
        PROVE  UNCHANGED <<revision, writerToken>>
    BY <2>7 DEF ArriveReader, ReadBefore, ReadFinished, ReadAfter, ReadPart
  <2>8. ASSUME LeaseAges \/ UNCHANGED vars PROVE UNCHANGED <<revision, writerToken>>
    BY <2>8 DEF LeaseAges, vars
  <2> QED
    BY <1>1, <2>1, <2>2, <2>3, <2>4, <2>5, <2>6, <2>7, <2>8
    DEF Next, WriterStep, ReaderStep, Requests
<1>2. LeaseInv /\ [Next]_vars => [A]_vars
  BY <1>1
<1> QED BY <1>2, LeaseInvariant, PTL DEF Spec, RevisionMonotone

-----------------------------------------------------------------------------
(* Snapshots, when no live request outlives its lease.                     *)

(* A live writer past the compare-and-swap still holds the lease, because  *)
(* only the lease of a dead one ever goes stale.                           *)
ExclusiveInv ==
    /\ \A w \in Writers : pc[w] \in {"writing", "aborting"} => writerToken = w
    /\ leaseAge = "stale" /\ writerToken # NoWriter => pc[writerToken] = "crashed"

Fetched(r) == pc[r] \in {"reading", "after", "done"}

(* As long as the revision a reader started from is current and its holder *)
(* has not written, what it fetched is what is there.                      *)
FetchedInv ==
    \A r \in Readers :
      Fetched(r) /\ base[r] = revision /\ writerToken \notin wrote
        => \A p \in Parts \ unread[r] : copy[r][p] = data[p]

CompleteInv ==
    \A r \in Readers : pc[r] \in {"after", "done"} => unread[r] = {}

SnapshotInv ==
    ExclusiveInv /\ FetchedInv /\ CompleteInv /\ RevisionIdentifiesData

(* No reader has fetched anything yet.                                     *)
LEMMA SnapshotInvInit == Init => SnapshotInv
<1> SUFFICES ASSUME Init PROVE SnapshotInv
  OBVIOUS
<1>1. \A r \in Requests : pc[r] = "idle"
  BY DEF Init
<1> QED
  BY <1>1 DEF Init, SnapshotInv, ExclusiveInv, FetchedInv, Fetched,
      CompleteInv, RevisionIdentifiesData, Requests

(* Only the holder of the lease is about to write.                         *)
LEMMA ExclusiveStep ==
  ASSUME ~Overrun, LeaseInv, ExclusiveInv, Next
  PROVE  ExclusiveInv'
<1> USE DEF lease, reading, Goto, Select
<1>0. /\ pc \in [Requests -> ReadPoints \union Final \union Steps]
      /\ writerToken \in Writers \union {NoWriter}
      /\ \A w \in Writers : w \in Requests
      /\ \A w \in Writers : w # NoWriter
  BY LeaseAssumption DEF LeaseInv, TypeOK, Requests
<1>1. ASSUME NEW r \in Requests, RecoverStale(r) PROVE ExclusiveInv'
  BY <1>0, <1>1 DEF RecoverStale, ExclusiveInv
<1>2. ASSUME NEW w \in Writers,
             \/ ArriveReserving(w) \/ ArriveGuarded(w) \/ Acquire(w)
             \/ Reserve(w) \/ Recheck(w) \/ Confirm(w)
      PROVE  ExclusiveInv'
  BY <1>0, <1>2
  DEF ArriveReserving, ArriveGuarded, Acquire, Reserve, Recheck, Confirm,
      ExclusiveInv
<1>3. ASSUME NEW w \in Writers, CompareAndSwap(w) PROVE ExclusiveInv'
  BY <1>0, <1>3 DEF CompareAndSwap, CasSucceeds, ExclusiveInv
<1>4. ASSUME NEW w \in Writers, Write(w) PROVE ExclusiveInv'
  BY <1>4 DEF Write, ExclusiveInv
<1>5. ASSUME NEW w \in Writers, FinalizeWrite(w) PROVE ExclusiveInv'
  BY <1>0, <1>5 DEF FinalizeWrite, ExclusiveInv
<1>6. ASSUME NEW w \in Writers, BatchFails(w) \/ AbortWrite(w) PROVE ExclusiveInv'
  BY <1>0, <1>6 DEF BatchFails, AbortWrite, ExclusiveInv
<1>7. ASSUME NEW w \in Writers, Crash(w) PROVE ExclusiveInv'
  BY <1>0, <1>7 DEF Crash, ExclusiveInv
<1>8. ASSUME NEW r \in Readers,
             \/ ArriveReader(r) \/ ReadBefore(r) \/ ReadFinished(r)
             \/ ReadAfter(r) \/ \E p \in Parts : ReadPart(r, p)
      PROVE  ExclusiveInv'
  <2>1. /\ UNCHANGED <<writerToken, leaseAge>>
        /\ r \in Requests /\ r \notin Writers
        /\ \A w \in Writers : pc'[w] = pc[w]
    BY <1>0, <1>8, LeaseAssumption
    DEF ArriveReader, ReadBefore, ReadFinished, ReadAfter, ReadPart,
        NextAttempt, Requests
  <2> QED BY <1>0, <2>1 DEF ExclusiveInv
<1>9. ASSUME LeaseAges PROVE ExclusiveInv'
  BY <1>0, <1>9 DEF LeaseAges, Running, ExclusiveInv, LeaseInv, HolderInv, Final
<1> QED
  BY <1>1, <1>2, <1>3, <1>4, <1>5, <1>6, <1>7, <1>8, <1>9
  DEF Next, WriterStep, ReaderStep, Requests

(* Steps of a writer or of time: the readers stand still, and whatever     *)
(* becomes stale under them moves the revision or belongs to the holder.   *)
LEMMA WriterSideStep ==
  ASSUME LeaseInv, SnapshotInv,
         UNCHANGED <<copy, unread>>,
         \A r \in Readers : pc'[r] = pc[r] /\ base'[r] = base[r],
         \/ revision' > revision
         \/ writerToken' \in wrote'
         \/ UNCHANGED <<revision, data>> /\ writerToken \notin wrote
         \/ UNCHANGED <<revision, data, writerToken, wrote>>
  PROVE  FetchedInv' /\ CompleteInv' /\ RevisionIdentifiesData'
<1>1. FetchedInv'
  <2> SUFFICES ASSUME NEW r \in Readers, Fetched(r)', base'[r] = revision',
                      writerToken' \notin wrote', NEW p \in Parts \ unread'[r]
               PROVE  copy'[r][p] = data'[p]
    BY DEF FetchedInv
  <2>1. Fetched(r) /\ p \in Parts \ unread[r]
    BY DEF Fetched
  <2>2. base[r] <= revision /\ base[r] \in Nat /\ revision \in Nat
    BY DEF LeaseInv, TypeOK, BaseInv, Requests
  <2>3. UNCHANGED <<revision, data>> /\ writerToken \notin wrote
    BY <2>2
  <2> QED BY <2>1, <2>3 DEF SnapshotInv, FetchedInv
<1>2. CompleteInv' /\ RevisionIdentifiesData'
  BY DEF SnapshotInv, CompleteInv, RevisionIdentifiesData
<1> QED BY <1>1, <1>2

(* Every action keeps what snapshots are known to have seen.               *)
LEMMA SnapshotInvStep ==
  ASSUME ~Overrun, LeaseInv, SnapshotInv, [Next]_vars
  PROVE  SnapshotInv'
<1> USE DEF lease, reading, Select
<1>0. /\ pc \in [Requests -> ReadPoints \union Final \union Steps]
      /\ base \in [Requests -> Nat] /\ revision \in Nat
      /\ unread \in [Readers -> SUBSET Parts]
      /\ copy \in [Readers -> [Parts -> Writers \union {NoWriter}]]
      /\ data \in [Parts -> Writers \union {NoWriter}]
      /\ \A w \in Writers : w \in Requests
      /\ \A r \in Readers : r \in Requests /\ r \notin Writers
      /\ NoWriter \notin wrote
  BY LeaseAssumption DEF LeaseInv, TypeOK, Requests
<1> DEFINE Side == FetchedInv' /\ CompleteInv' /\ RevisionIdentifiesData'
<1>1. ASSUME NEW r \in Requests, RecoverStale(r) PROVE Side
  <2>1. \/ revision' > revision
        \/ UNCHANGED <<revision, data, writerToken, wrote>>
    BY <1>0, <1>1 DEF RecoverStale, RecoveryAdvances
  <2>2. UNCHANGED <<copy, unread, pc, base>>
    BY <1>1 DEF RecoverStale
  <2> QED BY <2>1, <2>2, WriterSideStep
<1>2. ASSUME NEW w \in Writers,
             \/ ArriveReserving(w) \/ ArriveGuarded(w) \/ Acquire(w)
             \/ Reserve(w) \/ Recheck(w) \/ Confirm(w) \/ BatchFails(w)
             \/ Crash(w)
      PROVE  Side
  <2> USE DEF ArriveReserving, ArriveGuarded, Acquire, Reserve, Recheck,
              Confirm, BatchFails, Crash, Goto
  <2>1. \A r \in Readers : pc'[r] = pc[r] /\ base'[r] = base[r]
    BY <1>0, <1>2
  <2>2. UNCHANGED <<copy, unread, revision, data, writerToken, wrote>>
    BY <1>2
  <2> QED BY <2>1, <2>2, WriterSideStep
<1>3. ASSUME NEW w \in Writers, CompareAndSwap(w) PROVE Side
  <2>1. \A r \in Readers : pc'[r] = pc[r] /\ base'[r] = base[r]
    BY <1>0, <1>3 DEF CompareAndSwap, Goto
  <2>2. writerToken = NoWriter \/ UNCHANGED writerToken
    BY <1>3 DEF CompareAndSwap, CasSucceeds
  <2>3. UNCHANGED <<copy, unread, revision, data, wrote>>
    BY <1>3 DEF CompareAndSwap
  <2> QED BY <1>0, <2>1, <2>2, <2>3, WriterSideStep
<1>4. ASSUME NEW w \in Writers, Write(w) PROVE Side
  <2>1. writerToken' \in wrote'
    BY <1>4 DEF Write, SnapshotInv, ExclusiveInv
  <2>2. UNCHANGED <<copy, unread, pc, base>>
    BY <1>4 DEF Write
  <2> QED BY <2>1, <2>2, WriterSideStep
<1>5. ASSUME NEW w \in Writers, FinalizeWrite(w) PROVE Side
  <2>1. \A r \in Readers : pc'[r] = pc[r] /\ base'[r] = base[r]
    BY <1>0, <1>5 DEF FinalizeWrite, Goto
  <2>2. revision' > revision
    BY <1>0, <1>5
    DEF FinalizeWrite, FinalizedRevision, SnapshotInv, ExclusiveInv
  <2>3. UNCHANGED <<copy, unread>>
    BY <1>5 DEF FinalizeWrite
  <2> QED BY <2>1, <2>2, <2>3, WriterSideStep
<1>6. ASSUME NEW w \in Writers, AbortWrite(w) PROVE Side
  <2>1. \A r \in Readers : pc'[r] = pc[r] /\ base'[r] = base[r]
    BY <1>0, <1>6 DEF AbortWrite, Goto
  <2>2. w \notin wrote
    BY <1>6 DEF AbortWrite, LeaseInv, WroteInv, Final
  <2>3. writerToken \notin wrote
    BY <1>6, <2>2 DEF AbortWrite, SnapshotInv, ExclusiveInv
  <2>4. UNCHANGED <<copy, unread, revision, data>>
    BY <1>6 DEF AbortWrite
  <2> QED BY <2>1, <2>3, <2>4, WriterSideStep
<1>7. ASSUME NEW r \in Readers, ArriveReader(r) PROVE Side
  BY <1>0, <1>7
  DEF ArriveReader, Goto, SnapshotInv, FetchedInv, Fetched, CompleteInv,
      RevisionIdentifiesData
<1>8. ASSUME NEW r \in Readers, ReadBefore(r) PROVE Side
  <2>1. /\ UNCHANGED <<revision, writerToken, data, wrote, copy>>
        /\ \A q \in Readers \ {r} :
             pc'[q] = pc[q] /\ base'[q] = base[q] /\ unread'[q] = unread[q]
    BY <1>0, <1>8 DEF ReadBefore, NextAttempt, Goto
  <2>2. pc'[r] \notin {"after", "done"}
    BY <1>0, <1>8 DEF ReadBefore, NextAttempt, Goto
  <2>3. Fetched(r)' => unread'[r] = Parts
    BY <1>0, <1>8 DEF ReadBefore, NextAttempt, Goto, Fetched
  <2> QED
    BY <2>1, <2>2, <2>3
    DEF SnapshotInv, FetchedInv, Fetched, CompleteInv, RevisionIdentifiesData
<1>9. ASSUME NEW r \in Readers, NEW p \in Parts, ReadPart(r, p) PROVE Side
  <2>1. /\ UNCHANGED <<revision, writerToken, data, wrote, pc, base>>
        /\ pc[r] = "reading"
        /\ \A q \in Readers \ {r} : copy'[q] = copy[q] /\ unread'[q] = unread[q]
    BY <1>0, <1>9 DEF ReadPart
  <2>2. /\ copy'[r] = [copy[r] EXCEPT ![p] = data[p]]
        /\ unread'[r] = unread[r] \ {p}
    BY <1>0, <1>9 DEF ReadPart
  <2>3. \A q \in Parts \ unread'[r] :
           q # p => q \in Parts \ unread[r] /\ copy'[r][q] = copy[r][q]
    BY <1>0, <2>2
  <2>4. copy'[r][p] = data[p]
    BY <1>0, <2>2
  <2> QED
    BY <2>1, <2>3, <2>4
    DEF SnapshotInv, FetchedInv, Fetched, CompleteInv, RevisionIdentifiesData
<1>10. ASSUME NEW r \in Readers, ReadFinished(r) PROVE Side
  <2>1. /\ UNCHANGED <<revision, writerToken, data, wrote, base, copy, unread>>
        /\ pc[r] = "reading" /\ pc'[r] = "after" /\ unread[r] = {}
        /\ \A q \in Readers \ {r} : pc'[q] = pc[q]
    BY <1>0, <1>10 DEF ReadFinished, Goto
  <2> QED
    BY <2>1
    DEF SnapshotInv, FetchedInv, Fetched, CompleteInv, RevisionIdentifiesData
<1>11. ASSUME NEW r \in Readers, ReadAfter(r) PROVE Side
  <2>1. /\ UNCHANGED <<revision, writerToken, data, wrote, base, copy, unread>>
        /\ pc[r] = "after"
        /\ \A q \in Readers \ {r} : pc'[q] = pc[q]
    BY <1>0, <1>11 DEF ReadAfter, NextAttempt, Goto
  <2>2. pc'[r] # "after" /\ pc'[r] # "reading"
    BY <1>0, <1>11 DEF ReadAfter, NextAttempt, Goto
  <2>3. FetchedInv' /\ CompleteInv'
    BY <2>1, <2>2 DEF SnapshotInv, FetchedInv, Fetched, CompleteInv
  <2>4. CASE ~StableSince(r)
    <3>1. pc'[r] # "done"
      BY <1>0, <1>11, <2>4 DEF ReadAfter, NextAttempt, Goto
    <3> QED BY <2>1, <2>3, <3>1 DEF SnapshotInv, RevisionIdentifiesData
  <2>5. CASE StableSince(r)
    <3>1. \A q \in Readers :
             pc[q] \in {"after", "done"} /\ base[q] = base[r] => copy[q] = data
      <4> SUFFICES ASSUME NEW q \in Readers, pc[q] \in {"after", "done"},
                          base[q] = base[r]
                   PROVE  copy[q] = data
        OBVIOUS
      <4>1. \A p \in Parts : copy[q][p] = data[p]
        BY <1>0, <2>5
        DEF StableSince, SnapshotInv, FetchedInv, Fetched, CompleteInv
      <4> QED BY <1>0, <4>1
    <3> QED BY <2>1, <2>3, <3>1 DEF SnapshotInv, RevisionIdentifiesData
  <2> QED BY <2>4, <2>5
<1>12. ASSUME LeaseAges \/ UNCHANGED vars PROVE Side
  <2>1. UNCHANGED <<copy, unread, pc, base, revision, data, writerToken, wrote>>
    BY <1>12 DEF LeaseAges, vars
  <2> QED BY <2>1, WriterSideStep
<1>13. Side
  BY <1>1, <1>2, <1>3, <1>4, <1>5, <1>6, <1>7, <1>8, <1>9, <1>10, <1>11,
     <1>12
  DEF Next, WriterStep, ReaderStep, Requests
<1>14. ExclusiveInv'
  <2>1. CASE Next
    BY <2>1, ExclusiveStep DEF SnapshotInv
  <2>2. CASE UNCHANGED vars
    BY <2>2 DEF vars, SnapshotInv, ExclusiveInv
  <2> QED BY <2>1, <2>2
<1> QED BY <1>13, <1>14 DEF SnapshotInv

(* The strengthened invariant of stable reads, when no live writer loses   *)
(* its lease to the ten-minute rule.                                       *)
THEOREM SnapshotInvariant == ~Overrun => (Spec => []SnapshotInv)
<1> SUFFICES ASSUME ~Overrun PROVE Spec => []SnapshotInv
  OBVIOUS
<1>1. LeaseInv /\ SnapshotInv /\ [Next]_vars => SnapshotInv'
  BY SnapshotInvStep
<1> QED BY <1>1, SnapshotInvInit, LeaseInvariant, PTL DEF Spec

(* withStableWorkspaceRead: two snapshots with one revision are the same   *)
(* workspace, provided only dead requests have their lease taken away.     *)
THEOREM RevisionIdentifiesDataHolds ==
    ~Overrun => (Spec => []RevisionIdentifiesData)
<1>1. SnapshotInv => RevisionIdentifiesData
  BY DEF SnapshotInv
<1> QED BY <1>1, SnapshotInvariant, PTL

(* reserveWorkspaceWrite with the revision of a snapshot starts from the   *)
(* data of that snapshot.                                                  *)
THEOREM WriterSeesItsBaseHolds == ~Overrun => (Spec => []WriterSeesItsBase)
<1>1. LeaseInv /\ SnapshotInv => WriterSeesItsBase
  <2> SUFFICES ASSUME LeaseInv, SnapshotInv, NEW w \in Writers,
                      NEW r \in Readers, writerToken = w, w \notin wrote,
                      pc[r] = "done", base[r] = base[w]
               PROVE  copy[r] = data
    BY DEF WriterSeesItsBase
  <2>1. base[r] = revision /\ unread[r] = {}
    BY LeaseAssumption
    DEF LeaseInv, HolderInv, SnapshotInv, CompleteInv, Requests
  <2>2. \A p \in Parts : copy[r][p] = data[p]
    BY <2>1 DEF SnapshotInv, FetchedInv, Fetched
  <2> QED BY <2>2 DEF LeaseInv, TypeOK
<1> QED BY <1>1, SnapshotInvariant, LeaseInvariant, PTL

(* No push, import or guarded write changes business data after its lease  *)
(* was given to somebody else.                                             *)
THEOREM WritesHoldLeaseHolds == ~Overrun => (Spec => WritesHoldLease)
<1>1. ASSUME SnapshotInv, [Next]_vars
      PROVE  \A p \in Parts : data'[p] # data[p] => data'[p] = writerToken
  <2>1. ASSUME NEW w \in Writers, Write(w)
        PROVE  \A p \in Parts : data'[p] # data[p] => data'[p] = writerToken
    BY <1>1, <2>1 DEF Write, SnapshotInv, ExclusiveInv
  <2>2. CASE ~\E w \in Writers : Write(w)
    <3>1. UNCHANGED data
      BY <1>1, <2>2
      DEF Next, WriterStep, ReaderStep, ArriveReserving, ArriveGuarded,
          RecoverStale, Acquire, Reserve, CompareAndSwap, Recheck, Select,
          FinalizeWrite, Confirm, BatchFails, AbortWrite, Crash, ArriveReader,
          ReadBefore, ReadPart, ReadFinished, ReadAfter, LeaseAges, vars
    <3> QED BY <3>1
  <2> QED BY <2>1, <2>2
<1>2. SnapshotInv /\ [Next]_vars =>
        [\A p \in Parts : data'[p] # data[p] => data'[p] = writerToken]_vars
  BY <1>1
<1> QED BY <1>2, SnapshotInvariant, PTL DEF Spec, WritesHoldLease
=============================================================================
