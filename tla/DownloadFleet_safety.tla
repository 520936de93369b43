------------------------ MODULE DownloadFleet_safety ------------------------
(***************************************************************************)
(* Type correctness and the inductive invariant of the download fleet, for *)
(* any number of tasks, workers, coordinator goroutines and generations.   *)
(* Typing: one step per variable an action changes.  IInv: a lemma each;   *)
(* under it, first the parts of IInv whose variables the action leaves     *)
(* alone, then one step per part it can disturb.                           *)
(***************************************************************************)
EXTENDS DownloadFleet, TLAPS

USE DEF taskVars, hookVars, attVars, bodyVars, nodeVars, procVars, fileVars

-----------------------------------------------------------------------------
(* Type correctness.                                                         *)

\* A timer that runs down stays a natural number.
LEMMA DownNat == \A x \in Nat : Down(x) \in Nat
BY DEF Down

\* The retention and liveness windows are natural numbers.
LEMMA TouchedNat == Touched \in Nat /\ SeenNow \in Nat
BY Validate DEF Touched, SeenNow

\* The initial state is well typed.
LEMMA TypeInit == Init => TypeOK
BY ConstantTypes, Validate, NullIsNothing
   DEF Init, TypeOK, TaskStates, AttStates, NodeStates, PCs

\* The clock keeps TypeOK.
LEMMA TypeTick ==
  ASSUME TypeOK, Tick
  PROVE  TypeOK'
<1>1. taskDeadline' \in [Tasks -> Nat]
  BY DownNat DEF TypeOK, Tick
<1>2. keep' \in [Tasks -> Nat]
  BY DownNat DEF TypeOK, Tick
<1>3. hookWait' \in [Tasks -> Nat]
  BY DownNat DEF TypeOK, Tick
<1>4. lease' \in [Attempts -> Nat]
  BY DownNat DEF TypeOK, Tick
<1>5. attDeadline' \in [Attempts -> Nat]
  BY DownNat DEF TypeOK, Tick
<1>6. seen' \in [Workers -> Nat]
  BY DownNat DEF TypeOK, Tick
<1> QED
  BY <1>1, <1>2, <1>3, <1>4, <1>5, <1>6 DEF TypeOK, Tick

\* Enqueue inserting a task keeps TypeOK.
LEMMA TypeEnqueueNew ==
  ASSUME TypeOK, NEW r \in Requests \cup {Null}, NEW i \in Identities,
         NEW t \in Tasks, EnqueueNew(r, i, t)
  PROVE  TypeOK'
<1>1. taskState' \in [Tasks -> TaskStates]
  BY DEF TypeOK, EnqueueNew, TaskStates
<1>2. identity' \in [Tasks -> Identities \cup {Null}]
  BY DEF TypeOK, EnqueueNew
<1>3. taskDeadline' \in [Tasks -> Nat]
  BY Validate DEF TypeOK, EnqueueNew
<1>4. keep' \in [Tasks -> Nat]
  BY TouchedNat DEF TypeOK, EnqueueNew
<1>5. admission' \in [Requests -> Tasks \cup {Null}]
  BY DEF TypeOK, EnqueueNew, Admit
<1> QED
  BY <1>1, <1>2, <1>3, <1>4, <1>5 DEF TypeOK, EnqueueNew

\* Enqueue joining an active task keeps TypeOK.
LEMMA TypeEnqueueJoin ==
  ASSUME TypeOK, NEW r \in Requests \cup {Null}, NEW i \in Identities,
         NEW t \in Tasks, EnqueueJoin(r, i, t)
  PROVE  TypeOK'
<1>1. admission' \in [Requests -> Tasks \cup {Null}]
  BY DEF TypeOK, EnqueueJoin, Admit
<1> QED
  BY <1>1 DEF TypeOK, EnqueueJoin

\* Heartbeat keeps TypeOK.
LEMMA TypeHeartbeat ==
  ASSUME TypeOK, NEW w \in Workers, NEW ids \in SUBSET Tasks,
         NEW cap \in Capacities, Heartbeat(w, ids, cap)
  PROVE  TypeOK'
<1>1. seen' \in [Workers -> Nat]
  BY TouchedNat DEF TypeOK, Heartbeat
<1>2. capacity' \in [Workers -> Nat]
  BY Validate, ConstantTypes DEF TypeOK, Heartbeat, Least
<1>3. lease' \in [Attempts -> Nat]
  BY Validate DEF TypeOK, Heartbeat, Least, Renewed, Attempts
<1> QED
  BY <1>1, <1>2, <1>3 DEF TypeOK, Heartbeat

\* Claim keeps TypeOK.
LEMMA TypeClaim ==
  ASSUME TypeOK, NEW w \in Workers, NEW n \in ClaimLimits, Claim(w, n)
  PROVE  TypeOK'
<1>1. attState' \in [Attempts -> AttStates]
  BY DEF TypeOK, Claim, AttStates
<1>2. attDeadline' \in [Attempts -> Nat]
  BY Validate DEF TypeOK, Claim, Least, Attempts
<1>3. lease' \in [Attempts -> Nat]
  BY Validate DEF TypeOK, Claim, Least, Attempts
<1>4. taskState' \in [Tasks -> TaskStates]
  BY DEF TypeOK, Claim, TaskStates
<1>5. current' \in [Tasks -> Workers \cup {Null}]
  BY DEF TypeOK, Claim
<1>6. attemptCount' \in [Tasks -> Nat]
  BY DEF TypeOK, Claim
<1>7. keep' \in [Tasks -> Nat]
  BY TouchedNat DEF TypeOK, Claim
<1> QED
  BY <1>1, <1>2, <1>3, <1>4, <1>5, <1>6, <1>7 DEF TypeOK, Claim

\* Report keeps TypeOK.
LEMMA TypeReport ==
  ASSUME TypeOK, NEW t \in Tasks, NEW w \in Workers,
         NEW terminal \in BOOLEAN, Report(t, w, terminal)
  PROVE  TypeOK'
<1>1. attState' \in [Attempts -> AttStates]
  BY DEF TypeOK, Report, AttStates
<1>2. taskState' \in [Tasks -> TaskStates]
  BY DEF TypeOK, Report, TaskStates, Requeued
<1>3. keep' \in [Tasks -> Nat]
  BY TouchedNat DEF TypeOK, Report
<1> QED
  BY <1>1, <1>2, <1>3 DEF TypeOK, Report

\* The approve action keeps TypeOK.
LEMMA TypeApprove ==
  ASSUME TypeOK, NEW w \in Workers, Approve(w)
  PROVE  TypeOK'
<1>1. nodeStatus' \in [Workers -> NodeStates]
  BY DEF TypeOK, Approve, NodeStates, SetStatus
<1> QED
  BY <1>1 DEF TypeOK, Approve, SetStatus

\* The enable action keeps TypeOK.
LEMMA TypeEnable ==
  ASSUME TypeOK, NEW w \in Workers, Enable(w)
  PROVE  TypeOK'
<1>1. nodeStatus' \in [Workers -> NodeStates]
  BY DEF TypeOK, Enable, NodeStates, SetStatus
<1> QED
  BY <1>1 DEF TypeOK, Enable, SetStatus

\* The drain action keeps TypeOK.
LEMMA TypeDrain ==
  ASSUME TypeOK, NEW w \in Workers, Drain(w)
  PROVE  TypeOK'
<1>1. nodeStatus' \in [Workers -> NodeStates]
  BY DEF TypeOK, Drain, NodeStates, SetStatus
<1> QED
  BY <1>1 DEF TypeOK, Drain, SetStatus

\* The reject and revoke actions keeps TypeOK.
LEMMA TypeDismiss ==
  ASSUME TypeOK, NEW w \in Workers,
         NEW status \in {"rejected", "revoked"}, Dismiss(w, status)
  PROVE  TypeOK'
<1>1. nodeStatus' \in [Workers -> NodeStates]
  BY DEF TypeOK, Dismiss, NodeStates, SetStatus
<1>2. lease' \in [Attempts -> Nat]
  BY DEF TypeOK, Dismiss
<1> QED
  BY <1>1, <1>2 DEF TypeOK, Dismiss, SetStatus

\* Upload's reservation keeps TypeOK.
LEMMA TypeUploadReserve ==
  ASSUME TypeOK, NEW p \in Procs, NEW t \in Tasks, NEW w \in Workers,
         NEW d \in Digests, NEW g \in Gens, UploadReserve(p, t, w, d, g)
  PROVE  TypeOK'
<1>1. lease' \in [Attempts -> Nat]
  BY Validate DEF TypeOK, UploadReserve, Least, UploadLease, Attempts
<1>2. attState' \in [Attempts -> AttStates]
  BY DEF TypeOK, UploadReserve, AttStates
<1>3. sha' \in [Attempts -> Digests \cup {Null}]
  BY DEF TypeOK, UploadReserve
<1>4. spoolPath' \in [Attempts -> Gens \cup {Null}]
  BY DEF TypeOK, UploadReserve
<1>5. uploadId' \in [Attempts -> Gens \cup {Null}]
  BY DEF TypeOK, UploadReserve
<1>6. /\ pc' \in [Procs -> PCs] /\ pa' \in [Procs -> Attempts \cup {Null}]
       /\ pg' \in [Procs -> Gens \cup {Null}]
       /\ \A q \in Procs : pc'[q] # "idle" => pa'[q] \in Attempts /\ pg'[q] \in Gens
  BY DEF TypeOK, UploadReserve, PCs, Attempts
<1>7. disk' \subseteq Paths /\ whole' \subseteq Paths
  BY DEF TypeOK, UploadReserve, WithoutOldFile
<1> QED
  BY <1>1, <1>2, <1>3, <1>4, <1>5, <1>6, <1>7 DEF TypeOK, UploadReserve

\* A refused upload keeps TypeOK.
LEMMA TypeUploadRefused ==
  ASSUME TypeOK, NEW t \in Tasks, NEW w \in Workers,
         NEW d \in Digests, UploadRefused(t, w, d)
  PROVE  TypeOK'
<1>1. disk' \subseteq Paths /\ whole' \subseteq Paths
  BY DEF TypeOK, UploadRefused, WithoutOldFile
<1> QED
  BY <1>1 DEF TypeOK, UploadRefused

\* StreamStage taking its row locks keeps TypeOK.
LEMMA TypeStreamLock ==
  ASSUME TypeOK, NEW p \in Procs, StreamLock(p)
  PROVE  TypeOK'
<1>1. lock' \in [Tasks -> Procs \cup {Null}]
  BY DEF TypeOK, StreamLock, Goto
<1>2. /\ pc' \in [Procs -> PCs] /\ pa' \in [Procs -> Attempts \cup {Null}]
       /\ pg' \in [Procs -> Gens \cup {Null}]
       /\ \A q \in Procs : pc'[q] # "idle" => pa'[q] \in Attempts /\ pg'[q] \in Gens
  BY DEF TypeOK, StreamLock, PCs, Goto
<1> QED
  BY <1>1, <1>2 DEF TypeOK, StreamLock

\* StreamStage creating its file keeps TypeOK.
LEMMA TypeOpenFile ==
  ASSUME TypeOK, NEW p \in Procs, OpenFile(p)
  PROVE  TypeOK'
<1>1. /\ pc' \in [Procs -> PCs] /\ pa' \in [Procs -> Attempts \cup {Null}]
       /\ pg' \in [Procs -> Gens \cup {Null}]
       /\ \A q \in Procs : pc'[q] # "idle" => pa'[q] \in Attempts /\ pg'[q] \in Gens
  BY DEF TypeOK, OpenFile, PCs, Goto
<1>2. disk' \subseteq Paths /\ whole' \subseteq Paths
  BY DEF TypeOK, OpenFile, Paths
<1> QED
  BY <1>1, <1>2 DEF TypeOK, OpenFile

\* StreamStage staging the result keeps TypeOK.
LEMMA TypeStreamStage ==
  ASSUME TypeOK, NEW p \in Procs,
         NEW label \in {"commit", "reset"}, StreamStage(p, label)
  PROVE  TypeOK'
<1>1. attState' \in [Attempts -> AttStates]
  BY DEF TypeOK, StreamStage, AttStates
<1>2. taskState' \in [Tasks -> TaskStates]
  BY DEF TypeOK, StreamStage, TaskStates
<1>3. keep' \in [Tasks -> Nat]
  BY TouchedNat DEF TypeOK, StreamStage
<1>4. lock' \in [Tasks -> Procs \cup {Null}]
  BY DEF TypeOK, StreamStage, Unlock
<1>5. /\ pc' \in [Procs -> PCs] /\ pa' \in [Procs -> Attempts \cup {Null}]
       /\ pg' \in [Procs -> Gens \cup {Null}]
       /\ \A q \in Procs : pc'[q] # "idle" => pa'[q] \in Attempts /\ pg'[q] \in Gens
  BY DEF TypeOK, StreamStage, PCs, Goto, Stageable
<1>6. disk' \subseteq Paths /\ whole' \subseteq Paths
  BY DEF TypeOK, StreamStage, Stageable, Paths
<1> QED
  BY <1>1, <1>2, <1>3, <1>4, <1>5, <1>6 DEF TypeOK, StreamStage, Stageable

\* A failed staging commit keeps TypeOK.
LEMMA TypeStreamCommitFailed ==
  ASSUME TypeOK, NEW p \in Procs, StreamCommitFailed(p)
  PROVE  TypeOK'
<1>1. lock' \in [Tasks -> Procs \cup {Null}]
  BY DEF TypeOK, StreamCommitFailed, Unlock
<1>2. /\ pc' \in [Procs -> PCs] /\ pa' \in [Procs -> Attempts \cup {Null}]
       /\ pg' \in [Procs -> Gens \cup {Null}]
       /\ \A q \in Procs : pc'[q] # "idle" => pa'[q] \in Attempts /\ pg'[q] \in Gens
  BY DEF TypeOK, StreamCommitFailed, PCs, Goto, Stageable
<1>3. disk' \subseteq Paths /\ whole' \subseteq Paths
  BY DEF TypeOK, StreamCommitFailed, Stageable, Paths
<1> QED
  BY <1>1, <1>2, <1>3 DEF TypeOK, StreamCommitFailed, Stageable

\* A failed transfer keeps TypeOK.
LEMMA TypeStreamFail ==
  ASSUME TypeOK, NEW p \in Procs, StreamFail(p)
  PROVE  TypeOK'
<1>1. lock' \in [Tasks -> Procs \cup {Null}]
  BY DEF TypeOK, StreamFail, Unlock
<1>2. /\ pc' \in [Procs -> PCs] /\ pa' \in [Procs -> Attempts \cup {Null}]
       /\ pg' \in [Procs -> Gens \cup {Null}]
       /\ \A q \in Procs : pc'[q] # "idle" => pa'[q] \in Attempts /\ pg'[q] \in Gens
  BY DEF TypeOK, StreamFail, PCs, Goto
<1>3. disk' \subseteq Paths /\ whole' \subseteq Paths
  BY DEF TypeOK, StreamFail
<1> QED
  BY <1>1, <1>2, <1>3 DEF TypeOK, StreamFail

\* ResetTransfer keeps TypeOK.
LEMMA TypeResetTransfer ==
  ASSUME TypeOK, NEW p \in Procs, ResetTransfer(p)
  PROVE  TypeOK'
<1>1. spoolPath' \in [Attempts -> Gens \cup {Null}]
  BY DEF TypeOK, ResetTransfer
<1>2. uploadId' \in [Attempts -> Gens \cup {Null}]
  BY DEF TypeOK, ResetTransfer
<1>3. /\ pc' \in [Procs -> PCs] /\ pa' \in [Procs -> Attempts \cup {Null}]
       /\ pg' \in [Procs -> Gens \cup {Null}]
       /\ \A q \in Procs : pc'[q] # "idle" => pa'[q] \in Attempts /\ pg'[q] \in Gens
  BY DEF TypeOK, ResetTransfer, PCs, Leave
<1>4. disk' \subseteq Paths /\ whole' \subseteq Paths
  BY DEF TypeOK, ResetTransfer
<1> QED
  BY <1>1, <1>2, <1>3, <1>4 DEF TypeOK, ResetTransfer

\* CommitStaged taking its row lock keeps TypeOK.
LEMMA TypeCommitLock ==
  ASSUME TypeOK, NEW p \in Procs, NEW a \in Attempts, CommitLock(p, a)
  PROVE  TypeOK'
<1>1. lock' \in [Tasks -> Procs \cup {Null}]
  BY DEF TypeOK, CommitLock
<1>2. /\ pc' \in [Procs -> PCs] /\ pa' \in [Procs -> Attempts \cup {Null}]
       /\ pg' \in [Procs -> Gens \cup {Null}]
       /\ \A q \in Procs : pc'[q] # "idle" => pa'[q] \in Attempts /\ pg'[q] \in Gens
  BY DEF TypeOK, CommitLock, PCs, Paths
<1> QED
  BY <1>1, <1>2 DEF TypeOK, CommitLock

\* CommitStaged finding nothing to do keeps TypeOK.
LEMMA TypeCommitSkip ==
  ASSUME TypeOK, NEW p \in Procs, CommitSkip(p)
  PROVE  TypeOK'
<1>1. /\ pc' \in [Procs -> PCs] /\ pa' \in [Procs -> Attempts \cup {Null}]
       /\ pg' \in [Procs -> Gens \cup {Null}]
       /\ \A q \in Procs : pc'[q] # "idle" => pa'[q] \in Attempts /\ pg'[q] \in Gens
  BY DEF TypeOK, CommitSkip, PCs, Leave
<1> QED
  BY <1>1 DEF TypeOK, CommitSkip

\* The archive callback keeps TypeOK.
LEMMA TypeArchive ==
  ASSUME TypeOK, NEW p \in Procs, Archive(p)
  PROVE  TypeOK'
<1>1. archived' \subseteq Paths
  BY DEF TypeOK, Archive, Paths
<1>2. /\ pc' \in [Procs -> PCs] /\ pa' \in [Procs -> Attempts \cup {Null}]
       /\ pg' \in [Procs -> Gens \cup {Null}]
       /\ \A q \in Procs : pc'[q] # "idle" => pa'[q] \in Attempts /\ pg'[q] \in Gens
  BY DEF TypeOK, Archive, PCs, Goto
<1> QED
  BY <1>1, <1>2 DEF TypeOK, Archive

\* A failed archive keeps TypeOK.
LEMMA TypeArchiveFail ==
  ASSUME TypeOK, NEW p \in Procs, ArchiveFail(p)
  PROVE  TypeOK'
<1>1. lock' \in [Tasks -> Procs \cup {Null}]
  BY DEF TypeOK, ArchiveFail, Unlock
<1>2. /\ pc' \in [Procs -> PCs] /\ pa' \in [Procs -> Attempts \cup {Null}]
       /\ pg' \in [Procs -> Gens \cup {Null}]
       /\ \A q \in Procs : pc'[q] # "idle" => pa'[q] \in Attempts /\ pg'[q] \in Gens
  BY DEF TypeOK, ArchiveFail, PCs, Leave
<1> QED
  BY <1>1, <1>2 DEF TypeOK, ArchiveFail

\* CommitStaged finishing a task keeps TypeOK.
LEMMA TypeCommitDone ==
  ASSUME TypeOK, NEW p \in Procs, CommitDone(p)
  PROVE  TypeOK'
<1>1. attState' \in [Attempts -> AttStates]
  BY DEF TypeOK, CommitDone, AttStates
<1>2. taskState' \in [Tasks -> TaskStates]
  BY DEF TypeOK, CommitDone, TaskStates
<1>3. hookPending' \in [Tasks -> BOOLEAN]
  BY DEF TypeOK, CommitDone
<1>4. keep' \in [Tasks -> Nat]
  BY TouchedNat DEF TypeOK, CommitDone
<1>5. lock' \in [Tasks -> Procs \cup {Null}]
  BY DEF TypeOK, CommitDone, Unlock
<1>6. /\ pc' \in [Procs -> PCs] /\ pa' \in [Procs -> Attempts \cup {Null}]
       /\ pg' \in [Procs -> Gens \cup {Null}]
       /\ \A q \in Procs : pc'[q] # "idle" => pa'[q] \in Attempts /\ pg'[q] \in Gens
  BY DEF TypeOK, CommitDone, PCs, Goto
<1> QED
  BY <1>1, <1>2, <1>3, <1>4, <1>5, <1>6 DEF TypeOK, CommitDone

\* CleanFile removing a file keeps TypeOK.
LEMMA TypeCleanRemove ==
  ASSUME TypeOK, NEW p \in Procs, NEW a \in Attempts, CleanRemove(p, a)
  PROVE  TypeOK'
<1>1. /\ pc' \in [Procs -> PCs] /\ pa' \in [Procs -> Attempts \cup {Null}]
       /\ pg' \in [Procs -> Gens \cup {Null}]
       /\ \A q \in Procs : pc'[q] # "idle" => pa'[q] \in Attempts /\ pg'[q] \in Gens
  BY DEF TypeOK, CleanRemove, PCs, Cleanable
<1>2. disk' \subseteq Paths /\ whole' \subseteq Paths
  BY DEF TypeOK, CleanRemove
<1> QED
  BY <1>1, <1>2 DEF TypeOK, CleanRemove

\* CleanFile forgetting a path keeps TypeOK.
LEMMA TypeCleanClear ==
  ASSUME TypeOK, NEW p \in Procs, CleanClear(p)
  PROVE  TypeOK'
<1>1. spoolPath' \in [Attempts -> Gens \cup {Null}]
  BY DEF TypeOK, CleanClear
<1>2. /\ pc' \in [Procs -> PCs] /\ pa' \in [Procs -> Attempts \cup {Null}]
       /\ pg' \in [Procs -> Gens \cup {Null}]
       /\ \A q \in Procs : pc'[q] # "idle" => pa'[q] \in Attempts /\ pg'[q] \in Gens
  BY DEF TypeOK, CleanClear, PCs, Leave
<1> QED
  BY <1>1, <1>2 DEF TypeOK, CleanClear

\* The death of a coordinator keeps TypeOK.
LEMMA TypeCrash ==
  ASSUME TypeOK, NEW p \in Procs, Crash(p)
  PROVE  TypeOK'
<1>1. lock' \in [Tasks -> Procs \cup {Null}]
  BY DEF TypeOK, Crash, Unlock
<1>2. /\ pc' \in [Procs -> PCs] /\ pa' \in [Procs -> Attempts \cup {Null}]
       /\ pg' \in [Procs -> Gens \cup {Null}]
       /\ \A q \in Procs : pc'[q] # "idle" => pa'[q] \in Attempts /\ pg'[q] \in Gens
  BY DEF TypeOK, Crash, PCs, Leave
<1> QED
  BY <1>1, <1>2 DEF TypeOK, Crash

\* The loss of a database session keeps TypeOK.
LEMMA TypeSessionLost ==
  ASSUME TypeOK, NEW p \in Procs, SessionLost(p)
  PROVE  TypeOK'
<1>1. lock' \in [Tasks -> Procs \cup {Null}]
  BY DEF TypeOK, SessionLost, Unlock
<1> QED
  BY <1>1 DEF TypeOK, SessionLost

\* A restart with another budget keeps TypeOK.
LEMMA TypeReconfigure ==
  ASSUME TypeOK, NEW b \in Budgets, Reconfigure(b)
  PROVE  TypeOK'
<1>1. budget' \in Budgets
  BY DEF TypeOK, Reconfigure
<1> QED
  BY <1>1 DEF TypeOK, Reconfigure

\* Expire keeps TypeOK.
LEMMA TypeExpire ==
  ASSUME TypeOK, Expire
  PROVE  TypeOK'
<1>1. attState' \in [Attempts -> AttStates]
  BY DEF TypeOK, Expire, AttStates
<1>2. taskState' \in [Tasks -> TaskStates]
  BY DEF TypeOK, Expire, TaskStates, Requeued
<1>3. keep' \in [Tasks -> Nat]
  BY TouchedNat DEF TypeOK, Expire
<1> QED
  BY <1>1, <1>2, <1>3 DEF TypeOK, Expire

\* A delivered hook keeps TypeOK.
LEMMA TypeHookDelivered ==
  ASSUME TypeOK, NEW t \in Tasks, NEW recorded \in BOOLEAN, HookDelivered(t, recorded)
  PROVE  TypeOK'
<1>1. hookPending' \in [Tasks -> BOOLEAN]
  BY DEF TypeOK, HookDelivered
<1>2. hooked' \subseteq Tasks
  BY DEF TypeOK, HookDelivered
<1> QED
  BY <1>1, <1>2 DEF TypeOK, HookDelivered

\* A failed hook delivery keeps TypeOK.
LEMMA TypeHookFailed ==
  ASSUME TypeOK, NEW t \in Tasks, HookFailed(t)
  PROVE  TypeOK'
<1>1. hookTries' \in [Tasks -> Nat]
  BY DEF TypeOK, HookFailed
<1>2. hookPending' \in [Tasks -> BOOLEAN]
  BY DEF TypeOK, HookFailed, HookRetries
<1>3. hookWait' \in [Tasks -> Nat]
  BY ConstantTypes DEF TypeOK, HookFailed, Least
<1> QED
  BY <1>1, <1>2, <1>3 DEF TypeOK, HookFailed

\* The retention DELETE keeps TypeOK.
LEMMA TypeDeleteTask ==
  ASSUME TypeOK, NEW t \in Tasks, DeleteTask(t)
  PROVE  TypeOK'
<1>1. taskState' \in [Tasks -> TaskStates]
  BY DEF TypeOK, DeleteTask, TaskStates
<1>2. current' \in [Tasks -> Workers \cup {Null}]
  BY DEF TypeOK, DeleteTask
<1>3. attemptCount' \in [Tasks -> Nat]
  BY DEF TypeOK, DeleteTask
<1>4. taskDeadline' \in [Tasks -> Nat]
  BY DEF TypeOK, DeleteTask
<1>5. hookTries' \in [Tasks -> Nat]
  BY DEF TypeOK, DeleteTask
<1>6. hookWait' \in [Tasks -> Nat]
  BY DEF TypeOK, DeleteTask
<1>7. admission' \in [Requests -> Tasks \cup {Null}]
  BY DEF TypeOK, DeleteTask
<1>8. attState' \in [Attempts -> AttStates]
  BY DEF TypeOK, DeleteTask, AttStates
<1>9. lease' \in [Attempts -> Nat]
  BY DEF TypeOK, DeleteTask
<1>10. attDeadline' \in [Attempts -> Nat]
  BY DEF TypeOK, DeleteTask
<1>11. sha' \in [Attempts -> Digests \cup {Null}]
  BY DEF TypeOK, DeleteTask
<1>12. uploadId' \in [Attempts -> Gens \cup {Null}]
  BY DEF TypeOK, DeleteTask
<1> QED
  BY <1>1, <1>2, <1>3, <1>4, <1>5, <1>6, <1>7, <1>8, <1>9, <1>10, <1>11, <1>12
     DEF TypeOK, DeleteTask

\* The orphan sweep keeps TypeOK.
LEMMA TypeSweepOrphan ==
  ASSUME TypeOK, NEW f \in Paths, SweepOrphan(f)
  PROVE  TypeOK'
<1>1. disk' \subseteq Paths /\ whole' \subseteq Paths
  BY DEF TypeOK, SweepOrphan
<1> QED
  BY <1>1 DEF TypeOK, SweepOrphan

\* Every step of the fleet keeps every variable in its type.
LEMMA TypeNext ==
  ASSUME TypeOK, [Next]_vars
  PROVE  TypeOK'
<1>1. CASE Scheduler
  BY <1>1, TypeEnqueueNew, TypeEnqueueJoin, TypeClaim, TypeHeartbeat, TypeReport
     DEF Scheduler
<1>2. CASE Admin
  BY <1>2, TypeApprove, TypeEnable, TypeDrain, TypeDismiss DEF Admin
<1>3. CASE Retain
  BY <1>3, TypeExpire, TypeHookDelivered, TypeHookFailed, TypeDeleteTask,
     TypeSweepOrphan DEF Retain
<1>4. ASSUME NEW p \in Procs, Transfer(p)
      PROVE  TypeOK'
  BY <1>4, TypeUploadReserve, TypeStreamLock, TypeOpenFile, TypeStreamStage,
     TypeStreamCommitFailed, TypeStreamFail, TypeResetTransfer DEF Transfer
<1>5. ASSUME NEW p \in Procs, Commit(p)
      PROVE  TypeOK'
  BY <1>5, TypeCommitLock, TypeCleanRemove, TypeCommitSkip, TypeArchive,
     TypeArchiveFail, TypeCommitDone, TypeCleanClear DEF Commit
<1>6. CASE UNCHANGED vars
  BY <1>6 DEF TypeOK, vars
<1> QED
  BY <1>1, <1>2, <1>3, <1>4, <1>5, <1>6, TypeTick, TypeUploadRefused, TypeCrash,
     TypeSessionLost, TypeReconfigure DEF Next

\* Type correctness of the fleet: rows, locks, files and timers stay what they
\* are declared to be, for any number of tasks, workers and processes.
THEOREM TypeCorrect == Spec => []TypeOK
<1>1. Init => TypeOK
  BY TypeInit
<1>2. TypeOK /\ [Next]_vars => TypeOK'
  BY TypeNext
<1> QED
  BY <1>1, <1>2, PTL DEF Spec

-----------------------------------------------------------------------------
(* The inductive invariant.                                                  *)

\* What the lemmas below need of TypeOK: the types of the variables IInv
\* mentions, and that a process away from "idle" works on a real attempt.
LEMMA Types ==
  ASSUME TypeOK
  PROVE  /\ taskState \in [Tasks -> TaskStates]
         /\ current \in [Tasks -> Workers \cup {Null}]
         /\ attState \in [Attempts -> AttStates]
         /\ spoolPath \in [Attempts -> Gens \cup {Null}]
         /\ uploadId \in [Attempts -> Gens \cup {Null}]
         /\ pc \in [Procs -> PCs] /\ pa \in [Procs -> Attempts \cup {Null}]
         /\ pg \in [Procs -> Gens \cup {Null}]
         /\ lock \in [Tasks -> Procs \cup {Null}]
         /\ \A q \in Procs : pc[q] # "idle" =>
               /\ pa[q] \in Attempts /\ pg[q] \in Gens
               /\ pa[q][1] \in Tasks /\ pa[q][2] \in Workers
               /\ pa[q] = <<pa[q][1], pa[q][2]>>
BY DEF TypeOK, Attempts

\* Initially no task, no lock, no file.
LEMMA InvInit == Init => IInv
BY NullIsNothing
   DEF Init, IInv, LiveAttemptIsCurrent, RowsAgree, StagedBytesSafe,
       DoneIsArchived, LockDiscipline, GenerationsDistinct, PathIsGeneration,
       WriterOwns, CommitterOwns, UnfinishedNotAccepted, CleanerOfFinished,
       Attempts, Fenced, Transferring

\* The variables IInv reads; a step that leaves them alone keeps it.
invVars == <<taskState, current, attState, spoolPath, uploadId, pc, pa, pg,
             lock, disk, whole, archived>>
\* IInv depends on these variables only.
LEMMA InvFrame ==
  ASSUME IInv, UNCHANGED invVars
  PROVE  IInv'
BY DEF invVars, IInv, LiveAttemptIsCurrent, RowsAgree, StagedBytesSafe,
       DoneIsArchived, LockDiscipline, GenerationsDistinct, PathIsGeneration,
       WriterOwns, CommitterOwns, UnfinishedNotAccepted, CleanerOfFinished, Owns

\* IInv survives enqueue inserting a task: the new row starts queued, with no
\* attempt and no file.
LEMMA InvEnqueueNew ==
  ASSUME TypeOK, IInv, NEW r \in Requests \cup {Null}, NEW i \in Identities, NEW t
     \in Tasks, EnqueueNew(r, i, t)
  PROVE  IInv'
<1>1. /\ StagedBytesSafe' /\ LockDiscipline' /\ GenerationsDistinct' /\ PathIsGeneration'
      /\ \A q \in Procs : WriterOwns(q)' /\ CommitterOwns(q)' /\ UnfinishedNotAccepted(q)'
  BY DEF IInv, StagedBytesSafe, LockDiscipline, GenerationsDistinct,
     PathIsGeneration, WriterOwns, CommitterOwns, UnfinishedNotAccepted, Owns,
     EnqueueNew
<1>2. LiveAttemptIsCurrent'
  BY DEF IInv, LiveAttemptIsCurrent, RowsAgree, EnqueueNew
<1>3. DoneIsArchived'
  BY DEF IInv, DoneIsArchived, EnqueueNew
<1>4. \A q \in Procs : CleanerOfFinished(q)'
  <2> TAKE q \in Procs
  <2>1. CleanerOfFinished(q)
    BY DEF IInv
  <2> QED
    BY <2>1 DEF CleanerOfFinished, EnqueueNew
<1> QED
  BY <1>1, <1>2, <1>3, <1>4 DEF IInv

\* IInv survives claim: a claimed task was queued, so none of its attempts
\* was live, and this worker had none.
LEMMA InvClaim ==
  ASSUME TypeOK, IInv, NEW w \in Workers, NEW n \in ClaimLimits, Claim(w, n)
  PROVE  IInv'
<1>1. LockDiscipline' /\ GenerationsDistinct'
  BY DEF IInv, LockDiscipline, GenerationsDistinct, Claim
<1>2. LiveAttemptIsCurrent'
  <2> DEFINE chosen == Chosen(w, n)
  <2>1. \A t \in chosen : taskState[t] = "queued"
    BY DEF Chosen, Claimable
  <2>2. /\ taskState' = [t \in Tasks |-> IF t \in chosen THEN "running" ELSE taskState[t]]
        /\ current' = [t \in Tasks |-> IF t \in chosen THEN w ELSE current[t]]
        /\ attState' = [a \in Attempts |->
                          IF a[2] = w /\ a[1] \in chosen THEN "running" ELSE attState[a]]
    BY DEF Claim
  <2> HIDE DEF chosen
  <2>3. \A t \in Tasks, v \in Workers :
           attState'[<<t, v>>] = IF v = w /\ t \in chosen THEN "running"
                                 ELSE attState[<<t, v>>]
    BY <2>2 DEF Attempts
  <2> SUFFICES ASSUME NEW t \in Tasks PROVE RowsAgree(t)'
    BY DEF LiveAttemptIsCurrent
  <2>4. RowsAgree(t)
    BY DEF IInv, LiveAttemptIsCurrent
  <2>5. CASE t \in chosen
    <3>1. \A v \in Workers :
             attState[<<t, v>>] \notin {"running", "uploading", "staged", "done"}
      BY <2>1, <2>4, <2>5 DEF RowsAgree, Fenced
    <3>2. taskState'[t] = "running" /\ current'[t] = w
      BY <2>2, <2>5
    <3>3. \A v \in Workers : attState'[<<t, v>>] = IF v = w THEN "running"
                                                   ELSE attState[<<t, v>>]
      BY <2>3, <2>5
    <3> QED
      BY <3>1, <3>2, <3>3 DEF RowsAgree, Fenced
  <2>6. CASE t \notin chosen
    BY <2>2, <2>3, <2>4, <2>6 DEF RowsAgree, Fenced
  <2> QED
    BY <2>5, <2>6
<1>3. StagedBytesSafe'
  BY DEF IInv, StagedBytesSafe, Claim
<1>4. DoneIsArchived'
  BY DEF IInv, DoneIsArchived, Claim
<1>5. PathIsGeneration'
  BY DEF IInv, PathIsGeneration, Claim
<1>6. \A q \in Procs : WriterOwns(q)'
  <2> TAKE q \in Procs
  <2>1. WriterOwns(q)
    BY DEF IInv
  <2> QED
    BY <2>1, Types, NullIsNothing DEF WriterOwns, Owns, Claim, Chosen, Claimable,
       Unlocked
<1>7. \A q \in Procs : CommitterOwns(q)'
  <2> TAKE q \in Procs
  <2>1. CommitterOwns(q)
    BY DEF IInv
  <2> QED
    BY <2>1, Types, NullIsNothing DEF CommitterOwns, Claim, Chosen, Claimable,
       Unlocked
<1>8. \A q \in Procs : UnfinishedNotAccepted(q)'
  <2> TAKE q \in Procs
  <2>1. UnfinishedNotAccepted(q)
    BY DEF IInv
  <2> QED
    BY <2>1, Types DEF UnfinishedNotAccepted, Claim
<1>9. \A q \in Procs : CleanerOfFinished(q)'
  <2> TAKE q \in Procs
  <2> DEFINE chosen == Chosen(w, n)
  <2>1. CleanerOfFinished(q)
    BY DEF IInv
  <2>2. \A t \in chosen : taskState[t] = "queued" /\ attState[<<t, w>>] = "none"
    BY DEF Chosen, Claimable
  <2>3. /\ taskState' = [t \in Tasks |-> IF t \in chosen THEN "running" ELSE taskState[t]]
        /\ attState' = [a \in Attempts |->
                          IF a[2] = w /\ a[1] \in chosen THEN "running" ELSE attState[a]]
        /\ UNCHANGED <<pc, pa>>
    BY DEF Claim
  <2> HIDE DEF chosen
  <2>4. SUFFICES ASSUME pc[q] \in {"clean", "clear"}
                 PROVE  attState'[pa[q]] \in Terminal \/ taskState'[pa[q][1]] = "deleted"
    BY <2>3 DEF CleanerOfFinished
  <2>5. pa[q] \in Attempts /\ pa[q][1] \in Tasks /\ pa[q] = <<pa[q][1], pa[q][2]>>
    BY <2>4, Types
  <2>6. CASE pa[q][1] \in chosen
    <3>1. attState[pa[q]] \in Terminal
      BY <2>1, <2>2, <2>4, <2>6 DEF CleanerOfFinished
    <3>2. pa[q][2] # w
      BY <2>2, <2>5, <2>6, <3>1 DEF Terminal
    <3> QED
      BY <2>3, <2>5, <3>1, <3>2
  <2>7. CASE pa[q][1] \notin chosen
    BY <2>1, <2>3, <2>4, <2>5, <2>7 DEF CleanerOfFinished
  <2> QED
    BY <2>6, <2>7
<1> QED
  BY <1>1, <1>2, <1>3, <1>4, <1>5, <1>6, <1>7, <1>8, <1>9 DEF IInv

\* IInv survives report: the failed attempt was the task's current one.
LEMMA InvReport ==
  ASSUME TypeOK, IInv, NEW t \in Tasks, NEW w \in Workers, NEW terminal \in BOOLEAN,
     Report(t, w, terminal)
  PROVE  IInv'
<1>1. LockDiscipline' /\ GenerationsDistinct'
  BY DEF IInv, LockDiscipline, GenerationsDistinct, Report
<1>2. LiveAttemptIsCurrent'
  BY Types DEF IInv, Attempts, LiveAttemptIsCurrent, RowsAgree, Fenced, Report,
     Requeued
<1>3. StagedBytesSafe'
  BY DEF IInv, StagedBytesSafe, Report
<1>4. DoneIsArchived'
  BY DEF IInv, DoneIsArchived, Report, Requeued
<1>5. PathIsGeneration'
  BY DEF IInv, PathIsGeneration, Report
<1>6. \A q \in Procs : WriterOwns(q)'
  <2> TAKE q \in Procs
  <2>1. WriterOwns(q)
    BY DEF IInv
  <2> QED
    BY <2>1, NullIsNothing DEF WriterOwns, Owns, Report, Unlocked
<1>7. \A q \in Procs : CommitterOwns(q)'
  <2> TAKE q \in Procs
  <2>1. CommitterOwns(q)
    BY DEF IInv
  <2> QED
    BY <2>1 DEF CommitterOwns, Fenced, Report
<1>8. \A q \in Procs : UnfinishedNotAccepted(q)'
  <2> TAKE q \in Procs
  <2>1. UnfinishedNotAccepted(q)
    BY DEF IInv
  <2> QED
    BY <2>1 DEF UnfinishedNotAccepted, Report
<1>9. \A q \in Procs : CleanerOfFinished(q)'
  <2> TAKE q \in Procs
  <2>1. CleanerOfFinished(q) /\ LiveAttemptIsCurrent
    BY DEF IInv
  <2> QED
    BY <2>1, Types DEF CleanerOfFinished, LiveAttemptIsCurrent, RowsAgree, Terminal,
       Report
<1> QED
  BY <1>1, <1>2, <1>3, <1>4, <1>5, <1>6, <1>7, <1>8, <1>9 DEF IInv

\* IInv survives upload's reservation: the generation is fresh, and the old
\* file it removes belongs to an attempt that is not staged.
LEMMA InvUploadReserve ==
  ASSUME TypeOK, IInv, NEW p \in Procs, NEW t \in Tasks, NEW w \in Workers, NEW d
     \in Digests, NEW g \in Gens, UploadReserve(p, t, w, d, g)
  PROVE  IInv'
<1>2. LiveAttemptIsCurrent'
  BY DEF IInv, LiveAttemptIsCurrent, RowsAgree, Fenced, UploadReserve, UploadAdmitted
<1>3. StagedBytesSafe'
  BY DEF IInv, StagedBytesSafe, Fenced, UploadReserve, UploadAdmitted, FreshGens,
     WithoutOldFile
<1>4. DoneIsArchived'
  BY DEF IInv, DoneIsArchived, LiveAttemptIsCurrent, RowsAgree, UploadReserve,
     UploadAdmitted
<1>5. LockDiscipline'
  BY DEF IInv, LockDiscipline, UploadReserve
<1>6. GenerationsDistinct'
  BY Types DEF IInv, GenerationsDistinct, Transferring, UploadReserve, FreshGens
<1>7. PathIsGeneration'
  BY Types DEF IInv, PathIsGeneration, UploadReserve
<1>8. \A q \in Procs : WriterOwns(q)'
  <2> TAKE q \in Procs
  <2>1. WriterOwns(q)
    BY DEF IInv
  <2>2. CASE q = p
    BY <2>2 DEF WriterOwns, UploadReserve
  <2>3. CASE q # p
    BY <2>1, NullIsNothing DEF WriterOwns, Owns, Fenced, UploadReserve,
       UploadAdmitted, FreshGens, WithoutOldFile, Unlocked
  <2> QED
    BY <2>2, <2>3
<1>9. \A q \in Procs : CommitterOwns(q)'
  <2> TAKE q \in Procs
  <2>1. CommitterOwns(q)
    BY DEF IInv
  <2>2. CASE q = p
    BY <2>2 DEF CommitterOwns, UploadReserve
  <2>3. CASE q # p
    BY <2>1, Types, NullIsNothing DEF CommitterOwns, UploadReserve, UploadAdmitted,
       Unlocked
  <2> QED
    BY <2>2, <2>3
<1>10. \A q \in Procs : UnfinishedNotAccepted(q)'
  <2> TAKE q \in Procs
  <2>1. UnfinishedNotAccepted(q)
    BY DEF IInv
  <2>2. CASE q = p
    BY <2>2, Types DEF UnfinishedNotAccepted, UploadReserve, FreshGens
  <2>3. CASE q # p
    BY <2>1, Types DEF UnfinishedNotAccepted, UploadReserve, FreshGens
  <2> QED
    BY <2>2, <2>3
<1>11. \A q \in Procs : CleanerOfFinished(q)'
  <2> TAKE q \in Procs
  <2>1. CleanerOfFinished(q)
    BY DEF IInv
  <2>2. CASE q = p
    BY <2>2 DEF CleanerOfFinished, UploadReserve
  <2>3. CASE q # p
    BY <2>1, Types DEF CleanerOfFinished, Fenced, Terminal, UploadReserve,
       UploadAdmitted
  <2> QED
    BY <2>2, <2>3
<1> QED
  BY <1>2, <1>3, <1>4, <1>5, <1>6, <1>7, <1>8, <1>9, <1>10, <1>11 DEF IInv

\* IInv survives a refused upload: the file it removes belongs to an attempt
\* that is not staged.
LEMMA InvUploadRefused ==
  ASSUME TypeOK, IInv, NEW t \in Tasks, NEW w \in Workers, NEW d \in Digests,
     UploadRefused(t, w, d)
  PROVE  IInv'
<1>1. /\ LiveAttemptIsCurrent' /\ DoneIsArchived' /\ LockDiscipline'
      /\ GenerationsDistinct' /\ PathIsGeneration'
      /\ \A q \in Procs : CommitterOwns(q)' /\ UnfinishedNotAccepted(q)' /\ CleanerOfFinished(q)'
  BY DEF IInv, LiveAttemptIsCurrent, DoneIsArchived, LockDiscipline,
     GenerationsDistinct, PathIsGeneration, CommitterOwns, UnfinishedNotAccepted,
     CleanerOfFinished, RowsAgree, UploadRefused
<1>2. StagedBytesSafe'
  BY DEF IInv, StagedBytesSafe, Fenced, UploadRefused, UploadAdmitted, WithoutOldFile
<1>3. \A q \in Procs : WriterOwns(q)'
  <2> TAKE q \in Procs
  <2>1. WriterOwns(q)
    BY DEF IInv
  <2> QED
    BY <2>1, NullIsNothing DEF WriterOwns, Owns, UploadRefused, UploadAdmitted,
       WithoutOldFile, Unlocked
<1> QED
  BY <1>1, <1>2, <1>3 DEF IInv

\* IInv survives streamStage taking its row locks: the generation it checked
\* under the lock is the attempt's path.
LEMMA InvStreamLock ==
  ASSUME TypeOK, IInv, NEW p \in Procs, StreamLock(p)
  PROVE  IInv'
<1>1. LiveAttemptIsCurrent' /\ StagedBytesSafe' /\ DoneIsArchived' /\ PathIsGeneration'
  BY DEF IInv, LiveAttemptIsCurrent, StagedBytesSafe, DoneIsArchived,
     PathIsGeneration, RowsAgree, StreamLock
<1>2. LockDiscipline'
  <2> SUFFICES ASSUME NEW t \in Tasks, lock'[t] # Null
               PROVE  /\ pc'[lock'[t]] \in {"locked", "streaming", "archiving", "archived"}
                      /\ pa'[lock'[t]][1] = t
    BY DEF LockDiscipline
  <2>1. lock[t] # Null =>
           /\ pc[lock[t]] \in {"locked", "streaming", "archiving", "archived"}
           /\ pa[lock[t]][1] = t /\ lock[t] \in Procs
    BY Types DEF IInv, LockDiscipline
  <2>2. pc[p] = "reserved" /\ pa' = pa /\ pa[p][1] \in Tasks
    BY Types DEF StreamLock, Goto
  <2>3. \/ lock' = [lock EXCEPT ![pa[p][1]] = p] /\ pc' = [pc EXCEPT ![p] = "locked"]
        \/ lock' = lock /\ pc' = [pc EXCEPT ![p] = "reset"]
    BY DEF StreamLock, Goto
  <2> QED
    BY <2>1, <2>2, <2>3, Types
<1>3. GenerationsDistinct'
  BY Types DEF IInv, GenerationsDistinct, Transferring, StreamLock, Unlocked, Goto
<1>4. \A q \in Procs : WriterOwns(q)'
  <2> TAKE q \in Procs
  <2>1. WriterOwns(q)
    BY DEF IInv
  <2>2. CASE q = p
    BY <2>2, Types DEF IInv, WriterOwns, PathIsGeneration, Owns, StreamLock, Goto
  <2>3. CASE q # p
    BY <2>1, <2>3, Types DEF WriterOwns, Transferring, Owns, StreamLock, Goto
  <2> QED
    BY <2>2, <2>3
<1>5. \A q \in Procs : CommitterOwns(q)'
  <2> TAKE q \in Procs
  <2>1. CommitterOwns(q)
    BY DEF IInv
  <2>2. CASE q = p
    BY <2>2, Types DEF CommitterOwns, StreamLock, Goto
  <2>3. CASE q # p
    BY <2>1, Types DEF CommitterOwns, StreamLock, Goto
  <2> QED
    BY <2>2, <2>3
<1>6. \A q \in Procs : UnfinishedNotAccepted(q)'
  <2> TAKE q \in Procs
  <2>1. UnfinishedNotAccepted(q)
    BY DEF IInv
  <2>2. CASE q = p
    BY <2>2 DEF IInv, UnfinishedNotAccepted, StreamLock, Goto
  <2>3. CASE q # p
    BY <2>1, Types DEF UnfinishedNotAccepted, StreamLock, Goto
  <2> QED
    BY <2>2, <2>3
<1>7. \A q \in Procs : CleanerOfFinished(q)'
  <2> TAKE q \in Procs
  <2>1. CleanerOfFinished(q)
    BY DEF IInv
  <2>2. CASE q = p
    BY <2>2, Types DEF CleanerOfFinished, StreamLock, Goto
  <2>3. CASE q # p
    BY <2>1, Types DEF CleanerOfFinished, StreamLock, Goto
  <2> QED
    BY <2>2, <2>3
<1> QED
  BY <1>1, <1>2, <1>3, <1>4, <1>5, <1>6, <1>7 DEF IInv

\* IInv survives streamStage creating its file: the file appears under the
\* path reserved for it.
LEMMA InvOpenFile ==
  ASSUME TypeOK, IInv, NEW p \in Procs, OpenFile(p)
  PROVE  IInv'
<1>1. LiveAttemptIsCurrent' /\ DoneIsArchived' /\ PathIsGeneration'
  BY DEF IInv, LiveAttemptIsCurrent, DoneIsArchived, PathIsGeneration, RowsAgree,
     OpenFile
<1>2. StagedBytesSafe'
  BY DEF IInv, StagedBytesSafe, OpenFile
<1>3. LockDiscipline'
  BY DEF IInv, LockDiscipline, OpenFile, Goto
<1>4. GenerationsDistinct'
  BY DEF IInv, GenerationsDistinct, Transferring, OpenFile, Goto
<1>5. \A q \in Procs : WriterOwns(q)'
  <2> TAKE q \in Procs
  <2>1. WriterOwns(q)
    BY DEF IInv
  <2>2. CASE q = p
    BY <2>2 DEF IInv, WriterOwns, Owns, OpenFile, Goto
  <2>3. CASE q # p
    BY <2>1 DEF WriterOwns, Owns, OpenFile, Goto
  <2> QED
    BY <2>2, <2>3
<1>6. \A q \in Procs : CommitterOwns(q)'
  <2> TAKE q \in Procs
  <2>1. CommitterOwns(q)
    BY DEF IInv
  <2>2. CASE q = p
    BY <2>2 DEF CommitterOwns, OpenFile, Goto
  <2>3. CASE q # p
    BY <2>1 DEF CommitterOwns, OpenFile, Goto
  <2> QED
    BY <2>2, <2>3
<1>7. \A q \in Procs : UnfinishedNotAccepted(q)'
  <2> TAKE q \in Procs
  <2>1. UnfinishedNotAccepted(q)
    BY DEF IInv
  <2>2. CASE q = p
    BY Types DEF IInv, UnfinishedNotAccepted, OpenFile, Goto
  <2>3. CASE q # p
    BY <2>1 DEF UnfinishedNotAccepted, OpenFile, Goto
  <2> QED
    BY <2>2, <2>3
<1>8. \A q \in Procs : CleanerOfFinished(q)'
  <2> TAKE q \in Procs
  <2>1. CleanerOfFinished(q)
    BY DEF IInv
  <2>2. CASE q = p
    BY <2>2 DEF CleanerOfFinished, OpenFile, Goto
  <2>3. CASE q # p
    BY <2>1 DEF CleanerOfFinished, OpenFile, Goto
  <2> QED
    BY <2>2, <2>3
<1> QED
  BY <1>1, <1>2, <1>3, <1>4, <1>5, <1>6, <1>7, <1>8 DEF IInv

\* IInv survives streamStage staging the result: the lock holder's own file
\* is on disk, and no other transfer shares its generation.
LEMMA InvStreamStage ==
  ASSUME TypeOK, IInv, NEW p \in Procs, NEW label \in {"commit", "reset"},
     StreamStage(p, label)
  PROVE  IInv'
<1>2. LiveAttemptIsCurrent'
  BY Types DEF IInv, LiveAttemptIsCurrent, RowsAgree, Fenced, StreamStage, Stageable,
     Fence
<1>3. StagedBytesSafe'
  <2> DEFINE a == pa[p]
  <2>a. /\ pc[p] = "streaming" /\ lock[a[1]] = p
        /\ attState' = [attState EXCEPT ![a] = "staged"]
        /\ taskState' = [taskState EXCEPT ![a[1]] = "staged"]
        /\ whole' = whole \cup {<<a, pg[p]>>}
        /\ pc' = [pc EXCEPT ![p] = label]
        /\ UNCHANGED <<spoolPath, disk, pa, pg>>
    BY DEF StreamStage, Stageable, Goto
  <2>b. a \in Attempts /\ a[1] \in Tasks /\ a[2] \in Workers /\ a = <<a[1], a[2]>>
    BY <2>a, Types
  <2>c. attState[a] = "uploading" /\ spoolPath[a] = pg[p] /\ <<a, pg[p]>> \in disk
    BY <2>a DEF IInv, WriterOwns, Owns
  <2> HIDE DEF a
  <2> SUFFICES ASSUME NEW b \in Attempts, attState'[b] = "staged"
               PROVE  spoolPath'[b] # Null /\ <<b, spoolPath'[b]>> \in disk' \cap whole'
    BY DEF StagedBytesSafe
  <2>1. CASE b = a
    BY <2>a, <2>b, <2>c, <2>1, Types, NullIsNothing
  <2>2. CASE b # a
    <3>1. attState[b] = "staged"
      BY <2>a, <2>2, Types
    <3>2. spoolPath[b] # Null /\ <<b, spoolPath[b]>> \in disk \cap whole
      BY <3>1 DEF IInv, StagedBytesSafe
    <3> QED
      BY <2>a, <3>2
  <2> QED
    BY <2>1, <2>2
<1>4. DoneIsArchived'
  BY DEF IInv, DoneIsArchived, StreamStage
<1>5. LockDiscipline'
  BY DEF IInv, LockDiscipline, StreamStage, Unlock, Goto
<1>6. GenerationsDistinct'
  BY DEF IInv, GenerationsDistinct, Transferring, StreamStage, Stageable, Goto
<1>7. PathIsGeneration'
  BY DEF IInv, PathIsGeneration, StreamStage
<1>8. \A q \in Procs : WriterOwns(q)'
  <2> TAKE q \in Procs
  <2>1. WriterOwns(q)
    BY DEF IInv
  <2>2. CASE q = p
    BY <2>2, Types DEF WriterOwns, StreamStage, Goto
  <2>3. CASE q # p
    BY <2>1, Types, NullIsNothing DEF WriterOwns, Owns, StreamStage, Stageable,
       Unlock, Goto
  <2> QED
    BY <2>2, <2>3
<1>9. \A q \in Procs : CommitterOwns(q)'
  <2> TAKE q \in Procs
  <2>1. CommitterOwns(q)
    BY DEF IInv
  <2>2. CASE q = p
    BY <2>2 DEF CommitterOwns, StreamStage, Stageable, Goto
  <2>3. CASE q # p
    BY <2>1, Types, NullIsNothing DEF CommitterOwns, StreamStage, Unlock, Goto
  <2> QED
    BY <2>2, <2>3
<1>10. \A q \in Procs : UnfinishedNotAccepted(q)'
  <2> TAKE q \in Procs
  <2> DEFINE a == pa[p]
  <2>a. /\ pc[p] = "streaming" /\ lock[a[1]] = p
        /\ attState' = [attState EXCEPT ![a] = "staged"]
        /\ taskState' = [taskState EXCEPT ![a[1]] = "staged"]
        /\ whole' = whole \cup {<<a, pg[p]>>}
        /\ pc' = [pc EXCEPT ![p] = label]
        /\ UNCHANGED <<spoolPath, disk, pa, pg>>
    BY DEF StreamStage, Stageable, Goto
  <2>b. a \in Attempts /\ a[1] \in Tasks /\ a[2] \in Workers /\ a = <<a[1], a[2]>>
    BY <2>a, Types
  <2>c. attState[a] = "uploading" /\ spoolPath[a] = pg[p] /\ <<a, pg[p]>> \in disk
    BY <2>a DEF IInv, WriterOwns, Owns
  <2>1. SUFFICES ASSUME pc'[q] \in {"reserved", "locked", "streaming"},
                        attState'[pa[q]] = "staged"
                 PROVE  spoolPath[pa[q]] # pg[q]
    BY <2>a DEF UnfinishedNotAccepted
  <2>2. q # p /\ pc[q] = pc'[q]
    BY <2>a, <2>1, Types
  <2>3. CASE pa[q] = a
    <3>1. pg[q] # pg[p]
      BY <2>a, <2>1, <2>2, <2>3 DEF IInv, GenerationsDistinct, Transferring
    <3> QED
      BY <2>c, <2>3, <3>1
  <2>4. CASE pa[q] # a
    <3>1. pa[q] \in Attempts
      BY <2>1, <2>2, Types
    <3>2. attState[pa[q]] = "staged"
      BY <2>a, <2>1, <2>4, <3>1, Types
    <3> QED
      BY <2>1, <2>2, <3>2 DEF IInv, UnfinishedNotAccepted
  <2> QED
    BY <2>3, <2>4
<1>11. \A q \in Procs : CleanerOfFinished(q)'
  <2> TAKE q \in Procs
  <2> DEFINE a == pa[p]
  <2>a. /\ pc[p] = "streaming" /\ lock[a[1]] = p
        /\ attState' = [attState EXCEPT ![a] = "staged"]
        /\ taskState' = [taskState EXCEPT ![a[1]] = "staged"]
        /\ whole' = whole \cup {<<a, pg[p]>>}
        /\ pc' = [pc EXCEPT ![p] = label]
        /\ UNCHANGED <<spoolPath, disk, pa, pg>>
    BY DEF StreamStage, Stageable, Goto
  <2>b. a \in Attempts /\ a[1] \in Tasks /\ a[2] \in Workers /\ a = <<a[1], a[2]>>
    BY <2>a, Types
  <2>c. attState[a] = "uploading" /\ spoolPath[a] = pg[p] /\ <<a, pg[p]>> \in disk
    BY <2>a DEF IInv, WriterOwns, Owns
  <2>1. SUFFICES ASSUME pc'[q] \in {"clean", "clear"}
                 PROVE  attState'[pa[q]] \in Terminal \/ taskState'[pa[q][1]] = "deleted"
    BY <2>a DEF CleanerOfFinished
  <2>2. q # p /\ pc[q] = pc'[q]
    BY <2>a, <2>1, Types
  <2>3. pa[q] \in Attempts /\ pa[q][1] \in Tasks
    BY <2>1, <2>2, Types
  <2>4. taskState[a[1]] = "running"
    <3>1. RowsAgree(a[1])
      BY <2>b DEF IInv, LiveAttemptIsCurrent
    <3> QED
      BY <2>b, <2>c, <3>1 DEF RowsAgree, Fenced
  <2>5. attState[pa[q]] \in Terminal \/ taskState[pa[q][1]] = "deleted"
    BY <2>1, <2>2 DEF IInv, CleanerOfFinished
  <2>6. CASE attState[pa[q]] \in Terminal
    <3>1. pa[q] # a
      BY <2>c, <2>6 DEF Terminal
    <3> QED
      BY <2>a, <2>3, <2>6, <3>1, Types
  <2>7. CASE taskState[pa[q][1]] = "deleted"
    <3>1. pa[q][1] # a[1]
      BY <2>4, <2>7
    <3> QED
      BY <2>a, <2>3, <2>7, <3>1, Types
  <2> QED
    BY <2>5, <2>6, <2>7
<1> QED
  BY <1>2, <1>3, <1>4, <1>5, <1>6, <1>7, <1>8, <1>9, <1>10, <1>11 DEF IInv

\* IInv survives a failed staging commit: the file stays, the rows do not change.
LEMMA InvStreamCommitFailed ==
  ASSUME TypeOK, IInv, NEW p \in Procs, StreamCommitFailed(p)
  PROVE  IInv'
<1>1. LiveAttemptIsCurrent' /\ StagedBytesSafe' /\ DoneIsArchived' /\ PathIsGeneration'
  BY DEF IInv, LiveAttemptIsCurrent, StagedBytesSafe, DoneIsArchived,
     PathIsGeneration, RowsAgree, StreamCommitFailed
<1>2. LockDiscipline'
  BY DEF IInv, LockDiscipline, StreamCommitFailed, Unlock, Goto
<1>3. GenerationsDistinct'
  BY DEF IInv, GenerationsDistinct, Transferring, StreamCommitFailed, Stageable, Goto
<1>4. \A q \in Procs : WriterOwns(q)'
  <2> TAKE q \in Procs
  <2>1. WriterOwns(q)
    BY DEF IInv
  <2>2. CASE q = p
    BY <2>2 DEF IInv, WriterOwns, Owns, StreamCommitFailed, Stageable, Goto
  <2>3. CASE q # p
    BY <2>1, Types, NullIsNothing DEF WriterOwns, Owns, StreamCommitFailed, Unlock,
       Goto
  <2> QED
    BY <2>2, <2>3
<1>5. \A q \in Procs : CommitterOwns(q)'
  <2> TAKE q \in Procs
  <2>1. CommitterOwns(q)
    BY DEF IInv
  <2>2. CASE q = p
    BY <2>2 DEF CommitterOwns, StreamCommitFailed, Stageable, Goto
  <2>3. CASE q # p
    BY <2>1, Types, NullIsNothing DEF CommitterOwns, StreamCommitFailed, Unlock, Goto
  <2> QED
    BY <2>2, <2>3
<1>6. \A q \in Procs : UnfinishedNotAccepted(q)'
  <2> TAKE q \in Procs
  <2>1. UnfinishedNotAccepted(q)
    BY DEF IInv
  <2>2. CASE q = p
    BY Types DEF IInv, UnfinishedNotAccepted, StreamCommitFailed, Goto
  <2>3. CASE q # p
    BY <2>1 DEF UnfinishedNotAccepted, StreamCommitFailed, Goto
  <2> QED
    BY <2>2, <2>3
<1>7. \A q \in Procs : CleanerOfFinished(q)'
  <2> TAKE q \in Procs
  <2>1. CleanerOfFinished(q)
    BY DEF IInv
  <2>2. CASE q = p
    BY <2>2 DEF CleanerOfFinished, StreamCommitFailed, Stageable, Goto
  <2>3. CASE q # p
    BY <2>1 DEF CleanerOfFinished, StreamCommitFailed, Goto
  <2> QED
    BY <2>2, <2>3
<1> QED
  BY <1>1, <1>2, <1>3, <1>4, <1>5, <1>6, <1>7 DEF IInv

\* IInv survives a failed transfer: the file it removes is not the accepted one.
LEMMA InvStreamFail ==
  ASSUME TypeOK, IInv, NEW p \in Procs, StreamFail(p)
  PROVE  IInv'
<1>1. LiveAttemptIsCurrent' /\ DoneIsArchived' /\ PathIsGeneration'
  BY DEF IInv, LiveAttemptIsCurrent, DoneIsArchived, PathIsGeneration, RowsAgree,
     StreamFail
<1>2. StagedBytesSafe'
  <2> SUFFICES ASSUME NEW b \in Attempts, attState[b] = "staged"
               PROVE  spoolPath[b] # Null /\ <<b, spoolPath[b]>> \in disk' \cap whole'
    BY DEF StreamFail, StagedBytesSafe
  <2>1. spoolPath[b] # Null /\ <<b, spoolPath[b]>> \in disk \cap whole
    BY DEF IInv, StagedBytesSafe
  <2>2. <<b, spoolPath[b]>> # <<pa[p], pg[p]>>
    <3>1. UnfinishedNotAccepted(p) /\ pc[p] \in {"locked", "streaming"}
      BY DEF IInv, StreamFail
    <3> QED
      BY <3>1 DEF UnfinishedNotAccepted
  <2>3. /\ disk' = IF pc[p] = "streaming" THEN disk \ {<<pa[p], pg[p]>>} ELSE disk
        /\ whole' = whole \cap disk'
    BY DEF StreamFail
  <2> QED
    BY <2>1, <2>2, <2>3
<1>3. LockDiscipline'
  BY DEF IInv, LockDiscipline, StreamFail, Unlock, Goto
<1>4. GenerationsDistinct'
  BY DEF IInv, GenerationsDistinct, Transferring, StreamFail, Goto
<1>5. \A q \in Procs : WriterOwns(q)'
  <2> TAKE q \in Procs
  <2>1. WriterOwns(q) /\ GenerationsDistinct
    BY DEF IInv
  <2>2. CASE q = p
    BY <2>2, Types DEF WriterOwns, StreamFail, Goto
  <2>3. CASE q # p
    BY <2>1, Types, NullIsNothing DEF WriterOwns, GenerationsDistinct, Transferring,
       Owns, StreamFail, Unlock, Goto
  <2> QED
    BY <2>2, <2>3
<1>6. \A q \in Procs : CommitterOwns(q)'
  <2> TAKE q \in Procs
  <2>1. CommitterOwns(q)
    BY DEF IInv
  <2>2. CASE q = p
    BY <2>2 DEF CommitterOwns, StreamFail, Goto
  <2>3. CASE q # p
    BY <2>1, Types, NullIsNothing DEF CommitterOwns, StreamFail, Unlock, Goto
  <2> QED
    BY <2>2, <2>3
<1>7. \A q \in Procs : UnfinishedNotAccepted(q)'
  <2> TAKE q \in Procs
  <2>1. UnfinishedNotAccepted(q)
    BY DEF IInv
  <2>2. CASE q = p
    BY Types DEF IInv, UnfinishedNotAccepted, StreamFail, Goto
  <2>3. CASE q # p
    BY <2>1 DEF UnfinishedNotAccepted, StreamFail, Goto
  <2> QED
    BY <2>2, <2>3
<1>8. \A q \in Procs : CleanerOfFinished(q)'
  <2> TAKE q \in Procs
  <2>1. CleanerOfFinished(q)
    BY DEF IInv
  <2>2. CASE q = p
    BY <2>2 DEF CleanerOfFinished, StreamFail, Goto
  <2>3. CASE q # p
    BY <2>1 DEF CleanerOfFinished, StreamFail, Goto
  <2> QED
    BY <2>2, <2>3
<1> QED
  BY <1>1, <1>2, <1>3, <1>4, <1>5, <1>6, <1>7, <1>8 DEF IInv

\* IInv survives resetTransfer: the file it removes is that of an attempt still uploading.
LEMMA InvResetTransfer ==
  ASSUME TypeOK, IInv, NEW p \in Procs, ResetTransfer(p)
  PROVE  IInv'
<1>1. LiveAttemptIsCurrent'
  BY DEF IInv, LiveAttemptIsCurrent, RowsAgree, ResetTransfer
<1>2. StagedBytesSafe'
  BY DEF IInv, StagedBytesSafe, Owns, ResetTransfer
<1>3. DoneIsArchived'
  BY DEF IInv, DoneIsArchived, LiveAttemptIsCurrent, RowsAgree, Owns, ResetTransfer
<1>4. LockDiscipline'
  BY DEF IInv, LockDiscipline, ResetTransfer, Leave
<1>5. GenerationsDistinct'
  BY Types DEF IInv, GenerationsDistinct, Transferring, ResetTransfer, Leave
<1>6. PathIsGeneration'
  BY Types DEF IInv, PathIsGeneration, ResetTransfer
<1>7. \A q \in Procs : WriterOwns(q)'
  <2> TAKE q \in Procs
  <2>1. WriterOwns(q) /\ GenerationsDistinct
    BY DEF IInv
  <2>2. CASE q = p
    BY <2>2 DEF WriterOwns, ResetTransfer, Leave
  <2>3. CASE q # p
    BY <2>1 DEF WriterOwns, GenerationsDistinct, Transferring, Owns, ResetTransfer,
       Leave
  <2> QED
    BY <2>2, <2>3
<1>8. \A q \in Procs : CommitterOwns(q)'
  <2> TAKE q \in Procs
  <2>1. CommitterOwns(q)
    BY DEF IInv
  <2>2. CASE q = p
    BY <2>2 DEF CommitterOwns, ResetTransfer, Leave
  <2>3. CASE q # p
    BY <2>1 DEF CommitterOwns, Owns, ResetTransfer, Leave
  <2> QED
    BY <2>2, <2>3
<1>9. \A q \in Procs : UnfinishedNotAccepted(q)'
  <2> TAKE q \in Procs
  <2>1. UnfinishedNotAccepted(q)
    BY DEF IInv
  <2>2. CASE q = p
    BY <2>2 DEF UnfinishedNotAccepted, ResetTransfer, Leave
  <2>3. CASE q # p
    BY <2>1 DEF UnfinishedNotAccepted, Owns, ResetTransfer, Leave
  <2> QED
    BY <2>2, <2>3
<1>10. \A q \in Procs : CleanerOfFinished(q)'
  <2> TAKE q \in Procs
  <2>1. CleanerOfFinished(q)
    BY DEF IInv
  <2>2. CASE q = p
    BY <2>2 DEF CleanerOfFinished, ResetTransfer, Leave
  <2>3. CASE q # p
    BY <2>1 DEF CleanerOfFinished, ResetTransfer, Leave
  <2> QED
    BY <2>2, <2>3
<1> QED
  BY <1>1, <1>2, <1>3, <1>4, <1>5, <1>6, <1>7, <1>8, <1>9, <1>10 DEF IInv

\* IInv survives commitStaged taking its row lock: the row it locks is staged.
LEMMA InvCommitLock ==
  ASSUME TypeOK, IInv, NEW p \in Procs, NEW a \in Attempts, CommitLock(p, a)
  PROVE  IInv'
<1>1. LiveAttemptIsCurrent' /\ StagedBytesSafe' /\ DoneIsArchived' /\ PathIsGeneration'
  BY DEF IInv, LiveAttemptIsCurrent, StagedBytesSafe, DoneIsArchived,
     PathIsGeneration, RowsAgree, CommitLock
<1>2. LockDiscipline'
  BY Types DEF IInv, LockDiscipline, CommitLock
<1>3. GenerationsDistinct'
  BY DEF IInv, GenerationsDistinct, Transferring, CommitLock
<1>4. \A q \in Procs : WriterOwns(q)'
  <2> TAKE q \in Procs
  <2>1. WriterOwns(q)
    BY DEF IInv
  <2>2. CASE q = p
    BY <2>2 DEF WriterOwns, CommitLock
  <2>3. CASE q # p
    BY <2>1 DEF WriterOwns, Owns, CommitLock
  <2> QED
    BY <2>2, <2>3
<1>5. \A q \in Procs : CommitterOwns(q)'
  <2> TAKE q \in Procs
  <2>1. CommitterOwns(q)
    BY DEF IInv
  <2>2. CASE q = p
    BY <2>2, Types DEF CommitterOwns, CommitLock
  <2>3. CASE q # p
    BY <2>1, Types DEF CommitterOwns, CommitLock
  <2> QED
    BY <2>2, <2>3
<1>6. \A q \in Procs : UnfinishedNotAccepted(q)'
  <2> TAKE q \in Procs
  <2>1. UnfinishedNotAccepted(q)
    BY DEF IInv
  <2>2. CASE q = p
    BY <2>2 DEF UnfinishedNotAccepted, CommitLock
  <2>3. CASE q # p
    BY <2>1 DEF UnfinishedNotAccepted, CommitLock
  <2> QED
    BY <2>2, <2>3
<1>7. \A q \in Procs : CleanerOfFinished(q)'
  <2> TAKE q \in Procs
  <2>1. CleanerOfFinished(q)
    BY DEF IInv
  <2>2. CASE q = p
    BY <2>2 DEF CleanerOfFinished, CommitLock
  <2>3. CASE q # p
    BY <2>1 DEF CleanerOfFinished, CommitLock
  <2> QED
    BY <2>2, <2>3
<1> QED
  BY <1>1, <1>2, <1>3, <1>4, <1>5, <1>6, <1>7 DEF IInv

\* IInv survives commitStaged finding nothing to do: only the process changes.
LEMMA InvCommitSkip ==
  ASSUME TypeOK, IInv, NEW p \in Procs, CommitSkip(p)
  PROVE  IInv'
<1>1. LiveAttemptIsCurrent' /\ StagedBytesSafe' /\ DoneIsArchived' /\ PathIsGeneration'
  BY DEF IInv, LiveAttemptIsCurrent, StagedBytesSafe, DoneIsArchived,
     PathIsGeneration, RowsAgree, CommitSkip
<1>2. LockDiscipline'
  BY DEF IInv, LockDiscipline, CommitSkip, Leave
<1>3. GenerationsDistinct'
  BY DEF IInv, GenerationsDistinct, Transferring, CommitSkip, Leave
<1>4. \A q \in Procs : WriterOwns(q)'
  <2> TAKE q \in Procs
  <2>1. WriterOwns(q)
    BY DEF IInv
  <2>2. CASE q = p
    BY <2>2 DEF WriterOwns, CommitSkip, Leave
  <2>3. CASE q # p
    BY <2>1 DEF WriterOwns, Owns, CommitSkip, Leave
  <2> QED
    BY <2>2, <2>3
<1>5. \A q \in Procs : CommitterOwns(q)'
  <2> TAKE q \in Procs
  <2>1. CommitterOwns(q)
    BY DEF IInv
  <2>2. CASE q = p
    BY <2>2 DEF CommitterOwns, CommitSkip, Leave
  <2>3. CASE q # p
    BY <2>1 DEF CommitterOwns, CommitSkip, Leave
  <2> QED
    BY <2>2, <2>3
<1>6. \A q \in Procs : UnfinishedNotAccepted(q)'
  <2> TAKE q \in Procs
  <2>1. UnfinishedNotAccepted(q)
    BY DEF IInv
  <2>2. CASE q = p
    BY Types DEF IInv, UnfinishedNotAccepted, CommitSkip, Leave
  <2>3. CASE q # p
    BY <2>1 DEF UnfinishedNotAccepted, CommitSkip, Leave
  <2> QED
    BY <2>2, <2>3
<1>7. \A q \in Procs : CleanerOfFinished(q)'
  <2> TAKE q \in Procs
  <2>1. CleanerOfFinished(q)
    BY DEF IInv
  <2>2. CASE q = p
    BY <2>2 DEF CleanerOfFinished, CommitSkip, Leave
  <2>3. CASE q # p
    BY <2>1 DEF CleanerOfFinished, CommitSkip, Leave
  <2> QED
    BY <2>2, <2>3
<1> QED
  BY <1>1, <1>2, <1>3, <1>4, <1>5, <1>6, <1>7 DEF IInv

\* IInv survives the archive callback: only the set of archived files grows.
LEMMA InvArchive ==
  ASSUME TypeOK, IInv, NEW p \in Procs, Archive(p)
  PROVE  IInv'
<1>1. LiveAttemptIsCurrent' /\ StagedBytesSafe' /\ PathIsGeneration'
  BY DEF IInv, LiveAttemptIsCurrent, StagedBytesSafe, PathIsGeneration, RowsAgree,
     Archive
<1>2. DoneIsArchived'
  BY DEF IInv, DoneIsArchived, Archive
<1>3. LockDiscipline'
  BY DEF IInv, LockDiscipline, Archive, Goto
<1>4. GenerationsDistinct'
  BY DEF IInv, GenerationsDistinct, Transferring, Archive, Goto
<1>5. \A q \in Procs : WriterOwns(q)'
  <2> TAKE q \in Procs
  <2>1. WriterOwns(q)
    BY DEF IInv
  <2>2. CASE q = p
    BY <2>2 DEF WriterOwns, Archive, Goto
  <2>3. CASE q # p
    BY <2>1 DEF WriterOwns, Owns, Archive, Goto
  <2> QED
    BY <2>2, <2>3
<1>6. \A q \in Procs : CommitterOwns(q)'
  <2> TAKE q \in Procs
  <2>1. CommitterOwns(q)
    BY DEF IInv
  <2>2. CASE q = p
    BY <2>2 DEF IInv, CommitterOwns, Archive, Goto
  <2>3. CASE q # p
    BY <2>1 DEF CommitterOwns, Archive, Goto
  <2> QED
    BY <2>2, <2>3
<1>7. \A q \in Procs : UnfinishedNotAccepted(q)'
  <2> TAKE q \in Procs
  <2>1. UnfinishedNotAccepted(q)
    BY DEF IInv
  <2>2. CASE q = p
    BY Types DEF IInv, UnfinishedNotAccepted, Archive, Goto
  <2>3. CASE q # p
    BY <2>1 DEF UnfinishedNotAccepted, Archive, Goto
  <2> QED
    BY <2>2, <2>3
<1>8. \A q \in Procs : CleanerOfFinished(q)'
  <2> TAKE q \in Procs
  <2>1. CleanerOfFinished(q)
    BY DEF IInv
  <2>2. CASE q = p
    BY <2>2 DEF CleanerOfFinished, Archive, Goto
  <2>3. CASE q # p
    BY <2>1 DEF CleanerOfFinished, Archive, Goto
  <2> QED
    BY <2>2, <2>3
<1> QED
  BY <1>1, <1>2, <1>3, <1>4, <1>5, <1>6, <1>7, <1>8 DEF IInv

\* IInv survives a failed archive: the transaction is rolled back.
LEMMA InvArchiveFail ==
  ASSUME TypeOK, IInv, NEW p \in Procs, ArchiveFail(p)
  PROVE  IInv'
<1>1. LiveAttemptIsCurrent' /\ StagedBytesSafe' /\ DoneIsArchived' /\ PathIsGeneration'
  BY DEF IInv, LiveAttemptIsCurrent, StagedBytesSafe, DoneIsArchived,
     PathIsGeneration, RowsAgree, ArchiveFail
<1>2. LockDiscipline'
  BY DEF IInv, LockDiscipline, ArchiveFail, Unlock, Leave
<1>3. GenerationsDistinct'
  BY DEF IInv, GenerationsDistinct, Transferring, ArchiveFail, Leave
<1>4. \A q \in Procs : WriterOwns(q)'
  <2> TAKE q \in Procs
  <2>1. WriterOwns(q)
    BY DEF IInv
  <2>2. CASE q = p
    BY <2>2 DEF WriterOwns, ArchiveFail, Leave
  <2>3. CASE q # p
    BY <2>1, Types, NullIsNothing DEF WriterOwns, Owns, ArchiveFail, Unlock, Leave
  <2> QED
    BY <2>2, <2>3
<1>5. \A q \in Procs : CommitterOwns(q)'
  <2> TAKE q \in Procs
  <2>1. CommitterOwns(q)
    BY DEF IInv
  <2>2. CASE q = p
    BY <2>2, Types DEF CommitterOwns, ArchiveFail, Leave
  <2>3. CASE q # p
    BY <2>1, Types, NullIsNothing DEF CommitterOwns, ArchiveFail, Unlock, Leave
  <2> QED
    BY <2>2, <2>3
<1>6. \A q \in Procs : UnfinishedNotAccepted(q)'
  <2> TAKE q \in Procs
  <2>1. UnfinishedNotAccepted(q)
    BY DEF IInv
  <2>2. CASE q = p
    BY Types DEF IInv, UnfinishedNotAccepted, ArchiveFail, Leave
  <2>3. CASE q # p
    BY <2>1 DEF UnfinishedNotAccepted, ArchiveFail, Leave
  <2> QED
    BY <2>2, <2>3
<1>7. \A q \in Procs : CleanerOfFinished(q)'
  <2> TAKE q \in Procs
  <2>1. CleanerOfFinished(q)
    BY DEF IInv
  <2>2. CASE q = p
    BY <2>2 DEF CleanerOfFinished, ArchiveFail, Leave
  <2>3. CASE q # p
    BY <2>1 DEF CleanerOfFinished, ArchiveFail, Leave
  <2> QED
    BY <2>2, <2>3
<1> QED
  BY <1>1, <1>2, <1>3, <1>4, <1>5, <1>6, <1>7 DEF IInv

\* IInv survives commitStaged finishing a task: the lock kept the row staged
\* since the file was archived.
LEMMA InvCommitDone ==
  ASSUME TypeOK, IInv, NEW p \in Procs, CommitDone(p)
  PROVE  IInv'
<1>2. LiveAttemptIsCurrent'
  <2> DEFINE a == pa[p]
  <2>a. /\ pc[p] = "archived" /\ lock[a[1]] = p
        /\ attState' = [attState EXCEPT ![a] = "done"]
        /\ taskState' = [taskState EXCEPT ![a[1]] = "done"]
        /\ pc' = [pc EXCEPT ![p] = "clean"]
        /\ UNCHANGED <<spoolPath, uploadId, current, archived, pa, pg>>
    BY DEF CommitDone, Goto
  <2>b. a \in Attempts /\ a[1] \in Tasks /\ a[2] \in Workers /\ a = <<a[1], a[2]>>
    BY <2>a, Types
  <2>c. attState[a] = "staged" /\ spoolPath[a] = pg[p] /\ <<a, pg[p]>> \in archived
    BY <2>a DEF IInv, CommitterOwns
  <2>d. RowsAgree(a[1]) /\ taskState[a[1]] = "staged" /\ current[a[1]] = a[2]
    <3>1. RowsAgree(a[1])
      BY <2>b DEF IInv, LiveAttemptIsCurrent
    <3> QED
      BY <2>b, <2>c, <3>1 DEF RowsAgree
  <2> SUFFICES ASSUME NEW t \in Tasks PROVE RowsAgree(t)'
    BY DEF LiveAttemptIsCurrent
  <2>1. RowsAgree(t)
    BY DEF IInv, LiveAttemptIsCurrent
  <2> HIDE DEF a
  <2>2. CASE t = a[1]
    <3>1. \A v \in Workers : attState'[<<t, v>>] = IF v = a[2] THEN "done" ELSE attState[<<t, v>>]
      BY <2>a, <2>b, <2>2, Types DEF Attempts
    <3>2. \A v \in Workers \ {a[2]} : attState[<<t, v>>] \notin {"running", "uploading", "staged", "done"}
      BY <2>d, <2>2 DEF RowsAgree, Fenced
    <3>3. taskState'[t] = "done" /\ current'[t] = a[2]
      BY <2>a, <2>b, <2>d, <2>2, Types
    <3> QED
      BY <2>b, <3>1, <3>2, <3>3 DEF RowsAgree, Fenced
  <2>3. CASE t # a[1]
    <3>1. \A v \in Workers : attState'[<<t, v>>] = attState[<<t, v>>]
      BY <2>a, <2>b, <2>3, Types DEF Attempts
    <3>2. taskState'[t] = taskState[t] /\ current'[t] = current[t]
      BY <2>a, <2>3, Types
    <3> QED
      BY <2>1, <3>1, <3>2 DEF RowsAgree, Fenced
  <2> QED
    BY <2>2, <2>3
<1>3. StagedBytesSafe'
  BY DEF IInv, StagedBytesSafe, CommitDone
<1>4. DoneIsArchived'
  <2> DEFINE a == pa[p]
  <2>a. /\ pc[p] = "archived" /\ lock[a[1]] = p
        /\ attState' = [attState EXCEPT ![a] = "done"]
        /\ taskState' = [taskState EXCEPT ![a[1]] = "done"]
        /\ pc' = [pc EXCEPT ![p] = "clean"]
        /\ UNCHANGED <<spoolPath, uploadId, current, archived, pa, pg>>
    BY DEF CommitDone, Goto
  <2>b. a \in Attempts /\ a[1] \in Tasks /\ a[2] \in Workers /\ a = <<a[1], a[2]>>
    BY <2>a, Types
  <2>c. attState[a] = "staged" /\ spoolPath[a] = pg[p] /\ <<a, pg[p]>> \in archived
    BY <2>a DEF IInv, CommitterOwns
  <2>d. RowsAgree(a[1]) /\ taskState[a[1]] = "staged" /\ current[a[1]] = a[2]
    <3>1. RowsAgree(a[1])
      BY <2>b DEF IInv, LiveAttemptIsCurrent
    <3> QED
      BY <2>b, <2>c, <3>1 DEF RowsAgree
  <2>1. uploadId[a] = pg[p]
    BY <2>b, <2>c, Types, NullIsNothing, <2>a DEF IInv, PathIsGeneration
  <2> SUFFICES ASSUME NEW t \in Tasks, taskState'[t] = "done"
               PROVE  <<<<t, current[t]>>, uploadId[<<t, current[t]>>]>> \in archived
    BY <2>a DEF DoneIsArchived
  <2>2. CASE t = a[1]
    BY <2>b, <2>c, <2>d, <2>1, <2>2
  <2>3. CASE t # a[1]
    <3>1. taskState[t] = "done"
      BY <2>a, <2>3, Types
    <3> QED
      BY <3>1 DEF IInv, DoneIsArchived
  <2> QED
    BY <2>2, <2>3
<1>5. LockDiscipline'
  BY DEF IInv, LockDiscipline, CommitDone, Unlock, Goto
<1>6. GenerationsDistinct'
  BY DEF IInv, GenerationsDistinct, Transferring, CommitDone, Goto
<1>7. PathIsGeneration'
  BY DEF IInv, PathIsGeneration, CommitDone
<1>8. \A q \in Procs : WriterOwns(q)'
  <2> TAKE q \in Procs
  <2>1. WriterOwns(q)
    BY DEF IInv
  <2>2. CASE q = p
    BY <2>2 DEF WriterOwns, CommitDone, Goto
  <2>3. CASE q # p
    BY <2>1, Types, NullIsNothing DEF WriterOwns, Owns, CommitDone, Unlock, Goto
  <2> QED
    BY <2>2, <2>3
<1>9. \A q \in Procs : CommitterOwns(q)'
  <2> TAKE q \in Procs
  <2>1. CommitterOwns(q)
    BY DEF IInv
  <2>2. CASE q = p
    BY <2>2, Types DEF CommitterOwns, CommitDone, Goto
  <2>3. CASE q # p
    BY <2>1, Types, NullIsNothing DEF CommitterOwns, CommitDone, Unlock, Goto
  <2> QED
    BY <2>2, <2>3
<1>10. \A q \in Procs : UnfinishedNotAccepted(q)'
  <2> TAKE q \in Procs
  <2>1. UnfinishedNotAccepted(q)
    BY DEF IInv
  <2>2. CASE q = p
    BY Types DEF IInv, UnfinishedNotAccepted, CommitDone, Goto
  <2>3. CASE q # p
    BY <2>1 DEF UnfinishedNotAccepted, CommitDone, Goto
  <2> QED
    BY <2>2, <2>3
<1>11. \A q \in Procs : CleanerOfFinished(q)'
  <2> TAKE q \in Procs
  <2> DEFINE a == pa[p]
  <2>a. /\ pc[p] = "archived" /\ lock[a[1]] = p
        /\ attState' = [attState EXCEPT ![a] = "done"]
        /\ taskState' = [taskState EXCEPT ![a[1]] = "done"]
        /\ pc' = [pc EXCEPT ![p] = "clean"]
        /\ UNCHANGED <<spoolPath, uploadId, current, archived, pa, pg>>
    BY DEF CommitDone, Goto
  <2>b. a \in Attempts /\ a[1] \in Tasks /\ a[2] \in Workers /\ a = <<a[1], a[2]>>
    BY <2>a, Types
  <2>c. attState[a] = "staged" /\ spoolPath[a] = pg[p] /\ <<a, pg[p]>> \in archived
    BY <2>a DEF IInv, CommitterOwns
  <2>d. RowsAgree(a[1]) /\ taskState[a[1]] = "staged" /\ current[a[1]] = a[2]
    <3>1. RowsAgree(a[1])
      BY <2>b DEF IInv, LiveAttemptIsCurrent
    <3> QED
      BY <2>b, <2>c, <3>1 DEF RowsAgree
  <2>1. SUFFICES ASSUME pc'[q] \in {"clean", "clear"}
                 PROVE  attState'[pa[q]] \in Terminal \/ taskState'[pa[q][1]] = "deleted"
    BY <2>a DEF CleanerOfFinished
  <2>2. CASE q = p
    BY <2>a, <2>b, <2>2, Types DEF Terminal
  <2>3. CASE q # p
    <3>1. pc[q] = pc'[q]
      BY <2>a, <2>3, Types
    <3>2. pa[q] \in Attempts /\ pa[q][1] \in Tasks
      BY <2>1, <3>1, Types
    <3>3. attState[pa[q]] \in Terminal \/ taskState[pa[q][1]] = "deleted"
      BY <2>1, <3>1 DEF IInv, CleanerOfFinished
    <3>4. CASE attState[pa[q]] \in Terminal
      BY <2>a, <2>b, <3>2, <3>4, Types DEF Terminal
    <3>5. CASE taskState[pa[q][1]] = "deleted"
      <4>1. pa[q][1] # a[1]
        BY <2>d, <3>5
      <4> QED
        BY <2>a, <3>2, <3>5, <4>1, Types
    <3> QED
      BY <3>3, <3>4, <3>5
  <2> QED
    BY <2>2, <2>3
<1> QED
  BY <1>2, <1>3, <1>4, <1>5, <1>6, <1>7, <1>8, <1>9, <1>10, <1>11 DEF IInv

\* IInv survives cleanFile removing a file: it belongs to a finished attempt.
LEMMA InvCleanRemove ==
  ASSUME TypeOK, IInv, NEW p \in Procs, NEW a \in Attempts, CleanRemove(p, a)
  PROVE  IInv'
<1>1. LiveAttemptIsCurrent' /\ DoneIsArchived' /\ PathIsGeneration'
  BY DEF IInv, LiveAttemptIsCurrent, DoneIsArchived, PathIsGeneration, RowsAgree,
     CleanRemove
<1>2. StagedBytesSafe'
  <2> DEFINE g == IF pc[p] = "clean" THEN pg[p] ELSE spoolPath[a]
  <2>a. /\ \/ pc[p] = "clean" /\ pa[p] = a
           \/ pc[p] = "idle" /\ attState[a] \in Terminal
        /\ disk' = disk \ {<<a, g>>} /\ whole' = whole \cap disk'
        /\ pc' = [pc EXCEPT ![p] = "clear"]
        /\ pa' = [pa EXCEPT ![p] = a] /\ pg' = [pg EXCEPT ![p] = g]
        /\ UNCHANGED <<spoolPath, uploadId, attState, taskState, lock>>
    BY DEF CleanRemove, Cleanable
  <2>b. attState[a] \in Terminal \/ taskState[a[1]] = "deleted"
    BY <2>a DEF IInv, CleanerOfFinished
  <2>c. attState[a] \notin {"uploading", "staged"}
    <3>1. RowsAgree(a[1]) /\ a = <<a[1], a[2]>> /\ a[2] \in Workers
      BY DEF IInv, LiveAttemptIsCurrent, Attempts
    <3> QED
      BY <2>b, <3>1 DEF RowsAgree, Fenced, Terminal
  <2> HIDE DEF g
  <2> SUFFICES ASSUME NEW b \in Attempts, attState[b] = "staged"
               PROVE  spoolPath[b] # Null /\ <<b, spoolPath[b]>> \in disk' \cap whole'
    BY <2>a DEF StagedBytesSafe
  <2>1. spoolPath[b] # Null /\ <<b, spoolPath[b]>> \in disk \cap whole
    BY DEF IInv, StagedBytesSafe
  <2>2. b # a
    BY <2>c
  <2> QED
    BY <2>a, <2>1, <2>2
<1>3. LockDiscipline'
  BY DEF IInv, LockDiscipline, CleanRemove
<1>4. GenerationsDistinct'
  BY DEF IInv, GenerationsDistinct, Transferring, CleanRemove
<1>5. \A q \in Procs : WriterOwns(q)'
  <2> TAKE q \in Procs
  <2> DEFINE g == IF pc[p] = "clean" THEN pg[p] ELSE spoolPath[a]
  <2>a. /\ \/ pc[p] = "clean" /\ pa[p] = a
           \/ pc[p] = "idle" /\ attState[a] \in Terminal
        /\ disk' = disk \ {<<a, g>>} /\ whole' = whole \cap disk'
        /\ pc' = [pc EXCEPT ![p] = "clear"]
        /\ pa' = [pa EXCEPT ![p] = a] /\ pg' = [pg EXCEPT ![p] = g]
        /\ UNCHANGED <<spoolPath, uploadId, attState, taskState, lock>>
    BY DEF CleanRemove, Cleanable
  <2>b. attState[a] \in Terminal \/ taskState[a[1]] = "deleted"
    BY <2>a DEF IInv, CleanerOfFinished
  <2>c. attState[a] \notin {"uploading", "staged"}
    <3>1. RowsAgree(a[1]) /\ a = <<a[1], a[2]>> /\ a[2] \in Workers
      BY DEF IInv, LiveAttemptIsCurrent, Attempts
    <3> QED
      BY <2>b, <3>1 DEF RowsAgree, Fenced, Terminal
  <2> HIDE DEF g
  <2>1. CASE q = p
    BY <2>a, <2>1, Types DEF WriterOwns
  <2>2. CASE q # p
    <3>1. pc'[q] = pc[q] /\ pa'[q] = pa[q] /\ pg'[q] = pg[q]
      BY <2>a, <2>2, Types
    <3>2. WriterOwns(q)
      BY DEF IInv
    <3>3. pa[q] = a => ~(pc[q] \in {"locked", "streaming"} /\ lock[pa[q][1]] = q)
      BY <2>c, <3>2 DEF WriterOwns, Owns
    <3>4. pa[q] # a => (<<pa[q], pg[q]>> \in disk => <<pa[q], pg[q]>> \in disk')
      BY <2>a
    <3> QED
      BY <2>a, <3>1, <3>2, <3>3, <3>4 DEF WriterOwns, Owns
  <2> QED
    BY <2>1, <2>2
<1>6. \A q \in Procs : CommitterOwns(q)'
  <2> TAKE q \in Procs
  <2>1. CommitterOwns(q)
    BY DEF IInv
  <2>2. CASE q = p
    BY <2>2 DEF CommitterOwns, CleanRemove
  <2>3. CASE q # p
    BY <2>1 DEF CommitterOwns, CleanRemove
  <2> QED
    BY <2>2, <2>3
<1>7. \A q \in Procs : UnfinishedNotAccepted(q)'
  <2> TAKE q \in Procs
  <2>1. UnfinishedNotAccepted(q)
    BY DEF IInv
  <2>2. CASE q = p
    BY Types DEF IInv, UnfinishedNotAccepted, CleanRemove
  <2>3. CASE q # p
    BY <2>1 DEF UnfinishedNotAccepted, CleanRemove
  <2> QED
    BY <2>2, <2>3
<1>8. \A q \in Procs : CleanerOfFinished(q)'
  <2> TAKE q \in Procs
  <2> DEFINE g == IF pc[p] = "clean" THEN pg[p] ELSE spoolPath[a]
  <2>a. /\ \/ pc[p] = "clean" /\ pa[p] = a
           \/ pc[p] = "idle" /\ attState[a] \in Terminal
        /\ disk' = disk \ {<<a, g>>} /\ whole' = whole \cap disk'
        /\ pc' = [pc EXCEPT ![p] = "clear"]
        /\ pa' = [pa EXCEPT ![p] = a] /\ pg' = [pg EXCEPT ![p] = g]
        /\ UNCHANGED <<spoolPath, uploadId, attState, taskState, lock>>
    BY DEF CleanRemove, Cleanable
  <2>b. attState[a] \in Terminal \/ taskState[a[1]] = "deleted"
    BY <2>a DEF IInv, CleanerOfFinished
  <2>c. attState[a] \notin {"uploading", "staged"}
    <3>1. RowsAgree(a[1]) /\ a = <<a[1], a[2]>> /\ a[2] \in Workers
      BY DEF IInv, LiveAttemptIsCurrent, Attempts
    <3> QED
      BY <2>b, <3>1 DEF RowsAgree, Fenced, Terminal
  <2> HIDE DEF g
  <2>1. CASE q = p
    BY <2>a, <2>b, <2>1, Types DEF CleanerOfFinished
  <2>2. CASE q # p
    <3>1. CleanerOfFinished(q)
      BY DEF IInv
    <3> QED
      BY <2>a, <2>2, <3>1, Types DEF CleanerOfFinished
  <2> QED
    BY <2>1, <2>2
<1> QED
  BY <1>1, <1>2, <1>3, <1>4, <1>5, <1>6, <1>7, <1>8 DEF IInv

\* IInv survives cleanFile forgetting a path: only finished attempts lose it.
LEMMA InvCleanClear ==
  ASSUME TypeOK, IInv, NEW p \in Procs, CleanClear(p)
  PROVE  IInv'
<1>1. LiveAttemptIsCurrent' /\ DoneIsArchived'
  BY DEF IInv, LiveAttemptIsCurrent, DoneIsArchived, RowsAgree, CleanClear
<1>2. StagedBytesSafe'
  BY DEF IInv, StagedBytesSafe, Terminal, CleanClear
<1>3. LockDiscipline'
  BY DEF IInv, LockDiscipline, CleanClear, Leave
<1>4. GenerationsDistinct'
  BY DEF IInv, GenerationsDistinct, Transferring, CleanClear, Leave
<1>5. PathIsGeneration'
  BY DEF IInv, PathIsGeneration, Terminal, CleanClear
<1>6. \A q \in Procs : WriterOwns(q)'
  <2> TAKE q \in Procs
  <2>1. WriterOwns(q)
    BY DEF IInv
  <2>2. CASE q = p
    BY <2>2 DEF WriterOwns, CleanClear, Leave
  <2>3. CASE q # p
    BY <2>1 DEF WriterOwns, Owns, Terminal, CleanClear, Leave
  <2> QED
    BY <2>2, <2>3
<1>7. \A q \in Procs : CommitterOwns(q)'
  <2> TAKE q \in Procs
  <2>1. CommitterOwns(q)
    BY DEF IInv
  <2>2. CASE q = p
    BY <2>2 DEF CommitterOwns, CleanClear, Leave
  <2>3. CASE q # p
    BY <2>1 DEF CommitterOwns, Terminal, CleanClear, Leave
  <2> QED
    BY <2>2, <2>3
<1>8. \A q \in Procs : UnfinishedNotAccepted(q)'
  <2> TAKE q \in Procs
  <2>1. UnfinishedNotAccepted(q)
    BY DEF IInv
  <2>2. CASE q = p
    BY <2>2 DEF UnfinishedNotAccepted, CleanClear, Leave
  <2>3. CASE q # p
    BY <2>1, Types, NullIsNothing DEF UnfinishedNotAccepted, CleanClear, Leave
  <2> QED
    BY <2>2, <2>3
<1>9. \A q \in Procs : CleanerOfFinished(q)'
  <2> TAKE q \in Procs
  <2>1. CleanerOfFinished(q)
    BY DEF IInv
  <2>2. CASE q = p
    BY <2>2, Types DEF CleanerOfFinished, CleanClear, Leave
  <2>3. CASE q # p
    BY <2>1, Types DEF CleanerOfFinished, CleanClear, Leave
  <2> QED
    BY <2>2, <2>3
<1> QED
  BY <1>1, <1>2, <1>3, <1>4, <1>5, <1>6, <1>7, <1>8, <1>9 DEF IInv

\* IInv survives the death of a coordinator: its locks and its place are
\* lost, rows and files stay.
LEMMA InvCrash ==
  ASSUME TypeOK, IInv, NEW p \in Procs, Crash(p)
  PROVE  IInv'
<1>1. LiveAttemptIsCurrent' /\ StagedBytesSafe' /\ DoneIsArchived' /\ PathIsGeneration'
  BY DEF IInv, LiveAttemptIsCurrent, StagedBytesSafe, DoneIsArchived,
     PathIsGeneration, RowsAgree, Crash
<1>2. LockDiscipline'
  BY DEF IInv, LockDiscipline, Crash, Unlock, Leave
<1>3. GenerationsDistinct'
  BY Types DEF IInv, GenerationsDistinct, Transferring, Crash, Leave
<1>4. \A q \in Procs : WriterOwns(q)'
  <2> TAKE q \in Procs
  <2>1. WriterOwns(q)
    BY DEF IInv
  <2>2. CASE q = p
    BY <2>2, Types DEF WriterOwns, Crash, Leave
  <2>3. CASE q # p
    BY <2>1, Types, NullIsNothing DEF WriterOwns, Owns, Crash, Unlock, Leave
  <2> QED
    BY <2>2, <2>3
<1>5. \A q \in Procs : CommitterOwns(q)'
  <2> TAKE q \in Procs
  <2>1. CommitterOwns(q)
    BY DEF IInv
  <2>2. CASE q = p
    BY <2>2, Types DEF CommitterOwns, Crash, Leave
  <2>3. CASE q # p
    BY <2>1, Types, NullIsNothing DEF CommitterOwns, Crash, Unlock, Leave
  <2> QED
    BY <2>2, <2>3
<1>6. \A q \in Procs : UnfinishedNotAccepted(q)'
  <2> TAKE q \in Procs
  <2>1. UnfinishedNotAccepted(q)
    BY DEF IInv
  <2>2. CASE q = p
    BY Types DEF IInv, UnfinishedNotAccepted, Crash, Leave
  <2>3. CASE q # p
    BY <2>1, Types DEF UnfinishedNotAccepted, Crash, Leave
  <2> QED
    BY <2>2, <2>3
<1>7. \A q \in Procs : CleanerOfFinished(q)'
  <2> TAKE q \in Procs
  <2>1. CleanerOfFinished(q)
    BY DEF IInv
  <2>2. CASE q = p
    BY <2>2, Types DEF CleanerOfFinished, Crash, Leave
  <2>3. CASE q # p
    BY <2>1, Types DEF CleanerOfFinished, Crash, Leave
  <2> QED
    BY <2>2, <2>3
<1> QED
  BY <1>1, <1>2, <1>3, <1>4, <1>5, <1>6, <1>7 DEF IInv

\* IInv survives the loss of a database session: only the locks go.
LEMMA InvSessionLost ==
  ASSUME TypeOK, IInv, NEW p \in Procs, SessionLost(p)
  PROVE  IInv'
<1>1. /\ LiveAttemptIsCurrent' /\ StagedBytesSafe' /\ DoneIsArchived'
      /\ GenerationsDistinct' /\ PathIsGeneration'
      /\ \A q \in Procs : UnfinishedNotAccepted(q)' /\ CleanerOfFinished(q)'
  BY DEF IInv, LiveAttemptIsCurrent, StagedBytesSafe, DoneIsArchived,
     GenerationsDistinct, PathIsGeneration, UnfinishedNotAccepted, CleanerOfFinished,
     RowsAgree, SessionLost
<1>2. LockDiscipline'
  BY DEF IInv, LockDiscipline, SessionLost, Unlock
<1>3. \A q \in Procs : WriterOwns(q)'
  <2> TAKE q \in Procs
  <2>1. WriterOwns(q)
    BY DEF IInv
  <2>2. CASE q = p
    BY <2>2, NullIsNothing DEF IInv, WriterOwns, LockDiscipline, Owns, SessionLost
  <2>3. CASE q # p
    BY <2>1, Types, NullIsNothing DEF WriterOwns, Owns, SessionLost, Unlock
  <2> QED
    BY <2>2, <2>3
<1>4. \A q \in Procs : CommitterOwns(q)'
  <2> TAKE q \in Procs
  <2>1. CommitterOwns(q)
    BY DEF IInv
  <2>2. CASE q = p
    BY <2>2, NullIsNothing DEF IInv, CommitterOwns, LockDiscipline, SessionLost
  <2>3. CASE q # p
    BY <2>1, Types, NullIsNothing DEF CommitterOwns, SessionLost, Unlock
  <2> QED
    BY <2>2, <2>3
<1> QED
  BY <1>1, <1>2, <1>3, <1>4 DEF IInv

\* IInv survives expire: an overdue task's live attempt is its current one,
\* and it expires with it.
LEMMA InvExpire ==
  ASSUME TypeOK, IInv, Expire
  PROVE  IInv'
<1>1. LockDiscipline' /\ GenerationsDistinct'
  BY DEF IInv, LockDiscipline, GenerationsDistinct, Expire
<1>2. LiveAttemptIsCurrent'
  <2> DEFINE late == {t \in Tasks : Overdue(t) /\ Unlocked(t)}
  <2>a. /\ attState' = [a \in Attempts |->
                          IF /\ a[1] \in late /\ taskState[a[1]] # "queued"
                             /\ current[a[1]] = a[2] /\ attState[a] \in Live
                          THEN "expired" ELSE attState[a]]
        /\ taskState' = [t \in Tasks |->
                           IF t \in late THEN Requeued(t, taskState[t] = "staged")
                           ELSE taskState[t]]
        /\ UNCHANGED <<current, pc, pa>>
    BY DEF Expire
  <2>b. \A t \in late : taskState[t] \in {"queued", "running", "staged"}
    BY DEF Overdue
  <2>c. \A t \in late : taskState'[t] \in {"queued", "failed"}
    BY <2>a DEF Requeued
  <2> HIDE DEF late
  <2> SUFFICES ASSUME NEW t \in Tasks PROVE RowsAgree(t)'
    BY DEF LiveAttemptIsCurrent
  <2>1. RowsAgree(t)
    BY DEF IInv, LiveAttemptIsCurrent
  <2>2. CASE t \in late
    <3>1. \A w \in Workers : attState'[<<t, w>>] \notin {"running", "uploading", "staged", "done"}
      <4> SUFFICES ASSUME NEW w \in Workers
                   PROVE  attState'[<<t, w>>] \notin {"running", "uploading", "staged", "done"}
        OBVIOUS
      <4>1. attState'[<<t, w>>] = IF /\ taskState[t] # "queued" /\ current[t] = w
                                     /\ attState[<<t, w>>] \in Live
                                  THEN "expired" ELSE attState[<<t, w>>]
        BY <2>a, <2>2 DEF Attempts
      <4>2. attState[<<t, w>>] # "done"
        BY <2>b, <2>1, <2>2 DEF RowsAgree
      <4>3. attState[<<t, w>>] \in Live => taskState[t] # "queued" /\ current[t] = w
        BY <2>1 DEF RowsAgree, Live, Fenced
      <4> QED
        BY <4>1, <4>2, <4>3 DEF Live
    <3> QED
      BY <2>c, <2>2, <3>1 DEF RowsAgree, Fenced
  <2>3. CASE t \notin late
    <3>1. \A w \in Workers : attState'[<<t, w>>] = attState[<<t, w>>]
      BY <2>a, <2>3 DEF Attempts
    <3>2. taskState'[t] = taskState[t] /\ current'[t] = current[t]
      BY <2>a, <2>3
    <3> QED
      BY <2>1, <3>1, <3>2 DEF RowsAgree, Fenced
  <2> QED
    BY <2>2, <2>3
<1>3. StagedBytesSafe'
  BY DEF IInv, StagedBytesSafe, Expire
<1>4. DoneIsArchived'
  BY DEF IInv, DoneIsArchived, Expire, Requeued
<1>5. PathIsGeneration'
  BY DEF IInv, PathIsGeneration, Expire
<1>6. \A q \in Procs : WriterOwns(q)'
  <2> TAKE q \in Procs
  <2>1. WriterOwns(q)
    BY DEF IInv
  <2> QED
    BY <2>1, Types, NullIsNothing DEF WriterOwns, Owns, Expire, Unlocked
<1>7. \A q \in Procs : CommitterOwns(q)'
  <2> TAKE q \in Procs
  <2>1. CommitterOwns(q)
    BY DEF IInv
  <2> QED
    BY <2>1, Types, NullIsNothing DEF CommitterOwns, Expire, Unlocked
<1>8. \A q \in Procs : UnfinishedNotAccepted(q)'
  <2> TAKE q \in Procs
  <2>1. UnfinishedNotAccepted(q)
    BY DEF IInv
  <2> QED
    BY <2>1, Types DEF UnfinishedNotAccepted, Expire
<1>9. \A q \in Procs : CleanerOfFinished(q)'
  <2> TAKE q \in Procs
  <2> DEFINE late == {t \in Tasks : Overdue(t) /\ Unlocked(t)}
  <2>a. /\ attState' = [a \in Attempts |->
                          IF /\ a[1] \in late /\ taskState[a[1]] # "queued"
                             /\ current[a[1]] = a[2] /\ attState[a] \in Live
                          THEN "expired" ELSE attState[a]]
        /\ taskState' = [t \in Tasks |->
                           IF t \in late THEN Requeued(t, taskState[t] = "staged")
                           ELSE taskState[t]]
        /\ UNCHANGED <<current, pc, pa>>
    BY DEF Expire
  <2>b. \A t \in late : taskState[t] \in {"queued", "running", "staged"}
    BY DEF Overdue
  <2>c. \A t \in late : taskState'[t] \in {"queued", "failed"}
    BY <2>a DEF Requeued
  <2> HIDE DEF late
  <2>1. SUFFICES ASSUME pc[q] \in {"clean", "clear"}
                 PROVE  attState'[pa[q]] \in Terminal \/ taskState'[pa[q][1]] = "deleted"
    BY <2>a DEF CleanerOfFinished
  <2>2. pa[q] \in Attempts /\ pa[q][1] \in Tasks
    BY <2>1, Types
  <2>3. attState[pa[q]] \in Terminal \/ taskState[pa[q][1]] = "deleted"
    BY <2>1 DEF IInv, CleanerOfFinished
  <2>4. CASE attState[pa[q]] \in Terminal
    BY <2>a, <2>2, <2>4 DEF Terminal, Live
  <2>5. CASE taskState[pa[q][1]] = "deleted"
    <3>1. pa[q][1] \notin late
      BY <2>b, <2>5
    <3> QED
      BY <2>a, <2>2, <2>5, <3>1
  <2> QED
    BY <2>3, <2>4, <2>5
<1> QED
  BY <1>1, <1>2, <1>3, <1>4, <1>5, <1>6, <1>7, <1>8, <1>9 DEF IInv

\* IInv survives the retention DELETE: the task's attempts go with it, none
\* of them staged or in transfer.
LEMMA InvDeleteTask ==
  ASSUME TypeOK, IInv, NEW t \in Tasks, DeleteTask(t)
  PROVE  IInv'
<1>1. LockDiscipline' /\ GenerationsDistinct'
  BY DEF IInv, LockDiscipline, GenerationsDistinct, DeleteTask
<1>2. LiveAttemptIsCurrent'
  BY Types DEF IInv, Attempts, LiveAttemptIsCurrent, RowsAgree, Fenced, DeleteTask
<1>3. StagedBytesSafe'
  BY DEF IInv, StagedBytesSafe, DeleteTask
<1>4. DoneIsArchived'
  BY Types DEF IInv, Attempts, DoneIsArchived, LiveAttemptIsCurrent, RowsAgree,
     DeleteTask
<1>5. PathIsGeneration'
  BY DEF IInv, Attempts, PathIsGeneration, DeleteTask
<1>6. \A q \in Procs : WriterOwns(q)'
  <2> TAKE q \in Procs
  <2>1. WriterOwns(q)
    BY DEF IInv
  <2> QED
    BY <2>1, Types, NullIsNothing DEF WriterOwns, Owns, DeleteTask, Unlocked
<1>7. \A q \in Procs : CommitterOwns(q)'
  <2> TAKE q \in Procs
  <2>1. CommitterOwns(q)
    BY DEF IInv
  <2> QED
    BY <2>1, Types, NullIsNothing DEF CommitterOwns, DeleteTask, Unlocked
<1>8. \A q \in Procs : UnfinishedNotAccepted(q)'
  <2> TAKE q \in Procs
  <2>1. UnfinishedNotAccepted(q)
    BY DEF IInv
  <2> QED
    BY <2>1, Types DEF UnfinishedNotAccepted, DeleteTask
<1>9. \A q \in Procs : CleanerOfFinished(q)'
  <2> TAKE q \in Procs
  <2>1. CleanerOfFinished(q)
    BY DEF IInv
  <2> QED
    BY <2>1, Types DEF CleanerOfFinished, DeleteTask
<1> QED
  BY <1>1, <1>2, <1>3, <1>4, <1>5, <1>6, <1>7, <1>8, <1>9 DEF IInv

\* IInv survives the orphan sweep: a file no attempt names is nobody's result.
LEMMA InvSweepOrphan ==
  ASSUME TypeOK, IInv, NEW f \in Paths, SweepOrphan(f)
  PROVE  IInv'
<1>1. /\ LiveAttemptIsCurrent' /\ DoneIsArchived' /\ LockDiscipline'
      /\ GenerationsDistinct' /\ PathIsGeneration'
      /\ \A q \in Procs : CommitterOwns(q)' /\ UnfinishedNotAccepted(q)' /\ CleanerOfFinished(q)'
  BY DEF IInv, LiveAttemptIsCurrent, DoneIsArchived, LockDiscipline,
     GenerationsDistinct, PathIsGeneration, CommitterOwns, UnfinishedNotAccepted,
     CleanerOfFinished, RowsAgree, SweepOrphan
<1>2. StagedBytesSafe'
  BY DEF IInv, StagedBytesSafe, SweepOrphan
<1>3. \A q \in Procs : WriterOwns(q)'
  <2> TAKE q \in Procs
  <2>1. WriterOwns(q)
    BY DEF IInv
  <2> QED
    BY <2>1 DEF WriterOwns, Owns, SweepOrphan
<1> QED
  BY <1>1, <1>2, <1>3 DEF IInv

\* The scheduler, outbox, administrator and clock steps that leave every
\* variable of IInv alone.
LEMMA InvQuiet ==
  ASSUME IInv,
         \/ Tick
         \/ \E r \in Requests \cup {Null}, i \in Identities, t \in Tasks : EnqueueJoin(r, i, t)
         \/ \E w \in Workers, ids \in SUBSET Tasks, cap \in Capacities : Heartbeat(w, ids, cap)
         \/ Admin
         \/ \E t \in Tasks, recorded \in BOOLEAN : HookDelivered(t, recorded)
         \/ \E t \in Tasks : HookFailed(t)
         \/ \E b \in Budgets : Reconfigure(b)
         \/ UNCHANGED vars
  PROVE  IInv'
<1>1. UNCHANGED invVars
  BY DEF invVars, vars, Tick, EnqueueJoin, Heartbeat, Admin, Approve, Enable, Drain,
     Dismiss, SetStatus, HookDelivered, HookFailed, Reconfigure
<1> QED
  BY <1>1, InvFrame

\* Every step of the fleet keeps the inductive invariant.
LEMMA InvNext ==
  ASSUME TypeOK, IInv, [Next]_vars
  PROVE  IInv'
<1>1. CASE Scheduler
  BY <1>1, InvEnqueueNew, InvClaim, InvReport, InvQuiet DEF Scheduler
<1>2. CASE Retain
  BY <1>2, InvExpire, InvDeleteTask, InvSweepOrphan, InvQuiet DEF Retain
<1>3. ASSUME NEW p \in Procs, Transfer(p)
      PROVE  IInv'
  BY <1>3, InvUploadReserve, InvStreamLock, InvOpenFile, InvStreamStage,
     InvStreamCommitFailed, InvStreamFail, InvResetTransfer DEF Transfer
<1>4. ASSUME NEW p \in Procs, Commit(p)
      PROVE  IInv'
  BY <1>4, InvCommitLock, InvCleanRemove, InvCommitSkip, InvArchive,
     InvArchiveFail, InvCommitDone, InvCleanClear DEF Commit
<1> QED
  BY <1>1, <1>2, <1>3, <1>4, InvUploadRefused, InvCrash, InvSessionLost, InvQuiet
     DEF Next

\* The inductive invariant holds in every reachable state.
THEOREM Inductive == Spec => []IInv
<1>1. Init => IInv
  BY InvInit
<1>2. TypeOK /\ IInv /\ [Next]_vars => IInv'
  BY InvNext
<1> QED
  BY <1>1, <1>2, TypeCorrect, PTL DEF Spec

\* A task and its attempts never disagree: one worker at most can still deliver
\* a task, it is the current one, and a running, staged or done task has it.
THEOREM OneWorkerPerTask == Spec => []LiveAttemptIsCurrent
<1>1. IInv => LiveAttemptIsCurrent
  BY DEF IInv
<1> QED
  BY <1>1, Inductive, PTL

\* The bytes of an accepted result are on disk, complete, until it is archived
\* or expires, whatever stale transfers, retries, resets, clean-ups, sweeps,
\* crashes and lost sessions run beside it.
THEOREM AcceptedBytesSafe == Spec => []StagedBytesSafe
<1>1. IInv => StagedBytesSafe
  BY DEF IInv
<1> QED
  BY <1>1, Inductive, PTL

\* A task is done only after the archive was given the file of the generation
\* its receipt describes.
THEOREM ArchivedBeforeDone == Spec => []DoneIsArchived
<1>1. IInv => DoneIsArchived
  BY DEF IInv
<1> QED
  BY <1>1, Inductive, PTL

\* While a transfer holds its row locks its path is reserved and its file is on
\* disk: the sweep, the clean-up and a retry never take it away.
THEOREM TransferReserved == Spec => []LiveTransferReserved
<1>1. IInv => LiveTransferReserved
  BY DEF IInv, WriterOwns, LiveTransferReserved
<1> QED
  BY <1>1, Inductive, PTL
=============================================================================
