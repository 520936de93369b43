------------------------- MODULE DownloadFleet_rows -------------------------
(***************************************************************************)
(* What the database rows of the download fleet keep, for any number of     *)
(* tasks, workers, goroutines and generations: results stand (ResultsKept), *)
(* the rows of a task agree (RowsSound), claims stay within the caps and    *)
(* the budget (ClaimsBounded), admissions stay with their papers; and that  *)
(* DownloadFleet implements FleetPromise: every step of the coordinator     *)
(* maps to one step of the promise or to none (Refines).                    *)
(***************************************************************************)
EXTENDS DownloadFleet_safety, FiniteSetTheorems, WellFoundedInduction

USE DEF taskVars, hookVars, attVars, bodyVars, nodeVars, procVars, fileVars

\* The rows the properties below read.
rowVars == <<taskVars, hookVars, admission, attVars, sha, nodeStatus, archived>>

\* Every other step moves only a process, its locks and files, or the worker's
\* heartbeat data: it leaves the rows alone.
LEMMA Steps ==
  ASSUME [Next]_vars
  PROVE  \/ Tick
         \/ \E r \in Requests \cup {Null}, i \in Identities, t \in Tasks :
               EnqueueNew(r, i, t) \/ EnqueueJoin(r, i, t)
         \/ \E w \in Workers, n \in ClaimLimits : Claim(w, n)
         \/ \E w \in Workers, ids \in SUBSET Tasks, cap \in Capacities : Heartbeat(w, ids, cap)
         \/ \E t \in Tasks, w \in Workers, terminal \in BOOLEAN : Report(t, w, terminal)
         \/ \E w \in Workers : Approve(w) \/ Enable(w) \/ Drain(w)
         \/ \E w \in Workers, status \in {"rejected", "revoked"} : Dismiss(w, status)
         \/ \E p \in Procs, t \in Tasks, w \in Workers, d \in Digests, g \in Gens :
               UploadReserve(p, t, w, d, g)
         \/ \E p \in Procs, label \in {"commit", "reset"} : StreamStage(p, label)
         \/ \E p \in Procs : Archive(p)
         \/ \E p \in Procs : CommitDone(p)
         \/ Expire
         \/ \E t \in Tasks, recorded \in BOOLEAN : HookDelivered(t, recorded)
         \/ \E t \in Tasks : HookFailed(t)
         \/ \E t \in Tasks : DeleteTask(t)
         \/ UNCHANGED rowVars
<1>1. CASE Scheduler \/ Admin
  BY <1>1 DEF Scheduler, Admin
<1>2. CASE Retain
  BY <1>2 DEF Retain, SweepOrphan, rowVars
<1>3. ASSUME NEW p \in Procs, Transfer(p)
      PROVE  \/ \E t \in Tasks, w \in Workers, d \in Digests, g \in Gens :
                   UploadReserve(p, t, w, d, g)
             \/ \E label \in {"commit", "reset"} : StreamStage(p, label)
             \/ UNCHANGED rowVars
  BY <1>3 DEF Transfer, StreamLock, OpenFile, StreamCommitFailed, StreamFail,
     ResetTransfer, rowVars
<1>4. ASSUME NEW p \in Procs, Commit(p)
      PROVE  Archive(p) \/ CommitDone(p) \/ UNCHANGED rowVars
  BY <1>4 DEF Commit, CommitLock, CommitSkip, ArchiveFail, CleanRemove, CleanClear, rowVars
<1>5. ASSUME \/ \E t \in Tasks, w \in Workers, d \in Digests : UploadRefused(t, w, d)
             \/ \E p \in Procs : Crash(p) \/ SessionLost(p)
             \/ \E b \in Budgets : Reconfigure(b)
             \/ UNCHANGED vars
      PROVE  UNCHANGED rowVars
  BY <1>5 DEF UploadRefused, Crash, SessionLost, Reconfigure, vars, rowVars
<1> QED
  BY <1>1, <1>2, <1>3, <1>4, <1>5 DEF Next

\* What the properties need of TypeOK.
LEMMA RowTypes ==
  ASSUME TypeOK
  PROVE  /\ taskState \in [Tasks -> TaskStates] /\ current \in [Tasks -> Workers \cup {Null}]
         /\ attemptCount \in [Tasks -> Nat] /\ taskDeadline \in [Tasks -> Nat]
         /\ keep \in [Tasks -> Nat] /\ hookTries \in [Tasks -> Nat]
         /\ hookPending \in [Tasks -> BOOLEAN]
         /\ attState \in [Attempts -> AttStates] /\ lease \in [Attempts -> Nat]
         /\ attDeadline \in [Attempts -> Nat] /\ sha \in [Attempts -> Digests \cup {Null}]
         /\ nodeStatus \in [Workers -> NodeStates]
         /\ admission \in [Requests -> Tasks \cup {Null}]
         /\ identity \in [Tasks -> Identities \cup {Null}]
BY DEF TypeOK

\* The task and the worker of an attempt.
LEMMA Parts ==
  ASSUME NEW a \in Attempts
  PROVE  a[1] \in Tasks /\ a[2] \in Workers /\ a = <<a[1], a[2]>>
BY DEF Attempts

\* What LiveAttemptIsCurrent says of one attempt.
LEMMA AttemptRow ==
  ASSUME IInv, NEW a \in Attempts
  PROVE  /\ attState[a] \in Fenced => taskState[a[1]] = "running" /\ current[a[1]] = a[2]
         /\ attState[a] = "staged" => taskState[a[1]] = "staged" /\ current[a[1]] = a[2]
         /\ attState[a] = "done" => taskState[a[1]] = "done" /\ current[a[1]] = a[2]
<1>1. a[1] \in Tasks /\ a[2] \in Workers /\ a = <<a[1], a[2]>>
  BY Parts
<1>2. RowsAgree(a[1])
  BY <1>1 DEF IInv, LiveAttemptIsCurrent
<1> QED
  BY <1>1, <1>2 DEF RowsAgree

\* The process that stages a result holds the lock of an uploading attempt.
LEMMA StagesUploading ==
  ASSUME TypeOK, IInv, NEW p \in Procs, NEW label, StreamStage(p, label)
  PROVE  /\ pa[p] \in Attempts /\ attState[pa[p]] = "uploading"
         /\ taskState[pa[p][1]] = "running" /\ current[pa[p][1]] = pa[p][2]
         /\ attState' = [attState EXCEPT ![pa[p]] = "staged"]
         /\ taskState' = [taskState EXCEPT ![pa[p][1]] = "staged"]
<1>1. /\ pa[p] \in Attempts /\ attState[pa[p]] = "uploading"
      /\ attState' = [attState EXCEPT ![pa[p]] = "staged"]
      /\ taskState' = [taskState EXCEPT ![pa[p][1]] = "staged"]
  BY Types DEF IInv, WriterOwns, Owns, StreamStage, Stageable
<1> QED
  BY <1>1, AttemptRow DEF Fenced

\* The process that commits an archived result holds the lock of a staged attempt.
LEMMA CommitsStaged ==
  ASSUME TypeOK, IInv, NEW p \in Procs, CommitDone(p)
  PROVE  /\ pa[p] \in Attempts /\ attState[pa[p]] = "staged"
         /\ taskState[pa[p][1]] = "staged" /\ current[pa[p][1]] = pa[p][2]
         /\ attState' = [attState EXCEPT ![pa[p]] = "done"]
         /\ taskState' = [taskState EXCEPT ![pa[p][1]] = "done"]
<1>1. /\ pa[p] \in Attempts /\ attState[pa[p]] = "staged"
      /\ attState' = [attState EXCEPT ![pa[p]] = "done"]
      /\ taskState' = [taskState EXCEPT ![pa[p][1]] = "done"]
  BY Types DEF IInv, CommitterOwns, CommitDone
<1> QED
  BY <1>1, AttemptRow

\* claim hands out queued tasks their worker never had.
LEMMA ClaimsQueued ==
  ASSUME NEW w \in Workers, NEW n \in ClaimLimits, Claim(w, n)
  PROVE  /\ Chosen(w, n) \subseteq Tasks
         /\ \A t \in Chosen(w, n) : /\ taskState[t] = "queued" /\ taskDeadline[t] > 0
                                    /\ attState[<<t, w>>] = "none"
         /\ attState' = [a \in Attempts |-> IF a[2] = w /\ a[1] \in Chosen(w, n)
                                            THEN "running" ELSE attState[a]]
         /\ taskState' = [t \in Tasks |-> IF t \in Chosen(w, n) THEN "running" ELSE taskState[t]]
BY DEF Claim, Chosen, Claimable

\* expire ends live attempts of tasks that are queued, running or staged.
LEMMA ExpiresLive ==
  ASSUME Expire
  PROVE  /\ \A a \in Attempts :
               \/ attState'[a] = attState[a]
               \/ attState[a] \in Live /\ attState'[a] = "expired"
         /\ \A t \in Tasks :
               \/ taskState'[t] = taskState[t]
               \/ taskState[t] \in {"queued", "running"} /\ taskState'[t] \in {"queued", "failed"}
               \/ taskState[t] = "staged" /\ keep[t] = 0 /\ taskState'[t] = "failed"
BY DEF Expire, Overdue, Requeued

-----------------------------------------------------------------------------
(* ResultsKept. *)

\* A receipt stands until retention deletes its task.
LEMMA ReceiptStep ==
  ASSUME TypeOK, IInv, [Next]_vars, NEW a \in Attempts, attState[a] \in Terminal
  PROVE  \/ attState'[a] = attState[a] /\ sha'[a] = sha[a]
         \/ taskState'[a[1]] = "deleted"
<1>1. CASE UNCHANGED <<attState, sha>>
  BY <1>1
<1>2. ASSUME NEW w \in Workers, NEW n \in ClaimLimits, Claim(w, n)
      PROVE  attState'[a] = attState[a] /\ sha'[a] = sha[a]
  <2>1. a[2] = w /\ a[1] \in Chosen(w, n) => attState[a] = "none"
    BY <1>2, ClaimsQueued, Parts
  <2> QED
    BY <1>2, <2>1, ClaimsQueued DEF Claim, Terminal
<1>3. ASSUME NEW t \in Tasks, NEW w \in Workers, NEW terminal \in BOOLEAN,
             Report(t, w, terminal)
      PROVE  attState'[a] = attState[a] /\ sha'[a] = sha[a]
  BY <1>3, RowTypes DEF Report, Fenced, Terminal
<1>4. ASSUME NEW p \in Procs, NEW t \in Tasks, NEW w \in Workers, NEW d \in Digests,
             NEW g \in Gens, UploadReserve(p, t, w, d, g)
      PROVE  attState'[a] = attState[a] /\ sha'[a] = sha[a]
  BY <1>4, RowTypes DEF UploadReserve, UploadAdmitted, Fenced, Terminal
<1>5. ASSUME NEW p \in Procs, NEW label \in {"commit", "reset"}, StreamStage(p, label)
      PROVE  attState'[a] = attState[a] /\ sha'[a] = sha[a]
  <2>1. UNCHANGED sha
    BY <1>5 DEF StreamStage
  <2> QED
    BY <1>5, <2>1, StagesUploading, RowTypes DEF Terminal
<1>6. ASSUME NEW p \in Procs, CommitDone(p)
      PROVE  attState'[a] = attState[a] /\ sha'[a] = sha[a]
  <2>1. UNCHANGED sha
    BY <1>6 DEF CommitDone
  <2> QED
    BY <1>6, <2>1, CommitsStaged, RowTypes DEF Terminal
<1>7. CASE Expire
  <2>1. UNCHANGED sha
    BY <1>7 DEF Expire
  <2> QED
    BY <1>7, <2>1, ExpiresLive DEF Live, Terminal
<1>8. ASSUME NEW t \in Tasks, DeleteTask(t)
      PROVE  \/ attState'[a] = attState[a] /\ sha'[a] = sha[a]
             \/ taskState'[a[1]] = "deleted"
  BY <1>8, RowTypes, Parts DEF DeleteTask
<1> QED
  BY <1>1, <1>2, <1>3, <1>4, <1>5, <1>6, <1>7, <1>8, Steps
     DEF Tick, EnqueueNew, EnqueueJoin, Heartbeat, Approve, Enable, Drain, Dismiss,
         SetStatus, Archive, HookDelivered, HookFailed, rowVars

\* Only the first reservation sets the upload's lease; after it time, a dismissal
\* or nobody changes it.
LEMMA UploadStep ==
  ASSUME TypeOK, [Next]_vars, NEW a \in Attempts,
         attState[a] = "uploading", attState'[a] = "uploading"
  PROVE  lease'[a] <= lease[a]
<1>1. lease[a] \in Nat
  BY RowTypes
<1>2. CASE UNCHANGED lease
  BY <1>1, <1>2
<1>3. CASE Tick
  BY <1>1, <1>3 DEF Tick, Down
<1>4. ASSUME NEW w \in Workers, NEW n \in ClaimLimits, Claim(w, n)
      PROVE  lease'[a] = lease[a]
  <2>1. a[2] = w /\ a[1] \in Chosen(w, n) => attState[a] = "none"
    BY <1>4, ClaimsQueued, Parts
  <2> QED
    BY <1>4, <2>1 DEF Claim
<1>5. ASSUME NEW w \in Workers, NEW ids \in SUBSET Tasks, NEW cap \in Capacities,
             Heartbeat(w, ids, cap)
      PROVE  lease'[a] = lease[a]
  <2> DEFINE renew == {t \in ids : /\ attState[<<t, w>>] = "running" /\ current[t] = w
                                   /\ lease[<<t, w>>] > 0 /\ attDeadline[<<t, w>>] > 0
                                   /\ taskDeadline[t] > 0}
  <2>1. lease' = [b \in Attempts |->
                    IF b[2] = w /\ b[1] \in renew THEN Renewed(b) ELSE lease[b]]
    BY <1>5 DEF Heartbeat
  <2>2. ~(a[2] = w /\ a[1] \in renew)
    BY Parts
  <2> QED
    BY <2>1, <2>2
<1>6. ASSUME NEW w \in Workers, NEW status \in {"rejected", "revoked"}, Dismiss(w, status)
      PROVE  lease'[a] <= lease[a]
  BY <1>1, <1>6 DEF Dismiss
<1>7. ASSUME NEW p \in Procs, NEW t \in Tasks, NEW w \in Workers, NEW d \in Digests,
             NEW g \in Gens, UploadReserve(p, t, w, d, g)
      PROVE  lease'[a] = lease[a]
  BY <1>7, RowTypes DEF UploadReserve, UploadLease
<1>8. ASSUME NEW t \in Tasks, DeleteTask(t)
      PROVE  lease'[a] = lease[a]
  BY <1>8 DEF DeleteTask
<1>9. ASSUME \/ \E r \in Requests \cup {Null}, i \in Identities, t \in Tasks :
                   EnqueueNew(r, i, t) \/ EnqueueJoin(r, i, t)
             \/ \E t \in Tasks, w \in Workers, terminal \in BOOLEAN : Report(t, w, terminal)
             \/ \E w \in Workers : Approve(w) \/ Enable(w) \/ Drain(w)
             \/ \E p \in Procs, label \in {"commit", "reset"} : StreamStage(p, label)
             \/ \E p \in Procs : Archive(p) \/ CommitDone(p)
             \/ Expire
             \/ \E t \in Tasks, recorded \in BOOLEAN : HookDelivered(t, recorded)
             \/ \E t \in Tasks : HookFailed(t)
             \/ UNCHANGED rowVars
      PROVE  UNCHANGED lease
  BY <1>9 DEF EnqueueNew, EnqueueJoin, Report, Approve, Enable, Drain, StreamStage, Archive,
     CommitDone, Expire, HookDelivered, HookFailed, rowVars
<1>10. lease'[a] = lease[a] => lease'[a] <= lease[a]
  BY <1>1
<1> QED
  BY <1>2, <1>3, <1>4, <1>5, <1>6, <1>7, <1>8, <1>9, <1>10, Steps

\* An accepted result stays with its worker; it is archived, or fails once its
\* retention is over.
LEMMA AcceptedStep ==
  ASSUME TypeOK, IInv, [Next]_vars, NEW t \in Tasks, taskState[t] = "staged"
  PROVE  /\ current'[t] = current[t]
         /\ \/ taskState'[t] \in {"staged", "done"}
            \/ taskState'[t] = "failed" /\ keep[t] = 0
<1>1. CASE UNCHANGED <<taskState, current>>
  BY <1>1
<1>2. ASSUME NEW r \in Requests \cup {Null}, NEW i \in Identities, NEW u \in Tasks,
             EnqueueNew(r, i, u)
      PROVE  UNCHANGED <<taskState[t], current[t]>>
  BY <1>2, RowTypes DEF EnqueueNew
<1>3. ASSUME NEW w \in Workers, NEW n \in ClaimLimits, Claim(w, n)
      PROVE  UNCHANGED <<taskState[t], current[t]>>
  <2>1. t \notin Chosen(w, n)
    BY <1>3, ClaimsQueued
  <2> QED
    BY <1>3, <2>1 DEF Claim
<1>4. ASSUME NEW u \in Tasks, NEW w \in Workers, NEW terminal \in BOOLEAN,
             Report(u, w, terminal)
      PROVE  UNCHANGED <<taskState[t], current[t]>>
  <2>1. <<u, w>> \in Attempts /\ attState[<<u, w>>] \in Fenced
    BY <1>4 DEF Report, Attempts
  <2>2. u # t
    BY <2>1, AttemptRow
  <2> QED
    BY <1>4, <2>2, RowTypes DEF Report
<1>5. ASSUME NEW p \in Procs, NEW label \in {"commit", "reset"}, StreamStage(p, label)
      PROVE  UNCHANGED <<taskState[t], current[t]>>
  <2>1. UNCHANGED current
    BY <1>5 DEF StreamStage
  <2> QED
    BY <1>5, <2>1, StagesUploading, RowTypes
<1>6. ASSUME NEW p \in Procs, CommitDone(p)
      PROVE  taskState'[t] \in {"staged", "done"} /\ current'[t] = current[t]
  <2>1. UNCHANGED current
    BY <1>6 DEF CommitDone
  <2> QED
    BY <1>6, <2>1, CommitsStaged, RowTypes
<1>7. CASE Expire
  <2>1. UNCHANGED current
    BY <1>7 DEF Expire
  <2> QED
    BY <1>7, <2>1, ExpiresLive
<1>8. ASSUME NEW u \in Tasks, DeleteTask(u)
      PROVE  UNCHANGED <<taskState[t], current[t]>>
  BY <1>8, RowTypes DEF DeleteTask
<1>9. ASSUME \/ Tick
             \/ \E r \in Requests \cup {Null}, i \in Identities, u \in Tasks : EnqueueJoin(r, i, u)
             \/ \E w \in Workers, ids \in SUBSET Tasks, cap \in Capacities : Heartbeat(w, ids, cap)
             \/ \E w \in Workers : Approve(w) \/ Enable(w) \/ Drain(w)
             \/ \E w \in Workers, status \in {"rejected", "revoked"} : Dismiss(w, status)
             \/ \E p \in Procs, u \in Tasks, w \in Workers, d \in Digests, g \in Gens :
                   UploadReserve(p, u, w, d, g)
             \/ \E p \in Procs : Archive(p)
             \/ \E u \in Tasks, recorded \in BOOLEAN : HookDelivered(u, recorded)
             \/ \E u \in Tasks : HookFailed(u)
             \/ UNCHANGED rowVars
      PROVE  UNCHANGED <<taskState, current>>
  <2>1. CASE \E w \in Workers : \/ Approve(w) \/ Enable(w) \/ Drain(w)
                               \/ \E status \in {"rejected", "revoked"} : Dismiss(w, status)
    BY <2>1 DEF Approve, Enable, Drain, Dismiss, SetStatus
  <2>2. CASE \E w \in Workers, ids \in SUBSET Tasks, cap \in Capacities : Heartbeat(w, ids, cap)
    BY <2>2 DEF Heartbeat
  <2>3. CASE \E p \in Procs, u \in Tasks, w \in Workers, d \in Digests, g \in Gens :
                UploadReserve(p, u, w, d, g)
    BY <2>3 DEF UploadReserve
  <2> QED
    BY <1>9, <2>1, <2>2, <2>3
       DEF Tick, EnqueueJoin, Archive, HookDelivered, HookFailed, rowVars
<1>10. UNCHANGED <<taskState[t], current[t]>> =>
          /\ current'[t] = current[t]
          /\ taskState'[t] \in {"staged", "done"} \/ (taskState'[t] = "failed" /\ keep[t] = 0)
  OBVIOUS
<1> QED
  BY <1>1, <1>2, <1>3, <1>4, <1>5, <1>6, <1>7, <1>8, <1>9, <1>10, Steps

\* No later transaction alters a receipt, extends an upload or takes an accepted
\* result back.
THEOREM ResultsStand == Spec => ResultsKept
<1>1. TypeOK /\ IInv /\ [Next]_vars =>
        [\A a \in Attempts :
            attState[a] \in Terminal =>
               \/ attState'[a] = attState[a] /\ sha'[a] = sha[a]
               \/ taskState'[a[1]] = "deleted"]_vars
  BY ReceiptStep
<1>2. TypeOK /\ [Next]_vars =>
        [\A a \in Attempts :
            attState[a] = "uploading" /\ attState'[a] = "uploading"
               => lease'[a] <= lease[a]]_vars
  BY UploadStep
<1>3. TypeOK /\ IInv /\ [Next]_vars =>
        [\A t \in Tasks :
            taskState[t] = "staged" =>
               /\ current'[t] = current[t]
               /\ \/ taskState'[t] \in {"staged", "done"}
                  \/ taskState'[t] = "failed" /\ keep[t] = 0]_vars
  BY AcceptedStep
<1> QED
  BY <1>1, <1>2, <1>3, TypeCorrect, Inductive, PTL
     DEF Spec, ResultsKept, ReceiptsImmutable, UploadPhaseFixed, AcceptedResultKept

-----------------------------------------------------------------------------
(* RowsSound. *)

\* LeaseWithinDeadlines and DismissedHoldsNoLease, said of one attempt.
LeaseFits(a) ==
    /\ attState[a] \in Fenced => lease[a] <= taskDeadline[a[1]]
    /\ attState[a] = "running" => lease[a] <= attDeadline[a]
LeaseRevoked(a) ==
    nodeStatus[a[2]] \in {"rejected", "revoked"} /\ attState[a] \in Fenced => lease[a] = 0
\* The two lease invariants, attempt by attempt.
LEMMA LeasesOfAttempts ==
  /\ LeaseWithinDeadlines <=> \A a \in Attempts : LeaseFits(a)
  /\ DismissedHoldsNoLease <=> \A a \in Attempts : LeaseRevoked(a)
<1>1. \A t \in Tasks, w \in Workers : <<t, w>> \in Attempts /\ <<t, w>>[1] = t /\ <<t, w>>[2] = w
  BY DEF Attempts
<1>2. \A a \in Attempts : a[1] \in Tasks /\ a[2] \in Workers /\ a = <<a[1], a[2]>>
  BY Parts
<1>3. LeaseWithinDeadlines <=> \A t \in Tasks, w \in Workers : LeaseFits(<<t, w>>)
  BY <1>1 DEF LeaseWithinDeadlines, LeaseFits
<1>4. DismissedHoldsNoLease <=> \A t \in Tasks, w \in Workers : LeaseRevoked(<<t, w>>)
  BY <1>1 DEF DismissedHoldsNoLease, LeaseRevoked
<1> QED
  BY <1>1, <1>2, <1>3, <1>4

\* A step that leaves the times and nodes of an attempt alone, and does not bind
\* it anew by a lease, keeps both.
LEMMA LeaseFrame ==
  ASSUME NEW a \in Attempts, LeaseFits(a), LeaseRevoked(a),
         UNCHANGED <<lease[a], taskDeadline[a[1]], attDeadline[a], nodeStatus[a[2]]>>,
         attState'[a] = attState[a] \/ attState'[a] \notin Fenced
  PROVE  LeaseFits(a)' /\ LeaseRevoked(a)'
BY DEF LeaseFits, LeaseRevoked, Fenced

\* Leases stay within the deadlines, and those of dismissed workers stay over.
LEMMA LeaseStep ==
  ASSUME TypeOK, IInv, [Next]_vars, NEW a \in Attempts, LeaseFits(a), LeaseRevoked(a)
  PROVE  LeaseFits(a)' /\ LeaseRevoked(a)'
<1>1. /\ lease[a] \in Nat /\ attDeadline[a] \in Nat /\ taskDeadline[a[1]] \in Nat
      /\ a[1] \in Tasks /\ a[2] \in Workers /\ a = <<a[1], a[2]>>
      /\ nodeStatus \in [Workers -> NodeStates]
  BY RowTypes, Parts
<1>2. CASE Tick
  <2>1. /\ lease'[a] = Down(lease[a]) /\ attDeadline'[a] = Down(attDeadline[a])
        /\ taskDeadline'[a[1]] = Down(taskDeadline[a[1]])
        /\ UNCHANGED <<attState, nodeStatus>>
    BY <1>1, <1>2 DEF Tick
  <2> QED
    BY <1>1, <2>1 DEF LeaseFits, LeaseRevoked, Down
<1>3. ASSUME NEW r \in Requests \cup {Null}, NEW i \in Identities, NEW t \in Tasks,
             EnqueueNew(r, i, t)
      PROVE  LeaseFits(a)' /\ LeaseRevoked(a)'
  <2>1. /\ UNCHANGED <<attState, lease, attDeadline, nodeStatus>>
        /\ a[1] # t => UNCHANGED taskDeadline[a[1]]
        /\ a[1] = t => taskState[a[1]] = "none"
    BY <1>1, <1>3, RowTypes DEF EnqueueNew
  <2>2. a[1] = t => attState[a] \notin Fenced
    BY <2>1, AttemptRow
  <2> QED
    BY <2>1, <2>2 DEF LeaseFits, LeaseRevoked, Fenced
<1>4. ASSUME NEW w \in Workers, NEW n \in ClaimLimits, Claim(w, n)
      PROVE  LeaseFits(a)' /\ LeaseRevoked(a)'
  <2> DEFINE end == Least(taskDeadline[a[1]], WorkerTimeout)
  <2>1. CASE a[2] = w /\ a[1] \in Chosen(w, n)
    <3>1. /\ lease'[a] = Least(LeaseDuration, end) /\ attDeadline'[a] = end
          /\ nodeStatus[a[2]] = "approved" /\ UNCHANGED <<taskDeadline, nodeStatus>>
      BY <1>4, <2>1 DEF Claim
    <3>2. lease'[a] <= end /\ end <= taskDeadline[a[1]]
      BY <1>1, <3>1, Validate DEF Least
    <3> QED
      BY <1>1, <3>1, <3>2, Validate DEF LeaseFits, LeaseRevoked, Least
  <2>2. CASE ~(a[2] = w /\ a[1] \in Chosen(w, n))
    BY <1>4, <2>2, LeaseFrame DEF Claim
  <2> QED
    BY <2>1, <2>2
<1>5. ASSUME NEW w \in Workers, NEW ids \in SUBSET Tasks, NEW cap \in Capacities,
             Heartbeat(w, ids, cap)
      PROVE  LeaseFits(a)' /\ LeaseRevoked(a)'
  <2>1. UNCHANGED <<attState, attDeadline, taskDeadline, nodeStatus>>
    BY <1>5 DEF Heartbeat
  <2>2. CASE UNCHANGED lease[a]
    BY <2>1, <2>2, LeaseFrame
  <2>3. CASE a[2] = w /\ lease'[a] = Renewed(a)
    <3>1. nodeStatus[a[2]] \in {"approved", "draining"}
      BY <1>5, <2>3 DEF Heartbeat, Trusted
    <3>2. lease'[a] <= attDeadline[a] /\ lease'[a] <= taskDeadline[a[1]]
      BY <1>1, <2>3, Validate DEF Renewed, Least
    <3> QED
      BY <2>1, <3>1, <3>2 DEF LeaseFits, LeaseRevoked
  <2> QED
    BY <1>5, <2>2, <2>3 DEF Heartbeat
<1>6. ASSUME NEW w \in Workers, NEW status \in {"rejected", "revoked"}, Dismiss(w, status)
      PROVE  LeaseFits(a)' /\ LeaseRevoked(a)'
  <2>1. /\ UNCHANGED <<attState, attDeadline, taskDeadline>>
        /\ lease'[a] = IF a[2] = w /\ attState[a] \in Fenced THEN 0 ELSE lease[a]
        /\ a[2] # w => nodeStatus'[a[2]] = nodeStatus[a[2]]
    BY <1>1, <1>6 DEF Dismiss, SetStatus
  <2> QED
    BY <1>1, <2>1 DEF LeaseFits, LeaseRevoked
<1>7. ASSUME NEW w \in Workers, Approve(w) \/ Enable(w) \/ Drain(w)
      PROVE  LeaseFits(a)' /\ LeaseRevoked(a)'
  <2>1. /\ UNCHANGED <<attState, lease, attDeadline, taskDeadline>>
        /\ nodeStatus'[a[2]] \in {"rejected", "revoked"} => nodeStatus'[a[2]] = nodeStatus[a[2]]
    BY <1>1, <1>7 DEF Approve, Enable, Drain, SetStatus
  <2> QED
    BY <2>1 DEF LeaseFits, LeaseRevoked
<1>8. ASSUME NEW p \in Procs, NEW t \in Tasks, NEW w \in Workers, NEW d \in Digests,
             NEW g \in Gens, UploadReserve(p, t, w, d, g)
      PROVE  LeaseFits(a)' /\ LeaseRevoked(a)'
  <2>1. UNCHANGED <<attDeadline, taskDeadline, nodeStatus>>
    BY <1>8 DEF UploadReserve
  <2>2. CASE a # <<t, w>>
    BY <1>8, <2>1, <2>2, LeaseFrame, RowTypes DEF UploadReserve
  <2>3. CASE a = <<t, w>>
    <3>1. /\ attState'[a] = "uploading" /\ lease'[a] = UploadLease(t, w) /\ Fence(t, w)
          /\ attState[a] \in Fenced
      BY <1>8, <2>3, RowTypes DEF UploadReserve, UploadAccepted, UploadAdmitted, StartFence
    <3>2. lease'[a] <= taskDeadline[a[1]]
      BY <1>1, <2>3, <3>1, Validate DEF UploadLease, Least, Fenced, LeaseFits
    <3>3. nodeStatus[a[2]] \notin {"rejected", "revoked"}
      BY <2>3, <3>1 DEF Fence, Trusted
    <3> QED
      BY <2>1, <3>1, <3>2, <3>3 DEF LeaseFits, LeaseRevoked
  <2> QED
    BY <2>2, <2>3
<1>9. ASSUME NEW p \in Procs, NEW label \in {"commit", "reset"}, StreamStage(p, label)
      PROVE  LeaseFits(a)' /\ LeaseRevoked(a)'
  <2>1. UNCHANGED <<lease, attDeadline, taskDeadline, nodeStatus>>
    BY <1>9 DEF StreamStage
  <2>2. attState'[a] = attState[a] \/ attState'[a] \notin Fenced
    BY <1>9, StagesUploading, RowTypes DEF Fenced
  <2> QED
    BY <2>1, <2>2, LeaseFrame
<1>10. ASSUME NEW p \in Procs, CommitDone(p)
       PROVE  LeaseFits(a)' /\ LeaseRevoked(a)'
  <2>1. UNCHANGED <<lease, attDeadline, taskDeadline, nodeStatus>>
    BY <1>10 DEF CommitDone
  <2>2. attState'[a] = attState[a] \/ attState'[a] \notin Fenced
    BY <1>10, CommitsStaged, RowTypes DEF Fenced
  <2> QED
    BY <2>1, <2>2, LeaseFrame
<1>11. CASE Expire
  <2>1. UNCHANGED <<lease, attDeadline, taskDeadline, nodeStatus>>
    BY <1>11 DEF Expire
  <2>2. attState'[a] = attState[a] \/ attState'[a] \notin Fenced
    BY <1>11, ExpiresLive DEF Fenced
  <2> QED
    BY <2>1, <2>2, LeaseFrame
<1>12. ASSUME NEW t \in Tasks, NEW w \in Workers, NEW terminal \in BOOLEAN,
              Report(t, w, terminal)
       PROVE  LeaseFits(a)' /\ LeaseRevoked(a)'
  <2>1. UNCHANGED <<lease, attDeadline, taskDeadline, nodeStatus>>
    BY <1>12 DEF Report
  <2>2. attState'[a] = attState[a] \/ attState'[a] \notin Fenced
    BY <1>12, RowTypes DEF Report, Fenced
  <2> QED
    BY <2>1, <2>2, LeaseFrame
<1>13. ASSUME NEW t \in Tasks, DeleteTask(t)
       PROVE  LeaseFits(a)' /\ LeaseRevoked(a)'
  <2>1. CASE a[1] = t
    BY <1>13, <2>1 DEF DeleteTask, LeaseFits, LeaseRevoked, Fenced
  <2>2. CASE a[1] # t
    BY <1>1, <1>13, <2>2, LeaseFrame, RowTypes DEF DeleteTask
  <2> QED
    BY <2>1, <2>2
<1>14. ASSUME \/ \E r \in Requests \cup {Null}, i \in Identities, t \in Tasks :
                    EnqueueJoin(r, i, t)
              \/ \E p \in Procs : Archive(p)
              \/ \E t \in Tasks, recorded \in BOOLEAN : HookDelivered(t, recorded)
              \/ \E t \in Tasks : HookFailed(t)
              \/ UNCHANGED rowVars
       PROVE  LeaseFits(a)' /\ LeaseRevoked(a)'
  <2>1. UNCHANGED <<attState, lease, attDeadline, taskDeadline, nodeStatus>>
    BY <1>14 DEF EnqueueJoin, Archive, HookDelivered, HookFailed, rowVars
  <2> QED
    BY <2>1, LeaseFrame
<1> QED
  BY <1>2, <1>3, <1>4, <1>5, <1>6, <1>7, <1>8, <1>9, <1>10, <1>11, <1>12, <1>13, <1>14, Steps

\* HookOutbox, said of one task.
HookOwed(t) ==
    /\ taskState[t] = "done" => hookPending[t] \/ t \in hooked \/ hookTries[t] >= HookLimit
    /\ t \in hooked => \E f \in archived : f[1][1] = t

\* A step that does not finish t and leaves its outbox alone.
LEMMA HookFrame ==
  ASSUME NEW t \in Tasks, HookOwed(t), taskState'[t] = "done" => taskState[t] = "done",
         UNCHANGED <<hookPending[t], hookTries[t], hooked>>, archived \subseteq archived'
  PROVE  HookOwed(t)'
BY DEF HookOwed

\* A finished task keeps its callback pending until it is delivered or given up.
LEMMA HookStep ==
  ASSUME TypeOK, IInv, [Next]_vars, NEW t \in Tasks, HookOwed(t)
  PROVE  HookOwed(t)'
<1>1. CASE UNCHANGED <<taskState, hookPending, hookTries, hooked, archived>>
  BY <1>1 DEF HookOwed
<1>2. ASSUME NEW r \in Requests \cup {Null}, NEW i \in Identities, NEW u \in Tasks,
             EnqueueNew(r, i, u)
      PROVE  HookOwed(t)'
  BY <1>2, HookFrame, RowTypes DEF EnqueueNew
<1>3. ASSUME NEW w \in Workers, NEW n \in ClaimLimits, Claim(w, n)
      PROVE  HookOwed(t)'
  BY <1>3, HookFrame DEF Claim
<1>4. ASSUME NEW u \in Tasks, NEW w \in Workers, NEW terminal \in BOOLEAN,
             Report(u, w, terminal)
      PROVE  HookOwed(t)'
  BY <1>4, HookFrame, RowTypes DEF Report, Requeued
<1>5. ASSUME NEW p \in Procs, NEW label \in {"commit", "reset"}, StreamStage(p, label)
      PROVE  HookOwed(t)'
  <2>1. UNCHANGED <<hookPending, hookTries, hooked, archived>>
    BY <1>5 DEF StreamStage
  <2> QED
    BY <1>5, <2>1, StagesUploading, HookFrame, RowTypes
<1>6. ASSUME NEW p \in Procs, Archive(p)
      PROVE  HookOwed(t)'
  BY <1>6, HookFrame DEF Archive
<1>7. ASSUME NEW p \in Procs, CommitDone(p)
      PROVE  HookOwed(t)'
  <2>1. /\ hookPending' = [hookPending EXCEPT ![pa[p][1]] = TRUE]
        /\ taskState' = [taskState EXCEPT ![pa[p][1]] = "done"]
        /\ UNCHANGED <<hookTries, hooked, archived>>
    BY <1>7 DEF CommitDone
  <2>2. CASE t = pa[p][1]
    BY <2>1, <2>2, RowTypes DEF HookOwed
  <2>3. CASE t # pa[p][1]
    BY <2>1, <2>3, RowTypes, HookFrame
  <2> QED
    BY <2>2, <2>3
<1>8. CASE Expire
  <2>1. UNCHANGED <<hookPending, hookTries, hooked, archived>>
    BY <1>8 DEF Expire
  <2> QED
    BY <1>8, <2>1, ExpiresLive, HookFrame
<1>9. ASSUME NEW u \in Tasks, NEW recorded \in BOOLEAN, HookDelivered(u, recorded)
      PROVE  HookOwed(t)'
  <2>1. /\ taskState[u] = "done" /\ hooked' = hooked \cup {u}
        /\ hookPending' = [hookPending EXCEPT ![u] = ~recorded]
        /\ UNCHANGED <<taskState, hookTries, archived>>
    BY <1>9 DEF HookDelivered, HookDue
  <2>2. CASE t = u
    <3>1. <<<<t, current[t]>>, uploadId[<<t, current[t]>>]>> \in archived
      BY <2>1, <2>2 DEF IInv, DoneIsArchived
    <3> QED
      BY <2>1, <2>2, <3>1 DEF HookOwed
  <2>3. CASE t # u
    BY <2>1, <2>3, RowTypes DEF HookOwed
  <2> QED
    BY <2>2, <2>3
<1>10. ASSUME NEW u \in Tasks, HookFailed(u)
       PROVE  HookOwed(t)'
  <2>1. /\ hookTries' = [hookTries EXCEPT ![u] = @ + 1]
        /\ hookPending' = [hookPending EXCEPT ![u] = HookRetries(hookTries[u] + 1)]
        /\ UNCHANGED <<taskState, hooked, archived>>
    BY <1>10 DEF HookFailed
  <2>2. CASE t = u
    <3>1. /\ HookRetries(hookTries[t] + 1) => hookPending'[t]
          /\ hookTries'[t] = hookTries[t] + 1 /\ hookTries[t] \in Nat
      BY <2>1, <2>2, RowTypes
    <3>2. ~HookRetries(hookTries[t] + 1) => hookTries'[t] >= HookLimit
      BY <3>1, ConstantTypes DEF HookRetries
    <3> QED
      BY <2>1, <3>1, <3>2 DEF HookOwed
  <2>3. CASE t # u
    BY <2>1, <2>3, RowTypes, HookFrame
  <2> QED
    BY <2>2, <2>3
<1>11. ASSUME NEW u \in Tasks, DeleteTask(u)
       PROVE  HookOwed(t)'
  BY <1>11, RowTypes DEF DeleteTask, HookOwed
<1>12. ASSUME \/ Tick
              \/ \E r \in Requests \cup {Null}, i \in Identities, u \in Tasks : EnqueueJoin(r, i, u)
              \/ \E w \in Workers, ids \in SUBSET Tasks, cap \in Capacities : Heartbeat(w, ids, cap)
              \/ \E w \in Workers : Approve(w) \/ Enable(w) \/ Drain(w)
              \/ \E w \in Workers, status \in {"rejected", "revoked"} : Dismiss(w, status)
              \/ \E p \in Procs, u \in Tasks, w \in Workers, d \in Digests, g \in Gens :
                    UploadReserve(p, u, w, d, g)
              \/ UNCHANGED rowVars
       PROVE  UNCHANGED <<taskState, hookPending, hookTries, hooked, archived>>
  <2>1. CASE Tick \/ UNCHANGED rowVars
    BY <2>1 DEF Tick, rowVars
  <2>2. CASE \E w \in Workers : \/ Approve(w) \/ Enable(w) \/ Drain(w)
                               \/ \E status \in {"rejected", "revoked"} : Dismiss(w, status)
    BY <2>2 DEF Approve, Enable, Drain, Dismiss, SetStatus
  <2>3. CASE \E w \in Workers, ids \in SUBSET Tasks, cap \in Capacities : Heartbeat(w, ids, cap)
    BY <2>3 DEF Heartbeat
  <2>4. CASE \E p \in Procs, u \in Tasks, w \in Workers, d \in Digests, g \in Gens :
                UploadReserve(p, u, w, d, g)
    BY <2>4 DEF UploadReserve
  <2> QED
    BY <1>12, <2>1, <2>2, <2>3, <2>4 DEF EnqueueJoin
<1> QED
  BY <1>1, <1>2, <1>3, <1>4, <1>5, <1>6, <1>7, <1>8, <1>9, <1>10, <1>11, <1>12, Steps

\* The rows of a task agree after every transaction: no lease outlives a deadline,
\* a dismissed worker has none left, and a finished task's callback is owed,
\* delivered or given up, never before the archive has the file.
THEOREM RowsAlwaysSound == Spec => []RowsSound
<1> DEFINE Owed == \A t \in Tasks : HookOwed(t)
           Fits == \A a \in Attempts : LeaseFits(a) /\ LeaseRevoked(a)
<1>1. RowsSound <=> Fits /\ Owed
  BY LeasesOfAttempts DEF RowsSound, HookOutbox, HookOwed
<1>2. Init => Fits /\ Owed
  BY DEF Init, LeaseFits, LeaseRevoked, HookOwed, Fenced
<1>3. TypeOK /\ IInv /\ Fits /\ Owed /\ [Next]_vars => Fits' /\ Owed'
  BY LeaseStep, HookStep
<1> HIDE DEF Fits, Owed
<1>4. Spec => [](Fits /\ Owed)
  BY <1>2, <1>3, TypeCorrect, Inductive, PTL DEF Spec
<1> QED
  BY <1>1, <1>4, PTL

-----------------------------------------------------------------------------
(* ClaimsBounded. *)

\* A set of tasks that is not empty has a youngest one.
LEMMA Youngest ==
  ASSUME NEW S, S \subseteq Tasks, S # {}
  PROVE  \E m \in S : \A t \in S : t <= m
<1> DEFINE T == {MaxTasks - t : t \in S}
<1>1. S \subseteq 1 .. MaxTasks /\ MaxTasks \in Nat
  BY ConstantTypes DEF Tasks
<1>2. T \subseteq Nat /\ T # {}
  <2>1. \A t \in S : MaxTasks - t \in Nat
    BY <1>1
  <2> QED
    BY <2>1
<1>3. (\A y \in T : \E t \in S : y = MaxTasks - t) /\ (\A t \in S : MaxTasks - t \in T)
  OBVIOUS
<1> HIDE DEF T
<1>4. PICK x \in T : \A y \in T : ~(<<y, x>> \in OpToRel(<, Nat))
  BY <1>2, NatLessThanWellFounded, WFMin
<1>5. \A y \in T : x <= y
  <2> SUFFICES ASSUME NEW y \in T PROVE ~(y < x)
    BY <1>2
  <2>1. x \in Nat /\ y \in Nat
    BY <1>2
  <2>2. y < x => <<y, x>> \in OpToRel(<, Nat)
    BY <2>1 DEF OpToRel
  <2> QED
    BY <1>4, <2>2
<1>6. PICK m \in S : x = MaxTasks - m
  BY <1>3
<1>7. \A t \in S : t <= m
  <2> TAKE t \in S
  <2>1. x <= MaxTasks - t
    BY <1>3, <1>5
  <2> QED
    BY <1>1, <1>6, <2>1
<1> QED
  BY <1>7

\* The least of the four limits claim computes.
LEMMA LeastOfFour ==
  ASSUME NEW a \in Int, NEW b \in Int, NEW c \in Int, NEW d \in Int
  PROVE  /\ Min({a, b, c, d}) \in Int /\ Min({a, b, c, d}) <= b /\ Min({a, b, c, d}) <= c
<1>1. \E x \in {a, b, c, d} : \A y \in {a, b, c, d} : x <= y
  OBVIOUS
<1> QED
  BY <1>1 DEF Min

\* Tasks is a finite set of integers.
LEMMA TasksFinite == IsFiniteSet(Tasks) /\ Tasks \subseteq Int
BY FS_Interval, ConstantTypes DEF Tasks

\* claim's LIMIT: the oldest claimable tasks are no more than the limit, because
\* the youngest one chosen already counts them all.
LEMMA ChosenWithinLimit ==
  ASSUME NEW w \in Workers, NEW n \in ClaimLimits, Chosen(w, n) # {},
         ClaimLimit(w, n) \in Int
  PROVE  /\ IsFiniteSet(Chosen(w, n)) /\ Chosen(w, n) \subseteq Tasks
         /\ Cardinality(Chosen(w, n)) <= ClaimLimit(w, n)
<1>1. Claimable(w) \subseteq Tasks /\ Chosen(w, n) \subseteq Claimable(w)
  BY DEF Claimable, Chosen
<1>2. PICK m \in Chosen(w, n) : \A t \in Chosen(w, n) : t <= m
  BY <1>1, Youngest
<1> DEFINE older == {u \in Claimable(w) : u <= m}
<1>3. Cardinality(older) <= ClaimLimit(w, n)
  BY DEF Chosen
<1>4. Chosen(w, n) \in SUBSET older /\ older \in SUBSET Tasks
  BY <1>1, <1>2
<1>5. IsFiniteSet(older)
  BY <1>4, TasksFinite, FS_Subset
<1>6. /\ IsFiniteSet(Chosen(w, n))
      /\ Cardinality(Chosen(w, n)) <= Cardinality(older)
  BY <1>4, <1>5, FS_Subset
<1>7. Cardinality(Chosen(w, n)) \in Nat /\ Cardinality(older) \in Nat
  BY <1>5, <1>6, FS_CardinalityType
<1> HIDE DEF older
<1> QED
  BY <1>1, <1>3, <1>6, <1>7

\* The tasks handed to one worker are as many as its new attempts.
LEMMA Handed ==
  ASSUME NEW S, IsFiniteSet(S), NEW w
  PROVE  IsFiniteSet(S \X {w}) /\ Cardinality(S \X {w}) = Cardinality(S)
<1>1. IsFiniteSet({w}) /\ Cardinality({w}) = 1
  BY FS_Singleton
<1>2. IsFiniteSet(S \X {w}) /\ Cardinality(S \X {w}) = Cardinality(S) * Cardinality({w})
  BY <1>1, FS_Product
<1>3. Cardinality(S) \in Nat
  BY FS_CardinalityType
<1> QED
  BY <1>1, <1>2, <1>3

\* Growing a finite set S by a finite set T adds at most T's elements.
LEMMA UnionBound ==
  ASSUME NEW S, IsFiniteSet(S), NEW T, IsFiniteSet(T)
  PROVE  /\ IsFiniteSet(S \cup T)
         /\ Cardinality(S \cup T) <= Cardinality(S) + Cardinality(T)
         /\ Cardinality(S) \in Nat /\ Cardinality(T) \in Nat /\ Cardinality(S \cup T) \in Nat
<1>1. IsFiniteSet(S \cup T) /\ IsFiniteSet(S \cap T)
  BY FS_Union, FS_Subset
<1>2. /\ Cardinality(S) \in Nat /\ Cardinality(T) \in Nat
      /\ Cardinality(S \cup T) \in Nat /\ Cardinality(S \cap T) \in Nat
  BY <1>1, FS_CardinalityType
<1>3. Cardinality(S \cup T) = Cardinality(S) + Cardinality(T) - Cardinality(S \cap T)
  BY FS_Union
<1> QED
  BY <1>1, <1>2, <1>3

\* Only claim starts an attempt; only retention unmakes one.
LEMMA StartsOnlyByClaim ==
  ASSUME TypeOK, IInv, [Next]_vars
  PROVE  \/ \E w \in Workers, n \in ClaimLimits : Claim(w, n)
         \/ \E t \in Tasks : DeleteTask(t)
         \/ /\ \A a \in Attempts : /\ attState'[a] = "none" <=> attState[a] = "none"
                                   /\ attState'[a] \in Live => attState[a] \in Live
            /\ UNCHANGED attemptCount
<1> DEFINE Kept == /\ \A a \in Attempts : /\ attState'[a] = "none" <=> attState[a] = "none"
                                          /\ attState'[a] \in Live => attState[a] \in Live
                   /\ UNCHANGED attemptCount
<1>1. CASE UNCHANGED <<attState, attemptCount>>
  BY <1>1
<1>2. ASSUME NEW t \in Tasks, NEW w \in Workers, NEW terminal \in BOOLEAN,
             Report(t, w, terminal)
      PROVE  Kept
  BY <1>2, RowTypes DEF Report, Fenced, Live
<1>3. ASSUME NEW p \in Procs, NEW t \in Tasks, NEW w \in Workers, NEW d \in Digests,
             NEW g \in Gens, UploadReserve(p, t, w, d, g)
      PROVE  Kept
  BY <1>3, RowTypes DEF UploadReserve, UploadAdmitted, Fenced, Live
<1>4. ASSUME NEW p \in Procs, NEW label \in {"commit", "reset"}, StreamStage(p, label)
      PROVE  Kept
  <2>1. UNCHANGED attemptCount
    BY <1>4 DEF StreamStage
  <2> QED
    BY <1>4, <2>1, StagesUploading, RowTypes DEF Live
<1>5. ASSUME NEW p \in Procs, CommitDone(p)
      PROVE  Kept
  <2>1. UNCHANGED attemptCount
    BY <1>5 DEF CommitDone
  <2> QED
    BY <1>5, <2>1, CommitsStaged, RowTypes DEF Live
<1>6. ASSUME Expire
      PROVE  Kept
  <2>1. UNCHANGED attemptCount
    BY <1>6 DEF Expire
  <2> QED
    BY <1>6, <2>1, ExpiresLive DEF Live
<1>7. ASSUME \/ Tick
             \/ \E r \in Requests \cup {Null}, i \in Identities, t \in Tasks :
                   EnqueueNew(r, i, t) \/ EnqueueJoin(r, i, t)
             \/ \E w \in Workers, ids \in SUBSET Tasks, cap \in Capacities : Heartbeat(w, ids, cap)
             \/ \E w \in Workers : Approve(w) \/ Enable(w) \/ Drain(w)
             \/ \E w \in Workers, status \in {"rejected", "revoked"} : Dismiss(w, status)
             \/ \E p \in Procs : Archive(p)
             \/ \E t \in Tasks, recorded \in BOOLEAN : HookDelivered(t, recorded)
             \/ \E t \in Tasks : HookFailed(t)
             \/ UNCHANGED rowVars
      PROVE  UNCHANGED <<attState, attemptCount>>
  <2>1. CASE \E w \in Workers : \/ Approve(w) \/ Enable(w) \/ Drain(w)
                               \/ \E status \in {"rejected", "revoked"} : Dismiss(w, status)
    BY <2>1 DEF Approve, Enable, Drain, Dismiss, SetStatus
  <2>2. CASE \E w \in Workers, ids \in SUBSET Tasks, cap \in Capacities : Heartbeat(w, ids, cap)
    BY <2>2 DEF Heartbeat
  <2> QED
    BY <1>7, <2>1, <2>2
       DEF Tick, EnqueueNew, EnqueueJoin, Archive, HookDelivered, HookFailed, rowVars
<1> QED
  BY <1>1, <1>2, <1>3, <1>4, <1>5, <1>6, <1>7, Steps

\* What the caps need besides themselves: only finitely many attempts are live.
Capped == IsFiniteSet(InFlight) /\ InFlightBounded

\* A worker's share of the attempts in flight is finite too.
LEMMA LiveOfWorker ==
  ASSUME IsFiniteSet(InFlight), NEW w \in Workers
  PROVE  /\ IsFiniteSet(InFlightOf(w))
         /\ Cardinality(InFlight) \in Nat /\ Cardinality(InFlightOf(w)) \in Nat
<1>1. InFlightOf(w) \in SUBSET InFlight
  BY DEF InFlightOf
<1>2. IsFiniteSet(InFlightOf(w))
  BY <1>1, FS_Subset
<1> QED
  BY <1>2, FS_CardinalityType

\* A step that starts no attempt keeps the caps.
LEMMA CapsShrink ==
  ASSUME Capped, \A a \in Attempts : attState'[a] \in Live => attState[a] \in Live
  PROVE  Capped'
<1>1. InFlight' \in SUBSET InFlight /\ IsFiniteSet(InFlight)
  BY DEF InFlight, Capped
<1>2. IsFiniteSet(InFlight') /\ Cardinality(InFlight') <= Cardinality(InFlight)
  BY <1>1, FS_Subset
<1>3. Cardinality(InFlight') \in Nat /\ Cardinality(InFlight) \in Nat
  BY <1>1, <1>2, FS_CardinalityType
<1>4. Cardinality(InFlight') <= MaxInFlight
  BY <1>2, <1>3, Validate DEF Capped, InFlightBounded
<1>5. \A w \in Workers : Cardinality(InFlightOf(w)') <= MaxWorkerInFlight
  <2> TAKE w \in Workers
  <2>1. InFlightOf(w)' \in SUBSET InFlightOf(w) /\ IsFiniteSet(InFlightOf(w))
    BY <1>1, LiveOfWorker DEF InFlightOf
  <2>2. /\ IsFiniteSet(InFlightOf(w)')
        /\ Cardinality(InFlightOf(w)') <= Cardinality(InFlightOf(w))
    BY <2>1, FS_Subset
  <2>3. Cardinality(InFlightOf(w)') \in Nat /\ Cardinality(InFlightOf(w)) \in Nat
    BY <2>1, <2>2, FS_CardinalityType
  <2>4. Cardinality(InFlightOf(w)) <= MaxWorkerInFlight
    BY DEF Capped, InFlightBounded
  <2> QED
    BY <2>2, <2>3, <2>4, Validate
<1> QED
  BY <1>2, <1>4, <1>5 DEF Capped, InFlightBounded

\* claim keeps the caps: it counts under the scheduler lock what it may add.
LEMMA CapsClaim ==
  ASSUME TypeOK, Capped, NEW w \in Workers, NEW n \in ClaimLimits, Claim(w, n)
  PROVE  Capped'
<1> DEFINE new == Chosen(w, n) \X {w}
<1>1. /\ IsFiniteSet(InFlight) /\ IsFiniteSet(InFlightOf(w))
      /\ Cardinality(InFlight) \in Nat /\ Cardinality(InFlightOf(w)) \in Nat
  BY LiveOfWorker DEF Capped
<1>2. /\ ClaimLimit(w, n) \in Int
      /\ ClaimLimit(w, n) <= MaxInFlight - Cardinality(InFlight)
      /\ ClaimLimit(w, n) <= MaxWorkerInFlight - Cardinality(InFlightOf(w))
  <2>1. n \in Int /\ capacity[w] \in Int
    BY ConstantTypes DEF TypeOK
  <2>2. /\ MaxInFlight - Cardinality(InFlight) \in Int
        /\ MaxWorkerInFlight - Cardinality(InFlightOf(w)) \in Int
        /\ capacity[w] - Cardinality(InFlightOf(w)) \in Int
    BY <1>1, <2>1, Validate
  <2> QED
    BY <2>1, <2>2, LeastOfFour DEF ClaimLimit
<1>3. /\ IsFiniteSet(Chosen(w, n)) /\ Chosen(w, n) \subseteq Tasks
      /\ Cardinality(Chosen(w, n)) <= ClaimLimit(w, n)
  BY <1>2, ChosenWithinLimit DEF Claim
<1>4. /\ IsFiniteSet(new) /\ Cardinality(new) = Cardinality(Chosen(w, n))
      /\ Cardinality(new) \in Nat
  BY <1>3, Handed, FS_CardinalityType
<1>5. /\ \A a \in new : a \in Attempts /\ a[2] = w /\ a[1] \in Chosen(w, n)
      /\ \A a \in Attempts : a \in new <=> a[2] = w /\ a[1] \in Chosen(w, n)
  BY <1>3, Parts DEF Attempts
<1> HIDE DEF new
<1>6. \A a \in Attempts : attState'[a] \in Live <=> attState[a] \in Live \/ a \in new
  BY <1>5 DEF Claim, Live
<1>7. InFlight' = InFlight \cup new
  BY <1>5, <1>6 DEF InFlight
<1>8. /\ InFlightOf(w)' = InFlightOf(w) \cup new
      /\ \A v \in Workers : v # w => InFlightOf(v)' = InFlightOf(v)
  BY <1>5, <1>7 DEF InFlightOf
<1>9. IsFiniteSet(InFlight') /\ Cardinality(InFlight') <= MaxInFlight
  <2>1. /\ IsFiniteSet(InFlight \cup new)
        /\ Cardinality(InFlight \cup new) <= Cardinality(InFlight) + Cardinality(new)
        /\ Cardinality(InFlight \cup new) \in Nat
    BY <1>1, <1>4, UnionBound
  <2> QED
    BY <1>1, <1>2, <1>3, <1>4, <1>7, <2>1, Validate
<1>10. \A v \in Workers : Cardinality(InFlightOf(v)') <= MaxWorkerInFlight
  <2> TAKE v \in Workers
  <2>1. CASE v = w
    <3>1. /\ Cardinality(InFlightOf(w) \cup new) <= Cardinality(InFlightOf(w)) + Cardinality(new)
          /\ Cardinality(InFlightOf(w) \cup new) \in Nat
      BY <1>1, <1>4, UnionBound
    <3>2. Cardinality(InFlightOf(w) \cup new) <= MaxWorkerInFlight
      BY <1>1, <1>2, <1>3, <1>4, <3>1, Validate
    <3> QED
      BY <1>8, <2>1, <3>2
  <2>2. CASE v # w
    <3>1. Cardinality(InFlightOf(v)) <= MaxWorkerInFlight
      BY DEF Capped, InFlightBounded
    <3>2. InFlightOf(v)' = InFlightOf(v)
      BY <1>8, <2>2
    <3> QED
      BY <3>1, <3>2
  <2> QED
    BY <2>1, <2>2
<1> QED
  BY <1>9, <1>10 DEF Capped, InFlightBounded

\* The workers that have tried a task, and what attempt_count has to do with them.
Tried(t) == {w \in Workers : attState[<<t, w>>] # "none"}
Counted(t) == IsFiniteSet(Tried(t)) /\ attemptCount[t] = Cardinality(Tried(t))

\* attempt_count follows the attempts: claim adds a worker that had none.
LEMMA CountStep ==
  ASSUME TypeOK, IInv, [Next]_vars, NEW t \in Tasks, Counted(t)
  PROVE  Counted(t)'
<1>1. \A w \in Workers : <<t, w>> \in Attempts /\ <<t, w>>[1] = t /\ <<t, w>>[2] = w
  BY DEF Attempts
<1>2. ASSUME NEW w \in Workers, NEW n \in ClaimLimits, Claim(w, n)
      PROVE  Counted(t)'
  <2>1. \A v \in Workers : attState'[<<t, v>>] = IF v = w /\ t \in Chosen(w, n)
                                                 THEN "running" ELSE attState[<<t, v>>]
    BY <1>1, <1>2 DEF Claim
  <2>2. CASE t \in Chosen(w, n)
    <3>1. attState[<<t, w>>] = "none" /\ attemptCount'[t] = attemptCount[t] + 1
      BY <1>2, <2>2, ClaimsQueued DEF Claim
    <3>2. Tried(t)' = Tried(t) \cup {w} /\ w \notin Tried(t)
      BY <2>1, <2>2, <3>1 DEF Tried
    <3>3. /\ IsFiniteSet(Tried(t) \cup {w})
          /\ Cardinality(Tried(t) \cup {w}) = Cardinality(Tried(t)) + 1
      BY <3>2, FS_AddElement DEF Counted
    <3> QED
      BY <3>1, <3>2, <3>3 DEF Counted
  <2>3. CASE t \notin Chosen(w, n)
    <3>1. attemptCount'[t] = attemptCount[t]
      BY <1>2, <2>3 DEF Claim
    <3>2. Tried(t)' = Tried(t)
      BY <2>1, <2>3 DEF Tried
    <3> QED
      BY <3>1, <3>2 DEF Counted
  <2> QED
    BY <2>2, <2>3
<1>3. ASSUME NEW u \in Tasks, DeleteTask(u)
      PROVE  Counted(t)'
  <2>1. CASE t = u
    <3>1. attemptCount'[t] = 0 /\ \A w \in Workers : attState'[<<t, w>>] = "none"
      BY <1>1, <1>3, <2>1, RowTypes DEF DeleteTask
    <3>2. Tried(t)' = {}
      BY <3>1 DEF Tried
    <3> QED
      BY <3>1, <3>2, FS_EmptySet DEF Counted
  <2>2. CASE t # u
    <3>1. attemptCount'[t] = attemptCount[t]
      BY <1>3, <2>2, RowTypes DEF DeleteTask
    <3>2. \A w \in Workers : attState'[<<t, w>>] = attState[<<t, w>>]
      BY <1>1, <1>3, <2>2 DEF DeleteTask
    <3>3. Tried(t)' = Tried(t)
      BY <3>2 DEF Tried
    <3> QED
      BY <3>1, <3>3 DEF Counted
  <2> QED
    BY <2>1, <2>2
<1>4. ASSUME \A a \in Attempts : attState'[a] = "none" <=> attState[a] = "none",
             UNCHANGED attemptCount
      PROVE  Counted(t)'
  <2>1. Tried(t)' = Tried(t)
    BY <1>1, <1>4 DEF Tried
  <2> QED
    BY <1>4, <2>1 DEF Counted
<1> QED
  BY <1>2, <1>3, <1>4, StartsOnlyByClaim

\* No mix of claims, revocations and retries exceeds the global cap, a worker's
\* cap, or loses count of the workers a task was handed to.
THEOREM ClaimsStayBounded == Spec => []ClaimsBounded
<1> DEFINE AllCounted == \A t \in Tasks : Counted(t)
<1>1. Capped /\ AllCounted => ClaimsBounded
  BY DEF Capped, Counted, Tried, ClaimsBounded, BudgetCountsWorkers
<1>2. Init => Capped /\ AllCounted
  <2> SUFFICES ASSUME Init PROVE Capped /\ AllCounted
    OBVIOUS
  <2>1. InFlight = {} /\ (\A w \in Workers : InFlightOf(w) = {}) /\ (\A t \in Tasks : Tried(t) = {})
    BY DEF Init, InFlight, InFlightOf, Tried, Live, Attempts
  <2>2. \A t \in Tasks : attemptCount[t] = 0
    BY DEF Init
  <2> QED
    BY <2>1, <2>2, FS_EmptySet, Validate DEF Capped, InFlightBounded, Counted
<1>3. TypeOK /\ IInv /\ Capped /\ AllCounted /\ [Next]_vars => Capped' /\ AllCounted'
  <2> SUFFICES ASSUME TypeOK, IInv, Capped, AllCounted, [Next]_vars
               PROVE  Capped' /\ AllCounted'
    OBVIOUS
  <2>1. AllCounted'
    BY CountStep
  <2>2. ASSUME NEW t \in Tasks, DeleteTask(t)
        PROVE  Capped'
    <3>1. \A a \in Attempts : attState'[a] \in Live => attState[a] \in Live
      BY <2>2 DEF DeleteTask, Live
    <3> QED
      BY <3>1, CapsShrink
  <2>3. Capped'
    BY <2>2, StartsOnlyByClaim, CapsClaim, CapsShrink
  <2> QED
    BY <2>1, <2>3
<1> HIDE DEF AllCounted
<1>4. Spec => [](Capped /\ AllCounted)
  BY <1>2, <1>3, TypeCorrect, Inductive, PTL DEF Spec
<1> QED
  BY <1>1, <1>4, PTL

-----------------------------------------------------------------------------
(* AdmissionsAgree. *)

\* Which tasks a step can make active: the one enqueue inserts, and those that
\* were active already.  None is renamed, or lost while it is active.
LEMMA ActiveStep ==
  ASSUME TypeOK, IInv, [Next]_vars, NEW t \in Tasks
  PROVE  \/ /\ taskState'[t] \in Active => taskState[t] \in Active
            /\ taskState[t] \notin {"none", "deleted"} => taskState'[t] \notin {"none", "deleted"}
            /\ identity'[t] = identity[t]
         \/ DeleteTask(t)
         \/ \E r \in Requests \cup {Null}, i \in Identities : EnqueueNew(r, i, t)
<1> DEFINE Kept == /\ taskState'[t] \in Active => taskState[t] \in Active
                   /\ taskState[t] \notin {"none", "deleted"} =>
                         taskState'[t] \notin {"none", "deleted"}
                   /\ identity'[t] = identity[t]
<1>1. CASE UNCHANGED <<taskState[t], identity[t]>>
  BY <1>1
<1>2. ASSUME NEW r \in Requests \cup {Null}, NEW i \in Identities, NEW u \in Tasks,
             EnqueueNew(r, i, u), u # t
      PROVE  UNCHANGED <<taskState[t], identity[t]>>
  BY <1>2, RowTypes DEF EnqueueNew
<1>3. ASSUME NEW w \in Workers, NEW n \in ClaimLimits, Claim(w, n)
      PROVE  Kept
  <2>1. UNCHANGED identity
    BY <1>3 DEF Claim
  <2> QED
    BY <1>3, <2>1, ClaimsQueued DEF Active
<1>4. ASSUME NEW u \in Tasks, NEW w \in Workers, NEW terminal \in BOOLEAN,
             Report(u, w, terminal)
      PROVE  Kept
  <2>1. /\ taskState' = [taskState EXCEPT ![u] = Requeued(u, terminal)]
        /\ UNCHANGED identity /\ <<u, w>> \in Attempts /\ attState[<<u, w>>] \in Fenced
    BY <1>4 DEF Report, Attempts
  <2>2. taskState[u] = "running"
    BY <2>1, AttemptRow
  <2>3. Requeued(u, terminal) \in {"queued", "failed"}
    BY DEF Requeued
  <2> QED
    BY <2>1, <2>2, <2>3, RowTypes DEF Active
<1>5. ASSUME NEW p \in Procs, NEW label \in {"commit", "reset"}, StreamStage(p, label)
      PROVE  Kept
  <2>1. UNCHANGED identity
    BY <1>5 DEF StreamStage
  <2> QED
    BY <1>5, <2>1, StagesUploading, RowTypes DEF Active
<1>6. ASSUME NEW p \in Procs, CommitDone(p)
      PROVE  Kept
  <2>1. UNCHANGED identity
    BY <1>6 DEF CommitDone
  <2> QED
    BY <1>6, <2>1, CommitsStaged, RowTypes DEF Active
<1>7. ASSUME Expire
      PROVE  Kept
  <2>1. UNCHANGED identity
    BY <1>7 DEF Expire
  <2> QED
    BY <1>7, <2>1, ExpiresLive DEF Active
<1>8. ASSUME NEW u \in Tasks, DeleteTask(u), u # t
      PROVE  UNCHANGED <<taskState[t], identity[t]>>
  BY <1>8, RowTypes DEF DeleteTask
<1>9. ASSUME \/ Tick
             \/ \E r \in Requests \cup {Null}, i \in Identities, u \in Tasks : EnqueueJoin(r, i, u)
             \/ \E w \in Workers, ids \in SUBSET Tasks, cap \in Capacities : Heartbeat(w, ids, cap)
             \/ \E w \in Workers : Approve(w) \/ Enable(w) \/ Drain(w)
             \/ \E w \in Workers, status \in {"rejected", "revoked"} : Dismiss(w, status)
             \/ \E p \in Procs, u \in Tasks, w \in Workers, d \in Digests, g \in Gens :
                   UploadReserve(p, u, w, d, g)
             \/ \E p \in Procs : Archive(p)
             \/ \E u \in Tasks, recorded \in BOOLEAN : HookDelivered(u, recorded)
             \/ \E u \in Tasks : HookFailed(u)
             \/ UNCHANGED rowVars
      PROVE  UNCHANGED <<taskState, identity>>
  <2>1. CASE \E w \in Workers : \/ Approve(w) \/ Enable(w) \/ Drain(w)
                               \/ \E status \in {"rejected", "revoked"} : Dismiss(w, status)
    BY <2>1 DEF Approve, Enable, Drain, Dismiss, SetStatus
  <2>2. CASE \E w \in Workers, ids \in SUBSET Tasks, cap \in Capacities : Heartbeat(w, ids, cap)
    BY <2>2 DEF Heartbeat
  <2>3. CASE \E p \in Procs, u \in Tasks, w \in Workers, d \in Digests, g \in Gens :
                UploadReserve(p, u, w, d, g)
    BY <2>3 DEF UploadReserve
  <2> QED
    BY <1>9, <2>1, <2>2, <2>3
       DEF Tick, EnqueueJoin, Archive, HookDelivered, HookFailed, rowVars
<1> QED
  BY <1>1, <1>2, <1>3, <1>4, <1>5, <1>6, <1>7, <1>8, <1>9, Steps

\* Admissions change in enqueue, and in retention, which cascades to them.
LEMMA AdmissionStep ==
  ASSUME [Next]_vars
  PROVE  \/ UNCHANGED admission
         \/ \E r \in Requests \cup {Null}, i \in Identities, t \in Tasks :
               EnqueueNew(r, i, t) \/ EnqueueJoin(r, i, t)
         \/ \E t \in Tasks : DeleteTask(t)
<1>1. CASE \E w \in Workers : \/ Approve(w) \/ Enable(w) \/ Drain(w)
                             \/ \E status \in {"rejected", "revoked"} : Dismiss(w, status)
  BY <1>1 DEF Approve, Enable, Drain, Dismiss, SetStatus
<1>2. CASE \/ Tick \/ Expire \/ UNCHANGED rowVars
           \/ \E w \in Workers, n \in ClaimLimits : Claim(w, n)
           \/ \E t \in Tasks, w \in Workers, terminal \in BOOLEAN : Report(t, w, terminal)
           \/ \E p \in Procs, label \in {"commit", "reset"} : StreamStage(p, label)
           \/ \E p \in Procs : Archive(p) \/ CommitDone(p)
           \/ \E t \in Tasks, recorded \in BOOLEAN : HookDelivered(t, recorded)
           \/ \E t \in Tasks : HookFailed(t)
  BY <1>2 DEF Tick, Expire, Claim, Report, StreamStage, Archive, CommitDone, HookDelivered,
     HookFailed, rowVars
<1>3. CASE \E w \in Workers, ids \in SUBSET Tasks, cap \in Capacities : Heartbeat(w, ids, cap)
  BY <1>3 DEF Heartbeat
<1>4. CASE \E p \in Procs, t \in Tasks, w \in Workers, d \in Digests, g \in Gens :
              UploadReserve(p, t, w, d, g)
  BY <1>4 DEF UploadReserve
<1> QED
  BY <1>1, <1>2, <1>3, <1>4, Steps

\* An admission keeps naming a stored task of its own paper, and a paper has one
\* active task at most.
LEMMA AdmissionsNext ==
  ASSUME TypeOK, IInv, AdmissionsAgree, [Next]_vars
  PROVE  AdmissionsAgree'
<1>1. ASSUME NEW r \in Requests, admission'[r] # Null
      PROVE  /\ taskState'[admission'[r]] \notin {"none", "deleted"}
             /\ identity'[admission'[r]] = IdentityOf[r]
  <2>1. CASE admission'[r] = admission[r]
    <3>1. admission[r] \in Tasks /\ taskState[admission[r]] \notin {"none", "deleted"}
          /\ identity[admission[r]] = IdentityOf[r]
      BY <1>1, <2>1, RowTypes DEF AdmissionsAgree
    <3>2. ~DeleteTask(admission[r])
      BY <1>1, <2>1 DEF DeleteTask
    <3>3. \A q \in Requests \cup {Null}, i \in Identities : ~EnqueueNew(q, i, admission[r])
      BY <3>1 DEF EnqueueNew
    <3> QED
      BY <2>1, <3>1, <3>2, <3>3, ActiveStep
  <2>2. ASSUME NEW q \in Requests \cup {Null}, NEW i \in Identities, NEW t \in Tasks,
               EnqueueNew(q, i, t), admission'[r] # admission[r]
        PROVE  /\ taskState'[admission'[r]] \notin {"none", "deleted"}
               /\ identity'[admission'[r]] = IdentityOf[r]
    <3>1. q = r /\ admission'[r] = t /\ IdentityOf[r] = i
      BY <2>2, RowTypes, NullIsNothing DEF EnqueueNew, Admit, Admissible
    <3> QED
      BY <2>2, <3>1, RowTypes DEF EnqueueNew
  <2>3. ASSUME NEW q \in Requests \cup {Null}, NEW i \in Identities, NEW t \in Tasks,
               EnqueueJoin(q, i, t), admission'[r] # admission[r]
        PROVE  /\ taskState'[admission'[r]] \notin {"none", "deleted"}
               /\ identity'[admission'[r]] = IdentityOf[r]
    <3>1. q = r /\ admission'[r] = t /\ IdentityOf[r] = i
      BY <2>3, RowTypes, NullIsNothing DEF EnqueueJoin, Admit, Admissible
    <3> QED
      BY <2>3, <3>1 DEF EnqueueJoin, ActiveTasks, Active
  <2>4. ASSUME NEW t \in Tasks, DeleteTask(t)
        PROVE  admission'[r] = admission[r]
    BY <1>1, <2>4 DEF DeleteTask
  <2> QED
    BY <2>1, <2>2, <2>3, <2>4, AdmissionStep
<1>2. ASSUME NEW t \in Tasks, NEW u \in Tasks, taskState'[t] \in Active,
             taskState'[u] \in Active, t # u
      PROVE  identity'[t] # identity'[u]
  <2>1. ~DeleteTask(t) /\ ~DeleteTask(u)
    BY <1>2, RowTypes DEF DeleteTask, Active
  <2>2. ASSUME NEW v \in Tasks, NEW r \in Requests \cup {Null}, NEW i \in Identities,
               EnqueueNew(r, i, v)
        PROVE  /\ identity' = [identity EXCEPT ![v] = i]
               /\ taskState' = [taskState EXCEPT ![v] = "queued"]
               /\ \A x \in Tasks : taskState[x] \in Active => identity[x] # i
    BY <2>2 DEF EnqueueNew, ActiveTasks
  <2>3. CASE \E r \in Requests \cup {Null}, i \in Identities : EnqueueNew(r, i, t)
    <3>1. PICK r \in Requests \cup {Null}, i \in Identities : EnqueueNew(r, i, t)
      BY <2>3
    <3>2. /\ identity' = [identity EXCEPT ![t] = i]
          /\ taskState' = [taskState EXCEPT ![t] = "queued"]
          /\ \A v \in Tasks : taskState[v] \in Active => identity[v] # i
      BY <2>2, <3>1
    <3>3. taskState[u] \in Active
      BY <1>2, <3>2, RowTypes
    <3> QED
      BY <1>2, <3>2, <3>3, RowTypes
  <2>4. CASE \E r \in Requests \cup {Null}, i \in Identities : EnqueueNew(r, i, u)
    <3>1. PICK r \in Requests \cup {Null}, i \in Identities : EnqueueNew(r, i, u)
      BY <2>4
    <3>2. /\ identity' = [identity EXCEPT ![u] = i]
          /\ taskState' = [taskState EXCEPT ![u] = "queued"]
          /\ \A v \in Tasks : taskState[v] \in Active => identity[v] # i
      BY <2>2, <3>1
    <3>3. taskState[t] \in Active
      BY <1>2, <3>2, RowTypes
    <3> QED
      BY <1>2, <3>2, <3>3, RowTypes
  <2>5. CASE /\ taskState[t] \in Active /\ identity'[t] = identity[t]
             /\ taskState[u] \in Active /\ identity'[u] = identity[u]
    BY <1>2, <2>5 DEF AdmissionsAgree
  <2> QED
    BY <1>2, <2>1, <2>3, <2>4, <2>5, ActiveStep
<1> QED
  BY <1>1, <1>2 DEF AdmissionsAgree

\* A replayed admission finds a task of its own paper until retention deletes
\* both, and no paper ever has two active tasks.
THEOREM AdmissionsStayWithPaper == Spec => []AdmissionsAgree
<1>1. Init => AdmissionsAgree
  BY DEF Init, AdmissionsAgree, Active
<1>2. TypeOK /\ IInv /\ AdmissionsAgree /\ [Next]_vars => AdmissionsAgree'
  BY AdmissionsNext
<1> QED
  BY <1>1, <1>2, TypeCorrect, Inductive, PTL DEF Spec

-----------------------------------------------------------------------------
(* The spool quota: the reservations of all transfers together never exceed  *)
(* SpoolMaxBytes.  The sum is a fold of the community modules, a recursive    *)
(* function over sets; what it computes is proved by least counterexamples   *)
(* in place of an induction rule.                                            *)

\* Induction over the naturals, for a set of numbers.
LEMMA AllNaturals ==
  ASSUME NEW T, T \subseteq Nat, 0 \in T, \A k \in T : k + 1 \in T
  PROVE  T = Nat
<1> DEFINE U == Nat \ T
<1>1. SUFFICES ASSUME U # {} PROVE FALSE
  OBVIOUS
<1>2. PICK x \in U : \A y \in U : ~(<<y, x>> \in OpToRel(<, Nat))
  BY <1>1, NatLessThanWellFounded, WFMin
<1>3. x \in Nat /\ x # 0 /\ x \notin T
  OBVIOUS
<1>4. x - 1 \in Nat /\ x - 1 < x /\ (x - 1) + 1 = x
  BY <1>3
<1>5. <<x - 1, x>> \in OpToRel(<, Nat)
  BY <1>3, <1>4 DEF OpToRel
<1>6. x - 1 \in T
  BY <1>2, <1>4, <1>5
<1> QED
  BY <1>3, <1>4, <1>6

\* The element the fold takes from a set next, and the equation the fold's
\* iterator satisfies.
Pick(s) == CHOOSE x \in s : TRUE
Rest(s) == s \ {Pick(s)}
Sums(f, g) == g = [s \in SUBSET DOMAIN f |->
                     IF s = {} THEN 0 ELSE f[Pick(s)] + g[Rest(s)]]
\* Total is the fold of the community modules, unfolded.
LEMMA TotalIsFold ==
  ASSUME NEW f
  PROVE  Total(f) = (CHOOSE g : Sums(f, g))[DOMAIN f]
BY DEF Total, MapThenSumSet, MapThenFoldSet, Sums, Pick, Rest

\* Taking an element from a finite set makes it smaller by one.
LEMMA Smaller ==
  ASSUME NEW s, IsFiniteSet(s), NEW x \in s
  PROVE  /\ IsFiniteSet(s \ {x}) /\ Cardinality(s) \in Nat
         /\ Cardinality(s \ {x}) = Cardinality(s) - 1 /\ Cardinality(s) > 0
<1>1. /\ IsFiniteSet(s \ {x}) /\ Cardinality(s \ {x}) = Cardinality(s) - 1
      /\ Cardinality(s \ {x}) \in Nat /\ Cardinality(s) \in Nat
  BY FS_RemoveElement, FS_CardinalityType
<1> QED
  BY <1>1
\* What is left after the chosen element is smaller by one.
LEMMA PickSmaller ==
  ASSUME NEW s, IsFiniteSet(s), s # {}
  PROVE  /\ Pick(s) \in s /\ IsFiniteSet(Rest(s)) /\ Cardinality(s) \in Nat
         /\ Cardinality(Rest(s)) = Cardinality(s) - 1 /\ Cardinality(s) > 0
<1>1. Pick(s) \in s
  BY DEF Pick
<1> QED
  BY <1>1, Smaller DEF Rest

\* The iterator exists: it is built one cardinality at a time.
Iterate(f, g, s) == IF s = {} THEN 0 ELSE f[Pick(s)] + g[Rest(s)]
SumsUpTo(f, g, k) ==
    \A s \in SUBSET DOMAIN f : Cardinality(s) <= k => g[s] = Iterate(f, g, s)
\* The same of the subsets of a finite domain.
LEMMA Subsets ==
  ASSUME NEW D, IsFiniteSet(D), NEW s \in SUBSET D
  PROVE  /\ IsFiniteSet(s) /\ Cardinality(s) \in Nat /\ Cardinality(s) <= Cardinality(D)
         /\ s # {} => /\ Pick(s) \in s /\ Rest(s) \in SUBSET D
                      /\ Cardinality(Rest(s)) = Cardinality(s) - 1 /\ Cardinality(s) > 0
<1>1. IsFiniteSet(s) /\ Cardinality(s) \in Nat /\ Cardinality(s) <= Cardinality(D)
  BY FS_Subset, FS_CardinalityType
<1>2. Rest(s) \in SUBSET D
  BY DEF Rest
<1> QED
  BY <1>1, <1>2, PickSmaller
\* An iterator right up to k extends to one right up to k + 1.
LEMMA SumsGrow ==
  ASSUME NEW f, IsFiniteSet(DOMAIN f), NEW k \in Nat, NEW g, SumsUpTo(f, g, k)
  PROVE  \E h : SumsUpTo(f, h, k + 1)
<1> DEFINE D == SUBSET DOMAIN f
           h == [s \in D |-> IF Cardinality(s) <= k THEN g[s] ELSE Iterate(f, g, s)]
<1>1. ASSUME NEW s \in D, Cardinality(s) <= k + 1
      PROVE  h[s] = Iterate(f, h, s)
  <2>1. h[s] = Iterate(f, g, s)
    BY DEF SumsUpTo
  <2>2. s # {} => Rest(s) \in D /\ Cardinality(Rest(s)) <= k
    BY <1>1, Subsets
  <2>3. s # {} => h[Rest(s)] = g[Rest(s)]
    BY <2>2
  <2> QED
    BY <2>1, <2>3 DEF Iterate
<1>2. SumsUpTo(f, h, k + 1)
  BY <1>1 DEF SumsUpTo
<1> QED
  BY <1>2
\* So an iterator of the whole domain exists, by least counterexample.
LEMMA SumsExist ==
  ASSUME NEW f, IsFiniteSet(DOMAIN f)
  PROVE  \E g : Sums(f, g)
<1> DEFINE D == SUBSET DOMAIN f
           T == {k \in Nat : \E g : SumsUpTo(f, g, k)}
<1>1. 0 \in T
  <2> DEFINE g == [s \in D |-> 0]
  <2>1. SumsUpTo(f, g, 0)
    BY Subsets DEF SumsUpTo, Iterate
  <2> QED
    BY <2>1
<1>2. \A k \in T : k + 1 \in T
  BY SumsGrow
<1>3. T = Nat
  <2> HIDE DEF T
  <2>1. T \subseteq Nat
    BY DEF T
  <2> QED
    BY <1>1, <1>2, <2>1, AllNaturals
<1>4. Cardinality(DOMAIN f) \in T
  BY <1>3, FS_CardinalityType
<1>5. PICK g : SumsUpTo(f, g, Cardinality(DOMAIN f))
  BY <1>4
<1> DEFINE h == [s \in D |-> g[s]]
<1>6. \A s \in D : g[s] = Iterate(f, g, s)
  BY <1>5, Subsets DEF SumsUpTo
<1>7. \A s \in D : Iterate(f, g, s) = Iterate(f, h, s)
  BY Subsets DEF Iterate
<1>8. h = [s \in D |-> Iterate(f, h, s)]
  BY <1>6, <1>7
<1>9. Sums(f, h)
  BY <1>8 DEF Sums, Iterate
<1> QED
  BY <1>9


\* One step of the iterator, and what a chosen total is.
LEMMA SumsStep ==
  ASSUME NEW f, NEW g, Sums(f, g), NEW s \in SUBSET DOMAIN f
  PROVE  g[s] = Iterate(f, g, s)
BY DEF Sums, Iterate
Numbers(f) == IsFiniteSet(DOMAIN f) /\ \A x \in DOMAIN f : f[x] \in Nat
\* Total is what that iterator gives.
LEMMA TotalIsSum ==
  ASSUME NEW f, Numbers(f)
  PROVE  \E g : Sums(f, g) /\ Total(f) = g[DOMAIN f]
BY SumsExist, TotalIsFold DEF Numbers

\* The iterator takes the elements in an order of its own, and any order gives
\* the same sum: each element may be the first one taken.
AnyOrder(f, g, k) ==
    \A s \in SUBSET DOMAIN f : Cardinality(s) <= k =>
        g[s] \in Nat /\ \A x \in s : g[s] = f[x] + g[s \ {x}]
\* If order does not matter up to k, it does not up to k + 1.
LEMMA OrderGrows ==
  ASSUME NEW f, Numbers(f), NEW g, Sums(f, g), NEW k \in Nat, AnyOrder(f, g, k)
  PROVE  AnyOrder(f, g, k + 1)
<1> DEFINE D == SUBSET DOMAIN f
<1> SUFFICES ASSUME NEW s \in D, Cardinality(s) <= k + 1
             PROVE  g[s] \in Nat /\ \A x \in s : g[s] = f[x] + g[s \ {x}]
  BY DEF AnyOrder
<1>1. CASE s = {}
  BY <1>1, SumsStep DEF Iterate
<1>2. CASE s # {}
  <2> DEFINE p == Pick(s)
  <2>1. p \in s /\ s \ {p} \in D /\ Cardinality(s \ {p}) <= k /\ f[p] \in Nat
    BY <1>2, Subsets DEF Rest, Numbers
  <2>2. g[s] = f[p] + g[s \ {p}]
    <3>1. g[s] = Iterate(f, g, s)
      BY SumsStep
    <3> QED
      BY <1>2, <3>1 DEF Iterate, Rest
  <2>3. g[s] \in Nat
    BY <2>1, <2>2 DEF AnyOrder
  <2>4. ASSUME NEW x \in s, x # p
        PROVE  g[s] = f[x] + g[s \ {x}]
    <3>1. f[x] \in Nat /\ s \ {x} \in D /\ Cardinality(s \ {x}) <= k
      BY Subsets, Smaller DEF Numbers
    <3>2. g[s \ {p}] = f[x] + g[(s \ {p}) \ {x}]
      BY <2>1, <2>4 DEF AnyOrder
    <3>3. g[s \ {x}] = f[p] + g[(s \ {x}) \ {p}]
      BY <2>1, <2>4, <3>1 DEF AnyOrder
    <3>4. (s \ {x}) \ {p} = (s \ {p}) \ {x} /\ (s \ {x}) \ {p} \in D
      BY <3>1
    <3>5. Cardinality((s \ {x}) \ {p}) <= k
      <4>1. Cardinality((s \ {x}) \ {p}) <= Cardinality(s \ {x})
        BY <3>1, Subsets, FS_Subset DEF Numbers
      <4> QED
        BY <3>1, <3>4, <4>1, Subsets DEF Numbers
    <3>6. g[(s \ {x}) \ {p}] \in Nat
      BY <3>4, <3>5 DEF AnyOrder
    <3> DEFINE m == g[(s \ {x}) \ {p}]
    <3>7. g[s] = f[p] + (f[x] + m) /\ g[s \ {x}] = f[p] + m
      BY <2>2, <3>2, <3>3, <3>4
    <3> HIDE DEF m
    <3>8. m \in Nat /\ f[p] \in Nat
      BY <2>1, <3>6 DEF m
    <3> QED
      BY <3>1, <3>7, <3>8
  <2> QED
    BY <2>2, <2>3, <2>4
<1> QED
  BY <1>1, <1>2
\* The order of the elements never matters.
LEMMA SumsAnyOrder ==
  ASSUME NEW f, Numbers(f), NEW g, Sums(f, g)
  PROVE  \A k \in Nat : AnyOrder(f, g, k)
<1> DEFINE T == {k \in Nat : AnyOrder(f, g, k)}
<1>1. 0 \in T
  BY SumsStep, Subsets DEF AnyOrder, Iterate, Numbers
<1>2. \A k \in T : k + 1 \in T
  BY OrderGrows
<1> HIDE DEF T
<1>3. T = Nat
  <2>1. T \subseteq Nat
    BY DEF T
  <2> QED
    BY <1>1, <1>2, <2>1, AllNaturals
<1> QED
  BY <1>3 DEF T

\* The sums of a function over a set depend on its values there alone.
Alike(f, g, e, h, k) ==
    \A s \in SUBSET DOMAIN e : Cardinality(s) <= k => g[s] = h[s]
\* Iterators of functions that agree agree, one element further.
LEMMA AlikeGrows ==
  ASSUME NEW f, Numbers(f), NEW g, Sums(f, g), NEW e, NEW h, Sums(e, h),
         DOMAIN e \subseteq DOMAIN f, \A x \in DOMAIN e : e[x] = f[x],
         NEW k \in Nat, Alike(f, g, e, h, k)
  PROVE  Alike(f, g, e, h, k + 1)
<1> SUFFICES ASSUME NEW s \in SUBSET DOMAIN e, Cardinality(s) <= k + 1
             PROVE  g[s] = h[s]
  BY DEF Alike
<1>1. s \in SUBSET DOMAIN f
  OBVIOUS
<1>2. g[s] = Iterate(f, g, s) /\ h[s] = Iterate(e, h, s)
  BY <1>1, SumsStep
<1>3. CASE s = {}
  BY <1>2, <1>3 DEF Iterate
<1>4. CASE s # {}
  <2>1. Pick(s) \in s /\ Cardinality(Rest(s)) <= k /\ Rest(s) \in SUBSET DOMAIN e
    BY <1>1, <1>4, Subsets DEF Numbers, Rest
  <2>2. g[Rest(s)] = h[Rest(s)] /\ f[Pick(s)] = e[Pick(s)]
    BY <2>1 DEF Alike
  <2> QED
    BY <1>2, <1>4, <2>2 DEF Iterate
<1> QED
  BY <1>3, <1>4
\* A function and its restriction have the same sum on the smaller domain.
LEMMA SumsAlike ==
  ASSUME NEW f, Numbers(f), NEW g, Sums(f, g), NEW e, NEW h, Sums(e, h),
         DOMAIN e \subseteq DOMAIN f, \A x \in DOMAIN e : e[x] = f[x]
  PROVE  g[DOMAIN e] = h[DOMAIN e]
<1> DEFINE T == {k \in Nat : Alike(f, g, e, h, k)}
<1>1. 0 \in T
  <2> SUFFICES ASSUME NEW s \in SUBSET DOMAIN e, Cardinality(s) <= 0
               PROVE  g[s] = h[s]
    BY DEF Alike
  <2>1. s = {}
    BY Subsets DEF Numbers
  <2> QED
    BY <2>1, SumsStep DEF Iterate
<1>2. \A k \in T : k + 1 \in T
  BY AlikeGrows
<1> HIDE DEF T
<1>3. T = Nat
  <2>1. T \subseteq Nat
    BY DEF T
  <2> QED
    BY <1>1, <1>2, <2>1, AllNaturals
<1>4. Cardinality(DOMAIN e) \in T
  BY <1>3, Subsets DEF Numbers
<1> QED
  BY <1>4 DEF T, Alike

\* What Total promises: one element's number and the rest, in any order.
LEMMA TotalRemove ==
  ASSUME NEW f, Numbers(f), NEW x \in DOMAIN f
  PROVE  LET e == [y \in DOMAIN f \ {x} |-> f[y]]
         IN  /\ Numbers(e) /\ Total(f) \in Nat /\ Total(e) \in Nat
             /\ Total(f) = f[x] + Total(e)
<1> DEFINE D == DOMAIN f
           e == [y \in D \ {x} |-> f[y]]
<1>1. DOMAIN e = D \ {x} /\ Numbers(e)
  BY Smaller DEF Numbers
<1> HIDE DEF e
<1>2. PICK g : Sums(f, g) /\ Total(f) = g[D]
  BY TotalIsSum
<1>3. PICK h : Sums(e, h) /\ Total(e) = h[DOMAIN e]
  BY <1>1, TotalIsSum
<1>4. \A y \in DOMAIN e : e[y] = f[y]
  BY <1>1 DEF e
<1>5. g[DOMAIN e] = h[DOMAIN e]
  BY <1>1, <1>2, <1>3, <1>4, SumsAlike
<1>6. Cardinality(D) \in Nat /\ AnyOrder(f, g, Cardinality(D))
  BY <1>2, Subsets, SumsAnyOrder DEF Numbers
<1>7. g[D] \in Nat /\ g[D] = f[x] + g[D \ {x}]
  BY <1>6 DEF AnyOrder
<1>8. Cardinality(D \ {x}) <= Cardinality(D)
  BY Subsets DEF Numbers
<1>9. g[D \ {x}] \in Nat
  BY <1>6, <1>8 DEF AnyOrder
<1> QED
  BY <1>1, <1>2, <1>3, <1>5, <1>7, <1>9 DEF e
\* Nothing sums to zero.
LEMMA TotalEmpty ==
  ASSUME NEW f, DOMAIN f = {}
  PROVE  Total(f) = 0
<1>1. Numbers(f)
  BY FS_EmptySet DEF Numbers
<1>2. PICK g : Sums(f, g) /\ Total(f) = g[DOMAIN f]
  BY <1>1, TotalIsSum
<1> QED
  BY <1>2, SumsStep DEF Iterate

\* Naturals sum to a natural.
LEMMA TotalNat ==
  ASSUME NEW f, Numbers(f)
  PROVE  Total(f) \in Nat
<1>1. CASE DOMAIN f = {}
  BY <1>1, TotalEmpty
<1>2. ASSUME NEW x \in DOMAIN f
      PROVE  Total(f) \in Nat
  BY TotalRemove
<1> QED
  BY <1>1, <1>2

-----------------------------------------------------------------------------
(* The reservations of a table of attempts, and of the table without one.    *)
Held(S, path) == {a \in S : path[a] # Null}
Bytes(S, path, digest) == [a \in Held(S, path) |-> Size[digest[a]]]
Declared(path, digest) ==
    /\ IsFiniteSet(Held(Attempts, path))
    /\ \A a \in Held(Attempts, path) : digest[a] \in Digests
\* One attempt, taken out of the sum, leaves the sum of the others.
LEMMA TakeOne ==
  ASSUME NEW path, NEW digest, Declared(path, digest), NEW a \in Attempts
  PROVE  LET others == Total(Bytes(Attempts \ {a}, path, digest))
             all    == Total(Bytes(Attempts, path, digest))
         IN  /\ others \in Nat /\ all \in Nat /\ others <= all
             /\ path[a] # Null => all = Size[digest[a]] + others
<1> DEFINE f == Bytes(Attempts, path, digest)
           e == Bytes(Attempts \ {a}, path, digest)
<1>1. DOMAIN f = Held(Attempts, path) /\ Numbers(f)
  BY ConstantTypes DEF Declared, Bytes, Numbers
<1>2. CASE path[a] = Null
  <2>1. e = f
    BY <1>2 DEF Bytes, Held
  <2> QED
    BY <1>1, <1>2, <2>1, TotalNat
<1>3. CASE path[a] # Null
  <2>1. a \in DOMAIN f /\ f[a] = Size[digest[a]] /\ f[a] \in Nat
    BY <1>1, <1>3 DEF Bytes, Held, Numbers
  <2>2. e = [y \in DOMAIN f \ {a} |-> f[y]]
    BY DEF Bytes, Held
  <2>3. Total(f) \in Nat /\ Total(e) \in Nat /\ Total(f) = f[a] + Total(e)
    BY <1>1, <2>1, <2>2, TotalRemove
  <2> QED
    BY <1>3, <2>1, <2>3
<1> QED
  BY <1>2, <1>3
\* Reserved, before and after a step, as a sum of declared bytes.
LEMMA ReservedBytes ==
  ASSUME NEW S
  PROVE  /\ Reserved(S) = Total(Bytes(S, spoolPath, sha))
         /\ Reserved(S)' = Total(Bytes(S, spoolPath', sha'))
<1>1. Reserved(S) = Total(Bytes(S, spoolPath, sha))
  BY DEF Reserved, Holding, Bytes, Held
<1>2. Reserved(S)' = Total(Bytes(S, spoolPath', sha'))
  BY DEF Reserved, Holding, Bytes, Held
<1> QED
  BY <1>1, <1>2

\* What the quota rests on: finitely many attempts hold a path, each with the
\* digest of its upload.
QuotaInv == Declared(spoolPath, sha) /\ SpoolWithinQuota

\* The steps that touch a path or a digest.
LEMMA PathSteps ==
  ASSUME [Next]_vars
  PROVE  \/ \E p \in Procs, t \in Tasks, w \in Workers, d \in Digests, g \in Gens :
               UploadReserve(p, t, w, d, g)
         \/ \E p \in Procs : ResetTransfer(p) \/ CleanClear(p)
         \/ \E t \in Tasks : DeleteTask(t)
         \/ UNCHANGED <<spoolPath, sha>>
<1>1. ASSUME Scheduler \/ Admin
      PROVE  UNCHANGED <<spoolPath, sha>>
  <2>1. ASSUME Scheduler
        PROVE  UNCHANGED bodyVars
    BY <2>1 DEF Scheduler, EnqueueNew, EnqueueJoin, Claim, Heartbeat, Report
  <2>2. ASSUME Admin
        PROVE  UNCHANGED bodyVars
    BY <2>2 DEF Admin, Approve, Enable, Drain, Dismiss, SetStatus
  <2> QED
    BY <1>1, <2>1, <2>2
<1>2. ASSUME NEW p \in Procs, Transfer(p)
      PROVE  \/ \E t \in Tasks, w \in Workers, d \in Digests, g \in Gens :
                   UploadReserve(p, t, w, d, g)
             \/ ResetTransfer(p)
             \/ UNCHANGED <<spoolPath, sha>>
  BY <1>2 DEF Transfer, StreamLock, OpenFile, StreamStage, StreamCommitFailed, StreamFail
<1>3. ASSUME NEW p \in Procs, Commit(p)
      PROVE  CleanClear(p) \/ UNCHANGED <<spoolPath, sha>>
  BY <1>3 DEF Commit, CommitLock, CommitSkip, Archive, ArchiveFail, CommitDone, CleanRemove
<1>4. ASSUME Retain
      PROVE  (\E t \in Tasks : DeleteTask(t)) \/ UNCHANGED <<spoolPath, sha>>
  BY <1>4 DEF Retain, SweepOrphan, Expire, HookDelivered, HookFailed
<1>5. ASSUME \/ \E t \in Tasks, w \in Workers, d \in Digests : UploadRefused(t, w, d)
             \/ \E p \in Procs : Crash(p) \/ SessionLost(p)
             \/ \E b \in Budgets : Reconfigure(b)
             \/ Tick \/ Expire \/ UNCHANGED vars
             \/ \E t \in Tasks, recorded \in BOOLEAN : HookDelivered(t, recorded)
             \/ \E t \in Tasks : HookFailed(t)
      PROVE  UNCHANGED <<spoolPath, sha>>
  BY <1>5 DEF UploadRefused, Crash, SessionLost, Reconfigure, Tick, Expire,
     HookDelivered, HookFailed, vars
<1> QED
  BY <1>1, <1>2, <1>3, <1>4, <1>5 DEF Next

\* A reservation replaces what the attempt had declared before.
LEMMA QuotaReserve ==
  ASSUME TypeOK, QuotaInv, NEW p \in Procs, NEW t \in Tasks, NEW w \in Workers,
         NEW d \in Digests, NEW g \in Gens, UploadReserve(p, t, w, d, g)
  PROVE  QuotaInv'
<1> DEFINE a == <<t, w>>
<1>1. a \in Attempts
  BY DEF Attempts
<1>2. /\ spoolPath' = [spoolPath EXCEPT ![a] = g] /\ sha' = [sha EXCEPT ![a] = d]
      /\ Size[d] <= SpoolMaxBytes - Reserved(Attempts \ {a})
  BY DEF UploadReserve, UploadAccepted
<1>3. spoolPath \in [Attempts -> Gens \cup {Null}] /\ sha \in [Attempts -> Digests \cup {Null}]
  BY DEF TypeOK
<1> HIDE DEF a
<1>4. spoolPath'[a] = g /\ sha'[a] = d /\ g # Null
  BY <1>1, <1>2, <1>3, NullIsNothing
<1>5. \A b \in Attempts \ {a} : spoolPath'[b] = spoolPath[b] /\ sha'[b] = sha[b]
  BY <1>2, <1>3
<1>6. Declared(spoolPath', sha')
  <2>1. Held(Attempts, spoolPath') = Held(Attempts, spoolPath) \cup {a}
    BY <1>1, <1>4, <1>5 DEF Held
  <2>2. IsFiniteSet(Held(Attempts, spoolPath'))
    BY <2>1, FS_AddElement DEF QuotaInv, Declared
  <2> QED
    BY <1>4, <1>5, <2>2 DEF QuotaInv, Declared, Held
<1>7. Bytes(Attempts \ {a}, spoolPath', sha') = Bytes(Attempts \ {a}, spoolPath, sha)
  BY <1>5 DEF Bytes, Held
<1>8. Reserved(Attempts)' = Size[d] + Reserved(Attempts \ {a})
  BY <1>1, <1>4, <1>6, <1>7, TakeOne, ReservedBytes
<1>9. Reserved(Attempts \ {a}) \in Nat
  BY <1>1, TakeOne, ReservedBytes DEF QuotaInv
<1> QED
  BY <1>2, <1>6, <1>8, <1>9, ConstantTypes DEF QuotaInv, SpoolWithinQuota

\* Giving a path back gives its bytes back.
LEMMA QuotaRelease ==
  ASSUME TypeOK, QuotaInv, NEW a \in Attempts, sha' = sha,
         spoolPath' = [spoolPath EXCEPT ![a] = Null]
  PROVE  QuotaInv'
<1>1. \A b \in Attempts : spoolPath'[b] = IF b = a THEN Null ELSE spoolPath[b]
  BY DEF TypeOK
<1>2. Held(Attempts, spoolPath') = Held(Attempts \ {a}, spoolPath)
  BY <1>1 DEF Held
<1>3. Held(Attempts, spoolPath') \subseteq Held(Attempts, spoolPath)
  BY <1>2 DEF Held
<1>4. Declared(spoolPath', sha')
  BY <1>3, FS_Subset DEF QuotaInv, Declared
<1>5. Bytes(Attempts, spoolPath', sha') = Bytes(Attempts \ {a}, spoolPath, sha)
  BY <1>2 DEF Bytes
<1>6. /\ Reserved(Attempts)' \in Nat /\ Reserved(Attempts) \in Nat
      /\ Reserved(Attempts)' <= Reserved(Attempts)
  <2>1. Declared(spoolPath, sha)
    BY DEF QuotaInv
  <2>2. /\ Reserved(Attempts) = Total(Bytes(Attempts, spoolPath, sha))
        /\ Reserved(Attempts)' = Total(Bytes(Attempts \ {a}, spoolPath, sha))
    BY <1>5, ReservedBytes
  <2> QED
    BY <2>1, <2>2, TakeOne
<1> QED
  BY <1>4, <1>6, ConstantTypes DEF QuotaInv, SpoolWithinQuota

\* Every step keeps the quota.
LEMMA QuotaNext ==
  ASSUME TypeOK, QuotaInv, [Next]_vars
  PROVE  QuotaInv'
<1>1. ASSUME NEW p \in Procs, NEW t \in Tasks, NEW w \in Workers, NEW d \in Digests,
             NEW g \in Gens, UploadReserve(p, t, w, d, g)
      PROVE  QuotaInv'
  BY <1>1, QuotaReserve
<1>2. CASE UNCHANGED <<spoolPath, sha>>
  BY <1>2, ReservedBytes DEF QuotaInv, SpoolWithinQuota
<1>3. ASSUME NEW p \in Procs, ResetTransfer(p) \/ CleanClear(p)
      PROVE  QuotaInv'
  <2>1. pa[p] \in Attempts
    BY <1>3, Types DEF ResetTransfer, CleanClear
  <2>2. sha' = sha /\ (\/ spoolPath' = spoolPath
                       \/ spoolPath' = [spoolPath EXCEPT ![pa[p]] = Null])
    BY <1>3 DEF ResetTransfer, CleanClear
  <2> QED
    BY <1>2, <2>1, <2>2, QuotaRelease
<1>4. ASSUME NEW t \in Tasks, DeleteTask(t)
      PROVE  QuotaInv'
  <2>1. spoolPath' = spoolPath /\ \A w \in Workers : spoolPath[<<t, w>>] = Null
    BY <1>4 DEF DeleteTask
  <2>2. sha' = [a \in Attempts |-> IF a[1] = t THEN Null ELSE sha[a]]
    BY <1>4 DEF DeleteTask
  <2>3. \A a \in Held(Attempts, spoolPath) : sha'[a] = sha[a]
    BY <2>1, <2>2, Parts DEF Held
  <2>4. Bytes(Attempts, spoolPath', sha') = Bytes(Attempts, spoolPath, sha)
    BY <2>1, <2>3 DEF Bytes
  <2>5. Declared(spoolPath', sha')
    BY <2>1, <2>3 DEF QuotaInv, Declared
  <2> QED
    BY <2>4, <2>5, ReservedBytes DEF QuotaInv, SpoolWithinQuota
<1> QED
  BY <1>1, <1>2, <1>3, <1>4, PathSteps

\* However uploads, retries, resets, clean-ups and crashes interleave, the
\* transfers together never reserve more than SpoolMaxBytes.
THEOREM SpoolStaysWithinQuota == Spec => []SpoolWithinQuota
<1>1. Init => QuotaInv
  <2> SUFFICES ASSUME Init PROVE QuotaInv
    OBVIOUS
  <2>1. Held(Attempts, spoolPath) = {}
    BY DEF Init, Held
  <2>2. Total(Bytes(Attempts, spoolPath, sha)) = 0
    BY <2>1, TotalEmpty DEF Bytes
  <2>3. Reserved(Attempts) = 0
    BY <2>2, ReservedBytes
  <2> QED
    BY <2>1, <2>3, FS_EmptySet, ConstantTypes DEF QuotaInv, Declared, SpoolWithinQuota
<1>2. TypeOK /\ QuotaInv /\ [Next]_vars => QuotaInv'
  BY QuotaNext
<1>3. QuotaInv => SpoolWithinQuota
  BY DEF QuotaInv
<1> QED
  BY <1>1, <1>2, <1>3, TypeCorrect, PTL DEF Spec

\* Papers that share the spool: the quota holds and admissions stay with their
\* papers, for any sizes and any number of workers and requests.
THEOREM PapersAlwaysShareSpool == Spec => []PapersShareSpool
BY SpoolStaysWithinQuota, AdmissionsStayWithPaper, PTL DEF PapersShareSpool

-----------------------------------------------------------------------------
(* DownloadFleet implements FleetPromise.                                    *)

\* What a receipt says, case by case.
LEMMA Receipts ==
  ASSUME NEW task \in TaskStates, NEW attempt \in AttStates
  PROVE  /\ task = "deleted" => Receipt(task, attempt) = "forgotten"
         /\ task # "deleted" =>
               /\ attempt \in Fenced => Receipt(task, attempt) = "working"
               /\ attempt = "staged" => Receipt(task, attempt) = "accepted"
               /\ attempt \notin Fenced \cup {"staged"} =>
                     Receipt(task, attempt) = attempt
<1>1. CASE attempt \in Fenced
  BY <1>1 DEF Receipt, Fenced
<1>2. CASE attempt = "staged"
  BY <1>2 DEF Receipt, Fenced
<1>3. CASE attempt \notin Fenced \cup {"staged"}
  BY <1>3 DEF Receipt, Fenced
<1> QED
  BY <1>1, <1>2, <1>3

\* The task and the worker of an attempt.
LEMMA AttemptParts ==
  ASSUME NEW a \in Attempts
  PROVE  a[1] \in Tasks /\ a[2] \in Workers /\ a = <<a[1], a[2]>>
BY DEF Attempts

\* A step the promise does not see.
LEMMA Stutters ==
  ASSUME \A a \in Attempts : OutcomeOf(a)' = OutcomeOf(a), archived' = archived
  PROVE  UNCHANGED Promise!promiseVars
BY DEF Promise!promiseVars

\* A step after which the attempts of S, and no others, have outcome o.
LEMMA Becomes ==
  ASSUME NEW S, NEW o, 
         \A a \in Attempts : OutcomeOf(a)' = IF a \in S THEN o ELSE OutcomeOf(a)
  PROVE  Promise!Become(S, o)
BY DEF Promise!Become, Promise!PAttempts, Attempts

\* A step that moves one attempt to state s and its task to state u.
LEMMA OneBecomes ==
  ASSUME TypeOK, NEW a \in Attempts, NEW s \in AttStates, NEW u \in TaskStates,
         attState' = [attState EXCEPT ![a] = s],
         taskState' = [taskState EXCEPT ![a[1]] = u],
         u # "deleted", taskState[a[1]] # "deleted"
  PROVE  Promise!Become({a}, Receipt(u, s))
<1>1. attState \in [Attempts -> AttStates] /\ taskState \in [Tasks -> TaskStates]
  BY DEF TypeOK
<1> SUFFICES ASSUME NEW b \in Attempts
             PROVE  OutcomeOf(b)' = IF b = a THEN Receipt(u, s) ELSE OutcomeOf(b)
  BY Becomes
<1>2. CASE b = a
  BY <1>1, <1>2, AttemptParts DEF OutcomeOf
<1>3. CASE b # a
  <2>1. taskState'[b[1]] # "deleted" <=> taskState[b[1]] # "deleted"
    BY <1>1, AttemptParts
  <2>2. attState'[b] = attState[b] /\ Receipt(taskState'[b[1]], attState[b])
                                      = Receipt(taskState[b[1]], attState[b])
    BY <1>1, <1>3, <2>1 DEF Receipt
  <2> QED
    BY <1>3, <2>2 DEF OutcomeOf
<1> QED
  BY <1>2, <1>3

\* The promise's own names for the states and values of the mapping.
LEMMA MappedNames ==
  /\ Promise!PAttempts = Attempts
  /\ Promise!PLive = {"working", "accepted"}
  /\ Promise!promiseVars = <<[a \in Attempts |-> OutcomeOf(a)], {f[1] : f \in archived}>>
BY DEF Promise!PAttempts, Promise!PLive, Promise!promiseVars, Attempts

\* Initially every receipt is empty and the archive has nothing.
LEMMA RefinesInit == Init => Promise!PromiseInit
<1> SUFFICES ASSUME Init PROVE Promise!PromiseInit
  OBVIOUS
<1>1. \A a \in Attempts : OutcomeOf(a) = "none"
  BY AttemptParts, Receipts DEF Init, OutcomeOf, Fenced, TaskStates, AttStates
<1>2. archived = {}
  BY DEF Init
<1> QED
  BY <1>1, <1>2, MappedNames DEF Promise!PromiseInit

\* Steps that change no task state, no attempt state and no archived file.
LEMMA RefinesQuiet ==
  ASSUME UNCHANGED <<taskState, attState, archived>>
  PROVE  UNCHANGED Promise!promiseVars
BY Stutters DEF OutcomeOf

\* enqueue inserts a queued row: no attempt has started.
LEMMA RefinesEnqueueNew ==
  ASSUME TypeOK, NEW r \in Requests \cup {Null}, NEW i \in Identities,
         NEW t \in Tasks, EnqueueNew(r, i, t)
  PROVE  UNCHANGED Promise!promiseVars
<1>1. /\ taskState \in [Tasks -> TaskStates] /\ taskState[t] = "none"
      /\ taskState' = [taskState EXCEPT ![t] = "queued"]
      /\ UNCHANGED <<attState, archived>> /\ attState \in [Attempts -> AttStates]
  BY DEF EnqueueNew, TypeOK
<1>2. \A a \in Attempts : OutcomeOf(a)' = OutcomeOf(a)
  BY <1>1, AttemptParts, Receipts DEF OutcomeOf, TaskStates, AttStates
<1> QED
  BY <1>1, <1>2, Stutters

\* upload's reservation: to the promise the attempt is still being worked on.
LEMMA RefinesUploadReserve ==
  ASSUME TypeOK, NEW p \in Procs, NEW t \in Tasks, NEW w \in Workers,
         NEW d \in Digests, NEW g \in Gens, UploadReserve(p, t, w, d, g)
  PROVE  UNCHANGED Promise!promiseVars
<1>1. /\ attState \in [Attempts -> AttStates] /\ taskState \in [Tasks -> TaskStates]
      /\ <<t, w>> \in Attempts /\ attState[<<t, w>>] \in Fenced
      /\ attState' = [attState EXCEPT ![<<t, w>>] = "uploading"]
      /\ UNCHANGED <<taskState, archived>>
  BY DEF UploadReserve, UploadAdmitted, TypeOK, Attempts
<1>2. \A a \in Attempts : OutcomeOf(a)' = OutcomeOf(a)
  BY <1>1, AttemptParts, Receipts DEF OutcomeOf, AttStates, Fenced
<1> QED
  BY <1>1, <1>2, Stutters

\* claim maps to PAssign: a claimed task was queued, so no attempt at it is live
\* or done, and this worker had none.
LEMMA RefinesClaim ==
  ASSUME TypeOK, LiveAttemptIsCurrent, NEW w \in Workers, NEW n \in ClaimLimits,
         Claim(w, n)
  PROVE  Promise!PAssign(w, Chosen(w, n))
<1> DEFINE chosen == Chosen(w, n)
<1>1. /\ chosen # {} /\ chosen \subseteq Tasks
      /\ \A t \in chosen : taskState[t] = "queued" /\ attState[<<t, w>>] = "none"
  BY DEF Claim, Chosen, Claimable
<1>2. /\ taskState' = [t \in Tasks |-> IF t \in chosen THEN "running" ELSE taskState[t]]
      /\ attState' = [a \in Attempts |->
                        IF a[2] = w /\ a[1] \in chosen THEN "running" ELSE attState[a]]
      /\ archived' = archived
  BY DEF Claim
<1>3. taskState \in [Tasks -> TaskStates] /\ attState \in [Attempts -> AttStates]
  BY DEF TypeOK
<1> HIDE DEF chosen
<1>4. \A t \in chosen : Promise!PFree(t)
  <2> TAKE t \in chosen
  <2> SUFFICES ASSUME NEW v \in Workers
               PROVE  OutcomeOf(<<t, v>>) \notin {"working", "accepted", "done", "forgotten"}
    BY <1>1, MappedNames DEF Promise!PFree, Attempts
  <2>1. <<t, v>> \in Attempts /\ RowsAgree(t)
    BY <1>1 DEF Attempts, LiveAttemptIsCurrent
  <2>2. attState[<<t, v>>] \notin Fenced \cup {"staged", "done"}
    BY <1>1, <2>1 DEF RowsAgree
  <2>3. OutcomeOf(<<t, v>>) = Receipt("queued", attState[<<t, v>>])
    BY <1>1 DEF OutcomeOf
  <2>4. OutcomeOf(<<t, v>>) = attState[<<t, v>>]
    BY <1>3, <2>1, <2>2, <2>3, Receipts DEF TaskStates
  <2> QED
    BY <1>3, <2>1, <2>2, <2>4 DEF AttStates, Fenced
<1>5. \A t \in chosen : OutcomeOf(<<t, w>>) = "none"
  BY <1>1, <1>3, Receipts DEF OutcomeOf, Attempts, Fenced
<1>6. Promise!Become(chosen \X {w}, "working")
  <2> SUFFICES ASSUME NEW a \in Attempts
               PROVE  OutcomeOf(a)' = IF a \in chosen \X {w} THEN "working" ELSE OutcomeOf(a)
    BY Becomes
  <2>1. a[1] \in Tasks /\ a \in chosen \X {w} <=> a[2] = w /\ a[1] \in chosen
    BY AttemptParts
  <2>2. CASE a[2] = w /\ a[1] \in chosen
    BY <1>2, <2>1, <2>2, Receipts DEF OutcomeOf, Fenced, TaskStates, AttStates
  <2>3. CASE a[1] \in chosen /\ a[2] # w
    <3>1. OutcomeOf(a)' = Receipt("running", attState[a])
      BY <1>2, <2>1, <2>3, AttemptParts DEF OutcomeOf
    <3>2. OutcomeOf(a) = Receipt("queued", attState[a])
      BY <1>1, <2>3 DEF OutcomeOf
    <3>3. Receipt("running", attState[a]) = Receipt("queued", attState[a])
      BY DEF Receipt
    <3> QED
      BY <2>1, <2>3, <3>1, <3>2, <3>3
  <2>4. CASE a[1] \notin chosen
    BY <1>2, <2>1, <2>4, AttemptParts DEF OutcomeOf
  <2> QED
    BY <2>2, <2>3, <2>4
<1>7. UNCHANGED {f[1] : f \in archived}
  BY <1>2
<1>8. \A t \in chosen : [a \in Attempts |-> OutcomeOf(a)][<<t, w>>] = "none"
  BY <1>1, <1>5 DEF Attempts
<1> QED
  BY <1>1, <1>4, <1>6, <1>7, <1>8 DEF Promise!PAssign, chosen

\* report maps to PRefuse: the attempt was still bound by its lease.
LEMMA RefinesReport ==
  ASSUME TypeOK, LiveAttemptIsCurrent, NEW t \in Tasks, NEW w \in Workers,
         NEW terminal \in BOOLEAN, Report(t, w, terminal)
  PROVE  Promise!PRefuse(<<t, w>>)
<1> DEFINE a == <<t, w>>
<1>1. /\ attState \in [Attempts -> AttStates] /\ taskState \in [Tasks -> TaskStates]
      /\ a \in Attempts /\ a[1] = t /\ RowsAgree(t) /\ attState[a] \in Fenced
      /\ attState' = [attState EXCEPT ![a] = "failed"]
      /\ taskState' = [taskState EXCEPT ![t] = Requeued(t, terminal)]
      /\ archived' = archived
  BY DEF Report, TypeOK, Attempts, LiveAttemptIsCurrent
<1>2. taskState[t] = "running" /\ Requeued(t, terminal) \in {"queued", "failed"}
  BY <1>1 DEF RowsAgree, Requeued
<1> HIDE DEF a
<1>3. OutcomeOf(a) = "working"
  BY <1>1, <1>2, Receipts DEF OutcomeOf
<1>4. Promise!Become({a}, "failed")
  <2>1. Requeued(t, terminal) \in TaskStates \ {"deleted"} /\ "failed" \in AttStates \ Fenced
        /\ taskState[a[1]] # "deleted"
    BY <1>1, <1>2 DEF TaskStates, AttStates, Fenced
  <2>2. Receipt(Requeued(t, terminal), "failed") = "failed"
    BY <2>1, Receipts DEF Fenced
  <2> QED
    BY <1>1, <2>1, <2>2, OneBecomes
<1> QED
  BY <1>1, <1>3, <1>4 DEF Promise!PRefuse, a

\* staging maps to PAccept: the lock holder's generation is still the attempt's,
\* so the attempt is uploading.
LEMMA RefinesStreamStage ==
  ASSUME TypeOK, IInv, NEW p \in Procs, NEW label, StreamStage(p, label)
  PROVE  pa[p] \in Attempts /\ Promise!PAccept(pa[p])
<1> DEFINE a == pa[p]
<1>1. /\ attState \in [Attempts -> AttStates] /\ taskState \in [Tasks -> TaskStates]
      /\ a \in Attempts /\ a[1] \in Tasks /\ a[2] \in Workers /\ a = <<a[1], a[2]>>
      /\ attState' = [attState EXCEPT ![a] = "staged"]
      /\ taskState' = [taskState EXCEPT ![a[1]] = "staged"]
      /\ archived' = archived
  BY Types DEF StreamStage, Stageable, TypeOK
<1>2. WriterOwns(p) /\ RowsAgree(a[1])
  BY <1>1 DEF IInv, LiveAttemptIsCurrent
<1>3. attState[a] = "uploading"
  BY <1>2 DEF WriterOwns, Owns, StreamStage, Stageable
<1> HIDE DEF a
<1>4. taskState[a[1]] = "running"
  BY <1>1, <1>2, <1>3 DEF RowsAgree, Fenced
<1>5. OutcomeOf(a) = "working"
  BY <1>1, <1>3, <1>4, Receipts DEF OutcomeOf, Fenced
<1>6. Promise!Become({a}, "accepted")
  BY <1>1, <1>4, OneBecomes, Receipts DEF TaskStates, AttStates, Fenced
<1>7. UNCHANGED {f[1] : f \in archived}
  BY <1>1
<1> QED
  BY <1>1, <1>5, <1>6, <1>7 DEF Promise!PAccept, a

\* The archive commit maps to PFinish: the committer still holds the lock, its
\* attempt is staged and its file has been given to the archive.
LEMMA RefinesCommitDone ==
  ASSUME TypeOK, IInv, NEW p \in Procs, CommitDone(p)
  PROVE  pa[p] \in Attempts /\ Promise!PFinish(pa[p])
<1> DEFINE a == pa[p]
<1>1. /\ attState \in [Attempts -> AttStates] /\ taskState \in [Tasks -> TaskStates]
      /\ a \in Attempts /\ a[1] \in Tasks /\ a[2] \in Workers /\ a = <<a[1], a[2]>>
      /\ attState' = [attState EXCEPT ![a] = "done"]
      /\ taskState' = [taskState EXCEPT ![a[1]] = "done"]
      /\ archived' = archived
  BY Types DEF CommitDone, TypeOK
<1>2. CommitterOwns(p) /\ RowsAgree(a[1])
  BY <1>1 DEF IInv, LiveAttemptIsCurrent
<1>3. attState[a] = "staged" /\ <<a, pg[p]>> \in archived
  BY <1>2 DEF CommitterOwns, CommitDone
<1> HIDE DEF a
<1>4. taskState[a[1]] = "staged"
  BY <1>1, <1>2, <1>3 DEF RowsAgree
<1>5. OutcomeOf(a) = "accepted"
  BY <1>1, <1>3, <1>4, Receipts DEF OutcomeOf
<1>6. Promise!Become({a}, "done")
  BY <1>1, <1>4, OneBecomes, Receipts DEF TaskStates, AttStates, Fenced
<1>7. a \in {f[1] : f \in archived} /\ UNCHANGED {f[1] : f \in archived}
  <2>1. <<a, pg[p]>>[1] = a
    OBVIOUS
  <2> QED
    BY <1>1, <1>3, <2>1
<1> QED
  BY <1>1, <1>5, <1>6, <1>7 DEF Promise!PFinish, a

\* An archive call maps to PStore, also when its process lost the lock on the way.
LEMMA RefinesArchive ==
  ASSUME TypeOK, LateArchives, NEW p \in Procs, Archive(p)
  PROVE  pa[p] \in Attempts /\ Promise!PStore(pa[p])
<1> DEFINE a == pa[p]
<1>1. /\ attState \in [Attempts -> AttStates] /\ taskState \in [Tasks -> TaskStates]
      /\ a \in Attempts /\ a[1] \in Tasks
      /\ archived' = archived \cup {<<a, pg[p]>>} /\ UNCHANGED <<taskState, attState>>
  BY Types DEF Archive, TypeOK
<1>2. attState[a] \in {"staged", "done", "expired"} \/ taskState[a[1]] = "deleted"
  BY DEF LateArchives, WasAccepted, Archive
<1> HIDE DEF a
<1>3. OutcomeOf(a) \in {"accepted", "done", "expired", "forgotten"}
  BY <1>1, <1>2, Receipts DEF OutcomeOf, Fenced
<1>4. {f[1] : f \in archived}' = {f[1] : f \in archived} \cup {a}
  <2>1. <<a, pg[p]>>[1] = a
    OBVIOUS
  <2> QED
    BY <1>1, <2>1
<1>5. UNCHANGED [b \in Attempts |-> OutcomeOf(b)]
  BY <1>1 DEF OutcomeOf
<1> QED
  BY <1>1, <1>3, <1>4, <1>5 DEF Promise!PStore, a

\* expire maps to PExpire of the attempts whose tasks are overdue, or to nothing
\* when only queued tasks are.
LEMMA RefinesExpire ==
  ASSUME TypeOK, Expire
  PROVE  \/ \E S \in SUBSET Attempts : Promise!PExpire(S)
         \/ UNCHANGED Promise!promiseVars
<1> DEFINE late == {t \in Tasks : Overdue(t) /\ Unlocked(t)}
           S == {a \in Attempts : /\ a[1] \in late /\ taskState[a[1]] # "queued"
                                  /\ current[a[1]] = a[2] /\ attState[a] \in Live}
<1>1. attState \in [Attempts -> AttStates] /\ taskState \in [Tasks -> TaskStates]
  BY DEF TypeOK
<1>2. /\ attState' = [a \in Attempts |-> IF a \in S THEN "expired" ELSE attState[a]]
      /\ \A t \in Tasks : taskState'[t] = IF t \in late
                                           THEN Requeued(t, taskState[t] = "staged")
                                           ELSE taskState[t]
      /\ archived' = archived
  BY DEF Expire
<1>3. \A t \in late : /\ taskState[t] \in Active
                      /\ Requeued(t, taskState[t] = "staged") \in {"queued", "failed"}
  BY DEF Overdue, Requeued, Active
<1>4. \A t \in Tasks : /\ taskState'[t] # "deleted" <=> taskState[t] # "deleted"
                       /\ taskState'[t] \in TaskStates
  BY <1>1, <1>2, <1>3 DEF Active, TaskStates
<1>5. \A a \in S : a[1] \in late /\ attState[a] \in Live
  OBVIOUS
<1>6. S \subseteq Attempts
  OBVIOUS
<1> HIDE DEF S
<1>7. \A a \in S : OutcomeOf(a) \in {"working", "accepted"}
  BY <1>1, <1>3, <1>5, <1>6, AttemptParts, Receipts
     DEF OutcomeOf, Active, Live, Fenced, TaskStates
<1>8. \A a \in Attempts : OutcomeOf(a)' = IF a \in S THEN "expired" ELSE OutcomeOf(a)
  <2> TAKE a \in Attempts
  <2>1. CASE a \in S
    BY <1>1, <1>2, <1>3, <1>4, <1>5, <2>1, AttemptParts, Receipts
       DEF OutcomeOf, Active, Fenced, TaskStates, AttStates
  <2>2. CASE a \notin S
    <3>1. attState'[a] = attState[a] /\ Receipt(taskState'[a[1]], attState[a])
                                        = Receipt(taskState[a[1]], attState[a])
      BY <1>2, <1>4, <2>2, AttemptParts DEF Receipt
    <3> QED
      BY <2>2, <3>1 DEF OutcomeOf
  <2> QED
    BY <2>1, <2>2
<1>9. CASE S = {}
  BY <1>2, <1>8, <1>9, Stutters
<1>10. CASE S # {}
  <2>1. Promise!Become(S, "expired")
    BY <1>8, Becomes
  <2>2. \A a \in S : [b \in Attempts |-> OutcomeOf(b)][a] \in {"working", "accepted"}
    BY <1>6, <1>7
  <2>3. Promise!PExpire(S)
    BY <1>2, <1>10, <2>1, <2>2, MappedNames DEF Promise!PExpire
  <2> QED
    BY <1>6, <2>3
<1> QED
  BY <1>9, <1>10

\* The retention DELETE maps to PForget: the task is done or failed, so nobody
\* works on it.
LEMMA RefinesDeleteTask ==
  ASSUME TypeOK, LiveAttemptIsCurrent, NEW t \in Tasks, DeleteTask(t)
  PROVE  Promise!PForget(t)
<1>1. /\ attState \in [Attempts -> AttStates] /\ taskState \in [Tasks -> TaskStates]
      /\ taskState[t] \in {"done", "failed"} /\ RowsAgree(t)
      /\ taskState' = [taskState EXCEPT ![t] = "deleted"]
      /\ attState' = [a \in Attempts |-> IF a[1] = t THEN "none" ELSE attState[a]]
      /\ archived' = archived
  BY DEF DeleteTask, TypeOK, LiveAttemptIsCurrent
<1>2. \A w \in Workers :
         OutcomeOf(<<t, w>>) \notin {"working", "accepted", "forgotten"}
  <2> TAKE w \in Workers
  <2>1. <<t, w>> \in Attempts /\ attState[<<t, w>>] \notin Fenced \cup {"staged"}
    BY <1>1 DEF RowsAgree, Attempts
  <2>2. OutcomeOf(<<t, w>>) = Receipt(taskState[t], attState[<<t, w>>])
    BY DEF OutcomeOf
  <2> QED
    BY <1>1, <2>1, <2>2, Receipts DEF AttStates
<1>3. \A w \in Workers :
         [a \in Attempts |-> OutcomeOf(a)][<<t, w>>] \notin {"working", "accepted", "forgotten"}
  BY <1>2 DEF Attempts
<1>4. Promise!Become({t} \X Workers, "forgotten")
  <2> SUFFICES ASSUME NEW a \in Attempts
               PROVE  OutcomeOf(a)' = IF a \in {t} \X Workers THEN "forgotten" ELSE OutcomeOf(a)
    BY Becomes
  <2>1. a[1] \in Tasks /\ (a \in {t} \X Workers <=> a[1] = t)
    BY AttemptParts
  <2> QED
    BY <1>1, <2>1 DEF OutcomeOf, Receipt
<1> QED
  BY <1>1, <1>3, <1>4, MappedNames DEF Promise!PForget

\* An attempt that was accepted stays so: only expiry, the archive commit and
\* retention still change it.
LEMMA AcceptedStays ==
  ASSUME TypeOK, IInv, [Next]_vars, NEW a \in Attempts, WasAccepted(a)
  PROVE  WasAccepted(a)'
<1>1. /\ attState \in [Attempts -> AttStates] /\ taskState \in [Tasks -> TaskStates]
      /\ a[1] \in Tasks /\ a[2] \in Workers /\ a = <<a[1], a[2]>> /\ RowsAgree(a[1])
  BY AttemptParts DEF TypeOK, IInv, LiveAttemptIsCurrent
<1>2. \A b \in Attempts :
         /\ attState[b] \in Fenced => taskState[b[1]] = "running"
         /\ attState[b] = "staged" => taskState[b[1]] = "staged"
  <2> TAKE b \in Attempts
  <2>1. b[1] \in Tasks /\ b[2] \in Workers /\ b = <<b[1], b[2]>>
    BY AttemptParts
  <2>2. RowsAgree(b[1])
    BY <2>1 DEF IInv, LiveAttemptIsCurrent
  <2> QED
    BY <2>1, <2>2 DEF RowsAgree
<1>3. CASE UNCHANGED <<taskState, attState>>
  BY <1>3 DEF WasAccepted
<1>4. ASSUME NEW r \in Requests \cup {Null}, NEW i \in Identities, NEW t \in Tasks,
             EnqueueNew(r, i, t)
      PROVE  WasAccepted(a)'
  BY <1>1, <1>4 DEF WasAccepted, EnqueueNew
<1>5. ASSUME NEW w \in Workers, NEW n \in ClaimLimits, Claim(w, n)
      PROVE  WasAccepted(a)'
  <2>1. \A t \in Chosen(w, n) : taskState[t] = "queued" /\ attState[<<t, w>>] = "none"
    BY DEF Chosen, Claimable
  <2>2. /\ taskState' = [t \in Tasks |-> IF t \in Chosen(w, n) THEN "running" ELSE taskState[t]]
        /\ attState' = [b \in Attempts |->
                          IF b[2] = w /\ b[1] \in Chosen(w, n) THEN "running" ELSE attState[b]]
    BY <1>5 DEF Claim
  <2> QED
    BY <1>1, <2>1, <2>2 DEF WasAccepted
<1>6. ASSUME NEW t \in Tasks, NEW w \in Workers, NEW terminal \in BOOLEAN,
             Report(t, w, terminal)
      PROVE  WasAccepted(a)'
  <2>1. /\ attState[<<t, w>>] \in Fenced /\ taskState[t] = "running"
        /\ attState' = [attState EXCEPT ![<<t, w>>] = "failed"]
        /\ \E s : taskState' = [taskState EXCEPT ![t] = s]
    BY <1>6 DEF Report, IInv, LiveAttemptIsCurrent, RowsAgree
  <2> QED
    BY <1>1, <2>1 DEF WasAccepted, Fenced
<1>7. ASSUME NEW p \in Procs, NEW t \in Tasks, NEW w \in Workers, NEW d \in Digests,
             NEW g \in Gens, UploadReserve(p, t, w, d, g)
      PROVE  WasAccepted(a)'
  BY <1>1, <1>7 DEF WasAccepted, UploadReserve, UploadAdmitted, Fenced
<1>8. ASSUME NEW p \in Procs, NEW label, StreamStage(p, label)
      PROVE  WasAccepted(a)'
  <2>1. /\ pa[p] \in Attempts /\ attState[pa[p]] = "uploading"
        /\ attState' = [attState EXCEPT ![pa[p]] = "staged"]
        /\ taskState' = [taskState EXCEPT ![pa[p][1]] = "staged"]
    BY <1>8, Types DEF IInv, WriterOwns, Owns, StreamStage, Stageable
  <2>2. taskState[pa[p][1]] = "running"
    BY <1>2, <2>1 DEF Fenced
  <2> QED
    BY <1>1, <2>1, <2>2 DEF WasAccepted
<1>9. ASSUME NEW p \in Procs, CommitDone(p)
      PROVE  WasAccepted(a)'
  <2>1. /\ pa[p] \in Attempts /\ attState[pa[p]] = "staged"
        /\ attState' = [attState EXCEPT ![pa[p]] = "done"]
        /\ taskState' = [taskState EXCEPT ![pa[p][1]] = "done"]
    BY <1>9, Types DEF IInv, CommitterOwns, CommitDone
  <2>2. taskState[pa[p][1]] = "staged"
    BY <1>2, <2>1
  <2> QED
    BY <1>1, <2>1, <2>2 DEF WasAccepted
<1>10. CASE Expire
  <2>1. \A t \in Tasks : Overdue(t) => taskState[t] # "deleted"
    BY DEF Overdue
  <2> QED
    BY <1>1, <1>10, <2>1 DEF WasAccepted, Expire
<1>11. ASSUME NEW t \in Tasks, DeleteTask(t)
       PROVE  WasAccepted(a)'
  BY <1>1, <1>11 DEF WasAccepted, DeleteTask
<1> QED
  <2>1. CASE Tick \/ Admin \/ UNCHANGED vars
    BY <1>3, <2>1 DEF Tick, Admin, Approve, Enable, Drain, Dismiss, SetStatus, vars
  <2>2. CASE Scheduler
    BY <1>3, <1>4, <1>5, <1>6, <2>2 DEF Scheduler, EnqueueJoin, Heartbeat
  <2>3. CASE Retain
    BY <1>3, <1>10, <1>11, <2>3 DEF Retain, HookDelivered, HookFailed, SweepOrphan
  <2>4. ASSUME NEW p \in Procs, Transfer(p)
        PROVE  WasAccepted(a)'
    BY <1>3, <1>7, <1>8, <2>4 DEF Transfer, StreamLock, OpenFile, StreamCommitFailed,
       StreamFail, ResetTransfer
  <2>5. ASSUME NEW p \in Procs, Commit(p)
        PROVE  WasAccepted(a)'
    BY <1>3, <1>9, <2>5 DEF Commit, CommitLock, CleanRemove, CommitSkip, Archive,
       ArchiveFail, CleanClear
  <2>6. CASE \/ \E t \in Tasks, w \in Workers, d \in Digests : UploadRefused(t, w, d)
             \/ \E p \in Procs : Crash(p) \/ SessionLost(p)
             \/ \E b \in Budgets : Reconfigure(b)
    BY <1>3, <2>6 DEF UploadRefused, Crash, SessionLost, Reconfigure
  <2> QED
    BY <2>1, <2>2, <2>3, <2>4, <2>5, <2>6 DEF Next

\* Only commitStaged brings a process on its way to the archive, with a staged
\* attempt; from there it keeps its attempt.
LEMMA ArchiverFixed ==
  ASSUME TypeOK, [Next]_vars, NEW q \in Procs, pc'[q] \in {"archiving", "archived"}
  PROVE  \/ pc[q] \in {"archiving", "archived"} /\ pa'[q] = pa[q]
         \/ pa'[q] \in Attempts /\ attState'[pa'[q]] = "staged"
<1>1. /\ pc \in [Procs -> PCs] /\ pa \in [Procs -> Attempts \cup {Null}]
      /\ pg \in [Procs -> Gens \cup {Null}]
  BY DEF TypeOK
<1>2. CASE UNCHANGED <<pc, pa>>
  BY <1>2
<1>3. ASSUME NEW p \in Procs, Transfer(p)
      PROVE  pc'[q] = pc[q] /\ pa'[q] = pa[q]
  <2>1. CASE \E t \in Tasks, w \in Workers, d \in Digests, g \in Gens :
                UploadReserve(p, t, w, d, g)
    BY <1>1, <2>1 DEF UploadReserve
  <2>2. CASE \/ StreamLock(p) \/ OpenFile(p) \/ StreamCommitFailed(p) \/ StreamFail(p)
             \/ \E label \in {"commit", "reset"} : StreamStage(p, label)
    BY <1>1, <2>2 DEF StreamLock, OpenFile, StreamStage, StreamCommitFailed, StreamFail, Goto
  <2>3. CASE ResetTransfer(p)
    BY <1>1, <2>3 DEF ResetTransfer, Leave
  <2> QED
    BY <1>3, <2>1, <2>2, <2>3 DEF Transfer
<1>4. ASSUME NEW p \in Procs, NEW a \in Attempts, CommitLock(p, a)
      PROVE  \/ pc'[q] = pc[q] /\ pa'[q] = pa[q]
             \/ pa'[q] \in Attempts /\ attState'[pa'[q]] = "staged"
  BY <1>1, <1>4 DEF CommitLock
<1>5. ASSUME NEW p \in Procs, Archive(p)
      PROVE  pc[q] \in {"archiving", "archived"} /\ pa'[q] = pa[q]
  BY <1>1, <1>5 DEF Archive, Goto
<1>6. ASSUME NEW p \in Procs,
             \/ CommitSkip(p) \/ ArchiveFail(p) \/ CommitDone(p) \/ CleanClear(p)
             \/ \E a \in Attempts : CleanRemove(p, a)
      PROVE  pc'[q] = pc[q] /\ pa'[q] = pa[q]
  BY <1>1, <1>6 DEF CommitSkip, ArchiveFail, CommitDone, CleanClear, CleanRemove, Goto, Leave
<1>7. ASSUME NEW p \in Procs, Crash(p)
      PROVE  pc'[q] = pc[q] /\ pa'[q] = pa[q]
  BY <1>1, <1>7 DEF Crash, Leave
<1> QED
  <2>1. CASE \/ Tick \/ Scheduler \/ Admin \/ Retain \/ UNCHANGED vars
             \/ \E t \in Tasks, w \in Workers, d \in Digests : UploadRefused(t, w, d)
             \/ \E p \in Procs : SessionLost(p)
             \/ \E b \in Budgets : Reconfigure(b)
    <3>1. UNCHANGED <<pc, pa>>
      BY <2>1 DEF Tick, Scheduler, EnqueueNew, EnqueueJoin, Claim, Heartbeat, Report,
         Admin, Approve, Enable, Drain, Dismiss, SetStatus, Retain, Expire, HookDelivered,
         HookFailed, DeleteTask, SweepOrphan, UploadRefused, SessionLost, Reconfigure, vars
    <3> QED
      BY <1>2, <3>1
  <2>2. CASE \E p \in Procs : Transfer(p)
    BY <1>2, <1>3, <2>2
  <2>3. CASE \E p \in Procs : Commit(p)
    BY <1>4, <1>5, <1>6, <2>3 DEF Commit
  <2>4. CASE \E p \in Procs : Crash(p)
    BY <1>7, <2>4
  <2> QED
    BY <2>1, <2>2, <2>3, <2>4 DEF Next

\* Whatever a process gives the archive, however late, was accepted before.
LEMMA LateArchivesInvariant == Spec => []LateArchives
<1>1. Init => LateArchives
  BY DEF Init, LateArchives
<1>2. TypeOK /\ IInv /\ LateArchives /\ [Next]_vars => LateArchives'
  <2> SUFFICES ASSUME TypeOK, IInv, LateArchives, [Next]_vars, NEW q \in Procs,
                      pc'[q] \in {"archiving", "archived"}
               PROVE  WasAccepted(pa[q])'
    BY DEF LateArchives
  <2>1. CASE pc[q] \in {"archiving", "archived"} /\ pa'[q] = pa[q]
    <3>1. pa[q] \in Attempts /\ WasAccepted(pa[q])
      BY <2>1, Types DEF LateArchives
    <3>2. PICK a \in Attempts : a = pa[q]
      BY <3>1
    <3>3. WasAccepted(a)'
      BY <3>1, <3>2, AcceptedStays
    <3> QED
      BY <2>1, <3>2, <3>3 DEF WasAccepted
  <2>2. CASE pa'[q] \in Attempts /\ attState'[pa'[q]] = "staged"
    BY <2>2 DEF WasAccepted
  <2> QED
    BY <2>1, <2>2, ArchiverFixed
<1> QED
  BY <1>1, <1>2, TypeCorrect, Inductive, PTL DEF Spec

\* Every step of the coordinator is a step of the promise, or none.
LEMMA RefinesNext ==
  ASSUME TypeOK, IInv, LateArchives, [Next]_vars
  PROVE  [Promise!PromiseNext]_(Promise!promiseVars)
<1> DEFINE Step == Promise!PromiseNext \/ UNCHANGED Promise!promiseVars
<1>1. LiveAttemptIsCurrent
  BY DEF IInv
<1>2. CASE UNCHANGED <<taskState, attState, archived>>
  BY <1>2, RefinesQuiet
<1>3. ASSUME NEW w \in Workers, NEW n \in ClaimLimits, Claim(w, n)
      PROVE  Step
  <2>1. Promise!PAssign(w, Chosen(w, n)) /\ Chosen(w, n) \in SUBSET Tasks
    BY <1>1, <1>3, RefinesClaim DEF Chosen, Claimable
  <2> QED
    BY <2>1 DEF Promise!PromiseNext
<1>4. ASSUME NEW t \in Tasks, NEW w \in Workers, NEW terminal \in BOOLEAN,
             Report(t, w, terminal)
      PROVE  Step
  <2>1. Promise!PRefuse(<<t, w>>) /\ <<t, w>> \in Promise!PAttempts
    BY <1>1, <1>4, RefinesReport DEF Promise!PAttempts
  <2> QED
    BY <2>1 DEF Promise!PromiseNext
<1>5. ASSUME NEW p \in Procs, NEW label, StreamStage(p, label)
      PROVE  Step
  <2>1. pa[p] \in Promise!PAttempts /\ Promise!PAccept(pa[p])
    BY <1>5, RefinesStreamStage, MappedNames
  <2> QED
    BY <2>1 DEF Promise!PromiseNext
<1>6. ASSUME NEW p \in Procs, Archive(p)
      PROVE  Step
  <2>1. pa[p] \in Promise!PAttempts /\ Promise!PStore(pa[p])
    BY <1>6, RefinesArchive, MappedNames
  <2>2. \E a \in Promise!PAttempts : Promise!PStore(a)
    BY <2>1 DEF Promise!PStore
  <2> QED
    BY <2>2 DEF Promise!PromiseNext
<1>7. ASSUME NEW p \in Procs, CommitDone(p)
      PROVE  Step
  <2>1. pa[p] \in Promise!PAttempts /\ Promise!PFinish(pa[p])
    BY <1>7, RefinesCommitDone, MappedNames
  <2> QED
    BY <2>1 DEF Promise!PromiseNext
<1>8. ASSUME Expire
      PROVE  Step
  <2>1. CASE UNCHANGED Promise!promiseVars
    BY <2>1
  <2>2. CASE \E S \in SUBSET Attempts : Promise!PExpire(S)
    <3>1. \E S \in SUBSET Promise!PAttempts : Promise!PExpire(S)
      BY <2>2, MappedNames
    <3> QED
      BY <3>1 DEF Promise!PromiseNext
  <2> QED
    BY <1>8, <2>1, <2>2, RefinesExpire
<1>9. ASSUME NEW t \in Tasks, DeleteTask(t)
      PROVE  Step
  <2>1. Promise!PForget(t)
    BY <1>1, <1>9, RefinesDeleteTask
  <2> QED
    BY <2>1 DEF Promise!PromiseNext
<1> QED
  <2>1. CASE Tick \/ Admin \/ UNCHANGED vars
    BY <1>2, <2>1 DEF Tick, Admin, Approve, Enable, Drain, Dismiss, SetStatus, vars
  <2>2. CASE Scheduler
    BY <1>2, <1>3, <1>4, <2>2, RefinesEnqueueNew DEF Scheduler, EnqueueJoin, Heartbeat
  <2>3. CASE Retain
    BY <1>2, <1>8, <1>9, <2>3 DEF Retain, HookDelivered, HookFailed, SweepOrphan
  <2>4. ASSUME NEW p \in Procs, Transfer(p)
        PROVE  Step
    BY <1>2, <1>5, <2>4, RefinesUploadReserve DEF Transfer, StreamLock, OpenFile,
       StreamCommitFailed, StreamFail, ResetTransfer
  <2>5. ASSUME NEW p \in Procs, Commit(p)
        PROVE  Step
    BY <1>2, <1>6, <1>7, <2>5 DEF Commit, CommitLock, CleanRemove, CommitSkip,
       ArchiveFail, CleanClear
  <2>6. CASE \/ \E t \in Tasks, w \in Workers, d \in Digests : UploadRefused(t, w, d)
             \/ \E p \in Procs : Crash(p) \/ SessionLost(p)
             \/ \E b \in Budgets : Reconfigure(b)
    BY <1>2, <2>6 DEF UploadRefused, Crash, SessionLost, Reconfigure
  <2> QED
    BY <2>1, <2>2, <2>3, <2>4, <2>5, <2>6 DEF Next

\* The coordinator implements the promise it makes its workers: whatever leases,
\* generations, locks and crashes lie behind it, a receipt only ever moves the
\* way FleetPromise says, and "done" means the bytes were archived.
THEOREM Refines == Spec => KeepsPromise
<1>1. Init => Promise!PromiseInit
  BY RefinesInit
<1>2. TypeOK /\ IInv /\ LateArchives /\ [Next]_vars
         => [Promise!PromiseNext]_(Promise!promiseVars)
  BY RefinesNext
<1> QED
  BY <1>1, <1>2, TypeCorrect, Inductive, LateArchivesInvariant, PTL
     DEF Spec, KeepsPromise, Promise!PromiseSpec
=============================================================================
