--------------------------- MODULE DownloadFleet ---------------------------
(***************************************************************************)
(* The durable download fleet (internal/downloadfleet): a PostgreSQL-backed *)
(* scheduler that leases paper downloads to outbound workers, receives the  *)
(* PDF into a spool directory, archives it, and delivers a post-archive     *)
(* hook.  Several coordinator processes may serve the same database.        *)
(*                                                                          *)
(* Every database transaction that commits in one go is one action.  The    *)
(* three code paths that hold a row lock while they do something slow       *)
(* (receive a body, call the archive, remove a file) are sequences of steps *)
(* of a process p \in Procs, so that every other transaction, the clock, a  *)
(* crash of p and the loss of p's database session can fall in between.     *)
(*                                                                          *)
(* Clock.  Timestamps are kept as the time REMAINING until they pass:       *)
(* "lease_expires > clock_timestamp()" is lease[a] > 0, and least(...) of   *)
(* timestamps is the least of the remaining times.  Tick lets time pass.    *)
(***************************************************************************)
EXTENDS Integers, FiniteSets, FiniteSetsExt

CONSTANTS
    MaxTasks,          \* bound: how many task rows are ever inserted
    Workers,           \* enrolled nodes
    Identities,        \* paper identities (DOI / arXiv id), service.go identity
    Requests,          \* admission ids of parent download requests
    IdentityOf,        \* the paper each admission asks for
    Procs,             \* goroutines that run an upload or a maintenance pass
    Digests,           \* SHA-256 digests of PDF bodies
    Size,              \* their sizes
    Gens,              \* upload generations (randomID)
    Null,              \* SQL NULL, the empty string, nobody
    Capacities,        \* capacities a worker may advertise
    ClaimLimits,       \* limits a worker may ask for
    Budgets,           \* values MaxWorkerAttempts takes across restarts
    MaxInFlight, MaxWorkerInFlight,
    TaskTimeout, WorkerTimeout, LeaseDuration, UploadTimeout, Retention,
    SpoolMaxBytes,
    HookLimit,         \* deliveries recorded as failed before giving up (20)
    HookDelay,         \* back-off after the n-th failure (2^min(n,10) minutes)
    BackoffCap         \* the exponent it stops growing at (10)

Tasks    == 1 .. MaxTasks
Attempts == Tasks \X Workers       \* UNIQUE(task_id, worker_id)
Paths    == Attempts \X Gens       \* <attempt>-<generation>.pdf

\* Config.validate, and what the types of the constants give.
ASSUME ConstantTypes ==
    /\ MaxTasks \in Nat
    /\ IdentityOf \in [Requests -> Identities]
    /\ Size \in [Digests -> Nat]
    /\ Capacities \subseteq Nat
    /\ ClaimLimits \subseteq Nat \ {0}
    /\ Budgets \subseteq Nat \ {0}
    /\ HookLimit \in Nat \ {0}
    /\ BackoffCap \in Nat /\ HookDelay \in [0 .. BackoffCap -> Nat]
    /\ SpoolMaxBytes \in Nat \ {0}
ASSUME Validate ==
    /\ MaxInFlight \in Nat \ {0} /\ MaxWorkerInFlight \in Nat \ {0}
    /\ LeaseDuration \in Nat \ {0} /\ WorkerTimeout \in Nat /\ TaskTimeout \in Nat
    /\ LeaseDuration <= WorkerTimeout /\ WorkerTimeout <= TaskTimeout
    /\ UploadTimeout \in Nat \ {0} /\ Retention \in Nat \ {0}
ASSUME NullIsNothing ==
    /\ Null \notin Workers /\ Null \notin Gens /\ Null \notin Digests
    /\ Null \notin Procs /\ Null \notin Tasks /\ Null \notin Attempts
    /\ Null \notin Identities /\ Null \notin Requests

VARIABLES
    (* download_fleet_tasks *)
    taskState, identity, current, attemptCount, taskDeadline,
    keep,                        \* retention left: updated_at + Retention
    hookPending, hookTries, hookWait,
    admission,                   \* download_fleet_admissions: request -> task
    (* download_fleet_attempts, keyed by (task, worker) *)
    attState, lease, attDeadline, sha, spoolPath, uploadId,
    (* download_fleet_nodes *)
    nodeStatus, seen, capacity,  \* seen: how long last_seen stays fresh
    (* coordinator processes and the row locks they hold *)
    budget, pc, pa, pg, lock,
    (* the spool directory: files present, and those fully written and synced *)
    disk, whole,
    (* the world outside: the files and tasks the callbacks were given *)
    archived, hooked

taskVars == <<taskState, identity, current, attemptCount, taskDeadline, keep>>
hookVars == <<hookPending, hookTries, hookWait, hooked>>
attVars  == <<attState, lease, attDeadline>>
bodyVars == <<sha, spoolPath, uploadId>>
nodeVars == <<nodeStatus, seen, capacity>>
procVars == <<pc, pa, pg, lock>>
fileVars == <<disk, whole>>
vars == <<taskVars, hookVars, admission, attVars, bodyVars, nodeVars, budget,
          procVars, fileVars, archived>>

TaskStates == {"none", "queued", "running", "staged", "done", "failed", "deleted"}
AttStates  == {"none", "running", "uploading", "staged", "done", "failed", "expired"}
NodeStates == {"pending", "approved", "draining", "rejected", "revoked"}
PCs == {"idle", "reserved", "locked", "streaming", "reset", "commit",
        "archiving", "archived", "clean", "clear"}

TypeOK ==
    /\ taskState \in [Tasks -> TaskStates]
    /\ identity \in [Tasks -> Identities \cup {Null}]
    /\ current \in [Tasks -> Workers \cup {Null}]
    /\ attemptCount \in [Tasks -> Nat]
    /\ taskDeadline \in [Tasks -> Nat] /\ keep \in [Tasks -> Nat]
    /\ hookPending \in [Tasks -> BOOLEAN]
    /\ hookTries \in [Tasks -> Nat] /\ hookWait \in [Tasks -> Nat]
    /\ admission \in [Requests -> Tasks \cup {Null}]
    /\ attState \in [Attempts -> AttStates]
    /\ lease \in [Attempts -> Nat] /\ attDeadline \in [Attempts -> Nat]
    /\ sha \in [Attempts -> Digests \cup {Null}]
    /\ spoolPath \in [Attempts -> Gens \cup {Null}]
    /\ uploadId \in [Attempts -> Gens \cup {Null}]
    /\ nodeStatus \in [Workers -> NodeStates]
    /\ seen \in [Workers -> Nat] /\ capacity \in [Workers -> Nat]
    /\ budget \in Budgets
    /\ pc \in [Procs -> PCs]
    /\ pa \in [Procs -> Attempts \cup {Null}]
    /\ pg \in [Procs -> Gens \cup {Null}]
    /\ \A p \in Procs : pc[p] # "idle" => pa[p] \in Attempts /\ pg[p] \in Gens
    /\ lock \in [Tasks -> Procs \cup {Null}]
    /\ disk \subseteq Paths /\ whole \subseteq Paths
    /\ archived \subseteq Paths
    /\ hooked \subseteq Tasks

Init ==
    /\ taskState = [t \in Tasks |-> "none"]
    /\ identity = [t \in Tasks |-> Null]
    /\ current = [t \in Tasks |-> Null]
    /\ attemptCount = [t \in Tasks |-> 0]
    /\ taskDeadline = [t \in Tasks |-> 0]
    /\ keep = [t \in Tasks |-> 0]
    /\ hookPending = [t \in Tasks |-> FALSE]
    /\ hookTries = [t \in Tasks |-> 0]
    /\ hookWait = [t \in Tasks |-> 0]
    /\ admission = [r \in Requests |-> Null]
    /\ attState = [a \in Attempts |-> "none"]
    /\ lease = [a \in Attempts |-> 0]
    /\ attDeadline = [a \in Attempts |-> 0]
    /\ sha = [a \in Attempts |-> Null]
    /\ spoolPath = [a \in Attempts |-> Null]
    /\ uploadId = [a \in Attempts |-> Null]
    /\ nodeStatus = [w \in Workers |-> "pending"]      \* just registered
    /\ seen = [w \in Workers |-> LeaseDuration + 1]
    /\ capacity = [w \in Workers |-> 0]
    /\ budget \in Budgets
    /\ pc = [p \in Procs |-> "idle"]
    /\ pa = [p \in Procs |-> Null]
    /\ pg = [p \in Procs |-> Null]
    /\ lock = [t \in Tasks |-> Null]
    /\ disk = {} /\ whole = {}
    /\ archived = {} /\ hooked = {}

-----------------------------------------------------------------------------
(* State formulas used by several transactions. *)

Least(x, y) == IF x <= y THEN x ELSE y
\* Mutant: a timer that runs on below zero.
DownPastZero(x) == x - 1
Down(x) == IF x = 0 THEN 0 ELSE x - 1

Active   == {"queued", "running", "staged"}       \* the unique identity index
\* Mutant: expiry forgets the upload phase.
LiveWithoutUploads == {"running", "staged"}
Live     == {"running", "uploading", "staged"}    \* counted against the caps
Fenced   == {"running", "uploading"}              \* still bound by a lease
Terminal == {"done", "failed", "expired"}

Unlocked(t) == lock[t] = Null
Trusted(w)  == nodeStatus[w] \in {"approved", "draining"}
InFlight    == {a \in Attempts : attState[a] \in Live}
InFlightOf(w) == {a \in InFlight : a[2] = w}

\* The guard that report, upload and the staging UPDATE share: the attempt is
\* the task's current one, its lease and the task's deadline have not passed,
\* and its worker has not been revoked.
Fence(t, w) ==
    /\ current[t] = w
    /\ lease[<<t, w>>] > 0
    /\ taskDeadline[t] > 0
    /\ Trusted(w)
\* report and upload also require the execution deadline of a running attempt.
StartFence(t, w) ==
    /\ Fence(t, w)
    /\ attState[<<t, w>>] = "uploading" \/ attDeadline[<<t, w>>] > 0

\* UPDATE ... SET updated_at = clock_timestamp() on a task.
Touched == Retention + 1
\* last_seen is fresh while time.Since(last_seen) <= LeaseDuration.
SeenNow == LeaseDuration + 1

\* What report and expire turn a task into when its live attempt ends.
Requeued(t, terminal) ==
    IF terminal \/ attemptCount[t] >= budget \/ taskDeadline[t] = 0
    THEN "failed" ELSE "queued"

\* The sum of a function's values.
Total(f) == MapThenSumSet(LAMBDA x : f[x], DOMAIN f)
Holding(S)  == {a \in S : spoolPath[a] # Null}
\* The declared bytes of the attempts of S that hold a path.
Reserved(S) == Total([a \in Holding(S) |-> Size[sha[a]]])

\* Mutant: only the generations the row names count as used.
FreshGensOnRecord(a) == {g \in Gens : g # uploadId[a] /\ g # spoolPath[a]}
\* A generation randomID has not handed out yet for this attempt.
FreshGens(a) ==
    {g \in Gens : /\ g # uploadId[a] /\ g # spoolPath[a]
                  /\ <<a, g>> \notin disk
                  /\ \A p \in Procs : pa[p] = a => pg[p] # g}

\* p goes back to the pool; a transaction it still held is rolled back.
Leave(p) ==
    /\ pc' = [pc EXCEPT ![p] = "idle"]
    /\ pa' = [pa EXCEPT ![p] = Null]
    /\ pg' = [pg EXCEPT ![p] = Null]
Unlock(p) == lock' = [t \in Tasks |-> IF lock[t] = p THEN Null ELSE lock[t]]
Goto(p, label) == pc' = [pc EXCEPT ![p] = label] /\ UNCHANGED <<pa, pg>>

-----------------------------------------------------------------------------
(* Time. *)

TimersRunning ==
    \/ \E t \in Tasks : taskDeadline[t] + keep[t] + hookWait[t] > 0
    \/ \E a \in Attempts : lease[a] + attDeadline[a] > 0
    \/ \E w \in Workers : seen[w] > 0

Tick ==
    /\ TimersRunning
    /\ taskDeadline' = [t \in Tasks |-> Down(taskDeadline[t])]
    /\ keep' = [t \in Tasks |-> Down(keep[t])]
    /\ hookWait' = [t \in Tasks |-> Down(hookWait[t])]
    /\ lease' = [a \in Attempts |-> Down(lease[a])]
    /\ attDeadline' = [a \in Attempts |-> Down(attDeadline[a])]
    /\ seen' = [w \in Workers |-> Down(seen[w])]
    /\ UNCHANGED <<taskState, identity, current, attemptCount, hookPending,
                   hookTries, hooked, admission, attState, bodyVars, nodeStatus,
                   capacity, budget, procVars, fileVars, archived>>

-----------------------------------------------------------------------------
(* FetchPDF -> enqueue: a replayed admission finds its task; otherwise the   *)
(* request joins the active task of the same paper or inserts a new one.     *)

Admit(r, t) == admission' = IF r = Null THEN admission
                            ELSE [admission EXCEPT ![r] = t]

\* r is new (or its task has been deleted) and asks for paper i.
Admissible(r, i) ==
    \/ r = Null
    \/ r \in Requests /\ admission[r] = Null /\ IdentityOf[r] = i

ActiveTasks(i) == {t \in Tasks : taskState[t] \in Active /\ identity[t] = i}

EnqueueNew(r, i, t) ==
    /\ Admissible(r, i)
    /\ ActiveTasks(i) = {}
    /\ taskState[t] = "none" /\ \A u \in Tasks : u < t => taskState[u] # "none"
    /\ taskState' = [taskState EXCEPT ![t] = "queued"]
    /\ identity' = [identity EXCEPT ![t] = i]
    /\ taskDeadline' = [taskDeadline EXCEPT ![t] = TaskTimeout]
    /\ keep' = [keep EXCEPT ![t] = Touched]
    /\ Admit(r, t)
    /\ UNCHANGED <<current, attemptCount, hookVars, attVars, bodyVars, nodeVars,
                   budget, procVars, fileVars, archived>>

\* ON CONFLICT DO UPDATE waits for the row lock of the active task.
EnqueueJoin(r, i, t) ==
    /\ Admissible(r, i) /\ r # Null
    /\ t \in ActiveTasks(i) /\ Unlocked(t)
    /\ Admit(r, t)
    /\ UNCHANGED <<taskVars, hookVars, attVars, bodyVars, nodeVars, budget,
                   procVars, fileVars, archived>>

-----------------------------------------------------------------------------
(* Worker protocol. *)

\* Mutant: renewal ignores the deadlines.
RenewedFully(a) == LeaseDuration
\* The lease a heartbeat grants.
Renewed(a) == Least(LeaseDuration, Least(attDeadline[a], taskDeadline[a[1]]))

\* cap is clamped to the server's per-worker limit; ids are the attempts the
\* worker says it is running.  Uploading rows are only read.
Heartbeat(w, ids, cap) ==
    LET renew == {t \in ids : /\ attState[<<t, w>>] = "running" /\ current[t] = w
                              /\ lease[<<t, w>>] > 0 /\ attDeadline[<<t, w>>] > 0
                              /\ taskDeadline[t] > 0}
    IN  /\ Trusted(w)
        /\ seen' = [seen EXCEPT ![w] = SeenNow]
        /\ capacity' = [capacity EXCEPT ![w] = Least(cap, MaxWorkerInFlight)]
        /\ lease' = [a \in Attempts |->
                        IF a[2] = w /\ a[1] \in renew THEN Renewed(a) ELSE lease[a]]
        /\ UNCHANGED <<taskVars, hookVars, admission, attState, attDeadline,
                       bodyVars, nodeStatus, budget, procVars, fileVars, archived>>

\* Mutant: a worker may try the same task again.
ClaimableAgain(w) ==
    {t \in Tasks : /\ taskState[t] = "queued" /\ taskDeadline[t] > 0
                   /\ attemptCount[t] < budget /\ Unlocked(t)}
\* Tasks claim may hand to w, oldest first; SKIP LOCKED.
Claimable(w) ==
    {t \in Tasks : /\ taskState[t] = "queued" /\ taskDeadline[t] > 0
                   /\ attemptCount[t] < budget
                   /\ attState[<<t, w>>] = "none"
                   /\ Unlocked(t)}
ClaimLimit(w, n) ==
    Min({n, MaxInFlight - Cardinality(InFlight),
         MaxWorkerInFlight - Cardinality(InFlightOf(w)),
         capacity[w] - Cardinality(InFlightOf(w))})
Chosen(w, n) ==
    {t \in Claimable(w) :
        Cardinality({u \in Claimable(w) : u <= t}) <= ClaimLimit(w, n)}

Claim(w, n) ==
    LET chosen == Chosen(w, n)
        end(t) == Least(taskDeadline[t], WorkerTimeout)
        mine(a) == a[2] = w /\ a[1] \in chosen
    IN  /\ nodeStatus[w] = "approved"
        /\ seen[w] > 0
        /\ chosen # {}
        /\ attState' = [a \in Attempts |-> IF mine(a) THEN "running" ELSE attState[a]]
        /\ attDeadline' = [a \in Attempts |->
                             IF mine(a) THEN end(a[1]) ELSE attDeadline[a]]
        /\ lease' = [a \in Attempts |->
                       IF mine(a) THEN Least(LeaseDuration, end(a[1])) ELSE lease[a]]
        /\ taskState' = [t \in Tasks |-> IF t \in chosen THEN "running" ELSE taskState[t]]
        /\ current' = [t \in Tasks |-> IF t \in chosen THEN w ELSE current[t]]
        /\ attemptCount' = [t \in Tasks |->
                              IF t \in chosen THEN attemptCount[t] + 1
                              ELSE attemptCount[t]]
        /\ keep' = [t \in Tasks |-> IF t \in chosen THEN Touched ELSE keep[t]]
        /\ UNCHANGED <<identity, taskDeadline, hookVars, admission, bodyVars,
                       nodeVars, budget, procVars, fileVars, archived>>

\* A failure report.  terminal: invalid_identifier or cancelled, which no other
\* worker can repair.  Reports on finished attempts only return the receipt.
Report(t, w, terminal) ==
    /\ Unlocked(t)
    /\ attState[<<t, w>>] \in Fenced
    /\ StartFence(t, w)
    /\ attState' = [attState EXCEPT ![<<t, w>>] = "failed"]
    /\ taskState' = [taskState EXCEPT ![t] = Requeued(t, terminal)]
    /\ keep' = [keep EXCEPT ![t] = Touched]
    /\ UNCHANGED <<identity, current, attemptCount, taskDeadline, hookVars,
                   admission, lease, attDeadline, bodyVars, nodeVars, budget,
                   procVars, fileVars, archived>>

-----------------------------------------------------------------------------
(* Administrator actions (Service.Action). *)

SetStatus(w, status) ==
    /\ nodeStatus' = [nodeStatus EXCEPT ![w] = status]
    /\ UNCHANGED <<taskVars, hookVars, admission, attState, attDeadline, bodyVars,
                   seen, capacity, budget, procVars, fileVars, archived>>

Approve(w) == nodeStatus[w] = "pending" /\ SetStatus(w, "approved") /\ UNCHANGED lease
Enable(w)  == nodeStatus[w] = "draining" /\ SetStatus(w, "approved") /\ UNCHANGED lease
Drain(w)   == nodeStatus[w] = "approved" /\ SetStatus(w, "draining") /\ UNCHANGED lease

\* reject and revoke end the leases of the worker's running and uploading
\* attempts; the UPDATE waits for the row locks of transfers in progress.
Dismiss(w, status) ==
    /\ nodeStatus[w] \notin {"rejected", "revoked"}
    /\ \A t \in Tasks : attState[<<t, w>>] \in Fenced => Unlocked(t)
    /\ SetStatus(w, status)
    /\ lease' = [a \in Attempts |->
                   IF a[2] = w /\ attState[a] \in Fenced THEN 0 ELSE lease[a]]

-----------------------------------------------------------------------------
(* Upload, first transaction: reserve spool space for a new generation.      *)
(* The file of an abandoned generation is removed before the quota and the   *)
(* fence are checked, so a refused retry has already lost the old file.      *)

\* The request gets as far as removing the old file.  (serveWorker checked the
\* worker's status before this transaction; it may have been revoked since.)
UploadAdmitted(t, w, d) ==
    /\ Unlocked(t)
    /\ attState[<<t, w>>] \in Fenced
    /\ attState[<<t, w>>] = "uploading" => sha[<<t, w>>] = d
\* Mutant: no quota.
UploadUnmetered(t, w, d) == taskState[t] = "running" /\ StartFence(t, w)
UploadAccepted(t, w, d) ==
    /\ Size[d] <= SpoolMaxBytes - Reserved(Attempts \ {<<t, w>>})
    /\ taskState[t] = "running"
    /\ StartFence(t, w)
\* The upload phase starts once; retries keep its deadline.
UploadLease(t, w) ==
    IF attState[<<t, w>>] = "running" THEN Least(UploadTimeout, taskDeadline[t])
    ELSE lease[<<t, w>>]
WithoutOldFile(a) == {f \in disk : f[1] # a \/ f[2] # spoolPath[a]}

UploadReserve(p, t, w, d, g) ==
    /\ pc[p] = "idle"
    /\ UploadAdmitted(t, w, d) /\ UploadAccepted(t, w, d)
    /\ g \in FreshGens(<<t, w>>)
    /\ disk' = WithoutOldFile(<<t, w>>)
    /\ lease' = [lease EXCEPT ![<<t, w>>] = UploadLease(t, w)]
    /\ attState' = [attState EXCEPT ![<<t, w>>] = "uploading"]
    /\ sha' = [sha EXCEPT ![<<t, w>>] = d]
    /\ spoolPath' = [spoolPath EXCEPT ![<<t, w>>] = g]
    /\ uploadId' = [uploadId EXCEPT ![<<t, w>>] = g]
    /\ pc' = [pc EXCEPT ![p] = "reserved"]
    /\ pa' = [pa EXCEPT ![p] = <<t, w>>]
    /\ pg' = [pg EXCEPT ![p] = g]
    /\ whole' = whole \cap disk'
    /\ UNCHANGED <<taskVars, hookVars, admission, attDeadline, nodeVars, budget,
                   lock, archived>>

UploadRefused(t, w, d) ==
    /\ UploadAdmitted(t, w, d) /\ ~UploadAccepted(t, w, d)
    /\ disk' = WithoutOldFile(<<t, w>>) /\ whole' = whole \cap disk'
    /\ UNCHANGED <<taskVars, hookVars, admission, attVars, bodyVars, nodeVars,
                   budget, procVars, archived>>

-----------------------------------------------------------------------------
(* streamStage: receive the body under the row locks of task and attempt,    *)
(* then stage it.  resetTransfer: give the reservation back after a failure. *)

\* Mutants: the state, or the generation, is not checked.
OwnsGeneration(a, g) == uploadId[a] = g
OwnsUpload(a, g)     == attState[a] = "uploading"
\* g is the generation that reserved the attempt last, still unstaged: only that
\* transfer may stream into the attempt or reset it.
Owns(a, g) == attState[a] = "uploading" /\ uploadId[a] = g

StreamLock(p) ==
    LET a == pa[p]
    IN  /\ pc[p] = "reserved"
        /\ Unlocked(a[1])
        /\ IF Owns(a, pg[p])
           THEN lock' = [lock EXCEPT ![a[1]] = p] /\ Goto(p, "locked")
           ELSE Goto(p, "reset") /\ UNCHANGED lock
        /\ UNCHANGED <<taskVars, hookVars, admission, attVars, bodyVars, nodeVars,
                       budget, fileVars, archived>>

OpenFile(p) ==
    /\ pc[p] = "locked"
    /\ <<pa[p], pg[p]>> \notin disk                \* O_EXCL
    /\ disk' = disk \cup {<<pa[p], pg[p]>>}
    /\ Goto(p, "streaming")
    /\ UNCHANGED <<taskVars, hookVars, admission, attVars, bodyVars, nodeVars,
                   budget, lock, whole, archived>>

\* Mutant: the row lock is not needed.
StageableUnlocked(p) ==
    /\ pc[p] = "streaming" /\ uploadId[pa[p]] = pg[p]
    /\ Fence(pa[p][1], pa[p][2])
\* The body has arrived, matches the declared size and digest and is synced;
\* the fence still holds and p's session still owns the row locks.
Stageable(p) ==
    LET a == pa[p]
    IN  /\ pc[p] = "streaming" /\ lock[a[1]] = p
        /\ uploadId[a] = pg[p]
        /\ Fence(a[1], a[2])

\* label: "commit" when the commit is acknowledged, "reset" when it happened
\* but the acknowledgement was lost (the handler sees an error).
StreamStage(p, label) ==
    LET a == pa[p]
    IN  /\ Stageable(p)
        /\ whole' = whole \cup {<<a, pg[p]>>}
        /\ attState' = [attState EXCEPT ![a] = "staged"]
        /\ taskState' = [taskState EXCEPT ![a[1]] = "staged"]
        /\ keep' = [keep EXCEPT ![a[1]] = Touched]
        /\ Unlock(p) /\ Goto(p, label)
        /\ UNCHANGED <<identity, current, attemptCount, taskDeadline, hookVars,
                       admission, lease, attDeadline, bodyVars, nodeVars, budget,
                       disk, archived>>

\* The commit itself failed: staged was already set, so the file stays.
StreamCommitFailed(p) ==
    /\ Stageable(p)
    /\ whole' = whole \cup {<<pa[p], pg[p]>>}
    /\ Unlock(p) /\ Goto(p, "reset")
    /\ UNCHANGED <<taskVars, hookVars, admission, attVars, bodyVars, nodeVars,
                   budget, disk, archived>>

\* Any error before the commit (body, digest, disk, fence, session): the
\* deferred cleanup removes the file, the transaction rolls back.
StreamFail(p) ==
    /\ pc[p] \in {"locked", "streaming"}
    /\ disk' = IF pc[p] = "streaming" THEN disk \ {<<pa[p], pg[p]>>} ELSE disk
    /\ whole' = whole \cap disk'
    /\ Unlock(p) /\ Goto(p, "reset")
    /\ UNCHANGED <<taskVars, hookVars, admission, attVars, bodyVars, nodeVars,
                   budget, archived>>

ResetTransfer(p) ==
    LET a == pa[p]
        mine == Owns(a, pg[p])
    IN  /\ pc[p] = "reset"
        /\ Unlocked(a[1])
        /\ disk' = IF mine THEN disk \ {<<a, pg[p]>>} ELSE disk
        /\ whole' = whole \cap disk'
        /\ spoolPath' = IF mine THEN [spoolPath EXCEPT ![a] = Null] ELSE spoolPath
        /\ uploadId' = IF mine THEN [uploadId EXCEPT ![a] = Null] ELSE uploadId
        /\ Leave(p)
        /\ UNCHANGED <<taskVars, hookVars, admission, attVars, sha, nodeVars,
                       budget, lock, archived>>

-----------------------------------------------------------------------------
(* commitStaged, called by the upload handler and by Maintain.               *)

CommitLock(p, a) ==
    /\ \/ pc[p] = "commit" /\ pa[p] = a
       \/ pc[p] = "idle" /\ attState[a] = "staged"      \* Maintain's scan
    /\ Unlocked(a[1])                                    \* else SKIP LOCKED
    /\ taskState[a[1]] = "staged" /\ current[a[1]] = a[2] /\ attState[a] = "staged"
    /\ <<a, spoolPath[a]>> \in disk \cap whole           \* re-hashed
    /\ lock' = [lock EXCEPT ![a[1]] = p]
    /\ pc' = [pc EXCEPT ![p] = "archiving"]
    /\ pa' = [pa EXCEPT ![p] = a]
    /\ pg' = [pg EXCEPT ![p] = spoolPath[a]]
    /\ UNCHANGED <<taskVars, hookVars, admission, attVars, bodyVars, nodeVars,
                   budget, fileVars, archived>>

\* The row is taken or gone, or the file failed its check: left to Maintain.
CommitSkip(p) ==
    LET a == pa[p]
    IN  /\ pc[p] = "commit"
        /\ \/ ~Unlocked(a[1]) \/ taskState[a[1]] # "staged" \/ current[a[1]] # a[2]
           \/ <<a, spoolPath[a]>> \notin disk \cap whole
        /\ Leave(p)
        /\ UNCHANGED <<taskVars, hookVars, admission, attVars, bodyVars, nodeVars,
                       budget, lock, fileVars, archived>>

\* Mutant: an archive error is ignored.
ArchiveIgnored(p) ==
    /\ pc[p] = "archiving" /\ Goto(p, "archived")
    /\ UNCHANGED <<taskVars, hookVars, admission, attVars, bodyVars, nodeVars,
                   budget, lock, fileVars, archived>>
\* The archive callback stores the bytes; the transaction is still open.
Archive(p) ==
    /\ pc[p] = "archiving"
    /\ archived' = archived \cup {<<pa[p], pg[p]>>}
    /\ Goto(p, "archived")
    /\ UNCHANGED <<taskVars, hookVars, admission, attVars, bodyVars, nodeVars,
                   budget, lock, fileVars>>

\* The callback, or the update after it on a lost session, failed.
ArchiveFail(p) ==
    /\ \/ pc[p] = "archiving"
       \/ pc[p] = "archived" /\ lock[pa[p][1]] # p
    /\ Unlock(p) /\ Leave(p)
    /\ UNCHANGED <<taskVars, hookVars, admission, attVars, bodyVars, nodeVars,
                   budget, fileVars, archived>>

CommitDone(p) ==
    LET a == pa[p]
    IN  /\ pc[p] = "archived" /\ lock[a[1]] = p
        /\ attState' = [attState EXCEPT ![a] = "done"]
        /\ taskState' = [taskState EXCEPT ![a[1]] = "done"]
        /\ hookPending' = [hookPending EXCEPT ![a[1]] = TRUE]
        /\ keep' = [keep EXCEPT ![a[1]] = Touched]
        /\ Unlock(p) /\ Goto(p, "clean")
        /\ UNCHANGED <<identity, current, attemptCount, taskDeadline, hookTries,
                       hookWait, hooked, admission, lease, attDeadline, bodyVars,
                       nodeVars, budget, fileVars, archived>>

\* Mutant: expired attempts are not cleaned.
CleanableAnswered(a) == attState[a] \in {"done", "failed"} /\ spoolPath[a] # Null
\* Maintain's scan for finished attempts that still name a file.
Cleanable(a) == attState[a] \in Terminal /\ spoolPath[a] # Null

\* cleanFile: remove the file, then forget the path.
CleanRemove(p, a) ==
    LET g == IF pc[p] = "clean" THEN pg[p] ELSE spoolPath[a]
    IN  /\ \/ pc[p] = "clean" /\ pa[p] = a
           \/ pc[p] = "idle" /\ Cleanable(a)
        /\ disk' = disk \ {<<a, g>>} /\ whole' = whole \cap disk'
        /\ pc' = [pc EXCEPT ![p] = "clear"]
        /\ pa' = [pa EXCEPT ![p] = a]
        /\ pg' = [pg EXCEPT ![p] = g]
        /\ UNCHANGED <<taskVars, hookVars, admission, attVars, bodyVars, nodeVars,
                       budget, lock, archived>>

CleanClear(p) ==
    LET a == pa[p]
    IN  /\ pc[p] = "clear"
        /\ spoolPath' = IF attState[a] \in Terminal
                        THEN [spoolPath EXCEPT ![a] = Null] ELSE spoolPath
        /\ Leave(p)
        /\ UNCHANGED <<taskVars, hookVars, admission, attVars, sha, uploadId,
                       nodeVars, budget, lock, fileVars, archived>>

-----------------------------------------------------------------------------
(* Failures of a coordinator. *)

\* The process dies: its transaction rolls back, its files stay as they are.
Crash(p) ==
    /\ pc[p] # "idle"
    /\ Unlock(p) /\ Leave(p)
    /\ UNCHANGED <<taskVars, hookVars, admission, attVars, bodyVars, nodeVars,
                   budget, fileVars, archived>>

\* PostgreSQL drops the session: the locks are gone, the goroutine runs on.
SessionLost(p) ==
    /\ \E t \in Tasks : lock[t] = p
    /\ Unlock(p)
    /\ UNCHANGED <<taskVars, hookVars, admission, attVars, bodyVars, nodeVars,
                   budget, pc, pa, pg, fileVars, archived>>

\* A restart with another MaxWorkerAttempts.
Reconfigure(b) ==
    /\ budget # b /\ budget' = b
    /\ UNCHANGED <<taskVars, hookVars, admission, attVars, bodyVars, nodeVars,
                   procVars, fileVars, archived>>

-----------------------------------------------------------------------------
(* Maintain: expiry, outbox, retention. *)

\* Mutant: a lease only expires while its attempt is running.
OverdueRunning(t) ==
    \/ taskState[t] = "queued" /\ (taskDeadline[t] = 0 \/ attemptCount[t] >= budget)
    \/ /\ taskState[t] = "running" /\ attState[<<t, current[t]>>] = "running"
       /\ lease[<<t, current[t]>>] = 0 \/ attDeadline[<<t, current[t]>>] = 0
    \/ taskState[t] = "staged" /\ keep[t] = 0
Overdue(t) ==
    \/ taskState[t] = "queued" /\ (taskDeadline[t] = 0 \/ attemptCount[t] >= budget)
    \/ /\ taskState[t] = "running"
       /\ LET a == <<t, current[t]>>
          IN  \/ lease[a] = 0
              \/ attState[a] = "running" /\ attDeadline[a] = 0
              \/ taskDeadline[t] = 0
    \/ taskState[t] = "staged" /\ keep[t] = 0

\* One transaction over every overdue task that is not locked (SKIP LOCKED).
Expire ==
    LET late == {t \in Tasks : Overdue(t) /\ Unlocked(t)}
    IN  /\ late # {}
        /\ attState' = [a \in Attempts |->
                          IF /\ a[1] \in late /\ taskState[a[1]] # "queued"
                             /\ current[a[1]] = a[2] /\ attState[a] \in Live
                          THEN "expired" ELSE attState[a]]
        /\ taskState' = [t \in Tasks |->
                           IF t \in late THEN Requeued(t, taskState[t] = "staged")
                           ELSE taskState[t]]
        /\ keep' = [t \in Tasks |-> IF t \in late THEN Touched ELSE keep[t]]
        /\ UNCHANGED <<identity, current, attemptCount, taskDeadline, hookVars,
                       admission, lease, attDeadline, bodyVars, nodeVars, budget,
                       procVars, fileVars, archived>>

HookDue(t) ==
    /\ taskState[t] = "done" /\ hookPending[t] /\ hookWait[t] = 0
    /\ Unlocked(t)

\* recorded = FALSE: the hook ran, the transaction that says so did not commit.
HookDelivered(t, recorded) ==
    /\ HookDue(t)
    /\ hooked' = hooked \cup {t}
    /\ hookPending' = [hookPending EXCEPT ![t] = ~recorded]
    /\ UNCHANGED <<taskVars, hookTries, hookWait, admission, attVars, bodyVars,
                   nodeVars, budget, procVars, fileVars, archived>>

\* After n failed deliveries the outbox tries again.
HookRetries(n) == n < HookLimit

HookFailed(t) ==
    /\ HookDue(t)
    /\ hookTries' = [hookTries EXCEPT ![t] = @ + 1]
    /\ hookPending' = [hookPending EXCEPT ![t] = HookRetries(hookTries[t] + 1)]
    /\ hookWait' = [hookWait EXCEPT ![t] = HookDelay[Least(hookTries[t], BackoffCap)]]
    /\ UNCHANGED <<taskVars, hooked, admission, attVars, bodyVars, nodeVars,
                   budget, procVars, fileVars, archived>>

\* Retention: the row goes, with its attempts and admissions (ON DELETE CASCADE).
DeleteTask(t) ==
    /\ taskState[t] \in {"done", "failed"} /\ ~hookPending[t] /\ keep[t] = 0
    /\ \A w \in Workers : spoolPath[<<t, w>>] = Null
    /\ Unlocked(t)
    /\ taskState' = [taskState EXCEPT ![t] = "deleted"]
    /\ current' = [current EXCEPT ![t] = Null]
    /\ attemptCount' = [attemptCount EXCEPT ![t] = 0]
    /\ taskDeadline' = [taskDeadline EXCEPT ![t] = 0]
    /\ hookTries' = [hookTries EXCEPT ![t] = 0]
    /\ hookWait' = [hookWait EXCEPT ![t] = 0]
    /\ admission' = [r \in Requests |-> IF admission[r] = t THEN Null ELSE admission[r]]
    /\ attState' = [a \in Attempts |-> IF a[1] = t THEN "none" ELSE attState[a]]
    /\ lease' = [a \in Attempts |-> IF a[1] = t THEN 0 ELSE lease[a]]
    /\ attDeadline' = [a \in Attempts |-> IF a[1] = t THEN 0 ELSE attDeadline[a]]
    /\ sha' = [a \in Attempts |-> IF a[1] = t THEN Null ELSE sha[a]]
    /\ uploadId' = [a \in Attempts |-> IF a[1] = t THEN Null ELSE uploadId[a]]
    /\ UNCHANGED <<identity, keep, hookPending, hooked, spoolPath, nodeVars, budget,
                   procVars, fileVars, archived>>

\* A file no attempt names.  The code also waits until the file is Retention
\* old; leaving that wait out only adds behaviours.
SweepOrphan(f) ==
    /\ f \in disk /\ spoolPath[f[1]] # f[2]
    /\ disk' = disk \ {f} /\ whole' = whole \cap disk'
    /\ UNCHANGED <<taskVars, hookVars, admission, attVars, bodyVars, nodeVars,
                   budget, procVars, archived>>

-----------------------------------------------------------------------------
Scheduler ==
    \/ \E r \in Requests \cup {Null}, i \in Identities, t \in Tasks :
          EnqueueNew(r, i, t) \/ EnqueueJoin(r, i, t)
    \/ \E w \in Workers : \E n \in ClaimLimits : Claim(w, n)
    \/ \E w \in Workers, ids \in SUBSET Tasks, cap \in Capacities :
          Heartbeat(w, ids, cap)
    \/ \E t \in Tasks, w \in Workers, terminal \in BOOLEAN : Report(t, w, terminal)

Admin ==
    \E w \in Workers :
       \/ Approve(w) \/ Enable(w) \/ Drain(w)
       \/ \E status \in {"rejected", "revoked"} : Dismiss(w, status)

Transfer(p) ==
    \/ \E t \in Tasks, w \in Workers, d \in Digests, g \in Gens :
          UploadReserve(p, t, w, d, g)
    \/ StreamLock(p) \/ OpenFile(p)
    \/ \E label \in {"commit", "reset"} : StreamStage(p, label)
    \/ StreamCommitFailed(p) \/ StreamFail(p) \/ ResetTransfer(p)

Commit(p) ==
    \/ \E a \in Attempts : CommitLock(p, a) \/ CleanRemove(p, a)
    \/ CommitSkip(p) \/ Archive(p) \/ ArchiveFail(p) \/ CommitDone(p)
    \/ CleanClear(p)

Retain ==
    \/ Expire
    \/ \E t \in Tasks :
          \/ \E recorded \in BOOLEAN : HookDelivered(t, recorded)
          \/ HookFailed(t) \/ DeleteTask(t)
    \/ \E f \in Paths : SweepOrphan(f)

Next ==
    \/ Tick \/ Scheduler \/ Admin \/ Retain
    \/ \E t \in Tasks, w \in Workers, d \in Digests : UploadRefused(t, w, d)
    \/ \E p \in Procs : Transfer(p) \/ Commit(p) \/ Crash(p) \/ SessionLost(p)
    \/ \E b \in Budgets : Reconfigure(b)

Spec == Init /\ [][Next]_vars

-----------------------------------------------------------------------------
(* Properties. *)

\* An attempt that can still deliver belongs to the task's current worker, and
\* the task's state says which attempt state to expect.  Claim, report, expire,
\* staging and the archive commit each change one of the two rows: a stale
\* handler or a re-queue in between must never leave two workers on one task,
\* or a task running with nobody on it.
RowsAgree(t) ==
    /\ \A w \in Workers :
          /\ attState[<<t, w>>] \in Fenced  => taskState[t] = "running" /\ current[t] = w
          /\ attState[<<t, w>>] = "staged" => taskState[t] = "staged" /\ current[t] = w
          /\ attState[<<t, w>>] = "done"   => taskState[t] = "done" /\ current[t] = w
    /\ taskState[t] = "running" =>
          current[t] \in Workers /\ attState[<<t, current[t]>>] \in Fenced
    /\ taskState[t] = "staged" =>
          current[t] \in Workers /\ attState[<<t, current[t]>>] = "staged"
    /\ taskState[t] = "done" =>
          current[t] \in Workers /\ attState[<<t, current[t]>>] = "done"
LiveAttemptIsCurrent == \A t \in Tasks : RowsAgree(t)

\* transfer.go: an accepted (staged) result always has its fully written file,
\* whatever stale handler, reset, sweep, retry or crash runs beside it.
StagedBytesSafe ==
    \A a \in Attempts :
       attState[a] = "staged" => spoolPath[a] # Null /\ <<a, spoolPath[a]>> \in disk \cap whole

\* Claims never exceed the global or the per-worker concurrency (claim counts
\* under the scheduler lock), whatever capacity workers advertise.
InFlightBounded ==
    /\ Cardinality(InFlight) <= MaxInFlight
    /\ \A w \in Workers : Cardinality(InFlightOf(w)) <= MaxWorkerInFlight

\* attempt_count is the number of distinct workers that tried the task, so the
\* budget it is compared with really counts workers.
BudgetCountsWorkers ==
    \A t \in Tasks :
       attemptCount[t] = Cardinality({w \in Workers : attState[<<t, w>>] # "none"})

\* No mix of claims, revocations and retries makes a worker hold more attempts
\* than it may, or a task be handed out more often than its budget.
ClaimsBounded == InFlightBounded /\ BudgetCountsWorkers

\* The spool reservations never exceed the configured quota.
SpoolWithinQuota == Reserved(Attempts) <= SpoolMaxBytes

\* maintenance.go: "Every live transfer has a committed DB path reservation
\* BEFORE file creation, so this cannot race transfer/TTL cleanup": the file a
\* process is writing under its row lock is reserved, and nobody removed it.
LiveTransferReserved ==
    \A p \in Procs :
       pc[p] = "streaming" /\ lock[pa[p][1]] = p =>
          spoolPath[pa[p]] = pg[p] /\ <<pa[p], pg[p]>> \in disk

\* No lease outlives the task's deadline, and a running one not its execution
\* deadline either (the least(...) of claim, heartbeat and upload).
LeaseWithinDeadlines ==
    \A t \in Tasks, w \in Workers :
       /\ attState[<<t, w>>] \in Fenced => lease[<<t, w>>] <= taskDeadline[t]
       /\ attState[<<t, w>>] = "running" => lease[<<t, w>>] <= attDeadline[<<t, w>>]

\* Action fences in-progress work: a dismissed worker has no lease left, and no
\* later heartbeat, claim or upload gives it one.
DismissedHoldsNoLease ==
    \A t \in Tasks, w \in Workers :
       nodeStatus[w] \in {"rejected", "revoked"} /\ attState[<<t, w>>] \in Fenced
          => lease[<<t, w>>] = 0

\* upload.go: "Done means Archive has succeeded", and what it was given is
\* the file of the last generation the current attempt reserved, the one its
\* receipt describes.
DoneIsArchived ==
    \A t \in Tasks :
       taskState[t] = "done" =>
          <<<<t, current[t]>>, uploadId[<<t, current[t]>>]>> \in archived

\* The hook outbox: a finished task has its hook still pending, or the hook ran,
\* or its deliveries are exhausted; and no hook runs before the archive.
HookOutbox ==
    \A t \in Tasks :
       /\ taskState[t] = "done" =>
             hookPending[t] \/ t \in hooked \/ hookTries[t] >= HookLimit
       /\ t \in hooked => \E f \in archived : f[1][1] = t

\* The rows of a task agree with each other after every transaction: leases
\* with deadlines, dismissed attempts with leases, owed callbacks with archives.
RowsSound == LeaseWithinDeadlines /\ DismissedHoldsNoLease /\ HookOutbox

\* upload.go: "Retries keep the FIRST upload deadline, not an extendable TTL".
UploadPhaseFixed ==
    [][\A a \in Attempts :
          attState[a] = "uploading" /\ attState'[a] = "uploading"
             => lease'[a] <= lease[a]]_vars

\* README: "No worker can reassign an accepted staged result", and it is only
\* failed once its retention has passed.
AcceptedResultKept ==
    [][\A t \in Tasks :
          taskState[t] = "staged" =>
             /\ current'[t] = current[t]
             /\ \/ taskState'[t] \in {"staged", "done"}
                \/ taskState'[t] = "failed" /\ keep[t] = 0]_vars

\* Receipts of finished attempts never change until retention deletes them: a
\* worker that asks again, after any number of other transactions, gets the
\* answer it got before.
ReceiptsImmutable ==
    [][\A a \in Attempts :
          attState[a] \in Terminal =>
             \/ attState'[a] = attState[a] /\ sha'[a] = sha[a]
             \/ taskState'[a[1]] = "deleted"]_vars

\* Results stand: no later transaction alters a receipt, extends an upload or
\* takes an accepted result back.
ResultsKept == ReceiptsImmutable /\ UploadPhaseFixed /\ AcceptedResultKept

\* admissions.go: "A replay is pinned to the original task even after
\* done/failed": an admission names a stored task of the paper it asked for, and
\* a paper never has two active tasks whose admissions could disagree.
AdmissionsAgree ==
    /\ \A r \in Requests :
          admission[r] # Null =>
             /\ taskState[admission[r]] \notin {"none", "deleted"}
             /\ identity[admission[r]] = IdentityOf[r]
    /\ \A t, u \in Tasks :
          taskState[t] \in Active /\ taskState[u] \in Active /\ t # u
             => identity[t] # identity[u]

\* Papers that share the spool and the task table: together their transfers
\* stay within the quota, and each admission stays with its own paper's task.
PapersShareSpool == SpoolWithinQuota /\ AdmissionsAgree

-----------------------------------------------------------------------------
(* Liveness.  Time passes; a process in the middle of an upload, a commit or *)
(* a clean-up goes on (every step is bounded by a context deadline); Start   *)
(* runs Maintain every 5 seconds, and since one Maintain runs expire before  *)
(* its own commits, expire meets each row unlocked again and again.  No      *)
(* fairness is assumed of workers, administrators, callbacks' success or     *)
(* the commit of a staged result; of cleaning up, that it is not interrupted *)
(* every single time.                                                        *)

Working(p) == pc[p] # "idle" /\ (Transfer(p) \/ Commit(p))

FleetFair ==
    /\ WF_vars(Tick)
    /\ \A p \in Procs : WF_vars(Working(p))
    /\ SF_vars(Expire)
    /\ SF_vars(\E p \in Procs, a \in Attempts : CleanRemove(p, a))
    /\ SF_vars(\E p \in Procs : CleanClear(p))
    /\ WF_vars(\E f \in Paths : SweepOrphan(f))
FairSpec == Spec /\ FleetFair

\* Every task is settled: no combination of lost workers, interrupted uploads,
\* failing archives and restarts keeps it queued, running or staged for ever.
TasksSettle ==
    \A t \in Tasks : taskState[t] \in Active ~> taskState[t] \in {"done", "failed"}

\* Every file that enters the spool leaves it again, and so does the
\* reservation of every finished attempt.
SpoolDrains ==
    /\ \A f \in Paths : f \in disk ~> f \notin disk
    /\ \A a \in Attempts : attState[a] \in Terminal ~> spoolPath[a] = Null

-----------------------------------------------------------------------------
(* The inductive strengthening that carries LiveAttemptIsCurrent,            *)
(* StagedBytesSafe, LiveTransferReserved and DoneIsArchived: who may hold a  *)
(* row lock, what the holder knows, and which files a stale process that     *)
(* lost its lock can still reach.                                            *)

\* A row lock belongs to a process inside the transaction that took it.
LockDiscipline ==
    \A t \in Tasks :
       lock[t] # Null =>
          /\ pc[lock[t]] \in {"locked", "streaming", "archiving", "archived"}
          /\ pa[lock[t]][1] = t

\* While p holds the lock, what it read under the lock still holds.
WriterOwns(p) ==
    pc[p] \in {"locked", "streaming"} /\ lock[pa[p][1]] = p =>
       /\ Owns(pa[p], pg[p]) /\ spoolPath[pa[p]] = pg[p]
       /\ pc[p] = "streaming" => <<pa[p], pg[p]>> \in disk
CommitterOwns(p) ==
    pc[p] \in {"archiving", "archived"} /\ lock[pa[p][1]] = p =>
       /\ attState[pa[p]] = "staged" /\ spoolPath[pa[p]] = pg[p]
       /\ pc[p] = "archived" => <<pa[p], pg[p]>> \in archived

\* Two transfers of one attempt never share a generation, and the generation of
\* an unfinished transfer is never the accepted one, so the file such a transfer
\* removes when it fails is its own.
Transferring == {"reserved", "locked", "streaming", "reset"}
GenerationsDistinct ==
    \A p, q \in Procs :
       pc[p] \in Transferring /\ pc[q] \in Transferring /\ p # q /\ pa[p] = pa[q]
          => pg[p] # pg[q]
UnfinishedNotAccepted(p) ==
    pc[p] \in {"reserved", "locked", "streaming"} /\ attState[pa[p]] = "staged"
       => spoolPath[pa[p]] # pg[p]

\* cleanFile runs on finished attempts only.
CleanerOfFinished(p) ==
    pc[p] \in {"clean", "clear"} =>
       attState[pa[p]] \in Terminal \/ taskState[pa[p][1]] = "deleted"

\* The path an attempt names is that of its latest generation.
PathIsGeneration ==
    \A a \in Attempts :
       spoolPath[a] # Null \/ attState[a] = "uploading" => spoolPath[a] = uploadId[a]

IInv ==
    /\ LiveAttemptIsCurrent /\ StagedBytesSafe /\ DoneIsArchived
    /\ LockDiscipline /\ GenerationsDistinct /\ PathIsGeneration
    /\ \A p \in Procs : /\ WriterOwns(p) /\ CommitterOwns(p)
                        /\ UnfinishedNotAccepted(p) /\ CleanerOfFinished(p)

-----------------------------------------------------------------------------
(* The refinement of FleetPromise.                                           *)

\* The detailed state seen as the promise: an attempt whose bytes are still on
\* their way is being worked on, and a deleted task has no receipts.
Receipt(task, attempt) ==
    IF task = "deleted" THEN "forgotten"
    ELSE CASE attempt \in Fenced -> "working"
           [] attempt = "staged"  -> "accepted"
           [] OTHER               -> attempt
OutcomeOf(a) == Receipt(taskState[a[1]], attState[a])
Promise == INSTANCE FleetPromise
           WITH PTasks <- Tasks, PWorkers <- Workers,
                outcome <- [a \in Attempts |-> OutcomeOf(a)],
                stored <- {f[1] : f \in archived}

\* A process on its way to the archive works on an attempt that was accepted,
\* whatever became of it since the process lost its row lock.  (The inductive
\* part that lets a late Archive step map to PStore.)
WasAccepted(a) ==
    attState[a] \in {"staged", "done", "expired"} \/ taskState[a[1]] = "deleted"
LateArchives ==
    \A p \in Procs : pc[p] \in {"archiving", "archived"} => WasAccepted(pa[p])

\* The coordinator implements FleetPromise.
KeepsPromise == Promise!PromiseSpec
=============================================================================
