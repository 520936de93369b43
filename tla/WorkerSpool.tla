---------------------------- MODULE WorkerSpool ----------------------------
(***************************************************************************)
(* One outbound download worker (internal/downloadworker) against the       *)
(* coordinator's promise.  The worker keeps a catalog of its attempts       *)
(* (records.json, replaced atomically) and one PDF per finished download.   *)
(* Three goroutines share it: the control cycle (status, heartbeat, claim), *)
(* one goroutine per executing download, and the delivery loop, which also  *)
(* expires old results.  Every request may be lost, answered too late or    *)
(* served after the worker stopped waiting; the process may crash between   *)
(* any two file operations, and every save may fail with its outcome        *)
(* unknown.                                                                 *)
(*                                                                          *)
(* One download per attempt, so the digest and size a receipt repeats are   *)
(* those of the upload it answers.  Sizes are counted in MaxPDFBytes.       *)
(***************************************************************************)
EXTENDS FleetPromise, Integers, FiniteSets

CONSTANTS
    Me,                \* this worker, one of PWorkers
    SpoolQuota,        \* MaxSpoolBytes in units of MaxPDFBytes
    Concurrency,
    MaxCrashes,        \* bound: how often the process dies or is stopped
    NoTask

ASSUME WorkerConfig ==
    /\ Me \in PWorkers /\ SpoolQuota \in Nat \ {0} /\ Concurrency \in Nat \ {0}
    /\ MaxCrashes \in Nat /\ NoTask \notin PTasks

Mine(t) == <<t, Me>>
RecordStates == {"none", "running", "ready", "failed", "expired"}
Answers == POutcomes \cup {"waiting", "error"}

VARIABLES
    records,    \* Spool.records, in memory, by task ("none": absent)
    catalog,    \* records.json
    files,      \* tasks whose <attempt>.pdf is in the data directory
    aged,       \* ready results past ready_at + ttl
    half,       \* <<operation, task>> between its two file operations, under mu
    active,     \* downloads in progress
    claimed,    \* assignments of the last claim not yet started
    cyclePc, allowed,
    up,         \* the delivery loop: operation, task, the answer it got
    net,        \* requests the coordinator has not served yet
    node,       \* this worker's status at the coordinator
    phase,      \* the process: up, stopping, down
    fatal, crashes,
    acked       \* downloads whose Ready returned nil

spoolVars  == <<records, catalog, files, aged, half, acked>>
cycleVars  == <<active, claimed, cyclePc, allowed>>
workerProcVars   == <<phase, fatal, crashes>>
workerVars == <<promiseVars, spoolVars, cycleVars, workerProcVars, up, net, node>>

NoHalf == <<"none", NoTask>>
NoDelivery   == [op |-> "idle", task |-> NoTask, answer |-> "waiting"]

WorkerTypeOK ==
    /\ outcome \in [PAttempts -> POutcomes] /\ stored \subseteq PAttempts
    /\ records \in [PTasks -> RecordStates] /\ catalog \in [PTasks -> RecordStates]
    /\ files \subseteq PTasks /\ aged \subseteq PTasks /\ acked \subseteq PTasks
    /\ half \in {"none", "ready", "archived", "expired"} \X (PTasks \cup {NoTask})
    /\ active \subseteq PTasks /\ claimed \subseteq PTasks
    /\ cyclePc \in {"idle", "claim", "start"} /\ allowed \in BOOLEAN
    /\ up \in [op : {"idle", "receipt", "upload", "report"},
               task : PTasks \cup {NoTask}, answer : Answers]
    /\ net \subseteq {"upload", "report"} \X PTasks
    /\ node \in {"approved", "draining", "revoked"}
    /\ phase \in {"up", "stopping", "down"} /\ fatal \in BOOLEAN /\ crashes \in Nat

WorkerInit ==
    /\ PromiseInit
    /\ records = [t \in PTasks |-> "none"] /\ catalog = records
    /\ files = {} /\ aged = {} /\ half = NoHalf /\ acked = {}
    /\ active = {} /\ claimed = {}
    /\ cyclePc = "idle" /\ allowed = FALSE
    /\ up = NoDelivery /\ net = {} /\ node = "approved"
    /\ phase = "up" /\ fatal = FALSE /\ crashes = 0

-----------------------------------------------------------------------------
(* The spool.  saveLocked writes the whole map; an error leaves the old or   *)
(* the new catalog on disk, and the caller takes its change back.            *)

With(t, s) == [records EXCEPT ![t] = s]
Saved(new) == records' = new /\ catalog' = new
SaveFailed(new) == records' = records /\ catalog' \in {catalog, new}

Running == {t \in PTasks : records[t] = "running"}
\* slotsLocked; the free disk space can only lower it (see CycleBeat).
Slots ==
    LET room == SpoolQuota - Cardinality({t \in PTasks : records[t] = "ready"})
                           - Cardinality(Running)
        rest == Concurrency - Cardinality(Running)
        n    == IF room <= rest THEN room ELSE rest
    IN  IF n < 0 THEN 0 ELSE n

SpoolFree == phase # "down" /\ half = NoHalf      \* mu can be taken
\* os.Remove and syncDir; an error leaves the file to the next OpenSpool.
Removed(t) == files' \in {files, files \ {t}}

\* Mutant: the catalog says ready before the body is in place.
ReadyRecordFirst(t) ==
    /\ SpoolFree /\ t \in active /\ records[t] = "running"
    /\ Saved(With(t, "ready")) /\ half' = <<"ready", t>>
    /\ UNCHANGED <<promiseVars, files, aged, acked, cycleVars, workerProcVars, up, net, node>>
\* FetchPDF returned a body: Ready writes it, then the record.
ReadyBody(t) ==
    /\ SpoolFree /\ t \in active /\ records[t] = "running"
    /\ files' = files \cup {t} /\ half' = <<"ready", t>>
    /\ UNCHANGED <<promiseVars, records, catalog, aged, acked, cycleVars, workerProcVars,
                   up, net, node>>
ReadyRecord(t) ==
    /\ half = <<"ready", t>> /\ half' = NoHalf
    /\ active' = active \ {t}
    /\ \/ Saved(With(t, "ready")) /\ acked' = acked \cup {t} /\ UNCHANGED fatal
       \/ SaveFailed(With(t, "ready")) /\ fatal' = TRUE /\ UNCHANGED acked
    /\ UNCHANGED <<promiseVars, files, aged, claimed, cyclePc, allowed, phase, crashes,
                   up, net, node>>
\* The body could not be written, or is too long: only the record's fate is fatal.
ReadyNoBody(t) ==
    /\ SpoolFree /\ t \in active /\ records[t] = "running"
    /\ active' = active \ {t} /\ fatal' = TRUE
    /\ UNCHANGED <<promiseVars, spoolVars, claimed, cyclePc, allowed, phase, crashes,
                   up, net, node>>
\* FetchPDF failed, was cancelled, or panicked: FailWithTrace.
TaskFailed(t) ==
    /\ SpoolFree /\ t \in active /\ records[t] # "ready"
    /\ active' = active \ {t}
    /\ \/ Saved(With(t, "failed")) /\ UNCHANGED fatal
       \/ SaveFailed(With(t, "failed")) /\ fatal' = TRUE
    /\ UNCHANGED <<promiseVars, files, aged, half, acked, claimed, cyclePc, allowed,
                   phase, crashes, up, net, node>>

-----------------------------------------------------------------------------
(* The control cycle; any call may fail, which ends the cycle.  A status or  *)
(* heartbeat that finds a lease or the approval gone, the lease loop and the *)
(* deadline cancel downloads: FetchPDF then returns early, as TaskFailed     *)
(* allows it to do at any time.                                              *)

CycleEnds == cyclePc' = "idle"
CycleStep(pc) == phase = "up" /\ cyclePc = pc

CycleStatus ==
    LET ok == node \in {"approved", "draining"}
    IN  /\ CycleStep("idle")
        /\ allowed' = ok
        /\ UNCHANGED <<promiseVars, spoolVars, active, claimed, cyclePc, workerProcVars, up, net,
                       node>>

\* The heartbeat names the active attempts and learns which leases live on; the
\* claim needs an approved node, a healthy browser and a free slot.
CycleBeat ==
    /\ CycleStep("idle") /\ allowed
    /\ allowed' = (node \in {"approved", "draining"})
    /\ cyclePc' \in IF node = "approved" /\ half = NoHalf /\ Slots > 0
                    THEN {"claim", "idle"} ELSE {"idle"}
    /\ UNCHANGED <<promiseVars, spoolVars, active, claimed, workerProcVars, up, net, node>>

\* The coordinator hands out at most the slots asked for; the answer may be lost.
CycleClaim ==
    /\ CycleStep("claim") /\ node = "approved"
    /\ \E T \in SUBSET PTasks :
          /\ Cardinality(T) <= Slots /\ PAssign(Me, T)
          /\ \/ claimed' = T /\ cyclePc' = "start"
             \/ claimed' = {} /\ CycleEnds
    /\ UNCHANGED <<spoolVars, active, allowed, workerProcVars, up, net, node>>
CycleFails ==
    /\ phase = "up" /\ cyclePc # "idle" /\ CycleEnds /\ claimed' = {}
    /\ UNCHANGED <<promiseVars, spoolVars, active, allowed, workerProcVars, up,
                   net, node>>

Starts(t) == records[t] = "none" /\ Slots >= 1
\* Start, then the download's goroutine; an error drops the later assignments.
CycleStart(t) ==
    /\ CycleStep("start") /\ SpoolFree /\ t \in claimed
    /\ \/ /\ Starts(t) /\ Saved(With(t, "running"))
          /\ active' = active \cup {t}
          /\ claimed' = claimed \ {t}
          /\ cyclePc' = IF claimed' = {} THEN "idle" ELSE "start"
       \/ /\ IF Starts(t) THEN SaveFailed(With(t, "running"))
             ELSE UNCHANGED <<records, catalog>>
          /\ claimed' = {} /\ CycleEnds /\ UNCHANGED active
    /\ UNCHANGED <<promiseVars, files, aged, half, acked, allowed, workerProcVars,
                   up, net, node>>

-----------------------------------------------------------------------------
(* The delivery loop (uploadLoop, deliver).  It alone uploads, reports and   *)
(* expires, so the busy flag of the spool marks the record it works on.      *)

Wait(op, t) == up' = [op |-> op, task |-> t, answer |-> "waiting"]

Deliver(t) ==
    /\ phase = "up" /\ allowed /\ up = NoDelivery /\ SpoolFree
    /\ \/ /\ records[t] \in {"failed", "expired"}
          /\ Wait("report", t) /\ net' = net \cup {<<"report", t>>}
       \/ records[t] = "ready" /\ t \in files /\ Wait("receipt", t) /\ UNCHANGED net
    /\ UNCHANGED <<promiseVars, spoolVars, cycleVars, workerProcVars, node>>

\* The request, or its answer, is lost or too late; the loop tries again later.
DeliverDeferred ==
    /\ phase = "up" /\ up.op # "idle" /\ half = NoHalf /\ up' = NoDelivery
    /\ UNCHANGED <<promiseVars, spoolVars, cycleVars, workerProcVars, net, node>>

\* Archived acts on a done receipt only.
Archives(o) == o = "done"

Archived(t) ==
    /\ SpoolFree /\ records[t] = "ready"
    /\ \/ Saved(With(t, "none")) /\ half' = <<"archived", t>> /\ UNCHANGED up
       \/ SaveFailed(With(t, "none")) /\ up' = NoDelivery /\ UNCHANGED half
    /\ UNCHANGED net

\* Receipt answered: archived, settled elsewhere, or still to be uploaded.
ReceiptRead ==
    LET o == outcome[Mine(up.task)]
    IN  /\ phase = "up" /\ up.op = "receipt" /\ half = NoHalf
        /\ \/ Archives(o) /\ Archived(up.task)
           \/ /\ o \in {"accepted", "done", "failed", "expired"} /\ ~Archives(o)
              /\ up' = NoDelivery /\ UNCHANGED <<records, catalog, half, net>>
           \/ /\ o \in {"none", "working", "forgotten"} /\ ~Archives(o)
              /\ Wait("upload", up.task) /\ net' = net \cup {<<"upload", up.task>>}
              /\ UNCHANGED <<records, catalog, half>>
        /\ UNCHANGED <<promiseVars, files, aged, acked, cycleVars, workerProcVars, node>>

UploadAnswered ==
    /\ phase = "up" /\ up.op = "upload" /\ up.answer # "waiting" /\ half = NoHalf
    /\ IF Archives(up.answer) THEN Archived(up.task)
       ELSE up' = NoDelivery /\ UNCHANGED <<records, catalog, half, net>>
    /\ UNCHANGED <<promiseVars, files, aged, acked, cycleVars, workerProcVars, node>>

ArchivedRemove ==
    /\ half[1] = "archived" /\ half' = NoHalf
    /\ Removed(half[2]) /\ up' = NoDelivery
    /\ UNCHANGED <<promiseVars, records, catalog, aged, acked, cycleVars, workerProcVars,
                   net, node>>

\* Reported forgets the failure once the coordinator has recorded an end.
ReportAnswered ==
    LET t == up.task
        new == With(t, "none")
    IN  /\ phase = "up" /\ up.op = "report" /\ up.answer # "waiting" /\ half = NoHalf
        /\ up' = NoDelivery
        /\ IF up.answer \in {"failed", "expired", "done"}
           THEN Saved(new) \/ SaveFailed(new)
           ELSE UNCHANGED <<records, catalog>>
        /\ UNCHANGED <<promiseVars, files, aged, half, acked, cycleVars, workerProcVars, net,
                       node>>

\* Mutant: what the spool acknowledged never expires.
ExpiresUnacked(t) == records[t] = "ready" /\ up.task # t /\ t \in aged \ acked
Expires(t) == records[t] = "ready" /\ up.task # t /\ t \in aged
\* Expire: durably record the loss, then remove the body.
ExpireRecord(t) ==
    /\ phase = "up" /\ up = NoDelivery /\ SpoolFree /\ Expires(t)
    /\ \/ Saved(With(t, "expired")) /\ half' = <<"expired", t>> /\ UNCHANGED fatal
       \/ SaveFailed(With(t, "expired")) /\ fatal' = TRUE /\ UNCHANGED half
    /\ UNCHANGED <<promiseVars, files, aged, acked, cycleVars, phase, crashes, up, net,
                   node>>
ExpireRemove ==
    /\ half[1] = "expired" /\ half' = NoHalf
    /\ \/ files' = files \ {half[2]} /\ UNCHANGED fatal
       \/ fatal' = TRUE /\ UNCHANGED files
    /\ UNCHANGED <<promiseVars, records, catalog, aged, acked, cycleVars, phase,
                   crashes, up, net, node>>
-----------------------------------------------------------------------------
(* The coordinator, as FleetPromise allows, and its HTTP answers.            *)

HttpReply(op, t, o) ==
    /\ net' = net \ {<<op, t>>}
    /\ up' = IF up.op = op /\ up.task = t /\ up.answer = "waiting"
             THEN [up EXCEPT !.answer = o] ELSE up
Elsewhere == UNCHANGED <<spoolVars, cycleVars, workerProcVars>>

\* An upload is accepted, repeated (the receipt is returned) or refused.
ServeUpload(t) ==
    LET a == Mine(t)
    IN  /\ <<"upload", t>> \in net
        /\ \/ PAccept(a) /\ node # "revoked" /\ HttpReply("upload", t, "accepted")
           \/ /\ outcome[a] \in {"accepted", "done"}
              /\ HttpReply("upload", t, outcome[a]) /\ UNCHANGED promiseVars
           \/ HttpReply("upload", t, "error") /\ UNCHANGED promiseVars
        /\ Elsewhere /\ UNCHANGED node
ServeReport(t) ==
    LET a == Mine(t)
    IN  /\ <<"report", t>> \in net
        /\ \/ PRefuse(a) /\ node # "revoked" /\ HttpReply("report", t, "failed")
           \/ /\ outcome[a] \in {"accepted", "done", "failed", "expired"}
              /\ HttpReply("report", t, outcome[a]) /\ UNCHANGED promiseVars
           \/ HttpReply("report", t, "error") /\ UNCHANGED promiseVars
        /\ Elsewhere /\ UNCHANGED node

\* What the coordinator does on its own.
Coordinate ==
    /\ \/ \E t \in PTasks : PStore(Mine(t)) \/ PFinish(Mine(t)) \/ PExpire({Mine(t)})
       \/ \E t \in PTasks : PForget(t)
    /\ Elsewhere /\ UNCHANGED <<up, net, node>>

\* An administrator drains, enables or revokes the worker.
NodeAction(s) ==
    /\ node # "revoked" /\ node' = s /\ node # s
    /\ Elsewhere /\ UNCHANGED <<promiseVars, up, net>>

-----------------------------------------------------------------------------
(* The process. *)

\* The retention of a ready result passes.
Age(t) ==
    /\ "ready" \in {records[t], catalog[t]} /\ t \notin aged /\ aged' = aged \cup {t}
    /\ UNCHANGED <<promiseVars, records, catalog, files, half, acked, cycleVars,
                   workerProcVars, up, net, node>>

\* Run ends on a fatal error or a signal: no more cycles or deliveries, the
\* downloads in progress are cancelled and waited for.
StopWorker ==
    /\ phase = "up" /\ (fatal \/ crashes < MaxCrashes) /\ half = NoHalf
    /\ phase' = "stopping" /\ claimed' = {} /\ CycleEnds
    /\ up' = NoDelivery /\ crashes' = IF fatal THEN crashes ELSE crashes + 1
    /\ UNCHANGED <<promiseVars, spoolVars, active, allowed, fatal, net, node>>
Died == phase' = "down" /\ active' = {} /\ claimed' = {}
        /\ cyclePc' = "idle" /\ allowed' = FALSE /\ up' = NoDelivery /\ half' = NoHalf
ProcessExits ==
    /\ phase = "stopping" /\ active = {} /\ half = NoHalf /\ Died
    /\ UNCHANGED <<promiseVars, records, catalog, files, aged, acked, fatal, crashes,
                   net, node>>
WorkerCrash ==
    /\ phase # "down" /\ crashes < MaxCrashes /\ crashes' = crashes + 1 /\ Died
    /\ UNCHANGED <<promiseVars, records, catalog, files, aged, acked, fatal, net, node>>

\* A ready record without its PDF: OpenSpool refuses to start.
Openable == \A t \in PTasks : catalog[t] = "ready" => t \in files
Recovered == [t \in PTasks |-> IF catalog[t] = "running" THEN "failed" ELSE catalog[t]]
\* OpenSpool: interrupted downloads failed, other bodies than ready ones removed.
OpenSpool ==
    /\ phase = "down" /\ Openable
    /\ Saved(Recovered)
    /\ files' = {t \in files : Recovered[t] = "ready"}
    /\ phase' = "up" /\ fatal' = FALSE
    /\ UNCHANGED <<promiseVars, aged, half, acked, cycleVars, crashes, up, net, node>>

Download(t) == ReadyBody(t) \/ ReadyRecord(t) \/ ReadyNoBody(t) \/ TaskFailed(t)
Cycle == CycleStatus \/ CycleBeat \/ CycleClaim \/ CycleFails
         \/ \E t \in PTasks : CycleStart(t)
AnswersRead == ReceiptRead \/ UploadAnswered \/ ReportAnswered \/ DeliverDeferred
Tidy == ArchivedRemove \/ ExpireRemove \/ \E t \in PTasks : ExpireRecord(t)
WorkerNext ==
    \/ \E t \in PTasks : \/ Download(t) \/ Deliver(t) \/ Age(t)
                         \/ ServeUpload(t) \/ ServeReport(t)
    \/ Cycle \/ AnswersRead \/ Tidy \/ Coordinate
    \/ \E s \in {"approved", "draining", "revoked"} : NodeAction(s)
    \/ StopWorker \/ ProcessExits \/ WorkerCrash \/ OpenSpool

WorkerSpec == WorkerInit /\ [][WorkerNext]_workerVars

-----------------------------------------------------------------------------
(* Properties. *)

\* OpenSpool never meets a ready record without its PDF ("ready spool PDF is
\* missing", which keeps the worker down for good): whatever operation a crash
\* interrupts, and whichever catalog a failed save left behind.
AlwaysOpenable == Openable

\* fleet README: only matching done receipts authorize worker-side deletion.  A
\* download the spool accepted (Ready returned nil) is still on disk, or was kept
\* for its whole retention, or its bytes are in the archive, however receipts,
\* late answers, restarts and revocations interleave.
ResultNotLost ==
    \A t \in acked : t \in files \/ t \in aged \/ Mine(t) \in stored

\* The spool survives every crash: the worker can open it again, and it has lost
\* no accepted download.
SpoolSafe == AlwaysOpenable /\ ResultNotLost

\* A stopped or revoked worker's downloads end, the loops and OpenSpool run on,
\* time passes and the disk does not fail every save.
LossRecorded(t) ==
    ExpireRecord(t) /\ catalog'[t] = "expired" /\ records'[t] = "expired"
WorkerFair ==
    /\ \A t \in PTasks : /\ WF_workerVars(Download(t)) /\ WF_workerVars(Age(t))
                        /\ SF_workerVars(LossRecorded(t))
    /\ WF_workerVars(ProcessExits) /\ WF_workerVars(OpenSpool)
    /\ WF_workerVars(fatal /\ StopWorker)
    /\ WF_workerVars(AnswersRead) /\ WF_workerVars(ArchivedRemove \/ ExpireRemove)
WorkerFairSpec == WorkerSpec /\ WorkerFair

\* Every PDF leaves the spool again, archived or expired.
SpoolEmpties == \A t \in PTasks : records[t] = "ready" ~> records[t] # "ready"
=============================================================================
