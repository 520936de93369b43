-------------------------- MODULE Background_proofs --------------------------
(***************************************************************************)
(* What the background services keep for every value of their constants:    *)
(* the conversion scheduler its daily cap and the finality of Stop          *)
(* (SchedulerSound); a download worker a spool that opens again and has     *)
(* lost no accepted download (SpoolSafe), given the coordinator the fleet   *)
(* implements.  The downloader and the server process have their proofs in  *)
(* Services_proofs; the last section joins the four.                        *)
(***************************************************************************)
EXTENDS MCBackground, Services_proofs

-----------------------------------------------------------------------------
(* The scheduler. *)

\* A row is submitted below the cap, and midnight only resets the count; after
\* Stop a batch may begin, but it stops before its first row.
SchInv ==
    /\ today \in Nat /\ capDay \in Int /\ convertedToday \in Nat /\ capDay <= today
    /\ convertedToday <= DailyCap
    /\ batch.at \in {"wait", "done"} => ~CapReached
    /\ (slot = "free") = (batch.at = "none")
    /\ stopDone => stopping /\ batch.at \in {"none", "enabled", "fetch", "items"}

\* How a batch goes on, and ends.
LEMMA SchContinue ==
  ASSUME SchTypeOK, NEW at \in {"fetch", "items"} \cup Outcomes, NEW F \in SUBSET QueueRows,
         batch' = [batch EXCEPT !.at = at] \/ batch' = [batch EXCEPT !.at = at, !.fresh = F],
         UNCHANGED <<slot, loopAt, stopping, stopDone, today, countVars, rows, lastStop>>
  PROVE  SchTypeOK' /\ batch'.at = at
<1>1. batch' \in [at : {"none", "enabled", "fetch", "items", "wait"} \cup Outcomes,
                  attempted : SUBSET QueueRows, fresh : SUBSET QueueRows,
                  item : 0 .. QueueLength]
      /\ batch'.at = at
  BY DEF SchTypeOK
<1> QED
  BY <1>1 DEF SchTypeOK, countVars
\* A run that ends frees the slot and drops its batch.
LEMMA SchEnd ==
  ASSUME SchTypeOK, EndRun("queue_empty") \/ EndRun("converter_disabled") \/ EndRun("shutdown")
                    \/ EndRun("quota_exhausted") \/ EndRun("token_error")
                    \/ EndRun("queue_fetch_error") \/ EndRun("daily_cap_reached")
  PROVE  SchTypeOK' /\ batch'.at = "none" /\ slot' = "free"
BY DEF SchTypeOK, EndRun, countVars
\* A set of rows has a first one.
LEMMA FirstRow ==
  ASSUME NEW F \in SUBSET QueueRows, F # {}
  PROVE  (CHOOSE q \in F : \A o \in F : q <= o) \in F
<1>1. F \subseteq Nat /\ \A x, y \in F : x <= y \/ y < x
  BY DEF QueueRows
<1>2. PICK q \in F : \A o \in F : ~(<<o, q>> \in OpToRel(<, Nat))
  BY <1>1, NatLessThanWellFounded, WFMin
<1>3. \A o \in F : q <= o
  BY <1>1, <1>2 DEF OpToRel
<1> QED
  BY <1>3
\* The next row is submitted before Stop and below the cap.
LEMMA SchNextItem ==
  ASSUME SchTypeOK, NextItem
  PROVE  /\ SchTypeOK'
         /\ \/ EndRun("shutdown") \/ EndRun("daily_cap_reached")
            \/ /\ batch'.at \in {"fetch", "wait"} /\ (batch'.at = "wait" => ~stopping /\ ~CapReached)
               /\ UNCHANGED <<slot, loopAt, stopping, stopDone, today, countVars, rows, lastStop>>
<1>1. CASE batch.fresh = {}
  <2>1. NextItem => Continue([batch EXCEPT !.at = "fetch"])
    BY <1>1 DEF NextItem
  <2>2. SchTypeOK' /\ batch'.at = "fetch"
    BY <2>1, SchContinue, {} \in SUBSET QueueRows DEF Continue
  <2> QED
    BY <2>1, <2>2 DEF Continue
<1>2. CASE batch.fresh # {} /\ (RunCancelled \/ CapReached)
  BY <1>2, SchEnd DEF NextItem
<1>3. CASE batch.fresh # {} /\ ~RunCancelled /\ ~CapReached
  <2> DEFINE p == CHOOSE q \in batch.fresh : \A o \in batch.fresh : q <= o
  <2>1. /\ batch' = [at |-> "wait", attempted |-> batch.attempted \cup {p},
                     fresh |-> batch.fresh \ {p}, item |-> p]
        /\ UNCHANGED <<slot, loopAt, stopping, stopDone, today, countVars, rows, lastStop>>
    BY <1>3 DEF NextItem, Continue
  <2>2. p \in batch.fresh /\ batch.fresh \subseteq QueueRows /\ batch.attempted \subseteq QueueRows
    BY <1>3, FirstRow DEF SchTypeOK
  <2> HIDE DEF p
  <2>3. p \in 0 .. QueueLength
    BY <2>2, SchedulerConfig DEF QueueRows
  <2>4. batch' \in [at : {"wait"}, attempted : SUBSET QueueRows, fresh : SUBSET QueueRows,
                    item : 0 .. QueueLength]
    BY <2>1, <2>2, <2>3
  <2>5. SchTypeOK'
    BY <2>1, <2>4 DEF SchTypeOK, countVars
  <2> QED
    BY <1>3, <2>1, <2>5 DEF RunCancelled
<1> QED
  BY <1>1, <1>2, <1>3

\* One step of the scheduler.
LEMMA SchStep ==
  ASSUME SchTypeOK, SchInv, [SchNext]_schVars
  PROVE  SchTypeOK' /\ SchInv'
<1>1. CASE Start \/ LoopExit \/ StopScheduler \/ StopReturns
  <2>1. CASE Start \/ LoopExit
    BY <2>1 DEF Start, LoopExit, SchTypeOK, SchInv, CapReached, countVars
  <2>2. CASE StopScheduler
    BY <2>2 DEF StopScheduler, SchTypeOK, SchInv, CapReached, countVars
  <2>3. CASE StopReturns
    BY <2>3 DEF StopReturns, SchTypeOK, SchInv, CapReached, countVars
  <2> QED
    BY <1>1, <2>1, <2>2, <2>3
<1>2. CASE TimerFires \/ RunNow
  <2>1. CASE UNCHANGED <<slot, batch, loopAt>>
    BY <1>2, <2>1 DEF TimerFires, RunNow, SchTypeOK, SchInv, CapReached, countVars
  <2>2. CASE slot = "free" /\ slot' \in {"loop", "manual"} /\ loopAt' \in {loopAt, "batch"}
             /\ batch' = [NoBatch EXCEPT !.at = "enabled"]
    <3>1. batch' \in [at : {"enabled"}, attempted : SUBSET QueueRows, fresh : SUBSET QueueRows,
                      item : 0 .. QueueLength]
      BY <2>2, SchedulerConfig DEF NoBatch
    <3> QED
      BY <1>2, <2>2, <3>1 DEF TimerFires, RunNow, SchTypeOK, SchInv, CapReached, countVars
  <2> QED
    BY <1>2, <2>1, <2>2 DEF TimerFires, RunNow, BeginRun
<1>3. ASSUME SchTypeOK', batch'.at = "none", slot' = "free",
             UNCHANGED <<stopping, stopDone, today, countVars>>
      PROVE  SchInv'
  BY <1>3 DEF SchInv, CapReached, countVars
<1>4. ASSUME NEW reason \in {"queue_empty", "converter_disabled", "shutdown", "quota_exhausted",
                             "token_error", "queue_fetch_error", "daily_cap_reached"},
             EndRun(reason)
      PROVE  SchTypeOK' /\ SchInv'
  <2>1. SchTypeOK' /\ batch'.at = "none" /\ slot' = "free"
    BY <1>4, SchEnd
  <2> QED
    BY <1>3, <1>4, <2>1 DEF EndRun
<1>5. ASSUME NEW at \in {"fetch", "items"} \cup Outcomes, NEW F \in SUBSET QueueRows,
             batch' = [batch EXCEPT !.at = at] \/ batch' = [batch EXCEPT !.at = at, !.fresh = F],
             UNCHANGED <<slot, loopAt, stopping, stopDone, today, countVars, rows, lastStop>>,
             batch.at # "none", at \in Outcomes => batch.at = "wait"
      PROVE  SchTypeOK' /\ SchInv'
  <2>1. SchTypeOK' /\ batch'.at = at
    BY <1>5, SchContinue
  <2> QED
    BY <1>5, <2>1 DEF SchInv, CapReached, countVars, Outcomes
<1>6. CASE CheckEnabled
  <2>1. CASE Continue([batch EXCEPT !.at = "fetch"])
    <3>1. "fetch" \notin Outcomes /\ batch.at # "none"
      BY <1>6 DEF CheckEnabled, Outcomes
    <3> QED
      BY <1>5, <2>1, <3>1, {} \in SUBSET QueueRows DEF Continue
  <2> QED
    BY <1>4, <1>6, <2>1 DEF CheckEnabled
<1>7. CASE FetchRows
  <2>1. FreshRows \in SUBSET QueueRows
    BY DEF FreshRows, NeedsMineru, SchTypeOK
  <2> QED
    <3>1. "items" \notin Outcomes /\ batch.at # "none"
      BY <1>7 DEF FetchRows, Outcomes
    <3>2. CASE Continue([batch EXCEPT !.at = "items", !.fresh = FreshRows])
      BY <1>5, <2>1, <3>1, <3>2 DEF Continue
    <3> QED
      BY <1>4, <1>7, <3>2 DEF FetchRows
<1>8. CASE NextItem
  <2>1. CASE EndRun("shutdown") \/ EndRun("daily_cap_reached")
    BY <1>4, <2>1
  <2>2. CASE /\ batch'.at \in {"fetch", "wait"} /\ (batch'.at = "wait" => ~stopping /\ ~CapReached)
             /\ UNCHANGED <<slot, loopAt, stopping, stopDone, today, countVars, rows, lastStop>>
    BY <1>8, <2>2, SchNextItem DEF NextItem, SchInv, CapReached, countVars
  <2> QED
    BY <1>8, <2>1, <2>2, SchNextItem
<1>9. CASE JobEnds
  <2>1. ASSUME NEW o \in Outcomes, Continue([batch EXCEPT !.at = o])
        PROVE  SchTypeOK' /\ SchInv'
    BY <1>5, <1>9, <2>1, {} \in SUBSET QueueRows DEF JobEnds, Continue
  <2> QED
    BY <1>4, <1>9, <2>1 DEF JobEnds
<1>10. CASE NoteConverted
  <2>1. batch' \in [at : {"items"}, attempted : SUBSET QueueRows, fresh : SUBSET QueueRows,
                    item : 0 .. QueueLength]
    BY <1>10 DEF NoteConverted, SchTypeOK
  <2>2. convertedToday' \in Nat /\ convertedToday' <= DailyCap /\ capDay' = today
    BY <1>10, SchedulerConfig DEF NoteConverted, SchInv, CapReached
  <2> QED
    BY <1>10, <2>1, <2>2 DEF NoteConverted, SchTypeOK, SchInv, CapReached
<1>11. CASE NoteFailed
  <2>1. CASE batch.at = "failed" /\ Continue([batch EXCEPT !.at = "items"])
    <3>1. "items" \notin Outcomes
      BY DEF Outcomes
    <3> QED
      BY <1>5, <2>1, <3>1, {} \in SUBSET QueueRows DEF Continue
  <2> QED
    BY <1>4, <1>11, <2>1 DEF NoteFailed
<1>12. CASE NextDay
  BY <1>12, SchedulerConfig DEF NextDay, SchTypeOK, SchInv, CapReached, countVars
<1>13. CASE MarkdownRecorded \/ UNCHANGED schVars
  BY <1>13 DEF MarkdownRecorded, schVars, SchTypeOK, SchInv, CapReached, countVars
<1> QED
  BY <1>1, <1>2, <1>6, <1>7, <1>8, <1>9, <1>10, <1>11, <1>12, <1>13 DEF SchNext, BatchStep

\* The scheduler starts in step, and stays so.
LEMMA SchKept == SchSpec => [](SchTypeOK /\ SchInv)
<1>1. SchInit => SchTypeOK /\ SchInv
  <2> SUFFICES ASSUME SchInit PROVE SchTypeOK /\ SchInv
    OBVIOUS
  <2>1. batch \in [at : {"none"}, attempted : SUBSET QueueRows, fresh : SUBSET QueueRows,
                   item : 0 .. QueueLength]
    BY SchedulerConfig DEF SchInit, NoBatch
  <2>2. SchTypeOK
    <3>1. MaxMidnights \in Nat
      BY SchedulerConfig
    <3>2. today \in 0 .. MaxMidnights /\ capDay \in -1 .. MaxMidnights /\ convertedToday \in Nat
      BY <3>1 DEF SchInit
    <3> QED
      BY <2>1, <3>2 DEF SchInit, SchTypeOK
  <2> QED
    BY <2>1, <2>2, SchedulerConfig DEF SchInit, SchInv, CapReached
<1>2. (SchTypeOK /\ SchInv) /\ [SchNext]_schVars => (SchTypeOK /\ SchInv)'
  BY SchStep
<1> QED
  BY <1>1, <1>2, PTL DEF SchSpec

\* On no day, across midnights, nightly and manual runs, are more papers noted
\* as converted than the cap; after Stop returned, none is submitted.
THEOREM SchedulerAlwaysSound == SchSpec => []SchedulerSound
<1>1. SchInv => SchedulerSound
  BY DEF SchInv, SchedulerSound, CapHolds, StopIsFinal
<1> QED
  BY <1>1, SchKept, PTL


-----------------------------------------------------------------------------
(* A download worker: the inductive invariant of its spool. *)

\* Typed; an operation of the spool and of the delivery loop has its task.
WTyped ==
    /\ WorkerTypeOK
    /\ half[1] # "none" => half[2] \in PTasks
    /\ up.op # "idle" => up.task \in PTasks
\* A record that says ready, in memory or in the catalog, has its body.
BodyInPlace ==
    \A t \in PTasks : "ready" \in {records[t], catalog[t]} => t \in files
\* What was acknowledged is ready in memory and in the catalog until it was
\* kept for its retention or archived.
AckedKept ==
    \A t \in acked : t \in aged \/ Mine(t) \in stored
                     \/ (records[t] = "ready" /\ catalog[t] = "ready")
\* Between its two file operations: Ready has the body of a running record in
\* place; Archived and Expire have recorded why the body may go.
HalfSound ==
    LET t == half[2]
    IN  /\ half[1] = "ready" => t \in files /\ records[t] = "running"
        /\ half[1] \in {"archived", "expired"} => "ready" \notin {records[t], catalog[t]}
        /\ half[1] = "archived" => Mine(t) \in stored
        /\ half[1] = "expired" => t \in aged
\* The delivery loop reports failures, and believes only what was archived.
DeliverySound ==
    /\ up.op = "report" => records[up.task] \in {"failed", "expired"}
    /\ up.op = "upload" /\ up.answer = "done" => Mine(up.task) \in stored
\* A process that died holds no mutex and delivers nothing.
DeadRests == phase = "down" => half = NoHalf /\ up = NoDelivery
\* The coordinator says done after it has archived.
DoneStored == \A t \in PTasks : outcome[Mine(t)] = "done" => Mine(t) \in stored

WInv ==
    BodyInPlace /\ AckedKept /\ HalfSound /\ DeliverySound /\ DeadRests /\ DoneStored


USE DEF promiseVars, spoolVars, cycleVars, workerProcVars

-----------------------------------------------------------------------------
(* Types. *)

\* A record set to a state is still a record of every task, on disk as well.
LEMMA SaveTypes ==
  ASSUME WorkerTypeOK, NEW t \in PTasks, NEW s \in RecordStates,
         Saved(With(t, s)) \/ SaveFailed(With(t, s))
  PROVE  records' \in [PTasks -> RecordStates] /\ catalog' \in [PTasks -> RecordStates]
BY DEF WorkerTypeOK, With, Saved, SaveFailed

\* What the coordinator does keeps the receipts' types.
LEMMA PromiseTypes ==
  ASSUME outcome \in [PAttempts -> POutcomes], stored \subseteq PAttempts,
         [PromiseNext]_promiseVars
  PROVE  outcome' \in [PAttempts -> POutcomes] /\ stored' \subseteq PAttempts
BY DEF PromiseNext, PAssign, PAccept, PRefuse, PExpire, PStore, PFinish, PForget,
   Become, POutcomes, PAttempts

\* Every step of the worker's world that changes a receipt is one the promise
\* allows.
LEMMA StepKeepsPromise ==
  ASSUME [WorkerNext]_workerVars
  PROVE  [PromiseNext]_promiseVars
<1>1. \A t \in PTasks : Mine(t) \in PAttempts
  BY WorkerConfig DEF Mine, PAttempts
<1>2. ASSUME NEW t \in PTasks, Download(t) \/ Deliver(t) \/ Age(t)
      PROVE  UNCHANGED promiseVars
  BY <1>2 DEF Download, ReadyBody, ReadyRecord, ReadyNoBody, TaskFailed, Deliver, Age
<1>3. ASSUME NEW t \in PTasks, ServeUpload(t) \/ ServeReport(t)
      PROVE  [PromiseNext]_promiseVars
  BY <1>1, <1>3 DEF ServeUpload, ServeReport, PromiseNext
<1>4. ASSUME Cycle
      PROVE  [PromiseNext]_promiseVars
  BY <1>4, WorkerConfig DEF Cycle, CycleStatus, CycleBeat, CycleClaim, CycleFails, CycleStart,
     PromiseNext
<1>5. ASSUME AnswersRead \/ Tidy
      PROVE  UNCHANGED promiseVars
  BY <1>5 DEF AnswersRead, ReceiptRead, UploadAnswered, ReportAnswered, DeliverDeferred,
     Tidy, ArchivedRemove, ExpireRemove, ExpireRecord
<1>6. ASSUME Coordinate
      PROVE  [PromiseNext]_promiseVars
  BY <1>1, <1>6 DEF Coordinate, PromiseNext
<1>7. ASSUME \/ \E s \in {"approved", "draining", "revoked"} : NodeAction(s)
             \/ StopWorker \/ ProcessExits \/ WorkerCrash \/ OpenSpool
             \/ UNCHANGED workerVars
      PROVE  UNCHANGED promiseVars
  BY <1>7 DEF NodeAction, StopWorker, ProcessExits, WorkerCrash, OpenSpool, workerVars
<1> QED
  BY <1>2, <1>3, <1>4, <1>5, <1>6, <1>7 DEF WorkerNext

\* The worker is composed with the promise and nothing else: whatever it does,
\* the coordinator it talks to behaves as FleetPromise says, which DownloadFleet
\* implements (its refinement theorem).
THEOREM PromiseAssumed == WorkerSpec => PromiseSpec
<1>1. WorkerInit => PromiseInit
  BY DEF WorkerInit
<1> QED
  BY <1>1, StepKeepsPromise, PTL DEF WorkerSpec, PromiseSpec


\* The resting values.
LEMMA RestTypes ==
  /\ NoHalf \in {"none", "ready", "archived", "expired"} \X (PTasks \cup {NoTask})
  /\ NoHalf[1] = "none"
  /\ NoDelivery \in [op : {"idle", "receipt", "upload", "report"},
                     task : PTasks \cup {NoTask}, answer : Answers]
  /\ NoDelivery.op = "idle"
BY DEF NoHalf, NoDelivery, Answers

\* Every action keeps the types.
LEMMA TypeDownload ==
  ASSUME WTyped, NEW t \in PTasks, Download(t)
  PROVE  WTyped'
<1>1. CASE ReadyBody(t)
  BY <1>1 DEF ReadyBody, WTyped, WorkerTypeOK
<1>2. CASE ReadyRecord(t)
  <2>1. records' \in [PTasks -> RecordStates] /\ catalog' \in [PTasks -> RecordStates]
    BY <1>2, SaveTypes DEF ReadyRecord, RecordStates, WTyped
  <2> QED
    BY <1>2, <2>1 DEF ReadyRecord, WTyped, WorkerTypeOK, NoHalf
<1>3. CASE ReadyNoBody(t)
  BY <1>3 DEF ReadyNoBody, WTyped, WorkerTypeOK
<1>4. CASE TaskFailed(t)
  <2>1. records' \in [PTasks -> RecordStates] /\ catalog' \in [PTasks -> RecordStates]
    BY <1>4, SaveTypes DEF TaskFailed, RecordStates, WTyped
  <2> QED
    <3>1. active' \subseteq PTasks /\ fatal' \in BOOLEAN
      BY <1>4 DEF TaskFailed, WTyped, WorkerTypeOK
    <3>2. UNCHANGED <<outcome, stored, files, aged, half, acked, claimed, cyclePc, allowed,
                      phase, crashes, up, net, node>>
      BY <1>4 DEF TaskFailed, promiseVars
    <3> QED
      BY <2>1, <3>1, <3>2 DEF WTyped, WorkerTypeOK
<1> QED
  BY <1>1, <1>2, <1>3, <1>4 DEF Download

\* The control cycle keeps the types.
LEMMA TypeCycle ==
  ASSUME WTyped, Cycle
  PROVE  WTyped'
<1>1. CASE CycleStatus
  BY <1>1 DEF CycleStatus, WTyped, WorkerTypeOK
<1>2. CASE CycleBeat
  BY <1>2 DEF CycleBeat, WTyped, WorkerTypeOK
<1>3. CASE CycleClaim
  <2>1. claimed' \subseteq PTasks /\ cyclePc' \in {"idle", "start"}
    BY <1>3 DEF CycleClaim, CycleEnds
  <2>2. [PromiseNext]_promiseVars
    BY <1>3, WorkerConfig DEF CycleClaim, PromiseNext
  <2>3. outcome' \in [PAttempts -> POutcomes] /\ stored' \subseteq PAttempts
    BY <2>2, PromiseTypes DEF WTyped, WorkerTypeOK
  <2> QED
    BY <1>3, <2>1, <2>3 DEF CycleClaim, WTyped, WorkerTypeOK
<1>4. CASE CycleFails
  BY <1>4 DEF CycleFails, CycleEnds, WTyped, WorkerTypeOK
<1>5. ASSUME NEW t \in PTasks, CycleStart(t)
      PROVE  WTyped'
  <2>1. records' \in [PTasks -> RecordStates] /\ catalog' \in [PTasks -> RecordStates]
    BY <1>5, SaveTypes DEF CycleStart, RecordStates, WTyped, WorkerTypeOK
  <2> QED
    BY <1>5, <2>1 DEF CycleStart, CycleEnds, WTyped, WorkerTypeOK
<1> QED
  BY <1>1, <1>2, <1>3, <1>4, <1>5 DEF Cycle

\* So does the removal of an archived record,
LEMMA TypeArchived ==
  ASSUME WTyped, up.op # "idle", Archived(up.task),
         UNCHANGED <<promiseVars, files, aged, acked, cycleVars, workerProcVars, node>>
  PROVE  WTyped'
<1>1. records' \in [PTasks -> RecordStates] /\ catalog' \in [PTasks -> RecordStates]
  BY SaveTypes DEF Archived, RecordStates, WTyped
<1> QED
  BY <1>1 DEF Archived, NoDelivery, WTyped, WorkerTypeOK, Answers

\* the delivery loop,
LEMMA TypeDelivery ==
  ASSUME WTyped, (\E t \in PTasks : Deliver(t)) \/ AnswersRead \/ Tidy
  PROVE  WTyped'
<1>1. ASSUME NEW t \in PTasks, Deliver(t)
      PROVE  WTyped'
  BY <1>1 DEF Deliver, Wait, WTyped, WorkerTypeOK, Answers
<1>2. CASE DeliverDeferred
  BY <1>2 DEF DeliverDeferred, NoDelivery, WTyped, WorkerTypeOK, Answers
<1>3. CASE ReceiptRead
  <2>1. CASE Archived(up.task)
    BY <1>3, <2>1, TypeArchived DEF ReceiptRead
  <2>2. CASE ~Archived(up.task)
    BY <1>3, <2>2 DEF ReceiptRead, Wait, NoDelivery, WTyped, WorkerTypeOK, Answers
  <2> QED
    BY <2>1, <2>2
<1>4. CASE UploadAnswered
  <2>1. CASE Archived(up.task)
    BY <1>4, <2>1, TypeArchived DEF UploadAnswered
  <2>2. CASE ~Archived(up.task)
    BY <1>4, <2>2 DEF UploadAnswered, NoDelivery, WTyped, WorkerTypeOK, Answers
  <2> QED
    BY <2>1, <2>2
<1>5. CASE ReportAnswered
  <2>1. records' \in [PTasks -> RecordStates] /\ catalog' \in [PTasks -> RecordStates]
    BY <1>5, SaveTypes DEF ReportAnswered, RecordStates, WTyped, WorkerTypeOK
  <2> QED
    BY <1>5, <2>1 DEF ReportAnswered, NoDelivery, WTyped, WorkerTypeOK, Answers
<1>6. CASE ArchivedRemove
  BY <1>6, RestTypes DEF ArchivedRemove, Removed, WTyped, WorkerTypeOK
<1>7. CASE ExpireRemove
  BY <1>7 DEF ExpireRemove, NoHalf, WTyped, WorkerTypeOK
<1>8. ASSUME NEW t \in PTasks, ExpireRecord(t)
      PROVE  WTyped'
  <2>1. records' \in [PTasks -> RecordStates] /\ catalog' \in [PTasks -> RecordStates]
    BY <1>8, SaveTypes DEF ExpireRecord, RecordStates, WTyped
  <2>2. /\ half' \in {"none", "ready", "archived", "expired"} \X (PTasks \cup {NoTask})
        /\ half'[1] # "none" => half'[2] \in PTasks
    BY <1>8 DEF ExpireRecord, WTyped, WorkerTypeOK
  <2>3. fatal' \in BOOLEAN
    BY <1>8 DEF ExpireRecord, WTyped, WorkerTypeOK
  <2> QED
    BY <1>8, <2>1, <2>2, <2>3 DEF ExpireRecord, WTyped, WorkerTypeOK
<1> QED
  BY <1>1, <1>2, <1>3, <1>4, <1>5, <1>6, <1>7, <1>8 DEF AnswersRead, Tidy

\* the coordinator,
LEMMA TypeCoordinator ==
  ASSUME WTyped, \/ \E t \in PTasks : ServeUpload(t) \/ ServeReport(t)
                 \/ Coordinate
                 \/ \E s \in {"approved", "draining", "revoked"} : NodeAction(s)
  PROVE  WTyped'
<1>1. [WorkerNext]_workerVars
  BY DEF WorkerNext
<1>2. outcome' \in [PAttempts -> POutcomes] /\ stored' \subseteq PAttempts
  BY <1>1, StepKeepsPromise, PromiseTypes DEF WTyped, WorkerTypeOK
<1>3. ASSUME NEW t \in PTasks, NEW op \in {"upload", "report"}, NEW o \in Answers,
             HttpReply(op, t, o), Elsewhere, UNCHANGED node
      PROVE  WTyped'
  BY <1>2, <1>3 DEF HttpReply, Elsewhere, WTyped, WorkerTypeOK
<1>4. ASSUME NEW t \in PTasks, ServeUpload(t)
      PROVE  WTyped'
  BY <1>3, <1>4 DEF ServeUpload, Answers, POutcomes
<1>5. ASSUME NEW t \in PTasks, ServeReport(t)
      PROVE  WTyped'
  BY <1>3, <1>5 DEF ServeReport, Answers, POutcomes
<1>6. CASE Coordinate
  BY <1>2, <1>6 DEF Coordinate, Elsewhere, WTyped, WorkerTypeOK
<1>7. ASSUME NEW s \in {"approved", "draining", "revoked"}, NodeAction(s)
      PROVE  WTyped'
  BY <1>7 DEF NodeAction, Elsewhere, WTyped, WorkerTypeOK
<1> QED
  BY <1>4, <1>5, <1>6, <1>7

\* and the start and end of the worker process.
LEMMA TypeProcess ==
  ASSUME WTyped, \/ \E t \in PTasks : Age(t)
                 \/ StopWorker \/ ProcessExits \/ WorkerCrash \/ OpenSpool
                 \/ UNCHANGED workerVars
  PROVE  WTyped'
<1>1. CASE \E t \in PTasks : Age(t)
  BY <1>1 DEF Age, WTyped, WorkerTypeOK
<1>2. CASE StopWorker
  BY <1>2 DEF StopWorker, CycleEnds, NoDelivery, WTyped, WorkerTypeOK, Answers
<1>3. CASE ProcessExits \/ WorkerCrash
  <2>1. crashes' \in Nat /\ UNCHANGED <<promiseVars, records, catalog, files, aged, acked, fatal,
                                      net, node>>
    BY <1>3 DEF ProcessExits, WorkerCrash, WTyped, WorkerTypeOK
  <2>2. Died
    BY <1>3 DEF ProcessExits, WorkerCrash
  <2> QED
    BY <2>1, <2>2, RestTypes DEF Died, WTyped, WorkerTypeOK
<1>4. CASE OpenSpool
  <2>1. Recovered \in [PTasks -> RecordStates]
    BY DEF Recovered, WTyped, WorkerTypeOK, RecordStates
  <2> QED
    BY <1>4, <2>1 DEF OpenSpool, Saved, WTyped, WorkerTypeOK
<1>5. CASE UNCHANGED workerVars
  BY <1>5 DEF workerVars, WTyped, WorkerTypeOK
<1> QED
  BY <1>1, <1>2, <1>3, <1>4, <1>5

\* The worker's state stays within its types, whatever is lost or repeated.
THEOREM WorkerTypeCorrect == WorkerSpec => []WTyped
<1>1. WorkerInit => WTyped
  <2> SUFFICES ASSUME WorkerInit PROVE WTyped
    OBVIOUS
  <2>1. outcome \in [PAttempts -> POutcomes] /\ stored \subseteq PAttempts
    BY DEF WorkerInit, PromiseInit, POutcomes
  <2>2. records \in [PTasks -> RecordStates] /\ catalog \in [PTasks -> RecordStates]
    BY DEF WorkerInit, RecordStates
  <2> QED
    BY <2>1, <2>2, RestTypes DEF WorkerInit, WTyped, WorkerTypeOK
<1>2. WTyped /\ [WorkerNext]_workerVars => WTyped'
  BY TypeDownload, TypeCycle, TypeDelivery, TypeCoordinator, TypeProcess DEF WorkerNext
<1> QED
  BY <1>1, <1>2, PTL DEF WorkerSpec


-----------------------------------------------------------------------------
(* The spool. *)

\* What a save leaves behind, whether it failed or not.
LEMMA SaveEffect ==
  ASSUME WTyped, NEW t \in PTasks, NEW s,
         Saved(With(t, s)) \/ SaveFailed(With(t, s))
  PROVE  /\ \A u \in PTasks \ {t} : /\ records'[u] = records[u]
                                    /\ catalog'[u] \in {records[u], catalog[u]}
         /\ records'[t] \in {records[t], s} /\ catalog'[t] \in {catalog[t], s}
         /\ Saved(With(t, s)) => records'[t] = s /\ catalog'[t] = s
BY DEF WTyped, WorkerTypeOK, With, Saved, SaveFailed

\* A record may leave the ready state once its loss is recorded or its bytes
\* are archived; any other record may take any state but ready.
LEMMA SaveKeeps ==
  ASSUME WTyped, WInv, NEW t \in PTasks, NEW s, s # "ready",
         Saved(With(t, s)) \/ SaveFailed(With(t, s)),
         records[t] # "ready" \/ t \in aged \/ Mine(t) \in stored,
         UNCHANGED <<promiseVars, files, aged, acked>>
  PROVE  BodyInPlace' /\ AckedKept' /\ DoneStored'
<1>1. BodyInPlace'
  BY SaveEffect DEF WInv, BodyInPlace
<1>2. AckedKept'
  <2>1. acked \subseteq PTasks /\ acked' = acked /\ aged' = aged /\ stored' = stored
    BY DEF WTyped, WorkerTypeOK
  <2>2. ASSUME NEW u \in acked, u \notin aged, Mine(u) \notin stored
        PROVE  records'[u] = "ready" /\ catalog'[u] = "ready"
    <3>1. records[u] = "ready" /\ catalog[u] = "ready" /\ u # t /\ u \in PTasks
      BY <2>1, <2>2 DEF WInv, AckedKept
    <3> QED
      BY <3>1, SaveEffect
  <2> QED
    BY <2>1, <2>2 DEF AckedKept, Mine
<1>3. DoneStored'
  BY DEF WInv, DoneStored, Mine
<1> QED
  BY <1>1, <1>2, <1>3

\* Steps of the control cycle other than a start, and those of the administrator.
LEMMA QuietKeeps ==
  ASSUME WTyped, WInv, UNCHANGED <<promiseVars, spoolVars, up>>, phase' = phase \/ phase' = "stopping"
  PROVE  WInv'
BY DEF WInv, BodyInPlace, AckedKept, HalfSound, DeliverySound, DeadRests, DoneStored, Mine

\* A download that ends keeps the invariant of the spool.
LEMMA DownloadKeeps ==
  ASSUME WTyped, WInv, NEW t \in PTasks, Download(t)
  PROVE  WInv'
<1>1. CASE ReadyBody(t)
  BY <1>1 DEF ReadyBody, SpoolFree, WTyped, WorkerTypeOK, WInv, BodyInPlace, AckedKept, HalfSound,
     DeliverySound, DeadRests, DoneStored, Mine
<1>2. CASE ReadyRecord(t)
  <2>1. t \in files /\ records[t] = "running" /\ half = <<"ready", t>> /\ phase # "down"
    BY <1>2 DEF ReadyRecord, WInv, HalfSound, DeadRests, NoHalf
  <2>2. BodyInPlace'
    BY <1>2, <2>1, SaveEffect DEF ReadyRecord, WInv, BodyInPlace
  <2>3. AckedKept'
    BY <1>2, <2>1, SaveEffect DEF ReadyRecord, WInv, AckedKept, WTyped, WorkerTypeOK, Mine
  <2>4. HalfSound' /\ DeadRests' /\ DoneStored'
    BY <1>2, <2>1 DEF ReadyRecord, NoHalf, WInv, HalfSound, DeadRests, DoneStored, Mine
  <2>5. DeliverySound'
    BY <1>2, <2>1, SaveEffect DEF ReadyRecord, WInv, DeliverySound, WTyped, Mine
  <2> QED
    BY <2>2, <2>3, <2>4, <2>5 DEF WInv
<1>3. CASE ReadyNoBody(t)
  BY <1>3, QuietKeeps DEF ReadyNoBody
<1>4. CASE TaskFailed(t)
  <2>1. BodyInPlace' /\ AckedKept' /\ DoneStored'
    BY <1>4, SaveKeeps DEF TaskFailed
  <2>2. DeliverySound'
    BY <1>4, SaveEffect DEF TaskFailed, WInv, DeliverySound, WTyped, Mine
  <2>3. HalfSound' /\ DeadRests'
    BY <1>4 DEF TaskFailed, SpoolFree, NoHalf, HalfSound, DeadRests
  <2> QED
    BY <2>1, <2>2, <2>3 DEF WInv
<1> QED
  BY <1>1, <1>2, <1>3, <1>4 DEF Download


\* The archive keeps what it has, and the coordinator says done only after it.
LEMMA PromiseKeeps ==
  ASSUME WTyped, DoneStored, [PromiseNext]_promiseVars
  PROVE  DoneStored' /\ stored \subseteq stored'
<1>1. \A t \in PTasks : Mine(t) \in PAttempts
  BY WorkerConfig DEF Mine, PAttempts
<1>2. stored \subseteq stored'
  BY DEF PromiseNext, PAssign, PAccept, PRefuse, PExpire, PStore, PFinish, PForget
<1>3. \A a \in PAttempts : outcome'[a] = "done" => outcome[a] = "done" \/ a \in stored
  BY DEF WTyped, WorkerTypeOK, PromiseNext, PAssign, PAccept, PRefuse, PExpire, PStore,
     PFinish, PForget, Become
<1> QED
  BY <1>1, <1>2, <1>3 DEF DoneStored, Mine
\* What the coordinator may do keeps it.
LEMMA CoordinatorKeeps ==
  ASSUME WTyped, WInv, [PromiseNext]_promiseVars, UNCHANGED <<spoolVars, phase>>,
         \/ up' = up
         \/ \E o \in Answers : /\ up' = [up EXCEPT !.answer = o] /\ up.op # "idle"
                               /\ up.op = "upload" /\ o = "done" => Mine(up.task) \in stored
  PROVE  WInv'
<1>1. DoneStored' /\ stored \subseteq stored'
  BY PromiseKeeps DEF WInv
<1>2. up'.op = up.op /\ up'.task = up.task
  BY DEF WTyped, WorkerTypeOK
<1>3. up.op = "upload" /\ up'.answer = "done" => Mine(up.task) \in stored
  BY DEF WInv, DeliverySound, WTyped, WorkerTypeOK
<1>4. DeliverySound'
  BY <1>1, <1>2, <1>3 DEF WInv, DeliverySound, Mine
<1>5. BodyInPlace' /\ AckedKept' /\ HalfSound'
  BY <1>1 DEF WInv, BodyInPlace, AckedKept, HalfSound, Mine
<1>6. DeadRests'
  BY DEF WInv, DeadRests, NoDelivery
<1> QED
  BY <1>1, <1>4, <1>5, <1>6 DEF WInv

\* The control cycle keeps it.
LEMMA CycleKeeps ==
  ASSUME WTyped, WInv, Cycle
  PROVE  WInv'
<1>1. CASE CycleStatus \/ CycleBeat \/ CycleFails
  BY <1>1, QuietKeeps DEF CycleStatus, CycleBeat, CycleFails
<1>2. CASE CycleClaim
  <2>1. [PromiseNext]_promiseVars
    BY <1>2, WorkerConfig DEF CycleClaim, PromiseNext
  <2> QED
    BY <1>2, <2>1, CoordinatorKeeps DEF CycleClaim
<1>3. ASSUME NEW t \in PTasks, CycleStart(t)
      PROVE  WInv'
  <2>1. CASE Saved(With(t, "running")) \/ SaveFailed(With(t, "running"))
    <3>1. records[t] = "none" \/ UNCHANGED <<records, catalog>>
      BY <1>3 DEF CycleStart, Starts
    <3>2. CASE UNCHANGED <<records, catalog>>
      BY <1>3, <3>2, QuietKeeps DEF CycleStart
    <3>3. CASE records[t] = "none"
      <4>1. BodyInPlace' /\ AckedKept' /\ DoneStored'
        BY <1>3, <2>1, <3>3, SaveKeeps DEF CycleStart
      <4>2. DeliverySound'
        BY <1>3, <2>1, <3>3, SaveEffect DEF CycleStart, WInv, DeliverySound, WTyped, Mine
      <4>3. HalfSound' /\ DeadRests'
        BY <1>3 DEF CycleStart, SpoolFree, NoHalf, HalfSound, DeadRests
      <4> QED
        BY <4>1, <4>2, <4>3 DEF WInv
    <3> QED
      BY <3>1, <3>2, <3>3
  <2>2. CASE UNCHANGED <<records, catalog>>
    BY <1>3, <2>2, QuietKeeps DEF CycleStart
  <2> QED
    BY <1>3, <2>1, <2>2 DEF CycleStart
<1> QED
  BY <1>1, <1>2, <1>3 DEF Cycle

\* Archived acts on a result whose bytes are in the archive.
LEMMA ArchivedKeeps ==
  ASSUME WTyped, WInv, up.op # "idle", Archived(up.task), Mine(up.task) \in stored,
         UNCHANGED <<promiseVars, files, aged, acked, phase>>
  PROVE  WInv'
<1> DEFINE t == up.task
<1>1. t \in PTasks /\ half = NoHalf /\ phase # "down" /\ records[t] = "ready"
  BY DEF Archived, SpoolFree, WTyped
<1>2. BodyInPlace' /\ AckedKept' /\ DoneStored'
  BY <1>1, SaveKeeps DEF Archived
<1>3. CASE Saved(With(t, "none")) /\ half' = <<"archived", t>> /\ UNCHANGED up
  <2>1. records'[t] = "none" /\ catalog'[t] = "none"
    BY <1>1, <1>3, SaveEffect
  <2>2. HalfSound'
    BY <1>3, <2>1 DEF HalfSound, Mine
  <2>3. DeliverySound' /\ DeadRests'
    BY <1>1, <1>3 DEF WInv, DeliverySound, DeadRests, Mine
  <2> QED
    BY <1>2, <2>2, <2>3 DEF WInv
<1>4. CASE up' = NoDelivery /\ UNCHANGED half
  BY <1>1, <1>2, <1>4 DEF WInv, HalfSound, DeliverySound, DeadRests, NoHalf, NoDelivery
<1> QED
  BY <1>3, <1>4 DEF Archived

\* The delivery loop keeps it.
LEMMA DeliveryKeeps ==
  ASSUME WTyped, WInv, (\E t \in PTasks : Deliver(t)) \/ AnswersRead \/ Tidy
  PROVE  WInv'
<1>1. ASSUME NEW t \in PTasks, Deliver(t)
      PROVE  WInv'
  BY <1>1 DEF Deliver, SpoolFree, Wait, WInv, BodyInPlace, AckedKept, HalfSound, DeliverySound,
     DeadRests, DoneStored, Mine
<1>2. ASSUME up.op # "idle", up' = NoDelivery, UNCHANGED <<promiseVars, spoolVars, phase>>
      PROVE  WInv'
  BY <1>2 DEF WInv, BodyInPlace, AckedKept, HalfSound, DeliverySound, DeadRests, DoneStored, Mine,
     NoDelivery
<1>3. CASE DeliverDeferred
  BY <1>2, <1>3 DEF DeliverDeferred
<1>4. CASE ReceiptRead
  <2>1. up.op = "receipt" /\ up.task \in PTasks /\ phase = "up"
    BY <1>4 DEF ReceiptRead, WTyped
  <2>2. CASE Archives(outcome[Mine(up.task)]) /\ Archived(up.task)
    <3>1. Mine(up.task) \in stored
      BY <2>1, <2>2 DEF Archives, WInv, DoneStored
    <3> QED
      BY <1>4, <2>1, <2>2, <3>1, ArchivedKeeps DEF ReceiptRead
  <2>3. CASE up' = NoDelivery /\ UNCHANGED <<records, catalog, half, net>>
    BY <1>2, <1>4, <2>1, <2>3 DEF ReceiptRead
  <2>4. CASE Wait("upload", up.task) /\ UNCHANGED <<records, catalog, half>>
    BY <1>4, <2>1, <2>4 DEF ReceiptRead, Wait, WInv, BodyInPlace, AckedKept, HalfSound,
       DeliverySound, DeadRests, DoneStored, Mine
  <2> QED
    BY <1>4, <2>2, <2>3, <2>4 DEF ReceiptRead
<1>5. CASE UploadAnswered
  <2>1. up.op = "upload" /\ up.task \in PTasks /\ phase = "up"
    BY <1>5 DEF UploadAnswered, WTyped
  <2>2. CASE Archives(up.answer)
    <3>1. Mine(up.task) \in stored
      BY <2>1, <2>2 DEF Archives, WInv, DeliverySound
    <3> QED
      BY <1>5, <2>1, <2>2, <3>1, ArchivedKeeps DEF UploadAnswered
  <2>3. CASE ~Archives(up.answer)
    BY <1>2, <1>5, <2>1, <2>3 DEF UploadAnswered
  <2> QED
    BY <2>2, <2>3
<1>6. CASE ReportAnswered
  <2>1. /\ up.op = "report" /\ up.task \in PTasks /\ half = NoHalf /\ phase = "up"
        /\ records[up.task] # "ready"
    BY <1>6 DEF ReportAnswered, WTyped, WInv, DeliverySound
  <2>2. CASE Saved(With(up.task, "none")) \/ SaveFailed(With(up.task, "none"))
    <3>1. BodyInPlace' /\ AckedKept' /\ DoneStored'
      BY <1>6, <2>1, <2>2, SaveKeeps DEF ReportAnswered
    <3>2. DeliverySound' /\ HalfSound' /\ DeadRests'
      BY <1>6, <2>1 DEF ReportAnswered, DeliverySound, HalfSound, DeadRests, NoHalf, NoDelivery
    <3> QED
      BY <3>1, <3>2 DEF WInv
  <2>3. CASE UNCHANGED <<records, catalog>>
    BY <1>2, <1>6, <2>1, <2>3 DEF ReportAnswered
  <2> QED
    BY <1>6, <2>2, <2>3 DEF ReportAnswered
<1>7. CASE ArchivedRemove
  BY <1>7 DEF ArchivedRemove, Removed, NoHalf, NoDelivery, WInv, BodyInPlace, AckedKept,
     HalfSound, DeliverySound, DeadRests, DoneStored, Mine
<1>8. CASE ExpireRemove
  BY <1>8 DEF ExpireRemove, NoHalf, WInv, BodyInPlace, AckedKept, HalfSound, DeliverySound,
     DeadRests, DoneStored, Mine
<1>9. ASSUME NEW t \in PTasks, ExpireRecord(t)
      PROVE  WInv'
  <2>1. half = NoHalf /\ phase = "up" /\ t \in aged /\ up = NoDelivery
    BY <1>9 DEF ExpireRecord, Expires, SpoolFree
  <2>2. BodyInPlace' /\ AckedKept' /\ DoneStored'
    BY <1>9, <2>1, SaveKeeps DEF ExpireRecord
  <2>3. DeliverySound' /\ DeadRests'
    BY <1>9, <2>1 DEF ExpireRecord, DeliverySound, DeadRests, NoDelivery
  <2>4. HalfSound'
    BY <1>9, <2>1, SaveEffect DEF ExpireRecord, HalfSound, NoHalf
  <2> QED
    BY <2>2, <2>3, <2>4 DEF WInv
<1> QED
  BY <1>1, <1>3, <1>4, <1>5, <1>6, <1>7, <1>8, <1>9 DEF AnswersRead, Tidy

\* The start, the end and the crash of the worker keep it.
LEMMA WorkerProcessKeeps ==
  ASSUME WTyped, WInv, \/ \E t \in PTasks : Age(t)
                       \/ StopWorker \/ ProcessExits \/ WorkerCrash \/ OpenSpool
                       \/ UNCHANGED workerVars
  PROVE  WInv'
<1>1. CASE \E t \in PTasks : Age(t)
  BY <1>1 DEF Age, WInv, BodyInPlace, AckedKept, HalfSound, DeliverySound, DeadRests, DoneStored,
     Mine
<1>2. CASE StopWorker
  BY <1>2 DEF StopWorker, NoDelivery, WInv, BodyInPlace, AckedKept, HalfSound, DeliverySound,
     DeadRests, DoneStored, Mine
<1>3. CASE ProcessExits \/ WorkerCrash
  <2>1. Died /\ UNCHANGED <<promiseVars, records, catalog, files, aged, acked>>
    BY <1>3 DEF ProcessExits, WorkerCrash
  <2> QED
    BY <2>1 DEF Died, NoHalf, NoDelivery, WInv, BodyInPlace, AckedKept, HalfSound, DeliverySound,
       DeadRests, DoneStored, Mine
<1>4. CASE OpenSpool
  <2>1. half = NoHalf /\ up = NoDelivery /\ UNCHANGED <<promiseVars, aged, half, acked, up>>
    BY <1>4 DEF OpenSpool, WInv, DeadRests
  <2>2. \A t \in PTasks : /\ records'[t] = Recovered[t] /\ catalog'[t] = Recovered[t]
                          /\ Recovered[t] = "ready" <=> catalog[t] = "ready"
    BY <1>4 DEF OpenSpool, Saved, Recovered
  <2>3. \A t \in PTasks : catalog[t] = "ready" => t \in files /\ t \in files'
    BY <1>4, <2>2 DEF OpenSpool, Openable
  <2>4. BodyInPlace'
    BY <2>2, <2>3 DEF BodyInPlace
  <2>5. AckedKept'
    BY <2>1, <2>2 DEF WInv, AckedKept, WTyped, WorkerTypeOK, Mine
  <2>6. DoneStored' /\ HalfSound' /\ DeliverySound' /\ DeadRests'
    BY <2>1 DEF WInv, DoneStored, HalfSound, DeliverySound, DeadRests, NoHalf, NoDelivery, Mine
  <2> QED
    BY <2>4, <2>5, <2>6 DEF WInv
<1>5. CASE UNCHANGED workerVars
  BY <1>5, QuietKeeps DEF workerVars
<1> QED
  BY <1>1, <1>2, <1>3, <1>4, <1>5

\* Every step of the worker keeps it.
LEMMA WorkerKeeps ==
  ASSUME WTyped, WInv, [WorkerNext]_workerVars
  PROVE  WInv'
<1>1. [PromiseNext]_promiseVars
  BY StepKeepsPromise
<1>2. ASSUME NEW t \in PTasks, NEW op \in {"upload", "report"}, NEW o \in Answers,
             HttpReply(op, t, o), Elsewhere, op = "upload" /\ o = "done" => Mine(t) \in stored
      PROVE  WInv'
  BY <1>1, <1>2, CoordinatorKeeps DEF HttpReply, Elsewhere
<1>3. ASSUME NEW t \in PTasks, ServeUpload(t)
      PROVE  WInv'
  <2>1. outcome[Mine(t)] = "done" => Mine(t) \in stored
    BY DEF WInv, DoneStored
  <2> QED
    BY <1>2, <1>3, <2>1 DEF ServeUpload, Answers, POutcomes
<1>4. ASSUME NEW t \in PTasks, ServeReport(t)
      PROVE  WInv'
  BY <1>2, <1>4 DEF ServeReport, Answers, POutcomes
<1>5. CASE Coordinate \/ \E s \in {"approved", "draining", "revoked"} : NodeAction(s)
  BY <1>1, <1>5, CoordinatorKeeps DEF Coordinate, NodeAction, Elsewhere
<1> QED
  BY <1>3, <1>4, <1>5, DownloadKeeps, CycleKeeps, DeliveryKeeps, WorkerProcessKeeps DEF WorkerNext

\* Whatever operation a crash interrupts, whichever saves fail and however late
\* answers, receipts and revocations arrive, the worker can open its spool
\* again, and every download it acknowledged is on disk, archived or was kept
\* for its retention.
THEOREM SpoolStaysSafe == WorkerSpec => []SpoolSafe
<1>1. WorkerInit => WInv
  BY WorkerConfig DEF WorkerInit, PromiseInit, NoHalf, NoDelivery, WInv, BodyInPlace, AckedKept, HalfSound,
     DeliverySound, DeadRests, DoneStored, Mine, PAttempts
<1>2. WTyped /\ WInv /\ [WorkerNext]_workerVars => WInv'
  BY WorkerKeeps
<1>3. WTyped /\ WInv => SpoolSafe
  BY DEF WTyped, WorkerTypeOK, WInv, BodyInPlace, AckedKept, SpoolSafe, AlwaysOpenable, Openable,
     ResultNotLost
<1> QED
  BY <1>1, <1>2, <1>3, WorkerTypeCorrect, PTL DEF WorkerSpec

-----------------------------------------------------------------------------
(* Side by side. *)

\* A step of the background services is a step of each of them or leaves it
\* alone.
LEMMA BackgroundSteps ==
  /\ BackgroundInit => PoolInit /\ WorkerInit /\ AcqInit /\ SchInit /\ DaeInit
  /\ [BackgroundNext]_backgroundVars => [PoolNext]_poolVars
  /\ [BackgroundNext]_backgroundVars => [WorkerNext]_workerVars
  /\ [BackgroundNext]_backgroundVars => [AcqNext]_acqVars
  /\ [BackgroundNext]_backgroundVars => [SchNext]_schVars
  /\ [BackgroundNext]_backgroundVars => [DaeNext]_daeVars
BY DEF BackgroundInit, BackgroundNext, backgroundVars, PoolMoves, WorkerMoves, AcquisitionMoves,
       SchedulerMoves, DaemonMoves, Only, Still

\* Every background service keeps its state within its types, and the bounds on
\* its counters, queues and stages, for every value of the constants.
THEOREM BackgroundTyped == BackgroundSpec => []BackgroundTypeOK
<1>1. BackgroundSpec => PoolSpec /\ WorkerSpec /\ AcqSpec /\ SchSpec /\ DaeSpec
  BY BackgroundSteps, PTL DEF BackgroundSpec, PoolSpec, WorkerSpec, AcqSpec, SchSpec, DaeSpec
<1>2. WTyped => WorkerTypeOK
  BY DEF WTyped
<1>3. PoolTypeOK /\ WorkerTypeOK /\ AcqTypeOK /\ SchTypeOK /\ DaeTypeOK => BackgroundTypeOK
  BY DEF BackgroundTypeOK
<1> QED
  BY <1>1, <1>2, <1>3, PoolTypesHold, WorkerTypeCorrect, AcqTypesHold, SchKept, DaeTypesHold, PTL
=============================================================================
