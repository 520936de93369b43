-------------------------- MODULE MineruScheduler --------------------------
(***************************************************************************)
(* internal/mineru/scheduler.go: the nightly loop and manual runs share one  *)
(* run slot and one daily cap; Stop cancels both.  A batch converts the rows *)
(* of registry.NeedsMineru one at a time.  The converter appears by the      *)
(* outcome of each job.  Nothing in a conversion sets mineru_md_path any     *)
(* more, so a converted row stays in the queue until the asset reconcile     *)
(* records markdown of the older layout.                                     *)
(***************************************************************************)
EXTENDS Integers, FiniteSets

CONSTANTS
    QueueLength,   \* rows of the queue, numbered in its order
    BatchSize,     \* LIMIT of one fetch (200)
    DailyCap,
    MaxMidnights        \* bound: midnights

ASSUME SchedulerConfig ==
    /\ {QueueLength, BatchSize, DailyCap} \subseteq Nat \ {0} /\ MaxMidnights \in Nat

VARIABLES
    slot,       \* running, and who holds it
    batch,      \* the run: position, attempted, fresh rows to do, current row
    loopAt,     \* the loop goroutine
    stopping,   \* both contexts are cancelled
    stopDone,   \* Stop has returned
    today, capDay, convertedToday,
    rows,       \* assets without mineru_md_path
    lastStop

schVars == <<slot, batch, loopAt, stopping, stopDone, today, capDay, convertedToday,
             rows, lastStop>>
countVars == <<capDay, convertedToday>>

QueueRows == 1 .. QueueLength
NoBatch == [at |-> "none", attempted |-> {}, fresh |-> {}, item |-> 0]
Outcomes == {"done", "quota", "token", "failed"}

SchTypeOK ==
    /\ slot \in {"free", "loop", "manual"}
    /\ batch \in [at : {"none", "enabled", "fetch", "items", "wait"} \cup Outcomes,
                  attempted : SUBSET QueueRows, fresh : SUBSET QueueRows,
                  item : 0 .. QueueLength]
    /\ loopAt \in {"off", "waiting", "batch", "gone"}
    /\ stopping \in BOOLEAN /\ stopDone \in BOOLEAN
    /\ today \in 0 .. MaxMidnights /\ capDay \in -1 .. MaxMidnights /\ convertedToday \in Nat
    /\ rows \subseteq QueueRows
    /\ lastStop \in {"none", "queue_empty", "converter_disabled", "quota_exhausted",
                     "token_error", "queue_fetch_error", "shutdown", "daily_cap_reached"}

SchInit ==
    /\ slot = "free" /\ batch = NoBatch /\ loopAt = "off"
    /\ stopping = FALSE /\ stopDone = FALSE
    /\ today = 0 /\ capDay = -1 /\ convertedToday = 0
    /\ rows = QueueRows /\ lastStop = "none"

-----------------------------------------------------------------------------
(* The loop, manual runs and Stop.                                           *)
Start ==
    /\ loopAt = "off" /\ loopAt' = "waiting"
    /\ UNCHANGED <<slot, batch, stopping, stopDone, today, countVars, rows, lastStop>>

\* tryBeginRun.
BeginRun(by) == slot = "free" /\ slot' = by /\ batch' = [NoBatch EXCEPT !.at = "enabled"]
\* The timer fires; a tick during another run is skipped.
TimerFires ==
    /\ loopAt = "waiting"
    /\ IF slot = "free" THEN BeginRun("loop") /\ loopAt' = "batch"
       ELSE UNCHANGED <<slot, batch, loopAt>>
    /\ UNCHANGED <<stopping, stopDone, today, countVars, rows, lastStop>>
RunNow ==
    /\ BeginRun("manual")
    /\ UNCHANGED <<loopAt, stopping, stopDone, today, countVars, rows, lastStop>>

LoopExit ==
    /\ loopAt = "waiting" /\ stopping /\ loopAt' = "gone"
    /\ UNCHANGED <<slot, batch, stopping, stopDone, today, countVars, rows, lastStop>>
StopScheduler ==
    /\ ~stopping /\ stopping' = TRUE
    /\ UNCHANGED <<slot, batch, loopAt, stopDone, today, countVars, rows, lastStop>>
\* wg.Wait: no loop goroutine, no batch.
StopReturns ==
    /\ stopping /\ ~stopDone /\ loopAt \in {"off", "gone"} /\ slot = "free"
    /\ stopDone' = TRUE
    /\ UNCHANGED <<slot, batch, loopAt, stopping, today, countVars, rows, lastStop>>

-----------------------------------------------------------------------------
(* runBatch.                                                                 *)
\* The deferred end of the run releases the slot.
EndRun(reason) ==
    /\ slot' = "free" /\ batch' = [batch EXCEPT !.at = "none"] /\ lastStop' = reason
    /\ loopAt' = IF slot = "loop" THEN "waiting" ELSE loopAt
    /\ UNCHANGED <<stopping, stopDone, today, countVars, rows>>
Continue(b) ==
    /\ batch' = b
    /\ UNCHANGED <<slot, loopAt, stopping, stopDone, today, countVars, rows, lastStop>>

RunCancelled == stopping

CheckEnabled ==
    /\ batch.at = "enabled"
    /\ EndRun("converter_disabled") \/ Continue([batch EXCEPT !.at = "fetch"])

\* NeedsMineru: the first BatchSize rows in queue order.
NeedsMineru == {p \in rows : Cardinality({q \in rows : q < p}) < BatchSize}
\* Mutant: rows are not remembered.
FreshAll == NeedsMineru
FreshRows == NeedsMineru \ batch.attempted
FetchRows ==
    /\ batch.at = "fetch"
    /\ \/ EndRun(IF RunCancelled THEN "shutdown" ELSE "queue_fetch_error")
       \/ FreshRows = {} /\ EndRun("queue_empty")
       \/ FreshRows # {} /\ Continue([batch EXCEPT !.at = "items", !.fresh = FreshRows])

\* Mutant: off by one.
CapReachedLate == capDay = today /\ convertedToday > DailyCap
CapReached == capDay = today /\ convertedToday >= DailyCap
\* The next row: cancelled, capped, or submitted (Ensure).
NextItem ==
    /\ batch.at = "items"
    /\ IF batch.fresh = {} THEN Continue([batch EXCEPT !.at = "fetch"])
       ELSE IF RunCancelled THEN EndRun("shutdown")
       ELSE IF CapReached THEN EndRun("daily_cap_reached")
       ELSE LET p == CHOOSE q \in batch.fresh : \A o \in batch.fresh : q <= o
            IN  Continue([at |-> "wait", attempted |-> batch.attempted \cup {p},
                          fresh |-> batch.fresh \ {p}, item |-> p])
\* waitTerminal sees the job's end, or the cancellation.
JobEnds ==
    /\ batch.at = "wait"
    /\ \/ \E o \in Outcomes : Continue([batch EXCEPT !.at = o])
       \/ RunCancelled /\ EndRun("shutdown")
NoteConverted ==
    /\ batch.at = "done" /\ capDay' = today
    /\ convertedToday' = IF capDay = today THEN convertedToday + 1 ELSE 1
    /\ batch' = [batch EXCEPT !.at = "items"]
    /\ UNCHANGED <<slot, loopAt, stopping, stopDone, today, rows, lastStop>>
NoteFailed ==
    \/ batch.at = "quota" /\ EndRun("quota_exhausted")
    \/ batch.at = "token" /\ EndRun("token_error")
    \/ batch.at = "failed" /\ Continue([batch EXCEPT !.at = "items"])

-----------------------------------------------------------------------------
(* The clock, and the reconcile of legacy markdown (registry Syncer).        *)
NextDay ==
    /\ today < MaxMidnights /\ today' = today + 1
    /\ UNCHANGED <<slot, batch, loopAt, stopping, stopDone, countVars, rows, lastStop>>
MarkdownRecorded ==
    /\ \E p \in rows : rows' = rows \ {p}
    /\ UNCHANGED <<slot, batch, loopAt, stopping, stopDone, today, countVars, lastStop>>

BatchStep == CheckEnabled \/ FetchRows \/ NextItem \/ JobEnds \/ NoteConverted \/ NoteFailed
SchNext == \/ Start \/ TimerFires \/ RunNow \/ LoopExit \/ StopScheduler \/ StopReturns \/ BatchStep
           \/ NextDay \/ MarkdownRecorded
SchSpec == SchInit /\ [][SchNext]_schVars
\* Goroutines run on; a job ends by its timeout.
SchFair == WF_schVars(BatchStep) /\ WF_schVars(LoopExit) /\ WF_schVars(StopReturns)
SchFairSpec == SchSpec /\ SchFair

-----------------------------------------------------------------------------
(* Properties. *)

\* scheduler.go: "the counter never exceeds the cap": conversions noted on one
\* calendar day, by nightly and manual runs together, across midnight.
CapHolds == convertedToday <= DailyCap

\* Once Stop has returned no paper is submitted any more, not even by a RunNow
\* whose request raced with it.
StopIsFinal == stopDone => batch.at # "wait"

\* The scheduler spends no more than its daily cap, and nothing after Stop.
SchedulerSound == CapHolds /\ StopIsFinal

\* A run ends although failing papers never leave the queue.
RunsEnd == slot # "free" ~> slot = "free"
=============================================================================
