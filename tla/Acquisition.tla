---------------------------- MODULE Acquisition ----------------------------
(***************************************************************************)
(* The in-process downloader (internal/downloader) with its durable journal *)
(* of admissions (registry downloader_requests) and the worker fleet it     *)
(* delegates to.  A request is journaled, admitted into a bounded queue, run *)
(* by a pool of goroutines through the ladder of strategies, and finished in *)
(* the journal.  A shutdown or a crash may fall anywhere; recovery admits    *)
(* what the journal still calls queued.                                      *)
(*                                                                          *)
(* A ticket is an admission id in the hands of a caller or of a recovery    *)
(* pass that has listed it: both may be long out of date when it is used.   *)
(***************************************************************************)
EXTENDS Integers, FiniteSets

CONSTANTS
    Papers,
    WithDOI,           \* papers whose reference carries a DOI; the others arXiv ids
    MaxScheduled,      \* capacity of the queue (128)
    PoolSize,          \* goroutines: local ones and remote waiters
    LocalSlots,        \* of those, how many may run local strategies
    MaxRequests,       \* bound: admissions, by paper
    MaxFaults          \* bound: shutdowns, crashes, lost completions, detached waits

ASSUME AcquisitionConfig ==
    /\ WithDOI \subseteq Papers
    /\ {MaxScheduled, PoolSize, LocalSlots} \subseteq Nat \ {0}
    /\ MaxRequests \in [Papers -> Nat]
    /\ LocalSlots <= PoolSize /\ MaxFaults \in Nat

VARIABLES
    row,        \* downloader_requests, by paper: state and request_id
    tickets,    \* <<paper, request_id>>
    scheduled,  \* Downloader.scheduled
    download,        \* the admitted job of a paper
    held,       \* jobs that hold a local permit
    alive,      \* pool goroutines
    closed, faults,
    fleet,      \* the fleet's task for the paper: state and admission
    bound,      \* papers with a verified frozen PDF bound to their alias
    announced,     \* papers whose PDF-ready hooks have run
    owed,       \* papers in the fleet's outbox of hooks
    ran         \* admissions some job ran to its end

acqVars == <<row, tickets, scheduled, download, held, alive, closed, faults, fleet, bound,
             announced, owed, ran>>

Rungs   == {"arxiv", "open", "browser", "agent"}
Remote  == {"remote", "rejoin"}
DownloadPCs  == {"idle", "admitted", "queued", "check", "permit", "store", "archived",
            "hooks", "finish", "failing", "over"} \cup Rungs \cup Remote
NoJob   == [pc |-> "idle", id |-> 0, tried |-> FALSE, next |-> "idle"]

AcqTypeOK ==
    /\ row \in [Papers -> [state : {"none", "queued", "done", "failed"}, id : Nat]]
    /\ tickets \subseteq Papers \X Nat
    /\ scheduled \subseteq Papers /\ Cardinality(scheduled) <= MaxScheduled
    /\ held \subseteq Papers
    /\ download \in [Papers -> [pc : DownloadPCs, id : Nat, tried : BOOLEAN, next : DownloadPCs]]
    /\ alive \in 0 .. PoolSize /\ closed \in BOOLEAN /\ faults \in Nat
    /\ fleet \in [Papers -> [state : {"none", "working", "archived", "failed"},
                             id : Nat]]
    /\ bound \subseteq Papers /\ announced \subseteq Papers /\ owed \subseteq Papers
    /\ ran \subseteq Papers \X Nat

AcqInit ==
    /\ row = [p \in Papers |-> [state |-> "none", id |-> 0]]
    /\ tickets = {} /\ scheduled = {} /\ held = {}
    /\ download = [p \in Papers |-> NoJob]
    /\ alive = PoolSize /\ closed = FALSE /\ faults = 0
    /\ fleet = [p \in Papers |-> [state |-> "none", id |-> 0]]
    /\ bound = {} /\ announced = {} /\ owed = {} /\ ran = {}

-----------------------------------------------------------------------------
(* Admission. *)

\* SaveDownloadRequest: a queued row keeps its id, a finished one starts anew.
SaveDownloadRequest(p) ==
    LET id == IF row[p].state = "queued" THEN row[p].id ELSE row[p].id + 1
    IN  /\ ~closed /\ id <= MaxRequests[p]
        /\ row' = [row EXCEPT ![p] = [state |-> "queued", id |-> id]]
        /\ tickets' = tickets \cup {<<p, id>>}
        /\ UNCHANGED <<scheduled, download, held, alive, closed, faults, fleet, bound, announced, owed, ran>>

\* One pass of RunRecovery reads the queued rows (adopted papers among them).
PendingDownloadRequests ==
    /\ ~closed
    /\ tickets' = tickets \cup {<<p, row[p].id>> : p \in {q \in Papers : row[q].state = "queued"}}
    /\ tickets' # tickets
    /\ UNCHANGED <<row, scheduled, download, held, alive, closed, faults, fleet, bound, announced, owed, ran>>

\* Mutant: the queue is not bounded.
RoomAlways == TRUE
Room == Cardinality(scheduled) < MaxScheduled
\* enqueueAdmitted: refused when closing, coalesced with the paper's job, left
\* to recovery when the queue is full, or a new job.
EnqueueAdmitted(p, id) ==
    /\ <<p, id>> \in tickets /\ tickets' = tickets \ {<<p, id>>}
    /\ IF closed \/ p \in scheduled \/ ~Room THEN UNCHANGED <<scheduled, download>>
       ELSE /\ scheduled' = scheduled \cup {p}
            /\ download' = [download EXCEPT ![p] = [NoJob EXCEPT !.pc = "admitted", !.id = id]]
    /\ UNCHANGED <<row, held, alive, closed, faults, fleet, bound, announced, owed, ran>>

At(p, pc) == download[p].pc = pc
Go(p, pc) == download' = [download EXCEPT ![p].pc = pc]
JobOnly == UNCHANGED <<row, tickets, scheduled, alive, closed, faults, fleet, bound, announced, owed, ran>>
Fault   == faults < MaxFaults /\ faults' = faults + 1

\* Mutant: the producer does not look at closed again.
SendsAlways == TRUE
Sends == ~closed
\* The producer sends its job under admissionMu, unless Shutdown came first.
Send(p) == At(p, "admitted") /\ Go(p, IF Sends THEN "queued" ELSE "over")
           /\ UNCHANGED held /\ JobOnly

Busy == {p \in Papers : download[p].pc \notin {"idle", "admitted", "queued", "over"}}
Take(p) == /\ At(p, "queued") /\ Cardinality(Busy) < alive
           /\ Go(p, "check") /\ UNCHANGED held /\ JobOnly

\* The producer saw j.done: the paper may be admitted again.
Release(p) ==
    /\ At(p, "over") /\ download' = [download EXCEPT ![p] = NoJob] /\ scheduled' = scheduled \ {p}
    /\ UNCHANGED <<row, tickets, held, alive, closed, faults, fleet, bound, announced, owed, ran>>

-----------------------------------------------------------------------------
(* process and the ladder FetchPDF.                                          *)

\* fail: a cancelled run keeps its admission queued, any other error ends it.
Fails(p) == IF closed THEN "over" ELSE "failing"
\* FetchPDF returns (and releases its permit) with an error, or with a body.
FetchReturns(p, pc) == Go(p, pc) /\ held' = held \ {p} /\ JobOnly

\* recoveredFrozenSource: verified bytes suffice, a broken binding is an error.
CheckFrozen(p) ==
    /\ At(p, "check") /\ UNCHANGED held /\ JobOnly
    /\ Go(p, IF p \in bound THEN "hooks" ELSE "permit") \/ Go(p, Fails(p))

AcquirePermit(p) ==
    /\ At(p, "permit") /\ JobOnly
    /\ \/ Cardinality(held) < LocalSlots /\ held' = held \cup {p} /\ Go(p, "arxiv")
       \/ closed /\ Go(p, "over") /\ UNCHANGED held

\* tryRemote gives the permit back and asks the fleet; next: the rung that
\* follows if the fleet fails.
Delegates(p, next) ==
    /\ download' = [download EXCEPT ![p].pc = "remote", ![p].next = next, ![p].tried = TRUE]
    /\ held' = held \ {p}
\* The fleet finds the admission's task, joins an active one, or starts one.
Attached(p) ==
    fleet' = IF fleet[p].id = download[p].id \/ fleet[p].state = "working" THEN fleet
             ELSE [fleet EXCEPT ![p] = [state |-> "working", id |-> download[p].id]]
Delegate(p, next) ==
    /\ Delegates(p, next) /\ Attached(p)
    /\ UNCHANGED <<row, tickets, scheduled, alive, closed, faults, bound, announced, owed, ran>>

\* A local rung succeeds or leads on; a bot wall met on the way sends the paper
\* to the fleet before the browser and the link agent are tried.
TryArxiv(p) ==
    /\ At(p, "arxiv")
    /\ \/ FetchReturns(p, "store")
       \/ p \in WithDOI /\ Go(p, "open") /\ UNCHANGED held /\ JobOnly
       \/ p \notin WithDOI /\ Delegate(p, "failing")
OpenAccess(p) ==                 \* twin, OA interfaces, patterns, landing page
    /\ At(p, "open")
    /\ \/ FetchReturns(p, "store")
       \/ Go(p, "browser") /\ UNCHANGED held /\ JobOnly
       \/ Delegate(p, "browser")
Browser(p) ==
    /\ At(p, "browser")
    /\ FetchReturns(p, "store") \/ (Go(p, "agent") /\ UNCHANGED held /\ JobOnly)
Agent(p) ==
    /\ At(p, "agent")
    /\ \/ FetchReturns(p, "store")
       \/ IF download[p].tried THEN FetchReturns(p, Fails(p)) ELSE Delegate(p, "failing")

\* The fleet's answer.  Cancellation, a database error or the wait's deadline
\* mean pending: the admission stays queued.
RemoteAnswer(p) ==
    /\ At(p, "remote") /\ UNCHANGED held /\ JobOnly
    /\ \/ /\ fleet[p].state = "archived"
          /\ download' = [download EXCEPT ![p].pc = "rejoin", ![p].next = "archived"]
       \/ fleet[p].state = "failed" /\ Go(p, "rejoin")
RemotePending(p) ==
    /\ At(p, "remote") /\ (Fault \/ (closed /\ UNCHANGED faults))
    /\ download' = [download EXCEPT ![p].pc = "rejoin", ![p].next = "over"]
    /\ UNCHANGED <<row, tickets, scheduled, held, alive, closed, fleet, bound, announced, owed, ran>>
\* tryRemote takes a permit again before it returns.
Rejoin(p) ==
    LET pc == IF download[p].next = "failing" THEN Fails(p) ELSE download[p].next
    IN  /\ At(p, "rejoin") /\ JobOnly
        /\ Cardinality(held) < LocalSlots \/ closed
        /\ Go(p, pc)
        /\ held' = IF pc \in Rungs /\ Cardinality(held) < LocalSlots
                   THEN held \cup {p} ELSE held

\* storeOutcome: freeze and bind the bytes, then record the asset; the second
\* may fail when the first is done.
StoreOutcome(p) ==
    /\ At(p, "store") /\ UNCHANGED held
    /\ \/ Go(p, "hooks") /\ bound' = bound \cup {p}
       \/ Go(p, Fails(p)) /\ bound' \in {bound, bound \cup {p}}
    /\ UNCHANGED <<row, tickets, scheduled, alive, closed, faults, fleet, announced, owed, ran>>
\* An archive receipt counts only with its verified binding.
CheckArchived(p) ==
    /\ At(p, "archived") /\ UNCHANGED held /\ JobOnly
    /\ IF p \in bound THEN Go(p, "finish") ELSE Go(p, Fails(p))
FireHooks(p) ==
    /\ At(p, "hooks") /\ Go(p, "finish") /\ announced' = announced \cup {p}
    /\ UNCHANGED <<row, tickets, scheduled, held, alive, closed, faults, fleet, bound, owed, ran>>

\* Mutant: the request id is not compared.
FinishedAny(p, s) == [row EXCEPT ![p].state = s]
\* FinishDownloadRequest updates the row of this admission only.
Finished(p, s) ==
    IF row[p].id = download[p].id THEN [row EXCEPT ![p].state = s] ELSE row
FinishDownloadRequest(p) ==
    /\ download[p].pc \in {"finish", "failing"}
    /\ row' = Finished(p, IF At(p, "finish") THEN "done" ELSE "failed")
    /\ ran' = ran \cup {<<p, download[p].id>>}
    /\ Go(p, "over")
    /\ UNCHANGED <<tickets, scheduled, held, alive, closed, faults, fleet, bound, announced, owed>>
\* "persist download completion; admission remains recoverable"
FinishLost(p) ==
    /\ download[p].pc \in {"finish", "failing"} /\ Go(p, "over") /\ Fault
    /\ UNCHANGED <<row, tickets, scheduled, held, alive, closed, fleet, bound, announced, owed, ran>>

-----------------------------------------------------------------------------
(* The fleet commits (ArchiveRemote stores and registers), runs the hooks    *)
(* from its own outbox, or gives up, with or without a waiter.               *)
FleetArchives(p) ==
    /\ fleet[p].state = "working"
    /\ fleet' = [fleet EXCEPT ![p].state = "archived"]
    /\ bound' = bound \cup {p} /\ owed' = owed \cup {p}
    /\ UNCHANGED <<row, tickets, scheduled, download, held, alive, closed, faults, announced, ran>>
AfterRemoteArchive(p) ==
    /\ p \in owed /\ owed' = owed \ {p} /\ announced' = announced \cup {p}
    /\ UNCHANGED <<row, tickets, scheduled, download, held, alive, closed, faults, fleet, bound, ran>>
FleetGivesUp(p) ==
    /\ fleet[p].state = "working"
    /\ fleet' = [fleet EXCEPT ![p].state = "failed"]
    /\ UNCHANGED <<row, tickets, scheduled, download, held, alive, closed, faults, bound, announced, owed, ran>>

(* Shutdown, its workers' exit, the crash, the next process. *)
Shutdown ==
    /\ ~closed /\ closed' = TRUE /\ Fault
    /\ UNCHANGED <<row, tickets, scheduled, download, held, alive, fleet, bound, announced, owed, ran>>
WorkerExit ==
    /\ closed /\ Cardinality(Busy) < alive /\ \A p \in Papers : ~At(p, "queued")
    /\ alive' = alive - 1
    /\ UNCHANGED <<row, tickets, scheduled, download, held, closed, faults, fleet, bound, announced, owed, ran>>
Joined == closed /\ alive = 0 /\ scheduled = {}
FreshProcess == /\ tickets' = {} /\ scheduled' = {} /\ held' = {} /\ alive' = PoolSize
         /\ download' = [p \in Papers |-> NoJob] /\ closed' = FALSE
NextProcess == Joined /\ FreshProcess /\ UNCHANGED <<row, faults, fleet, bound, announced, owed, ran>>
AcqCrash ==
    /\ Fault /\ FreshProcess
    /\ UNCHANGED <<row, fleet, bound, announced, owed, ran>>

Ladder(p) ==
    \/ Take(p) \/ CheckFrozen(p) \/ AcquirePermit(p) \/ TryArxiv(p) \/ OpenAccess(p)
    \/ Browser(p) \/ Agent(p) \/ RemoteAnswer(p) \/ Rejoin(p) \/ StoreOutcome(p)
    \/ CheckArchived(p) \/ FireHooks(p)
Producer(p) == Send(p) \/ Release(p)
AcqNext ==
    \/ \E p \in Papers : \/ SaveDownloadRequest(p) \/ Producer(p) \/ Ladder(p)
                         \/ RemotePending(p) \/ FinishDownloadRequest(p) \/ FinishLost(p)
                         \/ FleetArchives(p) \/ FleetGivesUp(p) \/ AfterRemoteArchive(p)
    \/ \E t \in tickets : EnqueueAdmitted(t[1], t[2])
    \/ PendingDownloadRequests \/ Shutdown \/ WorkerExit \/ NextProcess \/ AcqCrash

\* Goroutines run on and recovery repeats; the fleet settles its tasks (its own
\* liveness, see DownloadFleet) and a shutdown cancels the wait for it.
AcqFair ==
    /\ \A p \in Papers :
          /\ WF_acqVars(Producer(p))
          /\ WF_acqVars(Ladder(p) \/ FinishDownloadRequest(p) \/ (closed /\ RemotePending(p)))
          /\ WF_acqVars(FleetArchives(p) \/ FleetGivesUp(p)) /\ WF_acqVars(AfterRemoteArchive(p))
    /\ WF_acqVars(PendingDownloadRequests)
    /\ WF_acqVars(\E t \in tickets : EnqueueAdmitted(t[1], t[2]))
    /\ WF_acqVars(WorkerExit) /\ WF_acqVars(NextProcess)
AcqSpec == AcqInit /\ [][AcqNext]_acqVars
AcqFairSpec == AcqSpec /\ AcqFair

-----------------------------------------------------------------------------
(* Properties. *)

\* download_requests.go: "Explicit retries after completion mint a new
\* RequestID; restart recovery never does": an admission is over only when a job
\* that carries it ran to its end; a job of an outdated ticket never ends the
\* retry that was saved meanwhile.
AdmissionRan ==
    \A p \in Papers : row[p].state \in {"done", "failed"} => <<p, row[p].id>> \in ran

\* A request is done only once verified bytes are bound to the paper and the
\* PDF-ready hooks have run or the fleet still owes them, whatever crash, lost
\* completion or fleet commit came between.
DoneIsAcquired ==
    \A p \in Papers : row[p].state = "done" => p \in bound /\ p \in announced \cup owed

\* A finished request is one that really ran and really has its PDF.
AdmissionSound == AdmissionRan /\ DoneIsAcquired

\* Every journaled request ends, across restarts, full queues, detached fleet
\* waits and lost completions, and the hooks the fleet owes are run.
RequestsSettle ==
    \A p \in Papers :
        /\ row[p].state = "queued" ~> row[p].state # "queued"
        /\ row[p].state = "done" ~> (p \in announced \/ row[p].state # "done")

\* Shutdown joins producers and workers: no job is left in the queue that nobody
\* will run, and no permit is waited for in vain.
ShutdownJoins == closed ~> Joined \/ ~closed

\* Nothing admitted is left behind, neither by the service nor by its shutdown.
AcquisitionSettles == RequestsSettle /\ ShutdownJoins
=============================================================================
