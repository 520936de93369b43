----------------------------- MODULE MCBackground -----------------------------
(***************************************************************************)
(* Small instances of the services that run in the background.             *)
(* They have no variable in common (where one depends on another, its      *)
(* module states what it relies on), so they are checked one at a time:    *)
(* focus names the service that moves, the others rest in their initial    *)
(* state.                                                                  *)
(***************************************************************************)
EXTENDS TokenPool, WorkerSpool, Acquisition, MineruScheduler, Daemon, TLC

CONSTANTS Focus

(* Values of the constants. *)
MCConfig     == <<"t1", "t2">>
MCOneRequest == [p \in Papers |-> 1]

VARIABLE focus

\* Services that do not move have one initial state.
OthersRest ==
    /\ focus = "pool" \/ tokenRows = <<>>
    /\ focus = "daemon" \/ (~conf.postgres /\ ~conf.remote /\ ~conf.access)
BackgroundInit ==
    /\ focus \in Focus
    /\ PoolInit /\ WorkerInit /\ AcqInit /\ SchInit /\ DaeInit
    /\ OthersRest

Still(name, v) == IF focus = name THEN TRUE ELSE UNCHANGED v
Only(name) ==
    /\ focus = name /\ UNCHANGED focus
    /\ Still("pool", poolVars) /\ Still("worker", workerVars)
    /\ Still("acquisition", acqVars) /\ Still("scheduler", schVars)
    /\ Still("daemon", daeVars)
PoolMoves        == Only("pool") /\ PoolNext
WorkerMoves      == Only("worker") /\ WorkerNext
AcquisitionMoves == Only("acquisition") /\ AcqNext
SchedulerMoves   == Only("scheduler") /\ SchNext
DaemonMoves      == Only("daemon") /\ DaeNext
BackgroundNext ==
    \/ PoolMoves \/ WorkerMoves \/ AcquisitionMoves \/ SchedulerMoves
    \/ DaemonMoves

backgroundVars ==
    <<focus, poolVars, workerVars, acqVars, schVars, daeVars>>
BackgroundSpec == BackgroundInit /\ [][BackgroundNext]_backgroundVars

\* PoolFair, WorkerFair, AcqFair, SchFair and DaeFair of the service
\* in focus.
InFocus(name, A) == focus = name /\ A
BackgroundFair ==
    /\ \A j \in Jobs : WF_poolVars(InFocus("pool", JobStep(j)))
    /\ \A t \in PTasks :
          /\ WF_workerVars(InFocus("worker", Download(t))) /\ WF_workerVars(InFocus("worker", Age(t)))
          /\ SF_workerVars(InFocus("worker", LossRecorded(t)))
    /\ WF_workerVars(InFocus("worker", ProcessExits)) /\ WF_workerVars(InFocus("worker", OpenSpool))
    /\ WF_workerVars(InFocus("worker", fatal /\ StopWorker))
    /\ WF_workerVars(InFocus("worker", AnswersRead))
    /\ WF_workerVars(InFocus("worker", ArchivedRemove \/ ExpireRemove))
    /\ \A p \in Papers :
          /\ WF_acqVars(InFocus("acquisition", Producer(p)))
          /\ WF_acqVars(InFocus("acquisition", Ladder(p) \/ FinishDownloadRequest(p)
                                            \/ (closed /\ RemotePending(p))))
          /\ WF_acqVars(InFocus("acquisition", FleetArchives(p) \/ FleetGivesUp(p)))
          /\ WF_acqVars(InFocus("acquisition", AfterRemoteArchive(p)))
    /\ WF_acqVars(InFocus("acquisition", PendingDownloadRequests))
    /\ WF_acqVars(InFocus("acquisition", \E t \in tickets : EnqueueAdmitted(t[1], t[2])))
    /\ WF_acqVars(InFocus("acquisition", WorkerExit)) /\ WF_acqVars(InFocus("acquisition", NextProcess))
    /\ WF_schVars(InFocus("scheduler", BatchStep)) /\ WF_schVars(InFocus("scheduler", LoopExit))
    /\ WF_schVars(InFocus("scheduler", StopReturns))
    /\ \A p \in ServerProcs :
          /\ WF_daeVars(InFocus("daemon", TerminateStep(p)))
          /\ \A t \in Goroutines : WF_daeVars(InFocus("daemon", TaskEnds(p, t)))
BackgroundFairSpec == BackgroundSpec /\ BackgroundFair

\* Every service keeps its state within its types.
BackgroundTypeOK ==
    /\ focus = "pool" => PoolTypeOK
    /\ focus = "worker" => WorkerTypeOK
    /\ focus = "acquisition" => AcqTypeOK
    /\ focus = "scheduler" => SchTypeOK
    /\ focus = "daemon" => DaeTypeOK

\* Whatever is started on the MinerU side ends: a conversion that rotates
\* through the keys, and a run of the scheduler over papers that keep failing.
ConversionsEnd == JobsEnd /\ RunsEnd
=============================================================================
