------------------------------- MODULE Daemon -------------------------------
(***************************************************************************)
(* cmd/qatlasd: how a server process boots, what it starts and in which      *)
(* order it tears it down, with several processes started on one pb_data     *)
(* directory (a restart overlapping the old process).  OnTerminate handlers  *)
(* nest: each does its work, calls Next, and runs its deferred close after.  *)
(***************************************************************************)
EXTENDS Integers, Sequences, FiniteSets, SequencesExt

CONSTANTS ServerProcs,
          SchemaAttempts,   \* maxAttempts of ensureCatalogSchema
          MaxBoots          \* bound: processes started

ASSUME DaemonConfig == {SchemaAttempts, MaxBoots} \subseteq Nat \ {0}

VARIABLES
    conf,      \* config.yaml: postgres, remote (fleet), access (paper access)
    stage,     \* of each process
    handlers,  \* OnTerminate handlers bound so far, in the order they run
    pending,   \* terminating: handlers still to enter
    entered,   \* terminating: handlers waiting for Next to return
    running,   \* its goroutines
    attempts,  \* of ensureCatalogSchema
    locked,    \* processes holding the flock on pb_data
    open,      \* its open pools
    ring,      \* where the converter's tokens come from
    migrated,  \* the registry's schema
    boots

daeVars == <<conf, stage, handlers, pending, entered, running, attempts, locked, open,
             ring, migrated, boots>>

Stages == {"down", "load", "validate", "backends", "converter", "ingest", "fleet",
           "lock", "serving", "terminate"}
\* The janitor, the ingester's pool and its replay are not among them: nothing
\* waits for their end (ingester.Shutdown gives up after its timeout).
Goroutines  == {"schema", "batch", "downloader", "fleet", "recovery", "http"}
HandlerNames == {"lock", "pool", "scheduler", "janitor", "ingester", "downloader", "fleet"}

DaeTypeOK ==
    /\ conf \in [postgres : BOOLEAN, remote : BOOLEAN, access : BOOLEAN]
    /\ stage \in [ServerProcs -> Stages] /\ running \in [ServerProcs -> SUBSET Goroutines]
    /\ \A p \in ServerProcs : \A q \in {handlers[p], pending[p], entered[p]} :
          ToSet(q) \subseteq HandlerNames
    /\ attempts \in [ServerProcs -> 0 .. SchemaAttempts]
    /\ locked \subseteq ServerProcs /\ open \in [ServerProcs -> SUBSET {"registry", "fleet"}]
    /\ ring \in [ServerProcs -> {"config", "table"}] /\ migrated \in BOOLEAN /\ boots \in Nat

DaeInit ==
    /\ conf \in [postgres : BOOLEAN, remote : BOOLEAN, access : BOOLEAN]
    /\ stage = [p \in ServerProcs |-> "down"] /\ running = [p \in ServerProcs |-> {}]
    /\ handlers = [p \in ServerProcs |-> <<>>] /\ pending = handlers /\ entered = handlers
    /\ attempts = [p \in ServerProcs |-> 0] /\ locked = {} /\ open = running
    /\ ring = [p \in ServerProcs |-> "config"] /\ migrated = FALSE /\ boots = 0

-----------------------------------------------------------------------------
(* Boot: main and the serve command's RunE.                                  *)

Launch(p) ==
    /\ stage[p] = "down" /\ boots < MaxBoots /\ boots' = boots + 1
    /\ stage' = [stage EXCEPT ![p] = "load"]
    /\ UNCHANGED <<conf, handlers, pending, entered, running, attempts, locked, open, ring,
                   migrated>>

\* One stage of the boot that starts tasks, opens pools and binds handlers.
Boot(p, from, to, tasks, pools, hooks) ==
    /\ stage[p] = from /\ stage' = [stage EXCEPT ![p] = to]
    /\ running'  = [running EXCEPT ![p] = @ \cup tasks]
    /\ open'     = [open EXCEPT ![p] = @ \cup pools]
    /\ handlers' = [handlers EXCEPT ![p] = @ \o hooks]
    /\ UNCHANGED <<conf, pending, entered, attempts, ring, migrated, boots>>
When(b, x) == IF b THEN {x} ELSE {}
Hook(b, x) == IF b THEN <<x>> ELSE <<>>

\* config.Load: the fleet needs paper access.
LoadConfig(p) ==
    /\ conf.remote => conf.access
    /\ Boot(p, "load", "validate", {}, {}, <<>>) /\ UNCHANGED locked
\* ValidateForServe, the UI bundle and the system PAT.
ValidateForServe(p) ==
    Boot(p, "validate", "backends", {}, {}, <<>>) /\ UNCHANGED locked
InitBackends(p) ==
    /\ Boot(p, "backends", "converter", {}, When(conf.postgres, "registry"),
            Hook(conf.postgres, "pool"))
    /\ UNCHANGED locked
BuildConverter(p) ==
    Boot(p, "converter", "ingest", When(conf.postgres, "schema"), {}, <<>>) /\ UNCHANGED locked
\* The scheduler, the janitor and the ingester.
BuildIngest(p) ==
    /\ Boot(p, "ingest", "fleet", {}, {},
            Hook(conf.access, "scheduler") \o <<"janitor", "ingester">>)
    /\ UNCHANGED locked
\* Mutant: the fleet's background starts with the service, before the lock.
BuildDownloaderEarly(p) ==
    /\ conf.remote => conf.postgres
    /\ Boot(p, "fleet", "lock", When(conf.access, "downloader") \cup When(conf.remote, "fleet"),
            When(conf.remote, "fleet"), Hook(conf.access, "downloader"))
    /\ UNCHANGED locked
BuildDownloader(p) ==
    /\ conf.remote => conf.postgres
    /\ Boot(p, "fleet", "lock", When(conf.access, "downloader"), When(conf.remote, "fleet"),
            Hook(conf.access, "downloader"))
    /\ UNCHANGED locked
\* OnServe: TryLock; the lock's handler has priority over all others.
Serve(p) ==
    /\ locked = {} /\ locked' = {p}
    /\ stage[p] = "lock" /\ stage' = [stage EXCEPT ![p] = "serving"]
    /\ running' = [running EXCEPT ![p] = @ \cup {"http"} \cup
                      (IF conf.remote THEN {"fleet", "recovery"} ELSE {})]
    /\ handlers' = [handlers EXCEPT ![p] = <<"lock">> \o @ \o Hook(conf.remote, "fleet")]
    /\ UNCHANGED <<conf, pending, entered, attempts, open, ring, migrated, boots>>

\* A stage fails, the lock is held, or a signal ends the server.  PocketBase's
\* own handler has stopped the listener before the others are entered.
BootStages == {"validate", "backends", "converter", "ingest", "fleet", "lock"}
Terminate(p) ==
    /\ stage[p] \in BootStages \cup {"serving"}
    /\ stage' = [stage EXCEPT ![p] = "terminate"]
    /\ pending' = [pending EXCEPT ![p] = handlers[p]]
    /\ running' = [running EXCEPT ![p] = @ \ {"http"}]
    /\ UNCHANGED <<conf, handlers, entered, attempts, locked, open, ring, migrated, boots>>

-----------------------------------------------------------------------------
(* The OnTerminate chain.                                                    *)

\* downloadBackground.Stop waits for both of its goroutines.
FleetStopped(p) == {"fleet", "recovery"}
\* What a handler waits for before it calls Next.
Awaits(p, h) ==
    CASE h = "scheduler"  -> {"batch"}
      [] h = "downloader" -> FleetStopped(p) \cup {"downloader"}
      [] h = "fleet"      -> FleetStopped(p)
      [] OTHER            -> {}
\* Mutant: Stop waits for goroutines it has not cancelled.
CancelledNone(p) == {}
\* Entering a handler cancels what it is about; it goes on when that has ended.
Cancelled(p) == IF pending[p] = <<>> THEN {} ELSE Awaits(p, Head(pending[p]))
Enter(p) ==
    /\ stage[p] = "terminate" /\ pending[p] # <<>>
    /\ Awaits(p, Head(pending[p])) \cap running[p] = {}
    /\ entered' = [entered EXCEPT ![p] = Append(@, Head(pending[p]))]
    /\ pending' = [pending EXCEPT ![p] = Tail(@)]
    /\ UNCHANGED <<conf, stage, handlers, running, attempts, locked, open, ring, migrated,
                   boots>>
\* Next returned: the deferred close of the innermost handler.
LeaveHandler(p) ==
    /\ stage[p] = "terminate" /\ pending[p] = <<>> /\ entered[p] # <<>>
    /\ entered' = [entered EXCEPT ![p] = Front(@)]
    /\ open' = [open EXCEPT ![p] = @ \ (CASE Last(entered[p]) = "pool"  -> {"registry"}
                                          [] Last(entered[p]) = "fleet" -> {"fleet"}
                                          [] OTHER -> {})]
    /\ locked' = IF Last(entered[p]) = "lock" THEN locked \ {p} ELSE locked
    /\ UNCHANGED <<conf, stage, handlers, pending, running, attempts, ring, migrated, boots>>

Gone(p) ==
    /\ stage' = [stage EXCEPT ![p] = "down"] /\ running' = [running EXCEPT ![p] = {}]
    /\ handlers' = [handlers EXCEPT ![p] = <<>>] /\ pending' = [pending EXCEPT ![p] = <<>>]
    /\ entered' = [entered EXCEPT ![p] = <<>>] /\ attempts' = [attempts EXCEPT ![p] = 0]
    /\ open' = [open EXCEPT ![p] = {}] /\ locked' = locked \ {p}
    /\ ring' = [ring EXCEPT ![p] = "config"]
    /\ UNCHANGED <<conf, migrated, boots>>
ExitProcess(p) ==
    stage[p] = "terminate" /\ pending[p] = <<>> /\ entered[p] = <<>> /\ Gone(p)
\* config.Load refused: log.Fatalf before anything started.
Refused(p) == stage[p] = "load" /\ Gone(p)
\* SIGKILL, or the migration met a newer schema (log.Fatalf): the kernel
\* releases the lock.
Killed(p) == stage[p] # "down" /\ Gone(p)

-----------------------------------------------------------------------------
(* Goroutines.                                                               *)

Ends(p, t) == running' = [running EXCEPT ![p] = @ \ {t}]
\* A task ends once cancelled; a batch also by itself.
TaskEnds(p, t) ==
    /\ t \in running[p] /\ t \notin {"http", "schema"}
    /\ t = "batch" \/ t \in Cancelled(p)
    /\ Ends(p, t)
    /\ UNCHANGED <<conf, stage, handlers, pending, entered, attempts, locked, open, ring,
                   migrated, boots>>
\* The admin's RunNow.
RunBatch(p) ==
    /\ "http" \in running[p] /\ conf.access /\ running' = [running EXCEPT ![p] = @ \cup {"batch"}]
    /\ UNCHANGED <<conf, stage, handlers, pending, entered, attempts, locked, open, ring,
                   migrated, boots>>
\* ensureCatalogSchema: an attempt fails, or migrates and moves the ring over
\* to the table (BootSyncTokens, which may fail too).
SchemaFails(p) ==
    /\ "schema" \in running[p] /\ attempts' = [attempts EXCEPT ![p] = @ + 1]
    /\ running' = IF attempts'[p] = SchemaAttempts THEN [running EXCEPT ![p] = @ \ {"schema"}]
                  ELSE running
    /\ UNCHANGED <<conf, stage, handlers, pending, entered, locked, open, ring, migrated, boots>>
SchemaReady(p) ==
    /\ "schema" \in running[p] /\ "registry" \in open[p] /\ Ends(p, "schema")
    /\ migrated' = TRUE
    /\ ring' \in {ring, [ring EXCEPT ![p] = IF conf.access THEN "table" ELSE @]}
    /\ UNCHANGED <<conf, stage, handlers, pending, entered, attempts, locked, open, boots>>

BootStep(p) ==
    \/ LoadConfig(p) \/ ValidateForServe(p) \/ InitBackends(p) \/ BuildConverter(p)
    \/ BuildIngest(p) \/ BuildDownloader(p) \/ Serve(p) \/ Refused(p)
TerminateStep(p) == Enter(p) \/ LeaveHandler(p) \/ ExitProcess(p)
DaeNext ==
    \E p \in ServerProcs :
        \/ Launch(p) \/ BootStep(p) \/ Terminate(p) \/ TerminateStep(p) \/ Killed(p)
        \/ \E t \in Goroutines : TaskEnds(p, t)
        \/ RunBatch(p) \/ SchemaFails(p) \/ SchemaReady(p)
DaeSpec == DaeInit /\ [][DaeNext]_daeVars
\* Cancelled goroutines return, and so do the handlers.
DaeFair ==
    \A p \in ServerProcs : /\ WF_daeVars(TerminateStep(p))
                          /\ \A t \in Goroutines : WF_daeVars(TaskEnds(p, t))
DaeFairSpec == DaeSpec /\ DaeFair

-----------------------------------------------------------------------------
(* Properties. *)

\* "Closing database pools or unlocking the spool before these goroutines exit
\* is unsafe" (download_lifecycle.go): the fleet's and the downloader's
\* goroutines, and a conversion batch, never outlive the pool they use; the
\* fleet's background runs in at most one process, the holder of the lock.
PoolsOutliveUsers ==
    \A p \in ServerProcs :
        /\ running[p] \cap {"fleet", "recovery"} # {} => p \in locked /\ "fleet" \in open[p]
        /\ conf.postgres /\ running[p] \cap {"batch", "downloader", "fleet", "recovery"} # {} =>
              "registry" \in open[p]
        /\ \A q \in ServerProcs \ {p} : {"fleet"} \subseteq running[p] => "fleet" \notin running[q]

\* Teardown ends: no handler waits for a goroutine that waits for it.
TerminateEnds == \A p \in ServerProcs : stage[p] = "terminate" ~> stage[p] = "down"
=============================================================================
