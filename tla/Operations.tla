----------------------------- MODULE Operations -----------------------------
(***************************************************************************)
(* What operators do to one host with the qatlasd command: install, replace  *)
(* and remove the service unit (service_cmd.go), start servers that compete  *)
(* for the lock on their pb_data directory (pbdata_lock.go), run other       *)
(* subcommands beside them, write a configuration file (config_cmd.go) and   *)
(* probe the acquisition ladder (downloader_cmd.go).                         *)
(***************************************************************************)
EXTENDS Integers, FiniteSets

CONSTANTS
    Operators,       \* shells: each runs one command at a time
    Logins,          \* [euid, sudo, known, home, tty]: how a shell is logged in
    UnitOptions,     \* [mode, force, dryRun, config]: the flags of install
    SkipLock,        \* skip_pb_data_lock
    ProbeTargets, ProbeWidth,   \* downloader probe: its inputs and --concurrency
    MaxCommands      \* bound: commands

People == {l.home : l \in Logins} \cup ({l.sudo : l \in Logins} \ {"none"})
\* Where a unit may live: the system directory, or one account's own.
Places == {"system"} \cup People
Servers == Places \cup {"manual"}

\* A shell's HOME is its account's own; no account is called like what the
\* model tells apart by name.
ASSUME OperationsConfig ==
    /\ MaxCommands \in Nat /\ ProbeWidth \in Nat \ {0} /\ SkipLock \in BOOLEAN
    /\ \A l \in Logins : l.sudo = "none" => l.known /\ l.euid = l.home
    /\ \A opts \in UnitOptions : opts.mode \in {"", "user", "system"}
    /\ People \cap {"system", "manual", "free", "none"} = {}
    /\ Operators \cap (Servers \cup {"free"}) = {} /\ IsFiniteSet(ProbeTargets)

VARIABLES
    unit,         \* place -> the unit file there
    proc,         \* server process -> its state
    dataLock,     \* account -> holder of the lock in its pb_data
    shell,        \* operator -> the command it runs
    configFile,   \* account -> ~/.qatlas/config.yaml
    ladderProbe,  \* the downloader probe: target -> its state
    verdict,      \* how the last probe ended
    commands      \* commands run

operVars == <<unit, proc, dataLock, shell, configFile, ladderProbe, verdict, commands>>

NoUnit == [user |-> "none", home |-> "none", config |-> FALSE]
NoServer == [at |-> "down", data |-> "none"]
AtPrompt == [at |-> "idle", mode |-> "none", place |-> "none", plan |-> NoUnit, login |-> "none"]

OperTypeOK ==
    /\ \A pl \in Places : unit[pl] = NoUnit \/ unit[pl].user \in People
    /\ \A p \in Servers : proc[p].at \in {"down", "starting", "serving", "stopping"}
    /\ \A a \in People : dataLock[a] \in {"free"} \cup Servers \cup Operators
    /\ \A o \in Operators : shell[o].at \in {"idle", "status", "uninstall", "install", "start", "probing",
                                             "running", "configWrite"}
    /\ commands \in 0 .. MaxCommands

OperInit ==
    /\ unit = [pl \in Places |-> NoUnit] /\ proc = [p \in Servers |-> NoServer]
    /\ dataLock = [a \in People |-> "free"] /\ shell = [o \in Operators |-> AtPrompt]
    /\ configFile \in [People -> {"absent", "edited"}]
    /\ ladderProbe = [t \in ProbeTargets |-> "none"] /\ verdict = "none" /\ commands = 0

Runs(o) == shell[o].at = "idle" /\ commands < MaxCommands /\ commands' = commands + 1
Done(o) == shell' = [shell EXCEPT ![o] = AtPrompt]
probeVars == <<ladderProbe, verdict>>
OnlyShell == UNCHANGED <<unit, proc, dataLock, configFile, probeVars>>

(***************************** the unit's contents ************************)

\* The home of the account the server will run as.
effectiveHomeDir(l) == IF l.sudo # "none" /\ l.known THEN l.sudo ELSE l.home
resolveSystemUser(l) == IF l.sudo # "none" THEN l.sudo ELSE l.euid

\* An empty mode is guessed from the uid and confirmed at a terminal.
resolveMode(l, opts, says) ==
    IF opts.mode # "" THEN opts.mode
    ELSE IF (l.euid = "root") = says["mode"] THEN "system" ELSE "user"
guardSudoUserModeMismatch(l, mode) == ~(mode = "user" /\ l.euid = "root" /\ l.sudo # "none")
validateConfigPath(l) == configFile[effectiveHomeDir(l)] # "absent"
\* Without --config the default file is pinned if it is there; a terminal may
\* decline.  A path that is given is taken to be that of the same file.
resolveConfigPath(l, opts, says) ==
    validateConfigPath(l) /\ (opts.config \/ ~l.tty \/ says["config"])
computeReadWritePaths(l) == effectiveHomeDir(l)
buildServiceConfig(l, mode, pinned) ==
    [user |-> IF mode = "system" THEN resolveSystemUser(l) ELSE l.home,
     home |-> computeReadWritePaths(l), config |-> pinned]
\* Whose service manager a command speaks to.
newManagedService(l, mode) ==
    IF mode = "user" \/ (mode = "" /\ l.euid # "root") THEN l.home ELSE "system"
promptYesNo(l, force, yes) == force \/ (l.tty /\ yes)
Prompts == {"mode", "config", "write"}

(***************************** service install ****************************)

\* Up to the first change: every refusal, --dry-run and a declined prompt end here.
runServiceInstall(o, l, opts, says) ==
    LET mode == resolveMode(l, opts, says) IN
    /\ Runs(o)
    /\ IF /\ l.tty \/ (opts.force /\ opts.mode # "")
          /\ guardSudoUserModeMismatch(l, mode)
          /\ opts.config => validateConfigPath(l)
          /\ ~opts.dryRun /\ promptYesNo(l, opts.force, says["write"])
       THEN shell' = [shell EXCEPT ![o] = [at |-> "status", mode |-> IF opts.force THEN "force" ELSE "ask",
                        place |-> newManagedService(l, mode), login |-> l,
                        plan |-> buildServiceConfig(l, mode, resolveConfigPath(l, opts, says))]]
       ELSE UNCHANGED shell
    /\ OnlyShell
\* Status: an installed unit is replaced only by force or on confirmation.
InstallFindsUnit(o, yes) ==
    LET s == shell[o] IN
    /\ s.at = "status"
    /\ IF unit[s.place] = NoUnit THEN shell' = [shell EXCEPT ![o].at = "install"]
       ELSE IF s.mode = "force" \/ yes THEN shell' = [shell EXCEPT ![o].at = "uninstall"]
       ELSE Done(o)
    /\ OnlyShell /\ UNCHANGED commands

\* The service manager signals the process it started; it leaves in its own time
\* (a command waits for that unless its systemctl fails).
StopsServer(p) ==
    proc' = [proc EXCEPT ![p].at = CASE @ = "serving" -> "stopping" [] @ = "starting" -> "down" [] OTHER -> @]
\* Stop, whose error is ignored, then Uninstall, whose error ends the command.
RemovesUnit(o, ok) ==
    /\ shell[o].at = "uninstall" /\ StopsServer(shell[o].place)
    /\ IF ok /\ unit[shell[o].place] # NoUnit
       THEN unit' = [unit EXCEPT ![shell[o].place] = NoUnit]
            /\ IF shell[o].plan = NoUnit THEN Done(o) ELSE shell' = [shell EXCEPT ![o].at = "install"]
       ELSE Done(o) /\ UNCHANGED unit
    /\ UNCHANGED <<dataLock, configFile, probeVars, commands>>
\* Install refuses a unit that appeared meanwhile.
WritesUnit(o, ok) ==
    LET s == shell[o] IN
    /\ s.at = "install"
    /\ IF ok /\ unit[s.place] = NoUnit
       THEN unit' = [unit EXCEPT ![s.place] = s.plan] /\ shell' = [shell EXCEPT ![o].at = "start"]
       ELSE Done(o) /\ UNCHANGED unit
    /\ UNCHANGED <<proc, dataLock, configFile, probeVars, commands>>
\* Start, behind a stop that is under way: its failure is a warning.
Spawns(p, user) ==
    proc' = [proc EXCEPT ![p] =
                IF @.at = "down" /\ user # "none" THEN [at |-> "starting", data |-> user] ELSE @]
StartsUnit(o, ok) ==
    /\ shell[o].at = "start" /\ proc[shell[o].place].at # "stopping" /\ Done(o)
    /\ IF ok THEN Spawns(shell[o].place, unit[shell[o].place].user) ELSE UNCHANGED proc
    /\ UNCHANGED <<unit, dataLock, configFile, probeVars, commands>>

(***************************** the other commands *************************)

serviceUninstall(o, l, mode) ==
    /\ Runs(o)
    /\ shell' = [shell EXCEPT ![o] =
                    [AtPrompt EXCEPT !.at = "uninstall", !.place = newManagedService(l, mode)]]
    /\ OnlyShell
serviceStart(l, mode, o) ==
    /\ Runs(o) /\ Spawns(newManagedService(l, mode), unit[newManagedService(l, mode)].user)
    /\ UNCHANGED <<unit, dataLock, shell, configFile, probeVars>>
serviceStop(l, mode, o) ==
    /\ Runs(o) /\ StopsServer(newManagedService(l, mode))
    /\ UNCHANGED <<unit, dataLock, shell, configFile, probeVars>>
\* Restart waits for the stop: it is a stop, and a start once the process is down.
serviceRestart(o, l, mode) ==
    LET pl == newManagedService(l, mode) IN
    /\ Runs(o) /\ StopsServer(pl)
    /\ shell' = [shell EXCEPT ![o] = [AtPrompt EXCEPT !.at = "start", !.place = pl, !.plan = unit[pl]]]
    /\ UNCHANGED <<unit, dataLock, configFile, probeVars>>
\* An operator's own `qatlasd serve`.
serve(o, l) ==
    /\ Runs(o) /\ proc["manual"].at = "down" /\ Spawns("manual", l.home)
    /\ UNCHANGED <<unit, dataLock, shell, configFile, probeVars>>

(***************************** the pb_data lock ***************************)

\* A non-blocking flock; a refused server exits (its unit restarts it).
acquirePBDataLock(p) ==
    LET a == proc[p].data IN
    /\ proc[p].at = "starting"
    /\ IF SkipLock \/ dataLock[a] = "free"
       THEN /\ proc' = [proc EXCEPT ![p].at = "serving"]
            /\ dataLock' = IF SkipLock THEN dataLock ELSE [dataLock EXCEPT ![a] = p]
       ELSE /\ \/ proc' = [proc EXCEPT ![p] = NoServer]
               \/ p \in Places /\ UNCHANGED proc
            /\ UNCHANGED dataLock
    /\ UNCHANGED <<unit, shell, configFile, probeVars, commands>>
Freed(p) == [a \in People |-> IF dataLock[a] = p THEN "free" ELSE dataLock[a]]
\* A variant: the lock is given back when the shutdown begins.
UnlocksFirst(p) == proc[p].at \in {"serving", "stopping"} /\ dataLock' = Freed(p)
\* The unlock is deferred behind all other teardown.
UnlocksLast(p) == proc[p].at \in {"serving", "stopping"} /\ UNCHANGED dataLock
Terminates(p) ==
    /\ proc[p].at = "serving" /\ UnlocksLast(p) /\ proc' = [proc EXCEPT ![p].at = "stopping"]
    /\ UNCHANGED <<unit, shell, configFile, probeVars, commands>>
\* The process is gone, after its teardown or at once: the kernel releases the lock.
Exits(p) ==
    /\ proc[p].at \in {"serving", "stopping"}
    /\ proc' = [proc EXCEPT ![p] = NoServer] /\ dataLock' = Freed(p)
    /\ UNCHANGED <<unit, shell, configFile, probeVars, commands>>
\* Restart=on-failure, and WantedBy at boot: a unit's process is started again.
UnitRestarts(pl) ==
    /\ proc[pl].at = "down" /\ unit[pl] # NoUnit /\ Spawns(pl, unit[pl].user)
    /\ commands < MaxCommands /\ commands' = commands + 1
    /\ UNCHANGED <<unit, dataLock, shell, configFile, probeVars>>

\* A subcommand looks whether a server holds the lock, taking it for a moment,
\* warns if so, and works on the data either way.
probePBDataLockAvailable(o, l) ==
    /\ Runs(o)
    /\ LET free == ~SkipLock /\ dataLock[l.home] = "free" IN
       /\ dataLock' = IF free THEN [dataLock EXCEPT ![l.home] = o] ELSE dataLock
       /\ shell' = [shell EXCEPT ![o] = [AtPrompt EXCEPT !.at = IF free THEN "probing" ELSE "running"]]
    /\ UNCHANGED <<unit, proc, configFile, probeVars>>
warnIfServeRunning(o) ==
    /\ shell[o].at = "probing" /\ dataLock' = Freed(o)
    /\ shell' = [shell EXCEPT ![o].at = "running"]
    /\ UNCHANGED <<unit, proc, configFile, probeVars, commands>>
CommandReturns(o) == shell[o].at = "running" /\ Done(o) /\ OnlyShell /\ UNCHANGED commands

(***************************** config init ********************************)

\* The path is the process's home, then stat: a file is kept unless forced.
runConfigInit(o, l, force) ==
    /\ Runs(o)
    /\ shell' = IF configFile[l.home] # "absent" /\ ~force THEN shell
                ELSE [shell EXCEPT ![o] = [AtPrompt EXCEPT !.at = "configWrite", !.place = l.home]]
    /\ OnlyShell
ConfigWrites(o) ==
    /\ shell[o].at = "configWrite" /\ configFile' = [configFile EXCEPT ![shell[o].place] = "template"]
    /\ Done(o) /\ UNCHANGED <<unit, proc, dataLock, probeVars, commands>>

(***************************** downloader probe ***************************)

\* OpenAlex's answer: the works that have a DOI, or an error.
sampleOpenAlexDOIs(works) == works \ {"noDOI"}
\* Arguments that do not parse are skipped; without a target there is no probe.
collectProbeTargets(args, works) == (args \cup sampleOpenAlexDOIs(works)) \cap ProbeTargets
\* One probe at a time is modelled: a goroutine per target, ProbeWidth slots.
runDownloaderProbe(args, works) ==
    LET targets == collectProbeTargets(args, works) IN
    /\ commands < MaxCommands /\ commands' = commands + 1
    /\ \A t \in ProbeTargets : ladderProbe[t] = "none"
    /\ targets # {} /\ verdict' = "none"
    /\ ladderProbe' = [t \in ProbeTargets |-> IF t \in targets THEN "waits" ELSE "none"]
    /\ UNCHANGED <<unit, proc, dataLock, shell, configFile>>
Probing == {t \in ProbeTargets : ladderProbe[t] = "fetches"}
SlotFree == Cardinality(Probing) < ProbeWidth
ProbeStep(t, how) ==
    /\ \/ ladderProbe[t] = "waits" /\ \/ how = "fetches" /\ SlotFree
                                      \/ how = "cancelled"
       \/ ladderProbe[t] = "fetches" /\ how \in {"ok", "failed"}
    /\ ladderProbe' = [ladderProbe EXCEPT ![t] = how]
    /\ UNCHANGED <<unit, proc, dataLock, shell, configFile, verdict, commands>>
\* Every goroutine has returned; an error unless every target was fetched.
reportProbe ==
    /\ \E t \in ProbeTargets : ladderProbe[t] # "none"
    /\ \A t \in ProbeTargets : ladderProbe[t] \notin {"waits", "fetches"}
    /\ verdict' = IF \A t \in ProbeTargets : ladderProbe[t] \in {"none", "ok"} THEN "ok" ELSE "failures"
    /\ ladderProbe' = [t \in ProbeTargets |-> "none"]
    /\ UNCHANGED <<unit, proc, dataLock, shell, configFile, commands>>

OperRest == commands = MaxCommands /\ UNCHANGED operVars

OperNext ==
    \/ \E o \in Operators, l \in Logins, opts \in UnitOptions, says \in [Prompts -> BOOLEAN] :
          runServiceInstall(o, l, opts, says)
    \/ \E o \in Operators, yes \in BOOLEAN :
          InstallFindsUnit(o, yes) \/ RemovesUnit(o, yes) \/ WritesUnit(o, yes) \/ StartsUnit(o, yes)
    \/ \E o \in Operators, l \in Logins, mode \in {"", "user", "system"} :
          \/ serviceUninstall(o, l, mode) \/ serviceStart(l, mode, o)
          \/ serviceStop(l, mode, o) \/ serviceRestart(o, l, mode)
    \/ \E o \in Operators, l \in Logins :
          serve(o, l) \/ probePBDataLockAvailable(o, l) \/ (\E force \in BOOLEAN : runConfigInit(o, l, force))
    \/ \E o \in Operators : warnIfServeRunning(o) \/ CommandReturns(o) \/ ConfigWrites(o)
    \/ \E p \in Servers : acquirePBDataLock(p) \/ Terminates(p) \/ Exits(p)
    \/ \E pl \in Places : UnitRestarts(pl)
    \/ \E args \in SUBSET ProbeTargets, works \in SUBSET (ProbeTargets \cup {"noDOI"}) :
          runDownloaderProbe(args, works)
    \/ \E t \in ProbeTargets, how \in {"fetches", "cancelled", "ok", "failed"} : ProbeStep(t, how)
    \/ reportProbe \/ OperRest

OperSpec == OperInit /\ [][OperNext]_operVars

-----------------------------------------------------------------------------
(* However units are installed, replaced, restarted and removed by several   *)
(* operators, and whatever else starts servers, one pb_data directory never  *)
(* has two servers at work, the one that is shutting down included, unless   *)
(* the lock was switched off; a server that works holds its lock.  A system  *)
(* unit grants its account write access to that account's own directories,   *)
(* whenever the account could be looked up.  And the downloader probe never  *)
(* exceeds its concurrency.                                                  *)
OneWriter ==
    /\ ~SkipLock =>
          /\ \A p, q \in Servers :
                /\ {proc[p].at, proc[q].at} \subseteq {"serving", "stopping"}
                /\ proc[p].data = proc[q].data
                => p = q
          /\ \A p \in Servers : proc[p].at \in {"serving", "stopping"} => dataLock[proc[p].data] = p
    /\ unit["system"] # NoUnit /\ (\A l \in Logins : l.known) => unit["system"].home = unit["system"].user
    /\ Cardinality(Probing) <= ProbeWidth
=============================================================================
