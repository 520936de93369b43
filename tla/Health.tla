------------------------------- MODULE Health -------------------------------
(***************************************************************************)
(* The health report (internal/healthz) behind GET /api/health: each request *)
(* probes the server's dependencies in three goroutines while they come and  *)
(* go; a probe that panics is recovered.  Anonymous callers get less of it.  *)
(***************************************************************************)
EXTENDS Integers, Sequences

CONSTANTS
    Buckets,        \* sequence: the S3 backends behind the router; none: a local store
    Configured,     \* a Postgres DSN is set
    Callers,        \* concurrent requests
    MaxReports,     \* bound: requests
    MaxOutages      \* bound: changes of the dependencies

ASSUME HealthConfig ==
    /\ {MaxReports, MaxOutages} \subseteq Nat /\ Configured \in BOOLEAN
    /\ Buckets \in Seq(STRING) /\ \A k \in DOMAIN Buckets : Buckets[k] # "postgres"

VARIABLES
    backend,     \* dependency -> up, down, or breaking its probe's code
    report,      \* caller -> its report
    reports, outages

healthVars == <<backend, report, reports, outages>>

Dependencies == {Buckets[k] : k \in DOMAIN Buckets} \cup {"postgres"}
ProbeNames == {"rawstore", "postgres", "registry"}
Details == {"status", "endpoint", "error"}
NoCheck == [status |-> "none", shown |-> {}]
\* downAll: what has been broken since the report began.
NoReport == [at |-> "idle", checks |-> [n \in ProbeNames |-> NoCheck], bucket |-> 0, wg |-> 0, known |-> TRUE,
             downAll |-> {}, ans |-> "none"]

HealthTypeOK ==
    /\ backend \in [Dependencies -> {"up", "down", "panics"}]
    /\ \A c \in Callers : /\ report[c].at \in {"idle", "probing"} /\ report[c].wg \in 0 .. 3
                          /\ report[c].bucket \in 0 .. Len(Buckets)
                          /\ report[c].ans \in {"none", "healthy", "degraded"}
    /\ reports \in 0 .. MaxReports /\ outages \in 0 .. MaxOutages

HealthInit ==
    /\ backend = [d \in Dependencies |-> "up"] /\ report = [c \in Callers |-> NoReport]
    /\ reports = 0 /\ outages = 0

Check(status) == [status |-> status, shown |-> Details]
Ping(d) == CASE backend[d] = "up" -> "ok" [] OTHER -> "error"
probePostgres == IF Configured THEN Check(Ping("postgres")) ELSE Check("not_configured")
\* Reads the schema version over the server's own pool, if there is one.
probeRegistry == IF Configured THEN Check(Ping("postgres")) ELSE Check("not_configured")
aggregate(checks) == IF \E n \in DOMAIN checks : checks[n].status = "error" THEN "degraded" ELSE "healthy"

\* Run: three goroutines and a wait group.
Run(c, authenticated) ==
    /\ report[c].at = "idle" /\ reports < MaxReports /\ reports' = reports + 1
    /\ report' = [report EXCEPT ![c] = [NoReport EXCEPT !.at = "probing", !.wg = 3, !.known = authenticated,
                                           !.downAll = {d \in Dependencies : backend[d] # "up"}]]
    /\ UNCHANGED <<backend, outages>>
\* The deferred wg.Done runs after the recover, which stores an error.
probe(c, n, check) ==
    /\ report' = [report EXCEPT ![c].checks[n] = check, ![c].wg = @ - 1]
    /\ UNCHANGED <<backend, reports, outages>>
ProbesDatabase(c) ==
    /\ report[c].at = "probing"
    /\ \/ report[c].checks["postgres"] = NoCheck /\ probe(c, "postgres", probePostgres)
       \/ report[c].checks["registry"] = NoCheck /\ probe(c, "registry", probeRegistry)
\* A variant: the loop goes on, and a later bucket overwrites the verdict.
BucketsOn(k) == k < Len(Buckets)
\* The next bucket is probed unless this one is broken.
NextBucket(k) == k < Len(Buckets) /\ Ping(Buckets[k]) = "ok"
\* probeRouter: one bucket after another; the other dependencies may change between.
probeRouter(c) ==
    LET k == report[c].bucket + 1 IN
    IF NextBucket(k)
    THEN report' = [report EXCEPT ![c].bucket = k] /\ UNCHANGED <<backend, reports, outages>>
    ELSE probe(c, "rawstore", Check(Ping(Buckets[k])))
\* A local store is always ok.
probeRawStore(c) ==
    /\ report[c].at = "probing" /\ report[c].checks["rawstore"] = NoCheck
    /\ IF Buckets = <<>> THEN probe(c, "rawstore", Check("ok")) ELSE probeRouter(c)
Sanitise(checks) == [n \in ProbeNames |-> [checks[n] EXCEPT !.shown = {"status"}]]
\* The envelope is always 200; its message is the verdict.
RunPB(r) == aggregate(r.checks)
\* GET /api/health, once the wait group is done.
HealthHandler(c) ==
    /\ report[c].at = "probing" /\ report[c].wg = 0
    /\ report' = [report EXCEPT ![c].at = "idle", ![c].ans = RunPB(report[c]),
                                ![c].checks = IF report[c].known THEN @ ELSE Sanitise(@)]
    /\ UNCHANGED <<backend, reports, outages>>

BackendChanges(d, s) ==
    /\ outages < MaxOutages /\ outages' = outages + 1
    /\ backend[d] # s /\ backend' = [backend EXCEPT ![d] = s]
    /\ report' = [c \in Callers |-> [report[c] EXCEPT !.downAll = IF s = "up" THEN @ \ {d} ELSE @]]
    /\ UNCHANGED reports
HealthRest == reports = MaxReports /\ UNCHANGED healthVars

HealthNext ==
    \/ \E c \in Callers :
          \/ ProbesDatabase(c) \/ probeRawStore(c) \/ HealthHandler(c)
          \/ \E yes \in BOOLEAN : Run(c, yes)
    \/ \E d \in Dependencies, s \in {"up", "down", "panics"} : BackendChanges(d, s)
    \/ HealthRest

HealthSpec == HealthInit /\ [][HealthNext]_healthVars

-----------------------------------------------------------------------------
(* A configured dependency that was broken during the whole of a report is   *)
(* reported, also when its probe panicked and whichever of several buckets   *)
(* it is; a report whose three probes have ended can be given; and one given *)
(* to an anonymous caller holds nothing but the status of each check.        *)
OutagesTold ==
    \A c \in Callers :
        /\ report[c].at = "idle" /\ report[c].ans = "healthy" =>
              \A d \in report[c].downAll : d = "postgres" /\ ~Configured
        /\ (\A n \in ProbeNames : report[c].checks[n] # NoCheck) => report[c].wg = 0
        /\ report[c].at = "idle" /\ ~report[c].known =>
              \A n \in ProbeNames : report[c].checks[n].shown \subseteq {"status"}
=============================================================================
