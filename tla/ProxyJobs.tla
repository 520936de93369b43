------------------------------ MODULE ProxyJobs ------------------------------
(***************************************************************************)
(* The downloader proxy (cmd/downloaderproxy) and the client that delegates *)
(* a paper to it (internal/downloader/proxy.go): submit, poll, fetch with a *)
(* token that works once.  The server keeps its jobs under one lock and     *)
(* each job under a lock of its own; run takes the job's lock and then the  *)
(* server's, sweep the server's and then each job's.                        *)
(***************************************************************************)
EXTENDS Integers, FiniteSets

CONSTANTS
    Clients,        \* calls of RemoteProxy.FetchPDF; each submits one job
    FileHandlers,   \* requests for a file; the transport may repeat one
    FileTTL, Hour,  \* units of the clock
    LastTime,       \* bound of the clock
    Nobody

ASSUME ProxyConfig == {FileTTL, Hour, LastTime} \subseteq Nat /\ Nobody \notin Clients

Terminal == {"done", "failed", "invalid"}

VARIABLES
    now,
    smu,        \* server.mu: "sweep" or free; other holders release within a step
    jmu,        \* job.mu: held by run across its wait for server.mu, or free
    jobs,       \* server.jobs with what each job holds
    known,      \* the jobs server.jobs still lists
    tokens,     \* server.tokens: the jobs whose token still works
    disk,       \* files of /tmp/downloaderproxy
    sweeping,   \* the jobs this sweep has still to visit
    files,      \* handleFile: where each request is and whose token it has
    caller      \* RemoteProxy.FetchPDF

proxyVars == <<now, smu, jmu, jobs, known, tokens, disk, sweeping, files, caller>>

ProxyTypeOK ==
    /\ now \in 0 .. LastTime /\ smu \in {"free", "sweep"} /\ jmu \in [Clients -> {"free", "run"}]
    /\ known \subseteq Clients /\ tokens \subseteq Clients /\ disk \subseteq Clients
    /\ sweeping \subseteq known
    /\ \A j \in Clients : jobs[j].status \in Terminal \cup {"none", "queued", "running"}
    /\ \A h \in FileHandlers :
          /\ files[h].at \in {"idle", "asking", "finding", "consuming", "serving", "served", "refused"}
          /\ files[h].job \in Clients \cup {Nobody}
    /\ caller \in [Clients -> {"idle", "submitting", "polling", "fetching", "fetched", "failed"}]

ProxyInit ==
    /\ now = 0 /\ smu = "free" /\ jmu = [j \in Clients |-> "free"]
    /\ jobs = [j \in Clients |-> [status |-> "none", token |-> FALSE, expires |-> 0, file |-> FALSE]]
    /\ known = {} /\ tokens = {} /\ disk = {} /\ sweeping = {}
    /\ files = [h \in FileHandlers |-> [at |-> "idle", job |-> Nobody]]
    /\ caller = [c \in Clients |-> "idle"]

Tick ==
    /\ now < LastTime /\ now' = now + 1
    /\ UNCHANGED <<smu, jmu, jobs, known, tokens, disk, sweeping, files, caller>>

-----------------------------------------------------------------------------
(* The server.                                                               *)

\* handleSubmit: the job is listed and, unless its identifier is bad, run.
handleSubmit(j, valid) ==
    /\ caller[j] = "submitting" /\ jobs[j].status = "none" /\ smu = "free"
    /\ jobs' = [jobs EXCEPT ![j].status = IF valid THEN "queued" ELSE "invalid"]
    /\ known' = known \cup {j}
    /\ UNCHANGED <<now, smu, jmu, tokens, disk, sweeping, files, caller>>
\* run: the job's lock for its status, then the ladder without a lock.
RunStarts(j) ==
    /\ jobs[j].status = "queued" /\ jmu[j] = "free"
    /\ jobs' = [jobs EXCEPT ![j].status = "running"]
    /\ UNCHANGED <<now, smu, jmu, known, tokens, disk, sweeping, files, caller>>
RunFails(j) ==
    /\ jobs[j].status = "running" /\ jmu[j] = "free"
    /\ jobs' = [jobs EXCEPT ![j].status = "failed"]
    /\ UNCHANGED <<now, smu, jmu, known, tokens, disk, sweeping, files, caller>>
\* The bytes are stored (writeAll renames them into place) and the job is done,
\* all under the job's lock, which run keeps until the token is published.
RunStores(j) ==
    /\ jobs[j].status = "running" /\ jmu[j] = "free"
    /\ jmu' = [jmu EXCEPT ![j] = "run"] /\ disk' = disk \cup {j}
    /\ jobs' = [jobs EXCEPT ![j] = [status |-> "done", token |-> TRUE,
                                    expires |-> now + FileTTL, file |-> TRUE]]
    /\ UNCHANGED <<now, smu, known, tokens, sweeping, files, caller>>
RunPublishes(j) ==
    /\ jmu[j] = "run" /\ smu = "free"
    /\ tokens' = tokens \cup {j} /\ jmu' = [jmu EXCEPT ![j] = "free"]
    /\ UNCHANGED <<now, smu, jobs, known, disk, sweeping, files, caller>>

\* sweep: the server's lock is kept while each job is visited under its own.
SweepBegins ==
    /\ smu = "free" /\ known # {} /\ smu' = "sweep" /\ sweeping' = known
    /\ UNCHANGED <<now, jmu, jobs, known, tokens, disk, files, caller>>
Expired(j) == jobs[j].expires # 0 /\ now > jobs[j].expires + FileTTL
Forgotten(j) == Expired(j) /\ now - jobs[j].expires > Hour
SweepVisits(j) ==
    /\ smu = "sweep" /\ j \in sweeping /\ jmu[j] = "free" /\ sweeping' = sweeping \ {j}
    /\ disk' = IF jobs[j].file /\ Expired(j) THEN disk \ {j} ELSE disk
    /\ jobs' = [jobs EXCEPT ![j].file = @ /\ ~Expired(j)]
    /\ known' = IF Forgotten(j) THEN known \ {j} ELSE known
    /\ UNCHANGED <<now, smu, jmu, tokens, files, caller>>
SweepEnds ==
    /\ smu = "sweep" /\ sweeping = {} /\ smu' = "free"
    /\ UNCHANGED <<now, jmu, jobs, known, tokens, disk, sweeping, files, caller>>

\* handleFile: the token is used up, the job is looked up, its file is taken
\* out of it and served, each under a lock taken anew.
Asked(h, j, at) == files' = [files EXCEPT ![h] = [at |-> at, job |-> j]]
UseToken(h) ==
    /\ files[h].at = "asking" /\ smu = "free"
    /\ Asked(h, files[h].job, IF files[h].job \in tokens THEN "finding" ELSE "refused")
    /\ tokens' = tokens \ {files[h].job}
    /\ UNCHANGED <<now, smu, jmu, jobs, known, disk, sweeping, caller>>
FindJob(h) ==
    /\ files[h].at = "finding" /\ smu = "free"
    /\ Asked(h, files[h].job, IF files[h].job \in known THEN "consuming" ELSE "refused")
    /\ UNCHANGED <<now, smu, jmu, jobs, known, tokens, disk, sweeping, caller>>
ConsumeFile(h) ==
    LET j == files[h].job IN
    /\ files[h].at = "consuming" /\ jmu[j] = "free"
    /\ jobs' = [jobs EXCEPT ![j].file = FALSE]
    /\ Asked(h, j, IF now > jobs[j].expires \/ ~jobs[j].file THEN "refused" ELSE "serving")
    /\ disk' = IF now > jobs[j].expires /\ jobs[j].file THEN disk \ {j} ELSE disk
    /\ UNCHANGED <<now, smu, jmu, known, tokens, sweeping, caller>>
\* A variant: the file is not removed once served.
ServeKeeps(h) ==
    /\ files[h].at = "serving" /\ Asked(h, files[h].job, "served")
    /\ UNCHANGED <<now, smu, jmu, jobs, known, tokens, disk, sweeping, caller>>
\* The copy may be cut short by the client; the file goes either way.
Serve(h) ==
    /\ files[h].at = "serving" /\ Asked(h, files[h].job, "served")
    /\ disk' = disk \ {files[h].job}
    /\ UNCHANGED <<now, smu, jmu, jobs, known, tokens, sweeping, caller>>

-----------------------------------------------------------------------------
(* The client.                                                               *)

Submit(c) ==
    /\ caller[c] = "idle" /\ caller' = [caller EXCEPT ![c] = "submitting"]
    /\ UNCHANGED <<now, smu, jmu, jobs, known, tokens, disk, sweeping, files>>
\* The answer to the submission is written without the job's lock: it shows
\* some status the job has had.
Submitted(c) ==
    /\ caller[c] = "submitting" /\ jobs[c].status # "none"
    /\ caller' = [caller EXCEPT ![c] = IF jobs[c].status = "invalid" THEN "failed" ELSE "polling"]
    /\ UNCHANGED <<now, smu, jmu, jobs, known, tokens, disk, sweeping, files>>
\* handleJob: the token is shown until it expires, used or not.
ShownToken(j) == jobs[j].token /\ now <= jobs[j].expires
Request(h, j) == files[h].at = "idle" /\ Asked(h, j, "asking")
\* FetchPDF's loop: a poll that finds the job over.
pollJob(c) ==
    /\ caller[c] = "polling" /\ smu = "free" /\ jmu[c] = "free" /\ jobs[c].status \in Terminal
    /\ IF c \in known /\ jobs[c].status = "done" /\ ShownToken(c)
       THEN (\E h \in FileHandlers : Request(h, c)) /\ caller' = [caller EXCEPT ![c] = "fetching"]
       ELSE caller' = [caller EXCEPT ![c] = "failed"] /\ UNCHANGED files
    /\ UNCHANGED <<now, smu, jmu, jobs, known, tokens, disk, sweeping>>
\* fetchFile: an answer of one of its requests; the bytes are checked like
\* those of a local fetch.
fetchFile(c, h, sound) ==
    /\ caller[c] = "fetching" /\ files[h].job = c /\ files[h].at \in {"served", "refused"}
    /\ caller' = [caller EXCEPT ![c] = IF files[h].at = "served" /\ sound THEN "fetched" ELSE "failed"]
    /\ UNCHANGED <<now, smu, jmu, jobs, known, tokens, disk, sweeping, files>>
\* The transport repeats a request whose connection died before the answer.
Repeat(c, h) ==
    /\ caller[c] = "fetching" /\ Request(h, c)
    /\ UNCHANGED <<now, smu, jmu, jobs, known, tokens, disk, sweeping, caller>>
\* The five minutes are over, or a request failed.
GiveUp(c) ==
    /\ caller[c] \in {"submitting", "polling", "fetching"} /\ caller' = [caller EXCEPT ![c] = "failed"]
    /\ UNCHANGED <<now, smu, jmu, jobs, known, tokens, disk, sweeping, files>>

RunSteps(j) == RunStarts(j) \/ RunFails(j) \/ RunStores(j) \/ RunPublishes(j)
ProxyNext ==
    \/ Tick \/ SweepBegins \/ SweepEnds
    \/ \E j \in Clients :
          \/ RunSteps(j) \/ SweepVisits(j) \/ Submit(j) \/ Submitted(j) \/ pollJob(j) \/ GiveUp(j)
          \/ \E valid \in BOOLEAN : handleSubmit(j, valid)
          \/ \E h \in FileHandlers : Repeat(j, h) \/ \E sound \in BOOLEAN : fetchFile(j, h, sound)
    \/ \E h \in FileHandlers : UseToken(h) \/ FindJob(h) \/ ConsumeFile(h) \/ Serve(h)

\* run and sweep are goroutines that never stop, and Go's mutexes do not starve.
ProxyFairness ==
    /\ WF_proxyVars(SweepEnds)
    /\ \A j \in Clients : SF_proxyVars(RunSteps(j)) /\ SF_proxyVars(SweepVisits(j))
ProxySpec == ProxyInit /\ [][ProxyNext]_proxyVars
ProxyFairSpec == ProxySpec /\ ProxyFairness

-----------------------------------------------------------------------------
(* Properties.                                                               *)

\* A file on disk is always somebody's to delete, and one somebody's only: a
\* job the sweep still lists, or the one request that took it out of the job.
\* Requests that race the sweep, the expiry and each other leave none behind
\* and serve none twice.
FilesCollected ==
    \A j \in Clients :
        LET takers == {h \in FileHandlers : files[h].job = j /\ files[h].at \in {"serving", "served"}} IN
        /\ Cardinality(takers) <= 1
        /\ j \in disk => \/ jobs[j].file /\ j \in known /\ takers = {}
                         \/ \E h \in takers : files[h].at = "serving" /\ ~jobs[j].file

\* A submitted job reaches a terminal status that a poll can read.
JobsTurnTerminal ==
    \A j \in Clients : jobs[j].status = "queued" ~> jobs[j].status \in Terminal /\ jmu[j] = "free"
==============================================================================
