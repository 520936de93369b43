------------------------------- MODULE Ingest -------------------------------
(***************************************************************************)
(* The ingestion pool (internal/ingest): every mint starts a flight that     *)
(* puts one job into a bounded queue; workers resolve, fetch, freeze and     *)
(* record the paper's PDF, step by step, while uploads bind sources of their *)
(* own; Shutdown drains the queue; a restart replays what is still pending.  *)
(***************************************************************************)
EXTENDS Integers, Sequences, FiniteSets

CONSTANTS
    Papers,         \* papers, as numbers: their ids are ordered
    RefOf,          \* paper -> its identity: "bare", "versioned", "doi", "bad" or "none"
    Workers,        \* the pool
    QueueSize,      \* the queue's capacity (64)
    PageSize,       \* PendingPapers' batch (200)
    HasResolver,    \* a DOI resolver is installed
    OutsidePdfs,    \* the PDFs the outside may hand out
    MaxMints,       \* bound: calls of OnMint
    MaxTurmoil      \* bound: uploads, panics and restarts

ASSUME IngestConfig ==
    /\ Papers \subseteq Nat \ {0} /\ QueueSize \in Nat \ {0} /\ PageSize \in Nat \ {0}
    /\ HasResolver \in BOOLEAN /\ {MaxMints, MaxTurmoil} \subseteq Nat
    /\ \A p \in Papers : RefOf[p] \in {"bare", "versioned", "doi", "bad", "none"}

VARIABLES
    flight,      \* paper -> its flight: none, sending, queued
    jobs,        \* the queue
    crew,        \* worker -> what it does
    closing,     \* Shutdown was called: no, closed, drained or expired
    standing,    \* paper -> its status in the catalogue
    bound,       \* <<paper, alias>> -> the PDF frozen for it
    progress,    \* paper -> what SnapshotFor shows
    replay,      \* RecoverPending: its page, and the id it is after
    early,       \* jobs that were queued before Shutdown
    mints, turmoil

ingestVars == <<flight, jobs, crew, closing, standing, bound, progress, replay, early, mints, turmoil>>

Aliases == Papers \X {"arxiv", "doi"}
Nothing == "none"
Resting == [at |-> "select", p |-> 0, alias |-> "arxiv", pdf |-> Nothing]
Replaying == [on |-> TRUE, page |-> {}, after |-> 0, last |-> FALSE]
NoProgress == [state |-> "none", active |-> FALSE]

IngestTypeOK ==
    /\ flight \in [Papers -> {"none", "sending", "queued"}] /\ Len(jobs) <= QueueSize
    /\ \A w \in Workers : crew[w].at \in {"select", "identity", "resolve", "parse", "bound", "fetch",
                                          "register", "record", "exited", "lost"}
    /\ closing \in {"no", "closed", "drained", "expired"}
    /\ standing \in [Papers -> {"pending", "ready", "failed"}]
    /\ replay.page \subseteq Papers /\ mints \in 0 .. MaxMints /\ turmoil \in 0 .. MaxTurmoil

IngestInit ==
    /\ flight = [p \in Papers |-> "none"] /\ jobs = <<>> /\ crew = [w \in Workers |-> Resting]
    /\ closing = "no" /\ standing \in [Papers -> {"pending", "ready"}]
    /\ bound = [a \in Aliases |-> Nothing] /\ progress = [p \in Papers |-> NoProgress]
    /\ replay = Replaying /\ early = {} /\ mints = 0 /\ turmoil = 0

(***************************** minting and the queue **********************)

beginProgress(p) == [progress EXCEPT ![p] = [state |-> "queued", active |-> TRUE]]
\* transition, and the acquisition event that persistEvent records with it.
transition(p, state, terminal) == [progress EXCEPT ![p] = [state |-> state, active |-> ~terminal]]

\* singleflight: a paper that is queued or worked on is joined.
Flies(p) == flight[p] = "none"
\* OnMint never blocks its caller.
MintRow(p) ==
    IF closing = "no" /\ Flies(p)
    THEN flight' = [flight EXCEPT ![p] = "sending"] /\ progress' = beginProgress(p)
    ELSE UNCHANGED <<flight, progress>>
OnMint(p) ==
    /\ mints < MaxMints /\ mints' = mints + 1 /\ MintRow(p)
    /\ UNCHANGED <<jobs, crew, closing, standing, bound, replay, early, turmoil>>
\* Mutant: the queue grows.
QueueGrows == TRUE
\* The flight's select: room in the queue, or the pool is closing.
QueueHasRoom == Len(jobs) < QueueSize
Enqueue(p) ==
    /\ flight[p] = "sending" /\ QueueHasRoom
    /\ flight' = [flight EXCEPT ![p] = "queued"] /\ jobs' = Append(jobs, p)
    /\ early' = IF closing = "no" THEN early \cup {p} ELSE early
    /\ UNCHANGED <<crew, closing, standing, bound, progress, replay, mints, turmoil>>
FlightEnds(p) ==
    /\ flight[p] = "sending" /\ closing # "no" /\ flight' = [flight EXCEPT ![p] = "none"]
    /\ UNCHANGED <<jobs, crew, closing, standing, bound, progress, replay, early, mints, turmoil>>

Least(ps) == CHOOSE p \in ps : \A q \in ps : p <= q
\* One page: pending papers behind a key, in order.
PendingPapers(after) ==
    LET rows == {p \in Papers : standing[p] = "pending" /\ p > after}
    IN  {p \in rows : Cardinality({q \in rows : q < p}) < PageSize}
\* The catalogue is read a page at a time; a short page is the last.
ReplayReads ==
    /\ replay.on /\ replay.page = {}
    /\ replay' = IF closing # "no" \/ replay.last THEN [replay EXCEPT !.on = FALSE]
                 ELSE [replay EXCEPT !.page = PendingPapers(replay.after),
                                     !.last = Cardinality(PendingPapers(replay.after)) < PageSize]
    /\ UNCHANGED <<flight, jobs, crew, closing, standing, bound, progress, early, mints, turmoil>>
\* Its rows go through OnMint one by one, whatever became of them since.
RecoverPending ==
    /\ replay.on /\ replay.page # {}
    /\ LET p == Least(replay.page) IN
       replay' = [replay EXCEPT !.page = @ \ {p}, !.after = p] /\ MintRow(p)
    /\ UNCHANGED <<jobs, crew, closing, standing, bound, early, mints, turmoil>>

(***************************** the workers ********************************)

\* A variant: a worker leaves as soon as the pool is closing.
MayExitAtOnce == closing # "no"
\* Only an empty queue lets a worker leave.
MayExit == closing # "no" /\ jobs = <<>>
WorkerTakes(w) ==
    /\ crew[w].at = "select" /\ jobs # <<>>
    /\ crew' = [crew EXCEPT ![w] = [Resting EXCEPT !.at = "identity", !.p = Head(jobs)]] /\ jobs' = Tail(jobs)
    /\ UNCHANGED <<flight, closing, standing, bound, progress, replay, early, mints, turmoil>>
WorkerExits(w) ==
    /\ crew[w].at = "select" /\ MayExit /\ crew' = [crew EXCEPT ![w].at = "exited"]
    /\ UNCHANGED <<flight, jobs, closing, standing, bound, progress, replay, early, mints, turmoil>>

\* process's deferred calls: the flight is forgotten, its waiter released.
Ends(w) ==
    /\ crew' = [crew EXCEPT ![w] = Resting] /\ flight' = [flight EXCEPT ![crew[w].p] = "none"]
    /\ early' = early \ {crew[w].p}
Goes(w, j) == crew' = [crew EXCEPT ![w] = j] /\ UNCHANGED <<flight, early>>
\* fail: the status is written if the catalogue allows.
fail(w, written) ==
    /\ Ends(w) /\ progress' = transition(crew[w].p, "failed", TRUE)
    /\ standing' = IF written THEN [standing EXCEPT ![crew[w].p] = "failed"] ELSE standing
Skips(w) == Ends(w) /\ UNCHANGED <<progress, standing>>
StillQueue == UNCHANGED <<jobs, closing, replay, mints, turmoil>>

\* process, first part: what identifies the paper, and a DOI's own source.
process(w, found, written) ==
    LET j == crew[w] IN
    /\ j.at = "identity" /\ UNCHANGED bound /\ StillQueue
    /\ CASE RefOf[j.p] = "none" -> Skips(w)
         [] RefOf[j.p] = "bad" -> fail(w, written)
         [] RefOf[j.p] \in {"bare", "versioned"} ->
              Goes(w, [j EXCEPT !.at = "parse"]) /\ UNCHANGED <<progress, standing>>
         [] OTHER ->
              IF ~found THEN fail(w, written)
              ELSE IF bound[<<j.p, "doi">>] # Nothing
              THEN /\ Goes(w, [j EXCEPT !.at = "record", !.alias = "doi", !.pdf = bound[<<j.p, "doi">>]])
                   /\ UNCHANGED <<progress, standing>>
              ELSE /\ Goes(w, [j EXCEPT !.at = "resolve"]) /\ UNCHANGED standing
                   /\ progress' = transition(j.p, "running", FALSE)
\* ResolveDOI: an arXiv twin, an open-access URL, or an error.
ResolvesDOI(w, how, written) ==
    LET j == crew[w] IN
    /\ j.at = "resolve" /\ UNCHANGED bound /\ StillQueue
    /\ IF ~HasResolver THEN Skips(w)
       ELSE CASE how = "twin" -> Goes(w, [j EXCEPT !.at = "parse"]) /\ UNCHANGED <<progress, standing>>
              [] how = "url"  -> /\ Goes(w, [j EXCEPT !.at = "bound", !.alias = "doi"])
                                 /\ UNCHANGED <<progress, standing>>
              [] OTHER        -> fail(w, written)
\* Parse, and the latest version of a bare id.
ResolvesVersion(w, ok, written) ==
    LET j == crew[w] IN
    /\ j.at = "parse" /\ UNCHANGED bound /\ StillQueue
    /\ IF ok \/ RefOf[j.p] = "versioned"
       THEN /\ Goes(w, [j EXCEPT !.at = "bound"]) /\ UNCHANGED standing
            /\ progress' = transition(j.p, "running", FALSE)
       ELSE fail(w, written)
\* A source that is bound already is used, whatever could be fetched.
boundSource(w, ok, written) ==
    LET j == crew[w]  a == <<j.p, j.alias>> IN
    /\ j.at = "bound" /\ UNCHANGED bound /\ StillQueue
    /\ IF ~ok THEN fail(w, written)
       ELSE /\ Goes(w, [j EXCEPT !.at = IF bound[a] # Nothing THEN "record" ELSE "fetch", !.pdf = bound[a]])
            /\ progress' = transition(j.p, "running", FALSE) /\ UNCHANGED standing
\* The fetch of process and of processDOI; "none" is a failure.
processDOI(w, pdf, written) ==
    LET j == crew[w] IN
    /\ j.at = "fetch" /\ UNCHANGED bound /\ StillQueue
    /\ IF pdf = Nothing THEN fail(w, written)
       ELSE /\ Goes(w, [j EXCEPT !.at = "register", !.pdf = pdf])
            /\ progress' = transition(j.p, "running", FALSE) /\ UNCHANGED standing
\* The binding is create-only.
Binds(a, pdf) == [bound EXCEPT ![a] = IF @ = Nothing THEN pdf ELSE @]
\* An alias bound since to other bytes is an integrity error.
registerFreshSource(w, ok, written) ==
    LET j == crew[w]  a == <<j.p, j.alias>> IN
    /\ j.at = "register" /\ StillQueue
    /\ IF ok THEN bound' = Binds(a, j.pdf) ELSE UNCHANGED bound
    /\ IF ok /\ bound'[a] = j.pdf
       THEN /\ Goes(w, [j EXCEPT !.at = "record"]) /\ progress' = transition(j.p, "running", FALSE)
            /\ UNCHANGED standing
       ELSE fail(w, written)
\* Recording flips the paper to ready; the index push may fail unnoticed.
recordFrozenSource(w, ok, written) ==
    LET j == crew[w] IN
    /\ j.at = "record" /\ UNCHANGED bound /\ StillQueue
    /\ IF ~ok THEN fail(w, written)
       ELSE /\ Ends(w) /\ standing' = [standing EXCEPT ![j.p] = "ready"]
            /\ progress' = transition(j.p, "done", TRUE)

(***************************** shutdown and trouble ***********************)

Shutdown ==
    /\ closing = "no" /\ closing' = "closed"
    /\ UNCHANGED <<flight, jobs, crew, standing, bound, progress, replay, early, mints, turmoil>>
Working(w) == crew[w].at \notin {"exited", "lost"}
\* The wait group, or the thirty seconds of the hook.
ShutdownReturns(expired) ==
    /\ closing = "closed" /\ (expired \/ ~\E w \in Workers : Working(w))
    /\ closing' = IF expired THEN "expired" ELSE "drained"
    /\ UNCHANGED <<flight, jobs, crew, standing, bound, progress, replay, early, mints, turmoil>>
Upset == turmoil < MaxTurmoil /\ turmoil' = turmoil + 1
\* A panic ends its worker for good; the deferred calls still run.
WorkerPanics(w) ==
    /\ Upset /\ crew[w].at \notin {"select", "exited", "lost"}
    /\ crew' = [crew EXCEPT ![w] = [Resting EXCEPT !.at = "lost"]]
    /\ flight' = [flight EXCEPT ![crew[w].p] = "none"] /\ early' = early \ {crew[w].p}
    /\ UNCHANGED <<jobs, closing, standing, bound, progress, replay, mints>>
\* An upload binds its own bytes.
OthersUpload(a, pdf) ==
    /\ Upset /\ bound[a] = Nothing /\ bound' = [bound EXCEPT ![a] = pdf]
    /\ UNCHANGED <<flight, jobs, crew, closing, standing, progress, replay, early, mints>>
\* The process ends, drained or not, and another starts on the same catalogue.
IngestRestarts ==
    /\ Upset /\ closing' = "no" /\ flight' = [p \in Papers |-> "none"] /\ jobs' = <<>>
    /\ crew' = [w \in Workers |-> Resting] /\ progress' = [p \in Papers |-> NoProgress]
    /\ replay' = Replaying /\ early' = {} /\ UNCHANGED <<standing, bound, mints>>
\* What the paper's page says while nothing is converted.
paperAcquisition(p) ==
    IF progress[p] # NoProgress THEN progress[p].active ELSE standing[p] = "pending"
IngestRest == closing \in {"drained", "expired"} /\ UNCHANGED ingestVars

IngestNext ==
    \/ \E p \in Papers : OnMint(p) \/ Enqueue(p) \/ FlightEnds(p)
    \/ ReplayReads \/ RecoverPending \/ Shutdown \/ IngestRestarts \/ IngestRest
    \/ \E yes \in BOOLEAN : ShutdownReturns(yes)
    \/ \E w \in Workers : WorkerTakes(w) \/ WorkerExits(w) \/ WorkerPanics(w)
    \/ \E w \in Workers, ok, written \in BOOLEAN :
          \/ process(w, ok, written) \/ ResolvesVersion(w, ok, written) \/ boundSource(w, ok, written)
          \/ registerFreshSource(w, ok, written) \/ recordFrozenSource(w, ok, written)
    \/ \E w \in Workers, how \in {"twin", "url", "error"}, written \in BOOLEAN : ResolvesDOI(w, how, written)
    \/ \E w \in Workers, pdf \in OutsidePdfs \cup {Nothing}, written \in BOOLEAN : processDOI(w, pdf, written)
    \/ \E a \in Aliases, pdf \in OutsidePdfs : OthersUpload(a, pdf)

IngestSpec == IngestInit /\ [][IngestNext]_ingestVars

-----------------------------------------------------------------------------
(* Two workers are never at one paper, whatever mints, replays and finishes  *)
(* overlap; a source once bound is never replaced and what is recorded is    *)
(* the bound one; a paper that waits or is worked on is shown as active; and *)
(* when Shutdown reports a drained pool, every job queued before it has been *)
(* worked off, unless panics had taken every worker.                         *)
IngestSound == [][
    /\ \A v, w \in Workers : v # w /\ crew'[v].p = crew'[w].p => crew'[v].p = 0
    /\ \A a \in Aliases : bound[a] # Nothing => bound'[a] = bound[a]
    /\ \A w \in Workers : crew'[w].at = "record" => bound'[<<crew'[w].p, crew'[w].alias>>] = crew'[w].pdf
    /\ \A p \in Papers : flight'[p] # "none" => paperAcquisition(p)'
    /\ closing' = "drained" /\ (\E w \in Workers : crew'[w].at = "exited") => early' = {}
    ]_ingestVars
=============================================================================
