---------------------------- MODULE MCPlatform_proofs ----------------------------
(***************************************************************************)
(* What holds for every value of the constants of one host and of the        *)
(* downloads it makes.  HostSound: one server writes a pb_data directory     *)
(* (OneWriter), outages show in the health report (OutagesTold), no browser  *)
(* outlives its worker (NoStrayBrowser).  DownloadsSound: the proxy's files  *)
(* are collected (FilesCollected), the lane's bytes are the selection's      *)
(* (BytesAreOfSelection), the ladder returns the paper's own (LadderSound),  *)
(* the MinerU conversation keeps keys and packages safe (WireSafe) and arXiv *)
(* is asked politely (FetchPolite).  Each is proved of its component from an *)
(* inductive invariant, and all of them of the composed platform.            *)
(***************************************************************************)
EXTENDS MCPlatform, FiniteSetTheorems, TLAPS

-----------------------------------------------------------------------------
(* The browser supervisors.                                                  *)

WorkerBrowser ==
    [at : {"off", "refused", "spawn", "watch", "term", "pause", "closed"},
     root : BOOLEAN, helpers : SUBSET Nat, alive : BOOLEAN, cancelled : BOOLEAN,
     profile : BOOLEAN, gen : Nat]
\* Only a watched browser has processes, and only those of its own group; the
\* proxy's misses never reach the limit without the browser being replaced.
BrowsersInv ==
    /\ chrome \in WorkerBrowser /\ spawns \in Nat
    /\ chrome.at \in {"watch", "term"} => chrome.helpers \subseteq {chrome.gen}
    /\ chrome.at \notin {"watch", "term"} => /\ chrome.root = FALSE /\ chrome.alive = FALSE
                                             /\ chrome.helpers = {}
    /\ chrome.at \in {"off", "refused", "closed"} => chrome.profile = FALSE
    /\ proxyChrome \in [proc : {"none", "starts", "runs", "hangs", "zombie", "reaps"}, misses : Nat]
    /\ proxyChrome.misses < MissLimit

LEMMA BrowsersInvInit == BrowsersInit => BrowsersInv
BY BrowsersConfig DEF BrowsersInit, BrowsersInv, NoChrome, WorkerBrowser

\* The worker's side: each step of its goroutine, and what the browser does.
LEMMA WorkerBrowserSteps ==
  ASSUME BrowsersInv,
         \/ StartBrowser \/ BrowserReaped \/ BrowserTermed \/ BrowserPaused \/ Close
         \/ \E yes \in BOOLEAN : BrowserSpawns(yes) \/ BrowserCrashes(yes)
  PROVE  BrowsersInv'
<1> USE DEF BrowsersInv, WorkerBrowser
<1>1. CASE StartBrowser
  BY <1>1 DEF StartBrowser, NoChrome, Quietly
<1>2. CASE BrowserReaped
  BY <1>2 DEF BrowserReaped, KillGroup, Quietly
<1>3. CASE BrowserTermed
  BY <1>3 DEF BrowserTermed, Quietly
<1>4. CASE BrowserPaused
  BY <1>4 DEF BrowserPaused, Quietly
<1>5. CASE Close
  BY <1>5 DEF Close, Quietly
<1>6. ASSUME NEW yes \in BOOLEAN, BrowserSpawns(yes) PROVE BrowsersInv'
  <2>1. spawns' \in Nat /\ chrome.helpers = {} /\ UNCHANGED proxyChrome
    BY <1>6 DEF BrowserSpawns, SpawnCounted, Quietly
  <2>2. CASE yes
    BY <1>6, <2>1, <2>2 DEF BrowserSpawns
  <2>3. CASE ~yes
    BY <1>6, <2>1, <2>3 DEF BrowserSpawns
  <2> QED
    BY <2>2, <2>3
<1>7. ASSUME NEW yes \in BOOLEAN, BrowserCrashes(yes) PROVE BrowsersInv'
  BY <1>7 DEF BrowserCrashes
<1> QED
  BY <1>1, <1>2, <1>3, <1>4, <1>5, <1>6, <1>7

\* The proxy's side: start, first answer, probes, replacement and failures.
LEMMA ProxyBrowserSteps ==
  ASSUME BrowsersInv,
         \/ startBrowser \/ superviseBrowser \/ LaneReaped
         \/ \E yes \in BOOLEAN : waitForCDP(yes)
         \/ \E how \in {"runs", "hangs", "zombie"} : LaneBreaks(how)
  PROVE  BrowsersInv'
<1> USE BrowsersConfig DEF BrowsersInv, LaneOnly
<1>1. CASE startBrowser
  BY <1>1 DEF startBrowser, SpawnCounted
<1>2. CASE superviseBrowser
  BY <1>2 DEF superviseBrowser
<1>3. CASE LaneReaped
  BY <1>3 DEF LaneReaped
<1>4. ASSUME NEW yes \in BOOLEAN, waitForCDP(yes) PROVE BrowsersInv'
  BY <1>4 DEF waitForCDP
<1>5. ASSUME NEW how \in {"runs", "hangs", "zombie"}, LaneBreaks(how) PROVE BrowsersInv'
  BY <1>5 DEF LaneBreaks
<1> QED
  BY <1>1, <1>2, <1>3, <1>4, <1>5

LEMMA BrowsersInvNext == BrowsersInv /\ [BrowsersNext]_browserVars => BrowsersInv'
<1> SUFFICES ASSUME BrowsersInv, [BrowsersNext]_browserVars PROVE BrowsersInv'
  OBVIOUS
<1>1. CASE UNCHANGED browserVars
  BY <1>1 DEF BrowsersInv, browserVars
<1>2. CASE BrowsersNext
  BY <1>1, <1>2, WorkerBrowserSteps, ProxyBrowserSteps DEF BrowsersNext, BrowsersRest
<1> QED
  BY <1>1, <1>2

LEMMA BrowsersInvSuffices == BrowsersInv => NoStrayBrowser
BY DEF BrowsersInv, NoStrayBrowser, WorkerBrowser

\* The worker never starts a browser while a process of the earlier one is left,
\* and leaves neither process nor profile behind; the proxy never replaces a
\* browser that answers (BrowserProcess.run, superviseBrowser).
THEOREM BrowsersNeverStray == BrowsersSpec => []NoStrayBrowser
<1>1. BrowsersSpec => []BrowsersInv
  BY BrowsersInvInit, BrowsersInvNext, PTL DEF BrowsersSpec
<1> QED
  BY <1>1, BrowsersInvSuffices, PTL

-----------------------------------------------------------------------------
(* The health report.                                                        *)

Verdicts == [status : {"none", "ok", "error", "not_configured"}, shown : SUBSET Details]
Reports ==
    [at : {"idle", "probing"}, checks : [ProbeNames -> Verdicts], bucket : Nat, wg : Int,
     known : BOOLEAN, downAll : SUBSET Dependencies, ans : {"none", "healthy", "degraded"}]
Missing(r, n) == IF r.checks[n].status = "none" THEN 1 ELSE 0
\* The wait group counts the probes that have not ended; a check that is not
\* there yet shows nothing.
Awaited(r) ==
    /\ r.at = "probing" => r.wg = Missing(r, "rawstore") + Missing(r, "postgres") + Missing(r, "registry")
    /\ r.at = "idle" => r.wg = 0
    /\ \A n \in ProbeNames : r.checks[n].status = "none" => r.checks[n] = NoCheck
\* What has been down since the report began is in the check that covers it:
\* buckets that were passed were up, and a verdict other than an error means that
\* all were.
Covered(r) ==
    /\ r.bucket = 0 \/ r.bucket < Len(Buckets)
    /\ \A k \in 1 .. r.bucket : Buckets[k] \notin r.downAll
    /\ r.checks["rawstore"].status \notin {"none", "error"} =>
          \A k \in DOMAIN Buckets : Buckets[k] \notin r.downAll
    /\ Configured /\ r.checks["postgres"].status \notin {"none", "error"} => "postgres" \notin r.downAll
Given(r) ==
    /\ r.at = "idle" /\ r.ans = "healthy" => \A d \in r.downAll : d = "postgres" /\ ~Configured
    /\ r.at = "idle" /\ ~r.known => \A n \in ProbeNames : r.checks[n].shown \subseteq {"status"}
ReportSound(r) == r \in Reports /\ Awaited(r) /\ Covered(r) /\ Given(r)
HealthInv ==
    /\ backend \in [Dependencies -> {"up", "down", "panics"}]
    /\ report \in [Callers -> Reports]
    /\ \A c \in Callers : ReportSound(report[c]) /\ \A d \in report[c].downAll : backend[d] # "up"

LEMMA NoReportSound == ReportSound(NoReport)
<1>1. NoReport \in Reports
  BY DEF NoReport, Reports, NoCheck, Verdicts, ProbeNames, Details
<1> QED
  BY <1>1 DEF ReportSound, NoReport, Awaited, Covered, Given, NoCheck, ProbeNames

LEMMA HealthInvInit == HealthInit => HealthInv
<1> SUFFICES ASSUME HealthInit PROVE HealthInv
  OBVIOUS
<1>1. report \in [Callers -> Reports] /\ \A c \in Callers : report[c] = NoReport
  BY NoReportSound DEF HealthInit, ReportSound
<1>2. NoReport.downAll = {}
  BY DEF NoReport
<1> QED
  BY <1>1, <1>2, NoReportSound DEF HealthInit, HealthInv

\* A caller's report may be replaced by one as sound whose outages are current.
LEMMA ReportMoves ==
  ASSUME HealthInv, UNCHANGED backend, NEW c \in Callers, NEW r, ReportSound(r),
         \A d \in r.downAll : backend[d] # "up", report' = [report EXCEPT ![c] = r]
  PROVE  HealthInv'
<1>1. report' \in [Callers -> Reports]
  BY DEF HealthInv, ReportSound
<1>2. ASSUME NEW b \in Callers
      PROVE  ReportSound(report'[b]) /\ \A d \in report'[b].downAll : backend[d] # "up"
  <2>1. CASE b = c
    BY <2>1, <1>1 DEF HealthInv
  <2>2. CASE b # c
    BY <2>2 DEF HealthInv
  <2> QED
    BY <2>1, <2>2
<1> QED
  BY <1>1, <1>2 DEF HealthInv

\* A probe ends with a verdict that covers what was down.
LEMMA ProbeEnds ==
  ASSUME HealthInv, NEW c \in Callers, report[c].at = "probing", NEW n \in ProbeNames,
         report[c].checks[n].status = "none",
         NEW st \in {"ok", "error", "not_configured"}, probe(c, n, Check(st)),
         n = "rawstore" /\ st # "error" => \A k \in DOMAIN Buckets : Buckets[k] \notin report[c].downAll,
         n = "postgres" /\ Configured /\ st # "error" => "postgres" \notin report[c].downAll
  PROVE  HealthInv'
<1> DEFINE r == report[c]
           s == [r EXCEPT !.checks[n] = Check(st), !.wg = @ - 1]
<1>1. ReportSound(r) /\ r \in Reports
  BY DEF HealthInv
<1>2. Check(st) \in Verdicts /\ Check(st).status = st
  BY DEF Check, Verdicts
<1>3. s \in Reports /\ s.at = "probing" /\ s.bucket = r.bucket /\ s.downAll = r.downAll
      /\ s.checks = [r.checks EXCEPT ![n] = Check(st)] /\ s.wg = r.wg - 1
  <2> DEFINE f == [r.checks EXCEPT ![n] = Check(st)]
             w == r.wg - 1
  <2>1. f \in [ProbeNames -> Verdicts] /\ w \in Int
    BY <1>1, <1>2 DEF Reports
  <2>2. s = [r EXCEPT !.checks = f, !.wg = w]
    BY <1>1, <1>2 DEF Reports
  <2> HIDE DEF s, f, w
  <2>3. /\ s \in Reports /\ s.at = r.at /\ s.bucket = r.bucket /\ s.downAll = r.downAll
        /\ s.checks = f /\ s.wg = w
    BY <1>1, <2>1, <2>2 DEF Reports
  <2> QED
    BY <2>3 DEF f, w
<1>4. /\ s.checks[n].status = st
      /\ \A m \in ProbeNames : m # n => s.checks[m] = r.checks[m]
  BY <1>1, <1>2, <1>3 DEF Reports
<1> HIDE DEF s
<1>5. Awaited(s)
  BY <1>1, <1>3, <1>4 DEF ReportSound, Awaited, Missing, ProbeNames, Reports
<1>6. Covered(s) /\ Given(s)
  BY <1>1, <1>3, <1>4 DEF ReportSound, Covered, Given, ProbeNames, Reports
<1>7. report' = [report EXCEPT ![c] = s] /\ UNCHANGED backend
  BY DEF probe, HealthInv, s
<1> QED
  BY <1>1, <1>3, <1>5, <1>6, <1>7, ReportMoves DEF ReportSound, HealthInv

\* The two database probes.
LEMMA DatabaseProbed ==
  ASSUME HealthInv, NEW c \in Callers, ProbesDatabase(c)
  PROVE  HealthInv'
<1>1. /\ report[c].at = "probing" /\ report[c].downAll \subseteq Dependencies
      /\ \A d \in report[c].downAll : backend[d] # "up"
  BY DEF HealthInv, ProbesDatabase, Reports
<1>2. PICK n \in {"postgres", "registry"} : /\ report[c].checks[n] = NoCheck
                                            /\ probe(c, n, probePostgres)
  BY DEF ProbesDatabase, probePostgres, probeRegistry
<1>3. report[c].checks[n].status = "none"
  BY <1>2 DEF NoCheck
<1>4. PICK st \in {"ok", "error", "not_configured"} :
        /\ probePostgres = Check(st)
        /\ Configured /\ st # "error" => backend["postgres"] = "up"
  BY DEF probePostgres, Ping
<1> QED
  BY <1>1, <1>2, <1>3, <1>4, ProbeEnds DEF ProbeNames

\* The raw store's probe: no bucket, the next bucket, or the verdict.
LEMMA RawStoreProbed ==
  ASSUME HealthInv, NEW c \in Callers, probeRawStore(c)
  PROVE  HealthInv'
<1> DEFINE r == report[c]
           k == r.bucket + 1
<1>1. /\ r.at = "probing" /\ r \in Reports /\ ReportSound(r)
      /\ \A d \in r.downAll : backend[d] # "up"
      /\ r.checks["rawstore"].status = "none"
  BY DEF HealthInv, probeRawStore, NoCheck
<1>2. CASE Buckets = <<>>
  <2>1. DOMAIN Buckets = {} /\ probe(c, "rawstore", Check("ok"))
    BY <1>2 DEF probeRawStore
  <2> QED
    BY <1>1, <2>1, ProbeEnds DEF ProbeNames
<1>3. CASE Buckets # <<>>
  <2>1. Len(Buckets) \in Nat \ {0} /\ DOMAIN Buckets = 1 .. Len(Buckets)
    BY <1>3, HealthConfig
  <2>2. k \in 1 .. Len(Buckets) /\ r.bucket \in Nat
    BY <1>1, <2>1 DEF ReportSound, Covered, Reports
  <2>3. Buckets[k] \in Dependencies
    BY <2>1, <2>2 DEF Dependencies
  <2>4. CASE NextBucket(k)
    <3> DEFINE s == [r EXCEPT !.bucket = k]
    <3>1. k < Len(Buckets) /\ backend[Buckets[k]] = "up"
      BY <2>4 DEF NextBucket, Ping
    <3>2. s \in Reports /\ s.at = r.at /\ s.checks = r.checks /\ s.wg = r.wg /\ s.bucket = k
          /\ s.known = r.known /\ s.downAll = r.downAll /\ s.ans = r.ans
      BY <1>1, <2>2 DEF Reports
    <3> HIDE DEF s
    <3>3. Awaited(s) /\ Given(s)
      BY <1>1, <3>2 DEF ReportSound, Awaited, Given, Missing
    <3>4. \A j \in 1 .. k : Buckets[j] \notin r.downAll
      <4>1. \A j \in 1 .. k : j \in 1 .. r.bucket \/ j = k
        BY <2>2
      <4> QED
        BY <1>1, <3>1, <4>1 DEF ReportSound, Covered
    <3>5. Covered(s)
      BY <1>1, <3>1, <3>2, <3>4 DEF ReportSound, Covered
    <3>6. report' = [report EXCEPT ![c] = s] /\ UNCHANGED backend
      BY <1>3, <2>4 DEF probeRawStore, probeRouter, HealthInv, s
    <3> QED
      BY <1>1, <3>2, <3>3, <3>5, <3>6, ReportMoves DEF ReportSound
  <2>5. CASE ~NextBucket(k)
    <3>1. probe(c, "rawstore", Check(Ping(Buckets[k])))
      BY <1>3, <2>5 DEF probeRawStore, probeRouter
    <3>2. Ping(Buckets[k]) \in {"ok", "error"}
      BY DEF Ping
    <3>3. ASSUME Ping(Buckets[k]) # "error", NEW j \in DOMAIN Buckets
          PROVE  Buckets[j] \notin r.downAll
      <4>1. backend[Buckets[k]] = "up" /\ k = Len(Buckets)
        BY <2>1, <2>2, <2>5, <3>2, <3>3 DEF Ping, NextBucket
      <4>2. j \in 1 .. r.bucket \/ j = k
        BY <2>1, <2>2, <4>1
      <4> QED
        BY <1>1, <4>1, <4>2 DEF ReportSound, Covered
    <3> QED
      BY <1>1, <3>1, <3>2, <3>3, ProbeEnds DEF ProbeNames
  <2> QED
    BY <2>4, <2>5
<1> QED
  BY <1>2, <1>3

\* The answer is given once the wait group is done, that is with every check.
LEMMA ReportGiven ==
  ASSUME HealthInv, NEW c \in Callers, HealthHandler(c)
  PROVE  HealthInv'
<1> DEFINE r == report[c]
           checks == IF r.known THEN r.checks ELSE Sanitise(r.checks)
           s == [r EXCEPT !.at = "idle", !.ans = RunPB(r), !.checks = checks]
<1>1. /\ r.at = "probing" /\ r.wg = 0 /\ r \in Reports /\ ReportSound(r)
      /\ \A d \in r.downAll : backend[d] # "up"
  BY DEF HealthInv, HealthHandler
<1>2. \A n \in ProbeNames : r.checks[n].status # "none" /\ r.checks[n] \in Verdicts
  BY <1>1 DEF ReportSound, Awaited, Missing, ProbeNames, Reports
<1>3. /\ checks \in [ProbeNames -> Verdicts]
      /\ \A n \in ProbeNames : /\ checks[n].status = r.checks[n].status
                               /\ ~r.known => checks[n].shown = {"status"}
  BY <1>1, <1>2 DEF Sanitise, Verdicts, Reports, Details
<1>4. RunPB(r) \in {"healthy", "degraded"} /\ DOMAIN r.checks = ProbeNames
  BY <1>1 DEF RunPB, aggregate, Reports
<1> HIDE DEF checks
<1>5. s \in Reports /\ s.at = "idle" /\ s.checks = checks /\ s.wg = r.wg /\ s.bucket = r.bucket
      /\ s.known = r.known /\ s.downAll = r.downAll /\ s.ans = RunPB(r)
  BY <1>1, <1>3, <1>4 DEF Reports
<1> HIDE DEF s
<1>6. Awaited(s)
  BY <1>1, <1>2, <1>3, <1>5 DEF ReportSound, Awaited
<1>7. Covered(s)
  BY <1>1, <1>3, <1>5 DEF ReportSound, Covered, ProbeNames
<1>8. ASSUME RunPB(r) = "healthy", NEW d \in r.downAll PROVE d = "postgres" /\ ~Configured
  <2>1. \A n \in ProbeNames : r.checks[n].status # "error"
    BY <1>4, <1>8 DEF RunPB, aggregate
  <2>2. d \in Dependencies
    BY <1>1 DEF Reports
  <2> QED
    BY <1>1, <1>2, <1>8, <2>1, <2>2 DEF ReportSound, Covered, ProbeNames, Dependencies
<1>9. Given(s)
  BY <1>3, <1>5, <1>8 DEF Given
<1>10. report' = [report EXCEPT ![c] = s] /\ UNCHANGED backend
  BY DEF HealthHandler, HealthInv, s, checks
<1> QED
  BY <1>1, <1>5, <1>6, <1>7, <1>9, <1>10, ReportMoves DEF ReportSound

\* A request begins: what is down now may be down throughout.
LEMMA ReportBegins ==
  ASSUME HealthInv, NEW c \in Callers, NEW authenticated \in BOOLEAN, Run(c, authenticated)
  PROVE  HealthInv'
<1> DEFINE broken == {d \in Dependencies : backend[d] # "up"}
           s == [NoReport EXCEPT !.at = "probing", !.wg = 3, !.known = authenticated, !.downAll = broken]
<1>1. s \in Reports /\ s.at = "probing" /\ s.wg = 3 /\ s.bucket = 0 /\ s.downAll = broken
      /\ s.checks = NoReport.checks
  <2>1. NoReport \in Reports /\ NoReport.bucket = 0
    BY NoReportSound DEF ReportSound, NoReport
  <2>2. broken \in SUBSET Dependencies
    OBVIOUS
  <2> HIDE DEF broken
  <2> DEFINE at == "probing"
             wg == 3
  <2>3. at \in {"idle", "probing"} /\ wg \in Int
    OBVIOUS
  <2> HIDE DEF at, wg
  <2>4. [NoReport EXCEPT !.at = at, !.wg = wg, !.known = authenticated, !.downAll = broken] \in Reports
    BY <2>1, <2>2, <2>3 DEF Reports
  <2>5. s \in Reports
    BY <2>4 DEF at, wg
  <2>6. s.at = "probing" /\ s.wg = 3 /\ s.bucket = 0
    BY DEF NoReport
  <2>7. s.downAll = broken /\ s.checks = NoReport.checks
    BY DEF NoReport
  <2> QED
    BY <2>5, <2>6, <2>7
<1>2. \A n \in ProbeNames : s.checks[n] = NoCheck /\ NoCheck.status = "none"
  BY <1>1 DEF NoReport, NoCheck
<1> HIDE DEF s
<1>3. Awaited(s) /\ Covered(s) /\ Given(s)
  BY <1>1, <1>2 DEF Awaited, Covered, Given, Missing, ProbeNames
<1>4. report' = [report EXCEPT ![c] = s] /\ UNCHANGED backend
  BY DEF Run, s
<1> QED
  BY <1>1, <1>3, <1>4, ReportMoves DEF ReportSound

\* A dependency goes or comes back, under every report in flight.
LEMMA DependencyChanges ==
  ASSUME HealthInv, NEW d \in Dependencies, NEW s \in {"up", "down", "panics"}, BackendChanges(d, s)
  PROVE  HealthInv'
<1>1. backend' \in [Dependencies -> {"up", "down", "panics"}] /\ backend' = [backend EXCEPT ![d] = s]
  BY DEF HealthInv, BackendChanges
<1>2. ASSUME NEW c \in Callers
      PROVE  /\ ReportSound(report'[c])
             /\ \A e \in report'[c].downAll : backend'[e] # "up"
  <2> DEFINE r == report[c]
             down == IF s = "up" THEN r.downAll \ {d} ELSE r.downAll
             q == [r EXCEPT !.downAll = down]
  <2>1. r \in Reports /\ ReportSound(r) /\ (\A e \in r.downAll : e \in Dependencies /\ backend[e] # "up")
    BY DEF HealthInv, Reports
  <2>2. report'[c] = q
    BY DEF BackendChanges
  <2>3. down \subseteq r.downAll /\ (s = "up" => d \notin down)
    OBVIOUS
  <2> HIDE DEF down
  <2>4. q \in Reports /\ q.at = r.at /\ q.checks = r.checks /\ q.wg = r.wg /\ q.bucket = r.bucket
        /\ q.known = r.known /\ q.downAll = down /\ q.ans = r.ans
    BY <2>1, <2>3 DEF Reports
  <2> HIDE DEF q
  <2>5. Awaited(q)
    BY <2>1, <2>4 DEF ReportSound, Awaited, Missing
  <2>6. Covered(q) /\ Given(q)
    BY <2>1, <2>3, <2>4 DEF ReportSound, Covered, Given
  <2>7. \A e \in down : backend'[e] # "up"
    BY <1>1, <2>1, <2>3 DEF HealthInv
  <2> QED
    BY <2>2, <2>4, <2>5, <2>6, <2>7 DEF ReportSound
<1>3. report' \in [Callers -> Reports]
  <2>1. \A c \in Callers : report'[c] \in Reports
    BY <1>2 DEF ReportSound
  <2>2. report' = [c \in Callers |-> report'[c]]
    BY DEF BackendChanges
  <2> QED
    BY <2>1, <2>2
<1> QED
  BY <1>1, <1>2, <1>3 DEF HealthInv

LEMMA HealthInvNext == HealthInv /\ [HealthNext]_healthVars => HealthInv'
<1> SUFFICES ASSUME HealthInv, [HealthNext]_healthVars PROVE HealthInv'
  OBVIOUS
<1>1. CASE UNCHANGED healthVars
  BY <1>1 DEF HealthInv, healthVars
<1>2. CASE HealthNext
  BY <1>1, <1>2, DatabaseProbed, RawStoreProbed, ReportGiven, ReportBegins, DependencyChanges
     DEF HealthNext, HealthRest
<1> QED
  BY <1>1, <1>2

LEMMA HealthInvSuffices == HealthInv => OutagesTold
<1> SUFFICES ASSUME HealthInv, NEW c \in Callers
             PROVE  /\ Given(report[c])
                    /\ (\A n \in ProbeNames : report[c].checks[n] # NoCheck) => report[c].wg = 0
  BY DEF OutagesTold, Given
<1>1. ReportSound(report[c]) /\ report[c] \in Reports
  BY DEF HealthInv
<1>2. ASSUME \A n \in ProbeNames : report[c].checks[n] # NoCheck PROVE report[c].wg = 0
  BY <1>1, <1>2 DEF ReportSound, Awaited, Missing, ProbeNames, Reports
<1> QED
  BY <1>1, <1>2 DEF ReportSound

\* Every configured dependency that was down throughout a report is in it, also
\* when its probe panicked and whichever bucket it is; anonymous callers get
\* statuses only (healthz.Run, probeRouter, RunPB).
THEOREM OutagesAlwaysTold == HealthSpec => []OutagesTold
<1>1. HealthSpec => []HealthInv
  BY HealthInvInit, HealthInvNext, PTL DEF HealthSpec
<1> QED
  BY <1>1, HealthInvSuffices, PTL

-----------------------------------------------------------------------------
(* Operators and servers on one host.                                        *)

Units == [user : People \cup {"none"}, home : People \cup {"none"}, config : BOOLEAN]
Processes == [at : {"down", "starting", "serving", "stopping"}, data : People \cup {"none"}]
AtCommand == {"idle", "status", "uninstall", "install", "start", "probing", "running", "configWrite"}
Shells == [at : AtCommand, mode : {"none", "force", "ask"}, place : Places \cup {"none"},
           plan : Units, login : Logins \cup {"none"}]
OnUnit == {"status", "uninstall", "install", "start"}
AllKnown == \A l \in Logins : l.known
OwnHome(u) == u.home = u.user
\* The system unit, and every plan for it, grants its account its own home.
UnitsSound == unit \in [Places -> Units] /\ (AllKnown => OwnHome(unit["system"]))
ShellSound(s) ==
    /\ s \in Shells /\ (s.at \in OnUnit => s.place \in Places)
    /\ AllKnown /\ s.place = "system" => OwnHome(s.plan)
ShellsSound == shell \in [Operators -> Shells] /\ \A o \in Operators : ShellSound(shell[o])
ProcsSound ==
    /\ proc \in [Servers -> Processes]
    /\ \A p \in Servers : proc[p].at # "down" => proc[p].data \in People
\* A server at work, also one that is shutting down, holds its directory's lock.
Works(p) == proc[p].at \in {"serving", "stopping"}
LocksSound ==
    /\ dataLock \in [People -> {"free"} \cup Servers \cup Operators]
    /\ ~SkipLock => \A p \in Servers : Works(p) => dataLock[proc[p].data] = p
ProbesSound ==
    /\ ladderProbe \in [ProbeTargets -> {"none", "waits", "fetches", "cancelled", "ok", "failed"}]
    /\ Cardinality(Probing) <= ProbeWidth
OperInv == UnitsSound /\ ShellsSound /\ ProcsSound /\ LocksSound /\ ProbesSound

LEMMA NamesApart ==
  /\ \A q \in People : q \notin {"system", "manual", "free", "none"}
  /\ \A o \in Operators : o \notin Servers /\ o # "free"
  /\ \A l \in Logins : l.home \in People
  /\ "system" \in Places /\ Places \subseteq Servers /\ People \subseteq Places
  /\ "free" \notin Servers /\ "manual" \in Servers
BY OperationsConfig DEF People, Places, Servers

\* The unit a login asks for is one, and goes where units live.
LEMMA UnitPlanned ==
  ASSUME NEW l \in Logins, NEW mode, NEW pinned \in BOOLEAN
  PROVE  /\ buildServiceConfig(l, mode, pinned) \in Units
         /\ newManagedService(l, mode) \in Places
         /\ mode = "user" => newManagedService(l, mode) # "system"
         /\ mode = "system" /\ l.known => OwnHome(buildServiceConfig(l, mode, pinned))
<1>1. resolveSystemUser(l) \in People /\ effectiveHomeDir(l) \in People
  BY OperationsConfig DEF resolveSystemUser, effectiveHomeDir, People
<1>2. l.home \in People
  BY NamesApart
<1>3. mode = "system" /\ l.known => resolveSystemUser(l) = effectiveHomeDir(l)
  BY OperationsConfig DEF resolveSystemUser, effectiveHomeDir
<1>4. buildServiceConfig(l, mode, pinned) \in Units
  BY <1>1, <1>2 DEF buildServiceConfig, computeReadWritePaths, Units
<1>5. mode = "system" /\ l.known => OwnHome(buildServiceConfig(l, mode, pinned))
  BY <1>3 DEF buildServiceConfig, computeReadWritePaths, OwnHome
<1>6. newManagedService(l, mode) \in Places
  BY <1>2, NamesApart DEF newManagedService
<1>7. mode = "user" => newManagedService(l, mode) # "system"
  BY <1>2, NamesApart DEF newManagedService
<1> QED
  BY <1>4, <1>5, <1>6, <1>7

LEMMA AtPromptSound == ShellSound(AtPrompt) /\ NoUnit \in Units /\ OwnHome(NoUnit)
BY NamesApart DEF AtPrompt, Shells, ShellSound, OnUnit, AtCommand, NoUnit, Units, OwnHome

LEMMA OperInvInit == OperInit => OperInv
<1> SUFFICES ASSUME OperInit PROVE OperInv
  OBVIOUS
<1>1. UnitsSound
  BY AtPromptSound, NamesApart DEF OperInit, UnitsSound
<1>2. ShellsSound
  BY AtPromptSound DEF OperInit, ShellsSound, ShellSound
<1>3. ProcsSound /\ LocksSound
  BY DEF OperInit, ProcsSound, LocksSound, Works, NoServer, Processes
<1>4. Probing = {} /\ ladderProbe \in [ProbeTargets -> {"none", "waits", "fetches", "cancelled", "ok", "failed"}]
  BY DEF OperInit, Probing
<1>5. Cardinality(Probing) = 0
  BY <1>4, FS_EmptySet
<1>6. ProbesSound
  <2>1. ProbeWidth \in Nat
    BY OperationsConfig
  <2>2. Cardinality(Probing) <= ProbeWidth
    BY <1>5, <2>1
  <2> QED
    BY <1>4, <2>2 DEF ProbesSound
<1> QED
  BY <1>1, <1>2, <1>3, <1>6 DEF OperInv

-----------------------------------------------------------------------------
(* What the parts of the host's state survive.                               *)

\* A shell may go to any record that is sound.
LEMMA ShellMoves ==
  ASSUME ShellsSound, NEW o \in Operators, NEW s, ShellSound(s), shell' = [shell EXCEPT ![o] = s]
  PROVE  ShellsSound'
<1>1. shell' \in [Operators -> Shells]
  BY DEF ShellsSound, ShellSound
<1>2. ASSUME NEW q \in Operators PROVE ShellSound(shell'[q])
  BY <1>2 DEF ShellsSound
<1> QED
  BY <1>1, <1>2 DEF ShellsSound, ShellSound

\* It does when its command ends, and when it only goes on to its next step.
LEMMA ShellEnds ==
  ASSUME ShellsSound, NEW o \in Operators, Done(o)
  PROVE  ShellsSound'
BY ShellMoves, AtPromptSound DEF Done
LEMMA ShellGoesOn ==
  ASSUME ShellsSound, NEW o \in Operators, NEW at \in AtCommand,
         shell[o].at \in OnUnit \/ at \notin OnUnit,
         shell' = [shell EXCEPT ![o].at = at]
  PROVE  ShellsSound'
<1> DEFINE s == [shell[o] EXCEPT !.at = at]
<1>1. shell[o] \in Shells /\ ShellSound(shell[o]) /\ shell' = [shell EXCEPT ![o] = s]
  BY DEF ShellsSound
<1>2. s \in Shells /\ s.at = at /\ s.place = shell[o].place /\ s.plan = shell[o].plan
  BY <1>1 DEF Shells
<1>3. ShellSound(s)
  BY <1>1, <1>2 DEF ShellSound
<1> QED
  BY <1>1, <1>3, ShellMoves

\* Signalling a server, or spawning one for an account, puts none to work.
ProcsCalm ==
    /\ ProcsSound'
    /\ \A p \in Servers : Works(p)' => Works(p) /\ proc'[p].data = proc[p].data
LEMMA StopIsCalm ==
  ASSUME ProcsSound, NEW p \in Servers, StopsServer(p)
  PROVE  ProcsCalm
BY DEF ProcsSound, StopsServer, ProcsCalm, Works, Processes
LEMMA SpawnIsCalm ==
  ASSUME ProcsSound, NEW p \in Servers, NEW user \in People \cup {"none"}, Spawns(p, user)
  PROVE  ProcsCalm
BY DEF ProcsSound, Spawns, ProcsCalm, Works, Processes
LEMMA LocksStay ==
  ASSUME LocksSound, ProcsCalm, UNCHANGED dataLock
  PROVE  LocksSound'
BY DEF LocksSound, ProcsCalm
LEMMA ProcsStay ==
  ASSUME ProcsSound, LocksSound, UNCHANGED <<proc, dataLock>>
  PROVE  ProcsSound' /\ LocksSound'
BY DEF ProcsSound, LocksSound, Works
LEMMA ProbesStay ==
  ASSUME ProbesSound, UNCHANGED probeVars
  PROVE  ProbesSound'
BY DEF ProbesSound, Probing, probeVars
LEMMA ShellsStay ==
  ASSUME ShellsSound, UNCHANGED shell
  PROVE  ShellsSound'
BY DEF ShellsSound
LEMMA UnitsStay ==
  ASSUME UnitsSound, UNCHANGED unit
  PROVE  UnitsSound'
BY DEF UnitsSound
\* A unit may be replaced by one that is sound for its place.
LEMMA UnitMoves ==
  ASSUME UnitsSound, NEW pl \in Places, NEW u \in Units, AllKnown /\ pl = "system" => OwnHome(u),
         unit' = [unit EXCEPT ![pl] = u]
  PROVE  UnitsSound'
<1>1. "system" \in Places
  BY NamesApart
<1>2. unit'["system"] = IF pl = "system" THEN u ELSE unit["system"]
  BY <1>1 DEF UnitsSound
<1> QED
  BY <1>2 DEF UnitsSound
LEMMA UserOfUnit ==
  ASSUME UnitsSound, NEW pl \in Places
  PROVE  unit[pl].user \in People \cup {"none"}
BY DEF UnitsSound, Units

-----------------------------------------------------------------------------
(* What operators do.                                                        *)

\* Installing: the plan that is made is sound for the place it goes to.
LEMMA InstallPlanned ==
  ASSUME OperInv, NEW o \in Operators, NEW l \in Logins, NEW opts \in UnitOptions,
         NEW says \in [Prompts -> BOOLEAN], runServiceInstall(o, l, opts, says)
  PROVE  OperInv'
<1> DEFINE mode == resolveMode(l, opts, says)
           pinned == resolveConfigPath(l, opts, says)
           s == [at |-> "status", mode |-> IF opts.force THEN "force" ELSE "ask",
                 place |-> newManagedService(l, mode), login |-> l,
                 plan |-> buildServiceConfig(l, mode, pinned)]
<1>1. mode \in {"user", "system"} /\ pinned \in BOOLEAN
  BY OperationsConfig DEF resolveMode, resolveConfigPath, validateConfigPath
<1>2. UNCHANGED <<unit, proc, dataLock, probeVars>>
  BY DEF runServiceInstall, OnlyShell
<1>3. shell' = shell \/ shell' = [shell EXCEPT ![o] = s]
  BY DEF runServiceInstall
<1> HIDE DEF mode, pinned
<1>4. ShellSound(s)
  <2>1. /\ s.plan \in Units /\ s.place \in Places
        /\ mode = "user" => s.place # "system"
        /\ mode = "system" /\ l.known => OwnHome(s.plan)
    BY <1>1, UnitPlanned, Zenon
  <2>2. s \in Shells
    BY <2>1 DEF Shells, AtCommand
  <2> QED
    BY <1>1, <2>1, <2>2 DEF ShellSound, AllKnown
<1> HIDE DEF s
<1>5. ShellsSound'
  BY <1>3, <1>4, ShellMoves, ShellsStay DEF OperInv
<1> QED
  BY <1>2, <1>5, UnitsStay, ProcsStay, ProbesStay DEF OperInv

\* The steps of a command that has a unit to place.
LEMMA UnitSteps ==
  ASSUME OperInv, NEW o \in Operators, NEW yes \in BOOLEAN,
         InstallFindsUnit(o, yes) \/ RemovesUnit(o, yes) \/ WritesUnit(o, yes) \/ StartsUnit(o, yes)
  PROVE  OperInv'
<1> USE DEF OperInv
<1> DEFINE pl == shell[o].place
<1>0. ShellSound(shell[o]) /\ shell[o] \in Shells /\ NoUnit \in Units /\ OwnHome(NoUnit)
      /\ "install" \in AtCommand /\ "uninstall" \in AtCommand /\ "start" \in AtCommand
  BY AtPromptSound DEF ShellsSound, ShellSound, AtCommand
<1>1. CASE InstallFindsUnit(o, yes)
  <2>1. shell[o].at \in OnUnit /\ UNCHANGED <<unit, proc, dataLock, probeVars>>
    BY <1>1 DEF InstallFindsUnit, OnUnit, OnlyShell
  <2>2. \/ \E at \in {"install", "uninstall"} : shell' = [shell EXCEPT ![o].at = at]
        \/ Done(o)
    BY <1>1 DEF InstallFindsUnit
  <2>3. ShellsSound'
    BY <1>0, <2>1, <2>2, ShellGoesOn, ShellEnds
  <2> QED
    BY <2>1, <2>3, UnitsStay, ProcsStay, ProbesStay
<1>2. CASE RemovesUnit(o, yes)
  <2>1. shell[o].at \in OnUnit /\ pl \in Places /\ UNCHANGED <<dataLock, probeVars>> /\ StopsServer(pl)
    BY <1>0, <1>2 DEF RemovesUnit, OnUnit, ShellSound
  <2>2. shell' = [shell EXCEPT ![o].at = "install"] \/ Done(o)
    BY <1>2 DEF RemovesUnit
  <2>3. ShellsSound'
    BY <1>0, <2>1, <2>2, ShellGoesOn, ShellEnds
  <2>4. unit' = unit \/ unit' = [unit EXCEPT ![pl] = NoUnit]
    BY <1>2 DEF RemovesUnit
  <2>5. UnitsSound'
    BY <1>0, <2>1, <2>4, UnitMoves, UnitsStay
  <2>6. ProcsCalm
    BY <2>1, StopIsCalm, NamesApart
  <2>7. ProcsSound' /\ LocksSound'
    BY <2>1, <2>6, LocksStay DEF ProcsCalm
  <2> QED
    BY <2>1, <2>3, <2>5, <2>7, ProbesStay
<1>3. CASE WritesUnit(o, yes)
  <2>1. /\ shell[o].at \in OnUnit /\ pl \in Places /\ UNCHANGED <<proc, dataLock, probeVars>>
        /\ shell[o].plan \in Units /\ (AllKnown /\ pl = "system" => OwnHome(shell[o].plan))
    BY <1>0, <1>3 DEF WritesUnit, OnUnit, ShellSound, Shells
  <2>2. shell' = [shell EXCEPT ![o].at = "start"] \/ Done(o)
    BY <1>3 DEF WritesUnit
  <2>3. ShellsSound'
    BY <1>0, <2>1, <2>2, ShellGoesOn, ShellEnds
  <2>4. unit' = unit \/ unit' = [unit EXCEPT ![pl] = shell[o].plan]
    BY <1>3 DEF WritesUnit
  <2>5. UnitsSound'
    BY <2>1, <2>4, UnitMoves, UnitsStay
  <2> QED
    BY <2>1, <2>3, <2>5, ProcsStay, ProbesStay
<1>4. CASE StartsUnit(o, yes)
  <2>1. pl \in Places /\ pl \in Servers /\ Done(o) /\ UNCHANGED <<unit, dataLock, probeVars>>
    BY <1>0, <1>4, NamesApart DEF StartsUnit, OnUnit, ShellSound
  <2>2. proc' = proc \/ Spawns(pl, unit[pl].user)
    BY <1>4 DEF StartsUnit
  <2>3. ProcsCalm
    <3>1. CASE proc' = proc
      BY <3>1 DEF ProcsCalm, ProcsSound, Works
    <3>2. CASE Spawns(pl, unit[pl].user)
      BY <3>2, <2>1, SpawnIsCalm, UserOfUnit
    <3> QED
      BY <2>2, <3>1, <3>2
  <2>4. ProcsSound' /\ LocksSound'
    BY <2>1, <2>3, LocksStay DEF ProcsCalm
  <2> QED
    BY <2>1, <2>4, ShellEnds, UnitsStay, ProbesStay
<1> QED
  BY <1>1, <1>2, <1>3, <1>4

\* Uninstall, start, stop and restart.
LEMMA ServiceSteps ==
  ASSUME OperInv, NEW o \in Operators, NEW l \in Logins, NEW mode \in {"", "user", "system"},
         \/ serviceUninstall(o, l, mode) \/ serviceStart(l, mode, o)
         \/ serviceStop(l, mode, o) \/ serviceRestart(o, l, mode)
  PROVE  OperInv'
<1> USE DEF OperInv
<1> DEFINE pl == newManagedService(l, mode)
<1>0. pl \in Places /\ pl \in Servers
  BY UnitPlanned, NamesApart
<1> HIDE DEF pl
<1>1. CASE serviceUninstall(o, l, mode)
  <2> DEFINE s == [AtPrompt EXCEPT !.at = "uninstall", !.place = pl]
  <2>1. s.plan = NoUnit /\ s.place = pl
    BY DEF AtPrompt
  <2>2. s \in Shells
    BY <1>0, AtPromptSound DEF ShellSound, Shells, AtPrompt, AtCommand
  <2> HIDE DEF s
  <2>3. ShellSound(s)
    BY <1>0, <2>1, <2>2, AtPromptSound DEF ShellSound
  <2>4. shell' = [shell EXCEPT ![o] = s] /\ UNCHANGED <<unit, proc, dataLock, probeVars>>
    BY <1>1 DEF serviceUninstall, OnlyShell, s, pl
  <2> QED
    BY <2>3, <2>4, ShellMoves, UnitsStay, ProcsStay, ProbesStay
<1>2. CASE serviceStart(l, mode, o)
  <2>1. Spawns(pl, unit[pl].user) /\ UNCHANGED <<unit, dataLock, shell, probeVars>>
    BY <1>2 DEF serviceStart, pl
  <2>2. ProcsCalm
    BY <1>0, <2>1, SpawnIsCalm, UserOfUnit
  <2>3. ProcsSound' /\ LocksSound'
    BY <2>1, <2>2, LocksStay DEF ProcsCalm
  <2> QED
    BY <2>1, <2>3, UnitsStay, ShellsStay, ProbesStay
<1>3. CASE serviceStop(l, mode, o)
  <2>1. StopsServer(pl) /\ UNCHANGED <<unit, dataLock, shell, probeVars>>
    BY <1>3 DEF serviceStop, pl
  <2>2. ProcsSound' /\ LocksSound'
    BY <1>0, <2>1, StopIsCalm, LocksStay DEF ProcsCalm
  <2> QED
    BY <2>1, <2>2, UnitsStay, ShellsStay, ProbesStay
<1>4. CASE serviceRestart(o, l, mode)
  <2> DEFINE s == [AtPrompt EXCEPT !.at = "start", !.place = pl, !.plan = unit[pl]]
  <2>1. StopsServer(pl) /\ UNCHANGED <<unit, dataLock, probeVars>> /\ shell' = [shell EXCEPT ![o] = s]
    BY <1>4 DEF serviceRestart, pl
  <2>2. unit[pl] \in Units /\ (AllKnown /\ pl = "system" => OwnHome(unit[pl]))
    BY <1>0 DEF UnitsSound
  <2>3. s \in Shells /\ s.plan = unit[pl] /\ s.place = pl
    BY <1>0, <2>2, AtPromptSound DEF ShellSound, Shells, AtPrompt, AtCommand
  <2> HIDE DEF s
  <2>4. ShellSound(s)
    BY <1>0, <2>2, <2>3 DEF ShellSound
  <2>5. ProcsSound' /\ LocksSound'
    BY <1>0, <2>1, StopIsCalm, LocksStay DEF ProcsCalm
  <2> QED
    BY <2>1, <2>4, <2>5, ShellMoves, UnitsStay, ProbesStay
<1> QED
  BY <1>1, <1>2, <1>3, <1>4

\* An operator's own server, and a unit's process that comes again.
LEMMA ServerStarts ==
  ASSUME OperInv,
         \/ \E o \in Operators, l \in Logins : serve(o, l)
         \/ \E pl \in Places : UnitRestarts(pl)
  PROVE  OperInv'
<1> USE DEF OperInv
<1>1. ASSUME NEW o \in Operators, NEW l \in Logins, serve(o, l) PROVE OperInv'
  <2>1. Spawns("manual", l.home) /\ UNCHANGED <<unit, dataLock, shell, probeVars>>
    BY <1>1 DEF serve
  <2>2. ProcsCalm
    BY <2>1, SpawnIsCalm, NamesApart
  <2> QED
    BY <2>1, <2>2, LocksStay, UnitsStay, ShellsStay, ProbesStay DEF ProcsCalm
<1>2. ASSUME NEW pl \in Places, UnitRestarts(pl) PROVE OperInv'
  <2>1. Spawns(pl, unit[pl].user) /\ UNCHANGED <<unit, dataLock, shell, probeVars>>
    BY <1>2 DEF UnitRestarts
  <2>2. ProcsCalm
    BY <2>1, SpawnIsCalm, UserOfUnit, NamesApart
  <2> QED
    BY <2>1, <2>2, LocksStay, UnitsStay, ShellsStay, ProbesStay DEF ProcsCalm
<1> QED
  BY <1>1, <1>2

-----------------------------------------------------------------------------
(* The lock on a pb_data directory, and the other commands.                  *)

\* A lock may go from free to whoever asks for it: no server at work has it.
LEMMA FreeLockTaken ==
  ASSUME OperInv, NEW a \in People, NEW w \in Servers \cup Operators, dataLock[a] = "free",
         dataLock' = [dataLock EXCEPT ![a] = w], ProcsCalm
  PROVE  LocksSound'
<1>1. dataLock' \in [People -> {"free"} \cup Servers \cup Operators]
  BY DEF OperInv, LocksSound
<1>2. ASSUME ~SkipLock, NEW p \in Servers, Works(p)' PROVE dataLock'[proc'[p].data] = p
  <2>1. Works(p) /\ proc'[p].data = proc[p].data /\ dataLock[proc[p].data] = p /\ p # "free"
    BY <1>2, NamesApart DEF OperInv, LocksSound, ProcsCalm
  <2>2. proc[p].data \in People
    BY <2>1 DEF OperInv, ProcsSound, Works
  <2> QED
    BY <2>1, <2>2 DEF OperInv, LocksSound
<1> QED
  BY <1>1, <1>2 DEF LocksSound

\* A server takes its lock, or leaves.
LEMMA ServerLocks ==
  ASSUME OperInv, NEW p \in Servers, acquirePBDataLock(p)
  PROVE  OperInv'
<1> USE DEF OperInv
<1> DEFINE a == proc[p].data
<1>0. /\ a \in People /\ proc[p].at = "starting" /\ UNCHANGED <<unit, shell, probeVars>>
      /\ proc \in [Servers -> Processes] /\ proc[p] \in Processes
  BY DEF acquirePBDataLock, ProcsSound
<1>1. CASE SkipLock \/ dataLock[a] = "free"
  <2>1. /\ proc' = [proc EXCEPT ![p].at = "serving"]
        /\ dataLock' = IF SkipLock THEN dataLock ELSE [dataLock EXCEPT ![a] = p]
    BY <1>1 DEF acquirePBDataLock
  <2>2. proc'[p].data = a /\ proc' \in [Servers -> Processes] /\ \A q \in Servers : q # p => proc'[q] = proc[q]
    BY <1>0, <2>1 DEF Processes
  <2>3. ProcsSound'
    BY <1>0, <2>2 DEF ProcsSound
  <2>4. dataLock' \in [People -> {"free"} \cup Servers \cup Operators]
    BY <2>1 DEF LocksSound
  <2>5. ASSUME ~SkipLock, NEW q \in Servers, Works(q)' PROVE dataLock'[proc'[q].data] = q
    <3>1. CASE q = p
      BY <1>0, <2>1, <2>2, <2>5, <3>1 DEF LocksSound
    <3>2. CASE q # p
      <4>1. Works(q) /\ proc'[q].data = proc[q].data /\ dataLock[proc[q].data] = q /\ q # "free"
        BY <2>2, <2>5, <3>2, NamesApart DEF LocksSound, Works
      <4>2. proc[q].data \in People
        BY <4>1 DEF ProcsSound, Works
      <4> QED
        BY <1>0, <1>1, <2>1, <2>5, <4>1, <4>2 DEF LocksSound
    <3> QED
      BY <3>1, <3>2
  <2> QED
    BY <1>0, <2>3, <2>4, <2>5, UnitsStay, ShellsStay, ProbesStay DEF LocksSound
<1>2. CASE ~(SkipLock \/ dataLock[a] = "free")
  <2>1. UNCHANGED dataLock /\ (proc' = [proc EXCEPT ![p] = NoServer] \/ UNCHANGED proc)
    BY <1>2 DEF acquirePBDataLock
  <2>2. ProcsCalm
    BY <2>1 DEF ProcsSound, ProcsCalm, Works, NoServer, Processes
  <2> QED
    BY <1>0, <2>1, <2>2, LocksStay, UnitsStay, ShellsStay, ProbesStay DEF ProcsCalm
<1> QED
  BY <1>1, <1>2

\* A lock its holder gives up stays with every other holder.
LEMMA LockFreed ==
  ASSUME LocksSound, ProcsSound, ProcsCalm, NEW w, dataLock' = Freed(w),
         \A q \in Servers : Works(q)' => q # w
  PROVE  LocksSound'
<1>1. dataLock' \in [People -> {"free"} \cup Servers \cup Operators]
  BY DEF LocksSound, Freed
<1>2. ASSUME ~SkipLock, NEW q \in Servers, Works(q)' PROVE dataLock'[proc'[q].data] = q
  <2>1. Works(q) /\ proc'[q].data = proc[q].data /\ dataLock[proc[q].data] = q /\ q # w
    BY <1>2 DEF LocksSound, ProcsCalm
  <2>2. proc[q].data \in People
    BY <2>1 DEF ProcsSound, Works
  <2> QED
    BY <2>1, <2>2 DEF LocksSound, Freed
<1> QED
  BY <1>1, <1>2 DEF LocksSound

\* A server begins its shutdown with its lock, and gives it up at the very end.
LEMMA ServerLeaves ==
  ASSUME OperInv, NEW p \in Servers, Terminates(p) \/ Exits(p)
  PROVE  OperInv'
<1> USE DEF OperInv
<1>1. CASE Terminates(p)
  <2>1. /\ UNCHANGED <<dataLock, unit, shell, probeVars>> /\ Works(p)
        /\ proc' = [proc EXCEPT ![p].at = "stopping"]
    BY <1>1 DEF Terminates, UnlocksLast, Works
  <2>2. ProcsCalm
    BY <2>1 DEF ProcsSound, ProcsCalm, Works, Processes
  <2> QED
    BY <2>1, <2>2, LocksStay, UnitsStay, ShellsStay, ProbesStay DEF ProcsCalm
<1>2. CASE Exits(p)
  <2>1. UNCHANGED <<unit, shell, probeVars>> /\ dataLock' = Freed(p) /\ proc' = [proc EXCEPT ![p] = NoServer]
    BY <1>2 DEF Exits
  <2>2. ProcsCalm /\ \A q \in Servers : Works(q)' => q # p
    BY <2>1 DEF ProcsSound, ProcsCalm, Works, NoServer, Processes
  <2> QED
    BY <2>1, <2>2, LockFreed, UnitsStay, ShellsStay, ProbesStay DEF ProcsCalm
<1> QED
  BY <1>1, <1>2

\* The subcommands: the look at the lock, the work, and the configuration file.
LEMMA CommandSteps ==
  ASSUME OperInv, NEW o \in Operators,
         \/ \E l \in Logins : probePBDataLockAvailable(o, l)
         \/ \E l \in Logins, force \in BOOLEAN : runConfigInit(o, l, force)
         \/ warnIfServeRunning(o) \/ CommandReturns(o) \/ ConfigWrites(o)
  PROVE  OperInv'
<1> USE DEF OperInv
<1>0. UNCHANGED proc => ProcsCalm
  BY DEF ProcsCalm, ProcsSound, Works
<1>1. ASSUME NEW l \in Logins, probePBDataLockAvailable(o, l) PROVE OperInv'
  <2> DEFINE free == ~SkipLock /\ dataLock[l.home] = "free"
             at == IF free THEN "probing" ELSE "running"
             s == [AtPrompt EXCEPT !.at = at]
  <2>1. /\ UNCHANGED <<unit, proc, probeVars>> /\ shell' = [shell EXCEPT ![o] = s]
        /\ dataLock' = IF free THEN [dataLock EXCEPT ![l.home] = o] ELSE dataLock
    BY <1>1 DEF probePBDataLockAvailable
  <2>2. at \in AtCommand \ OnUnit
    BY DEF AtCommand, OnUnit
  <2>3. ShellSound(s)
    <3> HIDE DEF at
    <3> QED
      BY <2>2, AtPromptSound DEF ShellSound, Shells, AtPrompt
  <2>4. LocksSound'
    <3>1. CASE free
      BY <1>0, <2>1, <3>1, FreeLockTaken, NamesApart
    <3>2. CASE ~free
      BY <1>0, <2>1, <3>2, LocksStay
    <3> QED
      BY <3>1, <3>2
  <2> QED
    BY <1>0, <2>1, <2>3, <2>4, ShellMoves, UnitsStay, ProbesStay DEF ProcsCalm
<1>2. ASSUME NEW l \in Logins, NEW force \in BOOLEAN, runConfigInit(o, l, force) PROVE OperInv'
  <2> DEFINE s == [AtPrompt EXCEPT !.at = "configWrite", !.place = l.home]
  <2>1. UNCHANGED <<unit, proc, dataLock, probeVars>> /\ (shell' = shell \/ shell' = [shell EXCEPT ![o] = s])
    BY <1>2 DEF runConfigInit, OnlyShell
  <2>2. l.home \in Places /\ l.home # "system"
    BY NamesApart
  <2>3. s \in Shells /\ s.at = "configWrite" /\ s.place = l.home
    BY <2>2, AtPromptSound DEF ShellSound, Shells, AtPrompt, AtCommand
  <2> HIDE DEF s
  <2>4. ShellSound(s)
    BY <2>2, <2>3 DEF ShellSound
  <2> QED
    BY <2>1, <2>4, ShellMoves, ShellsStay, UnitsStay, ProcsStay, ProbesStay
<1>3. CASE warnIfServeRunning(o)
  <2>1. UNCHANGED <<unit, proc, probeVars>> /\ dataLock' = Freed(o) /\ shell' = [shell EXCEPT ![o].at = "running"]
    BY <1>3 DEF warnIfServeRunning
  <2>2. "running" \in AtCommand /\ "running" \notin OnUnit
    BY DEF AtCommand, OnUnit
  <2>3. \A q \in Servers : q # o
    BY NamesApart
  <2> QED
    BY <1>0, <2>1, <2>2, <2>3, ShellGoesOn, LockFreed, UnitsStay, ProbesStay DEF ProcsCalm
<1>4. CASE CommandReturns(o)
  BY <1>4, ShellEnds, UnitsStay, ProcsStay, ProbesStay DEF CommandReturns, OnlyShell
<1>5. CASE ConfigWrites(o)
  BY <1>5, ShellEnds, UnitsStay, ProcsStay, ProbesStay DEF ConfigWrites
<1> QED
  BY <1>1, <1>2, <1>3, <1>4, <1>5

-----------------------------------------------------------------------------
(* The downloader probe, and the host as a whole.                            *)

LEMMA DownloaderProbeSteps ==
  ASSUME OperInv,
         \/ \E args \in SUBSET ProbeTargets, works \in SUBSET (ProbeTargets \cup {"noDOI"}) :
               runDownloaderProbe(args, works)
         \/ \E t \in ProbeTargets, how \in {"fetches", "cancelled", "ok", "failed"} : ProbeStep(t, how)
         \/ reportProbe
  PROVE  OperInv'
<1>0. UNCHANGED <<unit, proc, dataLock, shell>>
  BY DEF runDownloaderProbe, ProbeStep, reportProbe
<1>1. /\ ladderProbe' \in [ProbeTargets -> {"none", "waits", "fetches", "cancelled", "ok", "failed"}]
      /\ ladderProbe \in [ProbeTargets -> {"none", "waits", "fetches", "cancelled", "ok", "failed"}]
  BY DEF OperInv, ProbesSound, runDownloaderProbe, ProbeStep, reportProbe
<1>2. ProbeWidth \in Nat \ {0} /\ IsFiniteSet(ProbeTargets) /\ Probing \subseteq ProbeTargets
  BY OperationsConfig DEF Probing
<1>3. IsFiniteSet(Probing) /\ Cardinality(Probing) \in Nat
  BY <1>2, FS_Subset, FS_CardinalityType
<1>4. Cardinality(Probing') <= ProbeWidth
  <2>1. ASSUME Probing' \subseteq Probing PROVE Cardinality(Probing') <= ProbeWidth
    <3>1. Cardinality(Probing') <= Cardinality(Probing) /\ Cardinality(Probing') \in Nat
      BY <1>3, <2>1, FS_Subset, FS_CardinalityType
    <3>2. Cardinality(Probing) <= ProbeWidth
      BY DEF OperInv, ProbesSound
    <3> QED
      BY <1>2, <1>3, <3>1, <3>2
  <2>2. ASSUME NEW args \in SUBSET ProbeTargets, NEW works \in SUBSET (ProbeTargets \cup {"noDOI"}),
               runDownloaderProbe(args, works)
        PROVE  Probing' \subseteq Probing
    BY <2>2 DEF runDownloaderProbe, Probing
  <2>3. ASSUME NEW t \in ProbeTargets, NEW how \in {"fetches", "cancelled", "ok", "failed"},
               ProbeStep(t, how)
        PROVE  Cardinality(Probing') <= ProbeWidth
    <3>0. ladderProbe' = [ladderProbe EXCEPT ![t] = how]
      BY <2>3 DEF ProbeStep
    <3>1. CASE how = "fetches"
      <4>1. ladderProbe[t] = "waits" /\ Cardinality(Probing) < ProbeWidth
        BY <2>3, <3>1 DEF ProbeStep, SlotFree
      <4>2. Probing' = Probing \cup {t} /\ t \notin Probing
        BY <1>1, <3>0, <3>1, <4>1 DEF Probing
      <4>3. Cardinality(Probing') = Cardinality(Probing) + 1
        BY <1>3, <4>2, FS_AddElement
      <4> QED
        BY <1>2, <1>3, <4>1, <4>3
    <3>2. CASE how # "fetches"
      <4>1. Probing' \subseteq Probing
        BY <1>1, <3>0, <3>2 DEF Probing
      <4> QED
        BY <2>1, <4>1
    <3> QED
      BY <3>1, <3>2
  <2>4. ASSUME reportProbe PROVE Probing' \subseteq Probing
    BY <2>4 DEF reportProbe, Probing
  <2> QED
    BY <2>1, <2>2, <2>3, <2>4
<1> QED
  BY <1>0, <1>1, <1>4, UnitsStay, ShellsStay, ProcsStay DEF OperInv, ProbesSound

LEMMA OperInvNext == OperInv /\ [OperNext]_operVars => OperInv'
<1> SUFFICES ASSUME OperInv, [OperNext]_operVars PROVE OperInv'
  OBVIOUS
<1>1. CASE UNCHANGED operVars
  BY <1>1, UnitsStay, ShellsStay, ProcsStay, ProbesStay DEF OperInv, operVars, probeVars
<1>2. CASE OperNext
  BY <1>1, <1>2, InstallPlanned, UnitSteps, ServiceSteps, ServerStarts, ServerLocks, ServerLeaves,
     CommandSteps, DownloaderProbeSteps
     DEF OperNext, OperRest
<1> QED
  BY <1>1, <1>2

LEMMA OperInvSuffices == OperInv => OneWriter
<1> SUFFICES ASSUME OperInv PROVE OneWriter
  OBVIOUS
<1>1. ASSUME ~SkipLock, NEW p \in Servers, NEW q \in Servers,
             {proc[p].at, proc[q].at} \subseteq {"serving", "stopping"}, proc[p].data = proc[q].data
      PROVE  p = q
  BY <1>1 DEF OperInv, LocksSound, Works
<1>2. ASSUME ~SkipLock, NEW p \in Servers, proc[p].at \in {"serving", "stopping"}
      PROVE  dataLock[proc[p].data] = p
  BY <1>2 DEF OperInv, LocksSound, Works
<1>3. (\A l \in Logins : l.known) => unit["system"].home = unit["system"].user
  BY DEF OperInv, UnitsSound, AllKnown, OwnHome
<1>4. Cardinality(Probing) <= ProbeWidth
  BY DEF OperInv, ProbesSound
<1> QED
  BY <1>1, <1>2, <1>3, <1>4 DEF OneWriter

\* However units are installed, replaced and restarted, one pb_data directory has
\* one server at work, which holds its lock to the end of its teardown; a system
\* unit grants its account its own directories; the downloader probe keeps its
\* concurrency (acquirePBDataLock, buildServiceConfig, runDownloaderProbe).
THEOREM OneWriterAlways == OperSpec => []OneWriter
<1>1. OperSpec => []OperInv
  BY OperInvInit, OperInvNext, PTL DEF OperSpec
<1> QED
  BY <1>1, OperInvSuffices, PTL

-----------------------------------------------------------------------------
(* The host in the composed platform.                                        *)

HostInv == OperInv /\ HealthInv /\ BrowsersInv

\* A step of the platform is, for each of its services, a step of its own or none.
LEMMA PlatformStepsHost ==
  ASSUME [PlatformNext]_platformVars
  PROVE  [OperNext]_operVars /\ [HealthNext]_healthVars /\ [BrowsersNext]_browserVars
<1>1. CASE UNCHANGED platformVars
  BY <1>1 DEF platformVars
<1>2. CASE PlatformNext
  BY <1>2 DEF PlatformNext, MeteringMoves, LaneMoves, ProxyMoves, LadderMoves, WireMoves,
     AccountsMove, ArxivMoves, OperationsMove, HealthMoves, BrowsersMove, PluginsMove, Only, Still
<1> QED
  BY <1>1, <1>2

\* The host stays in order, whatever moves beside it.
THEOREM HostAlwaysSound == PlatformSpec => []HostSound
<1>1. PlatformInit => HostInv
  BY OperInvInit, HealthInvInit, BrowsersInvInit DEF PlatformInit, HostInv
<1>2. HostInv /\ [PlatformNext]_platformVars => HostInv'
  BY PlatformStepsHost, OperInvNext, HealthInvNext, BrowsersInvNext DEF HostInv
<1>3. HostInv => HostSound
  BY OperInvSuffices, HealthInvSuffices, BrowsersInvSuffices DEF HostInv, HostSound
<1> QED
  BY <1>1, <1>2, <1>3, PTL DEF PlatformSpec

-----------------------------------------------------------------------------
(* The downloader proxy's files.                                             *)

ProxyStatus == {"none", "queued", "running", "done", "failed", "invalid"}
ProxyJob == [status : ProxyStatus, token : BOOLEAN, expires : Int, file : BOOLEAN]
AtFile == {"idle", "asking", "finding", "consuming", "serving", "served", "refused"}
FileRequest == [at : AtFile, job : Clients \cup {Nobody}]
Takes(h, j) == files[h].job = j /\ files[h].at \in {"serving", "served"}
ProxyTyped ==
    /\ now \in Int /\ jobs \in [Clients -> ProxyJob]
    /\ files \in [FileHandlers -> FileRequest]
    /\ \A h \in FileHandlers : files[h].at # "idle" => files[h].job \in Clients
\* Before it is done a job has no file and no expiry, and the sweep keeps it listed.
Unfinished(j) ==
    /\ jobs[j].status # "done" => /\ jobs[j].file = FALSE /\ jobs[j].expires = 0 /\ j \notin disk
                                  /\ \A h \in FileHandlers : ~Takes(h, j)
    /\ jobs[j].status \in {"queued", "running"} => j \in known
\* What a job still holds nobody has taken out of it; what was taken, one request
\* took; and a file on disk is the job's or its server's.
Owned(j) ==
    /\ jobs[j].file => j \in known /\ \A h \in FileHandlers : ~Takes(h, j)
    /\ \A g, h \in FileHandlers : Takes(g, j) /\ Takes(h, j) => g = h
    /\ j \in disk => jobs[j].file \/ \E h \in FileHandlers : Takes(h, j) /\ files[h].at = "serving"
ProxyInv == ProxyTyped /\ \A j \in Clients : Unfinished(j) /\ Owned(j)

LEMMA ProxyInvInit == ProxyInit => ProxyInv
<1> SUFFICES ASSUME ProxyInit PROVE ProxyInv
  OBVIOUS
<1>1. ProxyTyped
  BY DEF ProxyInit, ProxyTyped, ProxyJob, ProxyStatus, FileRequest, AtFile
<1>2. \A j \in Clients : Unfinished(j) /\ Owned(j)
  BY DEF ProxyInit, Unfinished, Owned, Takes
<1> QED
  BY <1>1, <1>2 DEF ProxyInv

\* Steps that touch neither jobs nor files on disk, and whose requests take nothing.
LEMMA ProxyLooksOn ==
  ASSUME ProxyInv, UNCHANGED <<jobs, disk>>, now' \in Int, known \subseteq known',
         files' \in [FileHandlers -> FileRequest],
         \A h \in FileHandlers : files'[h].at # "idle" => files'[h].job \in Clients,
         \A h \in FileHandlers, j \in Clients :
            /\ Takes(h, j)' <=> Takes(h, j)
            /\ Takes(h, j) => files'[h].at = files[h].at
  PROVE  ProxyInv'
<1>1. ProxyTyped'
  BY DEF ProxyInv, ProxyTyped
<1>2. ASSUME NEW j \in Clients PROVE Unfinished(j)' /\ Owned(j)'
  BY DEF ProxyInv, Unfinished, Owned
<1> QED
  BY <1>1, <1>2 DEF ProxyInv

\* Steps in which no request for a file moves.
LEMMA FilesRest ==
  ASSUME ProxyInv, UNCHANGED files
  PROVE  /\ files' \in [FileHandlers -> FileRequest]
         /\ \A h \in FileHandlers : files'[h].at # "idle" => files'[h].job \in Clients
         /\ \A h \in FileHandlers, j \in Clients :
               /\ Takes(h, j)' <=> Takes(h, j)
               /\ Takes(h, j) => files'[h].at = files[h].at
BY DEF ProxyInv, ProxyTyped, Takes

\* A request that has taken nothing moves on without taking anything.
LEMMA AskingTakesNothing ==
  ASSUME ProxyInv, NEW h \in FileHandlers, NEW j \in Clients,
         files[h].at \notin {"serving", "served"},
         NEW at \in {"asking", "finding", "consuming", "refused"}, Asked(h, j, at)
  PROVE  /\ files' \in [FileHandlers -> FileRequest]
         /\ \A g \in FileHandlers : files'[g].at # "idle" => files'[g].job \in Clients
         /\ \A g \in FileHandlers, i \in Clients :
               /\ Takes(g, i)' <=> Takes(g, i)
               /\ Takes(g, i) => files'[g].at = files[g].at
<1>1. files' = [files EXCEPT ![h] = [at |-> at, job |-> j]] /\ files \in [FileHandlers -> FileRequest]
  BY DEF Asked, ProxyInv, ProxyTyped
<1>2. files' \in [FileHandlers -> FileRequest]
  BY <1>1 DEF FileRequest, AtFile
<1>3. files'[h] = [at |-> at, job |-> j] /\ \A g \in FileHandlers : g # h => files'[g] = files[g]
  BY <1>1
<1> QED
  BY <1>2, <1>3 DEF Takes, ProxyInv, ProxyTyped

\* A job changes alone: what holds of it afterwards decides.
LEMMA JobMoves ==
  ASSUME ProxyInv, NEW j \in Clients, NEW r \in ProxyJob, jobs' = [jobs EXCEPT ![j] = r],
         disk' \ {j} = disk \ {j}, \A i \in Clients : i # j => (i \in known <=> i \in known'),
         UNCHANGED <<now, files>>, Unfinished(j)', Owned(j)'
  PROVE  ProxyInv'
<1>1. ProxyTyped'
  BY DEF ProxyInv, ProxyTyped
<1>2. ASSUME NEW i \in Clients, i # j PROVE Unfinished(i)' /\ Owned(i)'
  <2>1. jobs'[i] = jobs[i] /\ (i \in disk' <=> i \in disk) /\ (i \in known' <=> i \in known)
    BY <1>2 DEF ProxyInv, ProxyTyped
  <2>2. \A h \in FileHandlers : Takes(h, i)' <=> Takes(h, i)
    BY DEF Takes
  <2> QED
    BY <2>1, <2>2 DEF ProxyInv, Unfinished, Owned
<1> QED
  BY <1>1, <1>2 DEF ProxyInv

\* The job's own steps, from its submission to its result.
LEMMA JobSteps ==
  ASSUME ProxyInv, NEW j \in Clients,
         \/ \E valid \in BOOLEAN : handleSubmit(j, valid)
         \/ RunStarts(j) \/ RunFails(j) \/ RunStores(j) \/ SweepVisits(j)
  PROVE  ProxyInv'
<1> DEFINE r == jobs[j]
<1>0. r \in ProxyJob /\ jobs \in [Clients -> ProxyJob] /\ Unfinished(j) /\ Owned(j)
      /\ now \in Int /\ FileTTL \in Int
  BY ProxyConfig DEF ProxyInv, ProxyTyped
<1>1. ASSUME NEW st \in ProxyStatus \ {"done"}, r.status # "done",
             jobs' = [jobs EXCEPT ![j].status = st],
             UNCHANGED <<now, disk, files>>, st \in {"queued", "running"} => j \in known',
             \A i \in Clients : i # j => (i \in known <=> i \in known')
      PROVE  ProxyInv'
  <2> DEFINE s == [r EXCEPT !.status = st]
  <2>1. jobs' = [jobs EXCEPT ![j] = s] /\ jobs'[j] = s
    BY <1>0, <1>1
  <2>2. s \in ProxyJob /\ s.status = st /\ s.expires = r.expires
    BY <1>0 DEF ProxyJob
  <2>3. s.file = FALSE
    BY <1>0, <1>1 DEF ProxyJob, Unfinished
  <2> HIDE DEF s
  <2>4. \A h \in FileHandlers : Takes(h, j)' <=> Takes(h, j)
    BY <1>1 DEF Takes
  <2>5. Unfinished(j)' /\ Owned(j)'
    BY <1>0, <1>1, <2>1, <2>2, <2>3, <2>4 DEF Unfinished, Owned
  <2> QED
    BY <1>1, <2>1, <2>2, <2>5, JobMoves
<1>2. ASSUME NEW valid \in BOOLEAN, handleSubmit(j, valid) PROVE ProxyInv'
  <2>1. PICK st \in {"queued", "invalid"} : jobs' = [jobs EXCEPT ![j].status = st]
    BY <1>2 DEF handleSubmit
  <2> QED
    BY <1>1, <1>2, <2>1 DEF handleSubmit, ProxyStatus
<1>3. CASE RunStarts(j)
  BY <1>0, <1>1, <1>3 DEF RunStarts, ProxyStatus, Unfinished
<1>4. CASE RunFails(j)
  <2>1. r.status # "done" /\ jobs' = [jobs EXCEPT ![j].status = "failed"]
        /\ UNCHANGED <<now, known, disk, files>>
    BY <1>4 DEF RunFails
  <2>2. "failed" \in ProxyStatus \ {"done"}
    BY DEF ProxyStatus
  <2> QED
    BY <1>1, <2>1, <2>2
<1>5. CASE RunStores(j)
  <2> DEFINE s == [status |-> "done", token |-> TRUE, expires |-> now + FileTTL, file |-> TRUE]
  <2>1. s \in ProxyJob
    BY <1>0 DEF ProxyJob, ProxyStatus
  <2>2. /\ jobs' = [jobs EXCEPT ![j] = s] /\ disk' = disk \cup {j} /\ UNCHANGED <<now, known, files>>
        /\ r.status = "running"
    BY <1>5 DEF RunStores
  <2>3. s.status = "done" /\ s.file = TRUE
    OBVIOUS
  <2> HIDE DEF s
  <2>4. jobs'[j] = s /\ j \in known' /\ disk' \ {j} = disk \ {j}
        /\ \A i \in Clients : i # j => (i \in known <=> i \in known')
    BY <1>0, <2>2 DEF Unfinished
  <2>5. \A h \in FileHandlers : ~Takes(h, j)'
    BY <1>0, <2>2 DEF Unfinished, Takes
  <2>6. Unfinished(j)'
    BY <2>3, <2>4 DEF Unfinished
  <2>7. Owned(j)'
    BY <2>3, <2>4, <2>5 DEF Owned
  <2> QED
    BY <2>1, <2>2, <2>4, <2>6, <2>7, JobMoves
<1>6. CASE SweepVisits(j)
  <2> DEFINE b == IF Expired(j) THEN FALSE ELSE r.file
             s == [r EXCEPT !.file = b]
  <2>1. b \in BOOLEAN /\ (r.file /\ ~Expired(j)) = b
    BY <1>0 DEF ProxyJob
  <2>2. jobs' = [jobs EXCEPT ![j] = s]
    BY <1>0, <1>6, <2>1 DEF SweepVisits
  <2> HIDE DEF b
  <2>3. s \in ProxyJob /\ s.status = r.status /\ s.expires = r.expires /\ s.file = b
    BY <1>0, <2>1 DEF ProxyJob
  <2> HIDE DEF s
  <2>4. /\ UNCHANGED <<now, files>> /\ jobs'[j] = s
        /\ disk' = IF r.file /\ Expired(j) THEN disk \ {j} ELSE disk
        /\ known' = IF Forgotten(j) THEN known \ {j} ELSE known
    BY <1>0, <1>6, <2>2 DEF SweepVisits
  <2>5. \A h \in FileHandlers : Takes(h, j)' <=> Takes(h, j)
    BY <2>4 DEF Takes
  <2>6. Unfinished(j)'
    BY <1>0, <2>1, <2>3, <2>4, <2>5 DEF Unfinished, Forgotten, Expired, ProxyJob
  <2>7. Owned(j)'
    BY <1>0, <2>1, <2>3, <2>4, <2>5 DEF Owned, Forgotten, Takes
  <2>8. /\ disk' \ {j} = disk \ {j}
        /\ \A i \in Clients : i # j => (i \in known <=> i \in known')
    BY <2>4
  <2> QED
    BY <2>2, <2>3, <2>4, <2>6, <2>7, <2>8, JobMoves
<1> QED
  BY <1>2, <1>3, <1>4, <1>5, <1>6

\* A file is taken out of its job by one request only.
LEMMA FileConsumed ==
  ASSUME ProxyInv, NEW h \in FileHandlers, ConsumeFile(h)
  PROVE  ProxyInv'
<1>j. PICK j \in Clients : j = files[h].job
  BY DEF ConsumeFile, ProxyInv, ProxyTyped
<1> DEFINE r == jobs[j]
           s == [r EXCEPT !.file = FALSE]
           at == IF now > r.expires \/ ~r.file THEN "refused" ELSE "serving"
<1>0. files[h].job = j /\ files[h].at = "consuming" /\ files \in [FileHandlers -> FileRequest]
  BY <1>j DEF ConsumeFile, ProxyInv, ProxyTyped
<1>1. r \in ProxyJob /\ Unfinished(j) /\ Owned(j) /\ jobs \in [Clients -> ProxyJob]
  BY <1>0 DEF ProxyInv, ProxyTyped
<1>2. /\ jobs' = [jobs EXCEPT ![j].file = FALSE]
      /\ files' = [files EXCEPT ![h] = [at |-> at, job |-> j]]
      /\ disk' = IF now > r.expires /\ r.file THEN disk \ {j} ELSE disk
      /\ UNCHANGED <<now, known>>
  BY <1>0 DEF ConsumeFile, Asked
<1>3. at \in {"refused", "serving"} /\ (at = "serving" => r.file)
  OBVIOUS
<1>4. s \in ProxyJob /\ s.status = r.status /\ s.expires = r.expires /\ s.file = FALSE
      /\ jobs' = [jobs EXCEPT ![j] = s]
  BY <1>0, <1>1, <1>2 DEF ProxyJob
<1>5. /\ jobs'[j] = s /\ \A i \in Clients : i # j => jobs'[i] = jobs[i]
      /\ jobs' \in [Clients -> ProxyJob]
  BY <1>0, <1>1, <1>4
<1> HIDE DEF s
<1>6. /\ files'[h].at = at /\ files'[h].job = j
      /\ \A g \in FileHandlers : g # h => files'[g] = files[g]
      /\ files' \in [FileHandlers -> FileRequest]
  BY <1>0, <1>2, <1>3 DEF FileRequest, AtFile
<1>7. ProxyTyped'
  BY <1>0, <1>2, <1>5, <1>6 DEF ProxyInv, ProxyTyped
<1>8. /\ \A g \in FileHandlers, i \in Clients : g # h => (Takes(g, i)' <=> Takes(g, i))
      /\ \A i \in Clients : ~Takes(h, i) /\ (Takes(h, i)' <=> i = j /\ at = "serving")
  BY <1>0, <1>3, <1>6 DEF Takes
<1>9. Unfinished(j)' /\ Owned(j)'
  <2>1. CASE at = "serving"
    <3>1. r.file /\ r.status = "done" /\ disk' = disk
      BY <1>1, <1>2, <1>3, <2>1 DEF Unfinished
    <3>2. ASSUME NEW g \in FileHandlers PROVE Takes(g, j)' <=> g = h
      <4>1. CASE g = h
        BY <1>0, <1>8, <2>1, <4>1
      <4>2. CASE g # h
        BY <1>0, <1>1, <1>8, <3>1, <4>2 DEF Owned
      <4> QED
        BY <4>1, <4>2
    <3> QED
      BY <1>0, <1>4, <1>5, <1>6, <2>1, <3>1, <3>2 DEF Unfinished, Owned
  <2>2. CASE at # "serving"
    <3>1. ASSUME NEW g \in FileHandlers PROVE Takes(g, j)' <=> Takes(g, j)
      <4>1. CASE g = h
        BY <1>0, <1>8, <2>2, <4>1
      <4>2. CASE g # h
        BY <1>0, <1>8, <4>2
      <4> QED
        BY <4>1, <4>2
    <3>2. \A g \in FileHandlers : Takes(g, j) => files'[g] = files[g]
      BY <1>0, <1>6, <1>8
    <3>3. now > r.expires \/ ~r.file
      BY <2>2
    <3>4. Unfinished(j)'
      BY <1>0, <1>1, <1>2, <1>4, <1>5, <3>1 DEF Unfinished
    <3>5. Owned(j)'
      BY <1>0, <1>1, <1>2, <1>4, <1>5, <3>1, <3>2, <3>3 DEF Owned
    <3> QED
      BY <3>4, <3>5
  <2> QED
    BY <2>1, <2>2
<1>10. ASSUME NEW i \in Clients, i # j PROVE Unfinished(i)' /\ Owned(i)'
  <2>1. \A g \in FileHandlers : /\ Takes(g, i)' <=> Takes(g, i)
                                /\ Takes(g, i) => files'[g] = files[g]
    BY <1>6, <1>8, <1>10
  <2>2. jobs'[i] = jobs[i] /\ known' = known /\ (i \in disk' <=> i \in disk)
    BY <1>2, <1>5, <1>10
  <2> QED
    BY <2>1, <2>2 DEF ProxyInv, Unfinished, Owned
<1>11. ASSUME NEW i \in Clients PROVE Unfinished(i)' /\ Owned(i)'
  <2>1. CASE i = j
    BY <1>9, <2>1
  <2> QED
    BY <1>10, <2>1
<1> QED
  BY <1>7, <1>11 DEF ProxyInv

\* Serving a file removes it.
LEMMA FileServed ==
  ASSUME ProxyInv, NEW h \in FileHandlers, Serve(h)
  PROVE  ProxyInv'
<1> DEFINE j == files[h].job
<1>0. j \in Clients /\ Takes(h, j) /\ files \in [FileHandlers -> FileRequest]
  BY DEF Serve, ProxyInv, ProxyTyped, Takes
<1>1. /\ files' = [files EXCEPT ![h] = [at |-> "served", job |-> j]] /\ disk' = disk \ {j}
      /\ UNCHANGED <<now, jobs, known>>
  BY DEF Serve, Asked
<1>2. /\ files'[h].at = "served" /\ files'[h].job = j
      /\ \A g \in FileHandlers : g # h => files'[g] = files[g]
      /\ files' \in [FileHandlers -> FileRequest]
  BY <1>0, <1>1 DEF FileRequest, AtFile
<1>3. ProxyTyped'
  BY <1>0, <1>1, <1>2 DEF ProxyInv, ProxyTyped
<1>4. \A g \in FileHandlers, i \in Clients : Takes(g, i)' <=> Takes(g, i)
  BY <1>0, <1>2 DEF Takes
<1>5. ASSUME NEW i \in Clients PROVE Unfinished(i)' /\ Owned(i)'
  <2>1. \A g \in FileHandlers : Takes(g, i) /\ i # j => files'[g] = files[g]
    BY <1>0, <1>2 DEF Takes
  <2> QED
    BY <1>1, <1>4, <2>1 DEF ProxyInv, Unfinished, Owned
<1> QED
  BY <1>3, <1>5 DEF ProxyInv

LEMMA ProxyInvNext == ProxyInv /\ [ProxyNext]_proxyVars => ProxyInv'
<1> SUFFICES ASSUME ProxyInv, [ProxyNext]_proxyVars PROVE ProxyInv'
  OBVIOUS
<1>0. now \in Int /\ \A h \in FileHandlers : files[h].at # "idle" => files[h].job \in Clients
  BY DEF ProxyInv, ProxyTyped
<1>1. ASSUME UNCHANGED <<jobs, disk, files, known>>, now' \in Int PROVE ProxyInv'
  BY <1>1, FilesRest, ProxyLooksOn
<1>2. CASE UNCHANGED proxyVars
  BY <1>0, <1>1, <1>2 DEF proxyVars
<1>3. CASE Tick \/ SweepBegins \/ SweepEnds
  BY <1>0, <1>1, <1>3 DEF Tick, SweepBegins, SweepEnds
<1>4. ASSUME NEW j \in Clients,
             RunPublishes(j) \/ Submit(j) \/ Submitted(j) \/ GiveUp(j)
             \/ \E h \in FileHandlers, sound \in BOOLEAN : fetchFile(j, h, sound)
      PROVE  ProxyInv'
  BY <1>0, <1>1, <1>4 DEF RunPublishes, Submit, Submitted, GiveUp, fetchFile
<1>5. ASSUME NEW j \in Clients, NEW h \in FileHandlers, Request(h, j), UNCHANGED <<now, jobs, disk, known>>
      PROVE  ProxyInv'
  BY <1>0, <1>5, AskingTakesNothing, ProxyLooksOn DEF Request
<1>6. ASSUME NEW j \in Clients, pollJob(j) \/ \E h \in FileHandlers : Repeat(j, h) PROVE ProxyInv'
  BY <1>0, <1>1, <1>5, <1>6 DEF pollJob, Repeat
<1>7. ASSUME NEW h \in FileHandlers, UseToken(h) \/ FindJob(h) PROVE ProxyInv'
  <2>1. PICK at \in {"finding", "consuming", "refused"} : Asked(h, files[h].job, at)
    BY <1>7 DEF UseToken, FindJob
  <2>2. /\ files[h].at \in {"asking", "finding"} /\ UNCHANGED <<now, jobs, disk, known>>
        /\ files[h].job \in Clients
    BY <1>0, <1>7 DEF UseToken, FindJob
  <2> QED
    BY <1>0, <2>1, <2>2, AskingTakesNothing, ProxyLooksOn
<1>8. ASSUME NEW j \in Clients, RunSteps(j) \/ SweepVisits(j) \/ \E valid \in BOOLEAN : handleSubmit(j, valid)
      PROVE  ProxyInv'
  BY <1>4, <1>8, JobSteps DEF RunSteps
<1> QED
  BY <1>2, <1>3, <1>4, <1>6, <1>7, <1>8, FileConsumed, FileServed DEF ProxyNext

\* At most one request has taken the file of a job.
LEMMA ProxyInvSuffices == ProxyInv => FilesCollected
<1> SUFFICES ASSUME ProxyInv, NEW j \in Clients
             PROVE  LET takers == {h \in FileHandlers : Takes(h, j)} IN
                    /\ Cardinality(takers) <= 1
                    /\ j \in disk => \/ jobs[j].file /\ j \in known /\ takers = {}
                                     \/ \E h \in takers : files[h].at = "serving" /\ ~jobs[j].file
  BY DEF FilesCollected, Takes
<1> DEFINE takers == {h \in FileHandlers : Takes(h, j)}
<1>1. Owned(j)
  BY DEF ProxyInv
<1>2. Cardinality(takers) <= 1
  <2>1. CASE takers = {}
    <3>1. Cardinality(takers) = 0
      BY <2>1, FS_EmptySet
    <3> QED
      BY <3>1
  <2>2. CASE takers # {}
    <3>1. PICK h : takers = {h}
      BY <1>1, <2>2 DEF Owned
    <3>2. Cardinality(takers) = 1
      BY <3>1, FS_Singleton
    <3> QED
      BY <3>2
  <2> QED
    BY <2>1, <2>2
<1>3. ASSUME j \in disk
      PROVE  \/ jobs[j].file /\ j \in known /\ takers = {}
             \/ \E h \in takers : files[h].at = "serving" /\ ~jobs[j].file
  BY <1>1, <1>3 DEF Owned
<1> QED
  BY <1>2, <1>3

\* Requests that race the sweep, the expiry and each other leave no file behind
\* and serve none twice (handleFile, sweep, run of the downloader proxy).
THEOREM FilesAlwaysCollected == ProxySpec => []FilesCollected
<1>1. ProxySpec => []ProxyInv
  BY ProxyInvInit, ProxyInvNext, PTL DEF ProxySpec
<1> QED
  BY <1>1, ProxyInvSuffices, PTL

-----------------------------------------------------------------------------
(* The bytes of the browser lane.                                            *)

TabStage == {"paused", "sent", "redirected", "done"}
TabRequest == [url : Pages, root : Pages, frame : Frames, parent : Nat, stage : TabStage]
LaneAt == {"idle", "waiting", "rendering", "accepted", "fetched", "refused", "timed out"}
KnownRequest == [id : Nat, url : Pages, next : Pages \cup {NoPage}, redirects : Nat]
Permit == [id : Nat, generation : Nat, kind : BodyKinds]
Loop == [at : LaneAt, body : Seq(Permit)]
LaneTyped ==
    /\ net \in Seq(TabRequest)
    /\ scope \in [selected : Pages \cup {NoPage}, generation : Nat, requests : SUBSET KnownRequest]
    /\ reading \in SUBSET Permit /\ results \in Seq(Permit) /\ htmls \in Seq(Permit)
    /\ lane \in Loop
\* A request follows from its own URL or from that of the request it was redirected from.
Rooted(i) ==
    IF net[i].parent = 0 THEN net[i].root = net[i].url
    ELSE /\ net[i].parent \in 1 .. Len(net) /\ net[i].root = net[net[i].parent].root
         /\ net[i].frame = net[net[i].parent].frame
OfSelection(id) == id \in 1 .. Len(net) /\ net[id].root = scope.selected /\ net[id].frame = MainFrame
\* Bodies of this generation come from requests the generation knows.
BodyOfSelection(b) ==
    b.generation <= scope.generation /\ (b.generation = scope.generation => OfSelection(b.id))
LaneInv ==
    /\ LaneTyped /\ \A i \in 1 .. Len(net) : Rooted(i)
    /\ \A r \in scope.requests : OfSelection(r.id)
    /\ \A b \in reading : BodyOfSelection(b)
    /\ \A n \in 1 .. Len(results) : BodyOfSelection(results[n])
    /\ lane.at \in {"accepted", "fetched"} => lane.body # <<>> /\ OfSelection(lane.body[1].id)

LEMMA LaneRecord ==
  ASSUME NEW at \in LaneAt, NEW body \in Seq(Permit)
  PROVE  /\ [at |-> at, body |-> body] \in Loop
         /\ [at |-> at, body |-> body].at = at /\ [at |-> at, body |-> body].body = body
BY DEF Loop

LEMMA RequestRecord ==
  ASSUME NEW url \in Pages, NEW root \in Pages, NEW frame \in Frames, NEW parent \in Nat,
         NEW stage \in TabStage
  PROVE  LET q == [url |-> url, root |-> root, frame |-> frame, parent |-> parent, stage |-> stage] IN
         q \in TabRequest /\ q.url = url /\ q.root = root /\ q.frame = frame /\ q.parent = parent
BY DEF TabRequest

LEMMA LaneInvInit == LaneInit => LaneInv
<1> SUFFICES ASSUME LaneInit PROVE LaneInv
  OBVIOUS
<1>1. lane = [at |-> "idle", body |-> <<>>]
  BY DEF LaneInit
<1>2. lane \in Loop /\ lane.at \notin {"accepted", "fetched"}
  <2>1. <<>> \in Seq(Permit)
    OBVIOUS
  <2>2. "idle" \in LaneAt
    BY DEF LaneAt
  <2>3. lane \in Loop /\ lane.at = "idle"
    BY <1>1, <2>1, <2>2, LaneRecord
  <2> QED
    BY <2>3
<1>3. scope.requests = {} /\ scope.generation = 0 /\ scope.selected = NoPage
      /\ scope \in [selected : Pages \cup {NoPage}, generation : Nat, requests : SUBSET KnownRequest]
  BY DEF LaneInit, NoScope
<1>4. net = <<>> /\ reading = {} /\ results = <<>> /\ htmls = <<>>
  BY DEF LaneInit
<1> QED
  BY <1>2, <1>3, <1>4 DEF LaneInv, LaneTyped

\* The tab forgets no request and moves none to another page or frame.
NetKept ==
    /\ net' \in Seq(TabRequest) /\ Len(net') >= Len(net)
    /\ \A i \in 1 .. Len(net) : /\ net'[i].url = net[i].url /\ net'[i].root = net[i].root
                                /\ net'[i].frame = net[i].frame /\ net'[i].parent = net[i].parent

LEMMA RootsKept ==
  ASSUME LaneInv, NetKept
  PROVE  /\ \A i \in 1 .. Len(net) : Rooted(i)'
         /\ scope'.selected = scope.selected => \A id \in Nat : OfSelection(id) => OfSelection(id)'
         /\ scope'.selected = scope.selected /\ scope'.generation = scope.generation =>
               \A b \in Permit : BodyOfSelection(b) => BodyOfSelection(b)'
<1>0. net \in Seq(TabRequest) /\ net' \in Seq(TabRequest) /\ Len(net) \in Nat /\ Len(net') \in Nat
      /\ Len(net') >= Len(net) /\ \A i \in 1 .. Len(net) : net[i] \in TabRequest /\ Rooted(i)
  BY DEF LaneInv, LaneTyped, NetKept
<1>1. ASSUME NEW i \in 1 .. Len(net) PROVE Rooted(i)'
  <2>1. net'[i].url = net[i].url /\ net'[i].root = net[i].root /\ net'[i].frame = net[i].frame
        /\ net'[i].parent = net[i].parent
    BY <1>1 DEF NetKept
  <2>2. CASE net[i].parent = 0
    BY <1>0, <2>1, <2>2 DEF Rooted
  <2>3. CASE net[i].parent # 0
    <3> DEFINE p == net[i].parent
    <3>1. p \in 1 .. Len(net) /\ net[i].root = net[p].root /\ net[i].frame = net[p].frame
      BY <1>0, <2>3 DEF Rooted
    <3>2. net'[p].root = net[p].root /\ net'[p].frame = net[p].frame /\ p \in 1 .. Len(net')
      BY <1>0, <3>1 DEF NetKept
    <3> QED
      BY <2>1, <2>3, <3>1, <3>2 DEF Rooted
  <2> QED
    BY <2>2, <2>3
<1>2. ASSUME scope'.selected = scope.selected, NEW id \in Nat, OfSelection(id) PROVE OfSelection(id)'
  BY <1>0, <1>2 DEF OfSelection, NetKept
<1>3. ASSUME scope'.selected = scope.selected, scope'.generation = scope.generation,
             NEW b \in Permit, BodyOfSelection(b)
      PROVE  BodyOfSelection(b)'
  BY <1>2, <1>3 DEF BodyOfSelection, Permit
<1> QED
  BY <1>1, <1>2, <1>3

\* A step that selects nothing: what it adds decides.
LEMMA LaneStays ==
  ASSUME LaneInv, NetKept, LaneTyped', \A i \in 1 .. Len(net') : i > Len(net) => Rooted(i)',
         scope'.selected = scope.selected, scope'.generation = scope.generation,
         \A r \in scope'.requests : (\E q \in scope.requests : q.id = r.id) \/ OfSelection(r.id)',
         \A b \in reading' : b \in reading \/ BodyOfSelection(b)',
         \A n \in 1 .. Len(results') :
            \/ \E m \in 1 .. Len(results) : results'[n] = results[m]
            \/ BodyOfSelection(results[n])',
         lane'.at \in {"accepted", "fetched"} =>
            \/ lane.at \in {"accepted", "fetched"} /\ lane'.body = lane.body
            \/ lane'.body # <<>> /\ OfSelection(lane.body[1].id)'
  PROVE  LaneInv'
<1>0. Len(net) \in Nat /\ Len(net') \in Nat
  BY DEF LaneInv, LaneTyped
<1>1. ASSUME NEW i \in 1 .. Len(net') PROVE Rooted(i)'
  <2>1. CASE i \in 1 .. Len(net)
    BY <2>1, RootsKept
  <2> QED
    BY <1>0, <2>1
<1>2. ASSUME NEW r \in scope'.requests PROVE OfSelection(r.id)'
  <2>1. CASE \E q \in scope.requests : q.id = r.id
    <3>1. PICK q \in scope.requests : q.id = r.id
      BY <2>1
    <3>2. q.id \in Nat /\ OfSelection(q.id)
      BY DEF LaneInv, LaneTyped, KnownRequest
    <3> QED
      BY <3>1, <3>2, RootsKept
  <2> QED
    BY <2>1
<1>3. ASSUME NEW b \in reading' PROVE BodyOfSelection(b)'
  <2>1. CASE b \in reading
    <3>1. b \in Permit /\ BodyOfSelection(b)
      BY <2>1 DEF LaneInv, LaneTyped
    <3> QED
      BY <3>1, RootsKept
  <2> QED
    BY <2>1
<1>4. ASSUME NEW n \in 1 .. Len(results') PROVE BodyOfSelection(results[n])'
  <2>1. ASSUME NEW m \in 1 .. Len(results), results'[n] = results[m] PROVE BodyOfSelection(results[n])'
    <3>1. PICK b \in Permit : b = results[m]
      BY DEF LaneInv, LaneTyped
    <3>2. BodyOfSelection(b)'
      BY <3>1, RootsKept DEF LaneInv
    <3> QED
      BY <2>1, <3>1, <3>2
  <2> QED
    BY <2>1
<1>5. ASSUME lane'.at \in {"accepted", "fetched"}
      PROVE  lane'.body # <<>> /\ OfSelection(lane.body[1].id)'
  <2>1. CASE lane.at \in {"accepted", "fetched"} /\ lane'.body = lane.body
    <3>1. lane.body # <<>> /\ OfSelection(lane.body[1].id)
      BY <2>1 DEF LaneInv
    <3>2. PICK id \in Nat : id = lane.body[1].id
      BY <3>1 DEF OfSelection
    <3>3. OfSelection(id)'
      BY <3>1, <3>2, RootsKept
    <3> QED
      BY <2>1, <3>1, <3>2, <3>3
  <2> QED
    BY <1>5, <2>1
<1> QED
  BY <1>1, <1>2, <1>3, <1>4, <1>5 DEF LaneInv

\* A new request keeps the tab's old ones.
LEMMA RequestAdded ==
  ASSUME net \in Seq(TabRequest), NEW q \in TabRequest, net' = Append(net, q)
  PROVE  NetKept /\ Len(net') = Len(net) + 1 /\ net'[Len(net) + 1] = q
BY DEF NetKept

\* A request's stage is all that changes of it.
LEMMA RequestMoves ==
  ASSUME net \in Seq(TabRequest), NEW i \in 1 .. Len(net), NEW st \in TabStage,
         net' = [net EXCEPT ![i].stage = st]
  PROVE  NetKept /\ Len(net') = Len(net)
<1> DEFINE q == [net[i] EXCEPT !.stage = st]
<1>1. net[i] \in TabRequest
  OBVIOUS
<1>2. q \in TabRequest /\ q.url = net[i].url /\ q.root = net[i].root /\ q.frame = net[i].frame
      /\ q.parent = net[i].parent
  BY <1>1 DEF TabRequest
<1>3. net' = [net EXCEPT ![i] = q]
  OBVIOUS
<1> HIDE DEF q
<1> QED
  BY <1>2, <1>3 DEF NetKept

\* A selection starts a generation that knows nothing yet.
LEMMA LaneSelects ==
  ASSUME LaneInv, NEW url \in Pages, navigateTo(url), UNCHANGED <<reading, results, htmls>>,
         lane' \in Loop, lane'.at = "waiting"
  PROVE  LaneInv'
<1> DEFINE q == [url |-> url, root |-> url, frame |-> MainFrame, parent |-> 0, stage |-> "paused"]
<1>0. 0 \in Nat /\ "paused" \in TabStage /\ MainFrame \in Frames
  BY BrowserConfig DEF TabStage
<1>1. q \in TabRequest /\ q.parent = 0 /\ q.root = url /\ q.url = url /\ net' = Append(net, q)
  BY <1>0, RequestRecord, Zenon DEF navigateTo, Requested
<1> HIDE DEF q
<1>2. NetKept /\ Len(net') = Len(net) + 1 /\ net'[Len(net) + 1] = q /\ Len(net) \in Nat
  BY <1>1, RequestAdded DEF LaneInv, LaneTyped
<1>3. scope' = [selected |-> url, generation |-> scope.generation + 1, requests |-> {}]
      /\ scope.generation \in Nat
  BY DEF navigateTo, selectNavigation, LaneInv, LaneTyped
<1>4. LaneTyped'
  BY <1>2, <1>3 DEF LaneInv, LaneTyped, NetKept
<1>5. ASSUME NEW i \in 1 .. Len(net') PROVE Rooted(i)'
  <2>1. CASE i \in 1 .. Len(net)
    BY <1>2, <2>1, RootsKept
  <2>2. CASE i = Len(net) + 1
    BY <1>1, <1>2, <2>2 DEF Rooted
  <2> QED
    BY <1>2, <2>1, <2>2
<1>6. scope'.generation = scope.generation + 1 /\ scope'.requests = {}
  BY <1>3
<1>7. ASSUME NEW b \in Permit, BodyOfSelection(b) PROVE BodyOfSelection(b)'
  BY <1>3, <1>6, <1>7 DEF BodyOfSelection, Permit
<1>8. ASSUME NEW b \in reading' PROVE BodyOfSelection(b)'
  BY <1>7 DEF LaneInv, LaneTyped
<1>9. ASSUME NEW n \in 1 .. Len(results') PROVE BodyOfSelection(results[n])'
  <2>1. PICK b \in Permit : b = results[n] /\ BodyOfSelection(b) /\ b = results'[n]
    BY DEF LaneInv, LaneTyped
  <2>2. BodyOfSelection(b)'
    BY <1>7, <2>1
  <2> QED
    BY <2>1, <2>2
<1> QED
  BY <1>4, <1>5, <1>6, <1>8, <1>9 DEF LaneInv

\* What a step leaves alone of the lane is sound as it was.
LEMMA LaneUnmoved ==
  ASSUME LaneInv
  PROVE  /\ UNCHANGED net => NetKept /\ \A i \in 1 .. Len(net') : i > Len(net) => Rooted(i)'
         /\ UNCHANGED results => \A n \in 1 .. Len(results') :
               \E m \in 1 .. Len(results) : results'[n] = results[m]
<1>1. net \in Seq(TabRequest) /\ Len(net) \in Nat
  BY DEF LaneInv, LaneTyped
<1>2. ASSUME UNCHANGED net PROVE NetKept /\ \A i \in 1 .. Len(net') : i > Len(net) => Rooted(i)'
  BY <1>1, <1>2 DEF NetKept
<1>3. ASSUME UNCHANGED results, NEW n \in 1 .. Len(results')
      PROVE  \E m \in 1 .. Len(results) : results'[n] = results[m]
  BY <1>3
<1> QED
  BY <1>2, <1>3

\* The tab's requests and responses, wanted or not.
LEMMA TabSteps ==
  ASSUME LaneInv, \/ \E url \in Pages, frame \in Frames : StrayRequest(url, frame)
                  \/ \E i \in RequestIds :
                        \/ RequestPaused(i) \/ \E to \in Pages : RedirectObserved(i, to)
                        \/ \E kind \in BodyKinds : ResponseObserved(i, kind)
  PROVE  LaneInv'
<1>0. net \in Seq(TabRequest) /\ Len(net) \in Nat /\ \A i \in 1 .. Len(net) : net[i] \in TabRequest /\ Rooted(i)
  BY DEF LaneInv, LaneTyped
<1>p. 0 \in Nat /\ "paused" \in TabStage
  BY DEF TabStage
<1>1. ASSUME NEW url \in Pages, NEW frame \in Frames, StrayRequest(url, frame) PROVE LaneInv'
  <2> DEFINE q == [url |-> url, root |-> url, frame |-> frame, parent |-> 0, stage |-> "paused"]
  <2>1. q \in TabRequest /\ q.parent = 0 /\ q.root = url /\ q.url = url
    BY <1>p, RequestRecord, Zenon
  <2>2. net' = Append(net, q) /\ UNCHANGED <<scope, reading, results, htmls, lane>>
    BY <1>1 DEF StrayRequest, Requested
  <2> HIDE DEF q
  <2>3. NetKept /\ Len(net') = Len(net) + 1 /\ net'[Len(net) + 1] = q
    BY <1>0, <2>1, <2>2, RequestAdded
  <2>4. LaneTyped' /\ \A i \in 1 .. Len(net') : i > Len(net) => Rooted(i)'
    BY <1>0, <2>1, <2>2, <2>3 DEF LaneInv, LaneTyped, NetKept, Rooted
  <2> QED
    BY <2>2, <2>3, <2>4, LaneUnmoved, LaneStays
<1>2. ASSUME NEW i \in RequestIds, RequestPaused(i) PROVE LaneInv'
  <2>1. i \in 1 .. Len(net) /\ net' = [net EXCEPT ![i].stage = "sent"] /\ "sent" \in TabStage
        /\ UNCHANGED <<reading, results, htmls, lane>>
    BY <1>2 DEF RequestPaused, TabStage
  <2>2. NetKept /\ Len(net') = Len(net)
    BY <1>0, <2>1, RequestMoves
  <2>3. CASE scope' = scope
    <3>1. LaneTyped'
      BY <2>1, <2>2, <2>3 DEF LaneInv, LaneTyped, NetKept
    <3> QED
      BY <2>1, <2>2, <2>3, <3>1, LaneUnmoved, LaneStays
  <2>4. CASE ObserveRequest(i)
    <3> DEFINE k == [id |-> i, url |-> net[i].url, next |-> NoPage, redirects |-> RedirectsOf(i)]
    <3>1. scope' = [scope EXCEPT !.requests = (@ \ Scoped(i)) \cup {k}] /\ net[i].frame = MainFrame
      BY <1>2, <2>4 DEF RequestPaused, ObserveRequest
    <3>2. OfSelection(i) /\ RedirectsOf(i) \in Nat
      <4>1. CASE net[i].parent = 0
        BY <1>0, <2>1, <2>4, <4>1 DEF ObserveRequest, OfSelection, Rooted, RedirectsOf
      <4>2. CASE net[i].parent # 0
        <5>1. PICK p \in scope.requests : p.id = net[i].parent
          BY <2>4, <4>2 DEF ObserveRequest, Scoped
        <5>2. OfSelection(p.id)
          BY DEF LaneInv
        <5>3. (CHOOSE r \in Scoped(net[i].parent) : TRUE) \in KnownRequest
          BY <5>1 DEF Scoped, LaneInv, LaneTyped
        <5>4. RedirectsOf(i) \in Nat
          BY <4>2, <5>3 DEF RedirectsOf, KnownRequest
        <5>5. OfSelection(i)
          BY <1>0, <2>1, <3>1, <4>2, <5>1, <5>2 DEF OfSelection, Rooted
        <5> QED
          BY <5>4, <5>5
      <4> QED
        BY <4>1, <4>2
    <3>3. k.id = i /\ k \in KnownRequest
      BY <1>0, <2>1, <3>2 DEF KnownRequest, TabRequest
    <3> HIDE DEF k
    <3>4. /\ scope'.selected = scope.selected /\ scope'.generation = scope.generation
          /\ scope'.requests = (scope.requests \ Scoped(i)) \cup {k}
          /\ scope' \in [selected : Pages \cup {NoPage}, generation : Nat, requests : SUBSET KnownRequest]
      BY <3>1, <3>3 DEF LaneInv, LaneTyped
    <3>5. OfSelection(i)'
      BY <2>1, <2>2, <3>2, <3>4 DEF OfSelection, NetKept
    <3>6. LaneTyped'
      BY <2>1, <2>2, <3>4 DEF LaneInv, LaneTyped, NetKept
    <3>7. ASSUME NEW r \in scope'.requests
          PROVE  (\E q \in scope.requests : q.id = r.id) \/ OfSelection(r.id)'
      <4>1. CASE r \in scope.requests
        BY <4>1
      <4>2. CASE r = k
        BY <3>3, <3>5, <4>2
      <4> QED
        BY <3>4, <4>1, <4>2
    <3>8. \A n \in 1 .. Len(net') : n > Len(net) => Rooted(n)'
      BY <1>0, <2>2
    <3> QED
      BY <2>1, <2>2, <3>4, <3>6, <3>7, <3>8, LaneUnmoved, LaneStays
  <2> QED
    BY <1>2, <2>3, <2>4 DEF RequestPaused
<1>3. ASSUME NEW i \in RequestIds, NEW to \in Pages, RedirectObserved(i, to) PROVE LaneInv'
  <2> DEFINE moved == [net EXCEPT ![i].stage = "redirected"]
             q == [url |-> to, root |-> net[i].root, frame |-> net[i].frame, parent |-> i,
                   stage |-> "paused"]
             on(r) == IF r.id = i THEN [r EXCEPT !.next = to] ELSE r
  <2>1. i \in 1 .. Len(net) /\ net' = Append(moved, q) /\ UNCHANGED <<reading, results, htmls, lane>>
        /\ scope' = [scope EXCEPT !.requests = {on(r) : r \in @}] /\ "redirected" \in TabStage
    BY <1>3 DEF RedirectObserved, TabStage
  <2>2. /\ moved \in Seq(TabRequest) /\ Len(moved) = Len(net)
        /\ \A n \in 1 .. Len(net) : /\ moved[n].url = net[n].url /\ moved[n].root = net[n].root
                                    /\ moved[n].frame = net[n].frame /\ moved[n].parent = net[n].parent
    <3> DEFINE m == [net[i] EXCEPT !.stage = "redirected"]
    <3>1. m \in TabRequest /\ m.url = net[i].url /\ m.root = net[i].root /\ m.frame = net[i].frame
          /\ m.parent = net[i].parent
      BY <1>0, <2>1 DEF TabRequest
    <3>2. moved = [net EXCEPT ![i] = m]
      BY <1>0
    <3> HIDE DEF m, moved
    <3> QED
      BY <1>0, <2>1, <3>1, <3>2
  <2> HIDE DEF moved
  <2>3. net[i].root \in Pages /\ net[i].frame \in Frames /\ i \in Nat
    BY <1>0, <2>1 DEF TabRequest
  <2>4. q \in TabRequest /\ q.parent = i /\ q.root = net[i].root /\ q.frame = net[i].frame
    BY <1>p, <2>3, RequestRecord, Zenon
  <2> HIDE DEF q
  <2>5. NetKept /\ Len(net') = Len(net) + 1 /\ net'[Len(net) + 1] = q
    <3>1. /\ Len(net') = Len(net) + 1 /\ net'[Len(net) + 1] = q /\ net' \in Seq(TabRequest)
          /\ \A n \in 1 .. Len(net) : net'[n] = moved[n]
      <4>1. net' = Append(moved, q)
        BY <2>1
      <4>2. Len(net) \in Nat
        BY <2>2
      <4> QED
        BY <2>2, <2>4, <4>1, <4>2
    <3>2. Len(net') >= Len(net)
      BY <1>0, <3>1
    <3>3. ASSUME NEW n \in 1 .. Len(net)
          PROVE  /\ net'[n].url = net[n].url /\ net'[n].root = net[n].root
                 /\ net'[n].frame = net[n].frame /\ net'[n].parent = net[n].parent
      BY <2>2, <3>1
    <3> QED
      BY <3>1, <3>2, <3>3 DEF NetKept
  <2>6. ASSUME NEW n \in 1 .. Len(net'), n > Len(net) PROVE Rooted(n)'
    BY <1>0, <2>1, <2>4, <2>5, <2>6 DEF Rooted, NetKept
  <2>7. ASSUME NEW r \in KnownRequest PROVE on(r) \in KnownRequest /\ on(r).id = r.id
    BY DEF KnownRequest
  <2> HIDE DEF on
  <2>8. /\ scope'.selected = scope.selected /\ scope'.generation = scope.generation
        /\ scope'.requests = {on(r) : r \in scope.requests} /\ scope.requests \in SUBSET KnownRequest
        /\ scope' \in [selected : Pages \cup {NoPage}, generation : Nat, requests : SUBSET KnownRequest]
    BY <2>1, <2>7 DEF LaneInv, LaneTyped
  <2>9. LaneTyped'
    BY <2>1, <2>5, <2>8 DEF LaneInv, LaneTyped, NetKept
  <2>10. ASSUME NEW r \in scope'.requests PROVE \E k \in scope.requests : k.id = r.id
    BY <2>7, <2>8
  <2> QED
    BY <2>1, <2>5, <2>6, <2>8, <2>9, <2>10, LaneUnmoved, LaneStays
<1>4. ASSUME NEW i \in RequestIds, NEW kind \in BodyKinds, ResponseObserved(i, kind) PROVE LaneInv'
  <2> DEFINE b == [id |-> i, generation |-> scope.generation, kind |-> kind]
  <2>1. i \in 1 .. Len(net) /\ net' = [net EXCEPT ![i].stage = "done"] /\ "done" \in TabStage
        /\ UNCHANGED <<scope, results, htmls, lane>>
        /\ reading' = IF Scoped(i) # {} THEN reading \cup {b} ELSE reading
    BY <1>4 DEF ResponseObserved, TabStage
  <2>2. NetKept /\ Len(net') = Len(net)
    BY <1>0, <2>1, RequestMoves
  <2>3. b \in Permit /\ b.id = i /\ b.generation = scope.generation
    BY <1>0, <2>1 DEF Permit, LaneInv, LaneTyped
  <2> HIDE DEF b
  <2>4. LaneTyped'
    BY <2>1, <2>2, <2>3 DEF LaneInv, LaneTyped, NetKept
  <2>5. Scoped(i) # {} => BodyOfSelection(b)
    BY <1>0, <2>1, <2>3 DEF Scoped, BodyOfSelection, LaneInv, LaneTyped
  <2>6. ASSUME NEW c \in reading' PROVE c \in reading \/ BodyOfSelection(c)'
    <3>1. CASE c = b /\ Scoped(i) # {}
      <4>1. BodyOfSelection(c)'
        BY <2>1, <2>2, <2>3, <2>5, <3>1, RootsKept
      <4> QED
        BY <4>1
    <3> QED
      BY <2>1, <3>1
  <2>7. \A n \in 1 .. Len(net') : n > Len(net) => Rooted(n)'
    BY <1>0, <2>2
  <2> QED
    BY <2>1, <2>2, <2>4, <2>6, <2>7, LaneUnmoved, LaneStays
<1> QED
  BY <1>1, <1>2, <1>3, <1>4

LEMMA LaneInvNext == LaneInv /\ [LaneNext]_laneVars => LaneInv'
<1> SUFFICES ASSUME LaneInv, [LaneNext]_laneVars PROVE LaneInv'
  OBVIOUS
<1>0. /\ lane \in Loop /\ lane.at \in LaneAt /\ <<>> \in Seq(Permit) /\ results \in Seq(Permit)
      /\ htmls \in Seq(Permit) /\ reading \in SUBSET Permit
  BY DEF LaneInv, LaneTyped, Loop
<1>n. /\ "waiting" \in LaneAt /\ "rendering" \in LaneAt /\ "timed out" \in LaneAt
      /\ "accepted" \in LaneAt /\ "refused" \in LaneAt /\ "fetched" \in LaneAt
  BY DEF LaneAt
<1>r. ASSUME NEW at \in LaneAt, NEW body \in Seq(Permit), lane' = [at |-> at, body |-> body]
      PROVE  lane' \in Loop /\ lane'.at = at /\ lane'.body = body
  BY <1>r, LaneRecord
\* Only the loop moves: what it holds afterwards decides.
<1>1. ASSUME UNCHANGED <<net, scope, results>>, reading' \in SUBSET reading, lane' \in Loop,
             htmls' \in Seq(Permit),
             lane'.at \in {"accepted", "fetched"} =>
                \/ lane.at \in {"accepted", "fetched"} /\ lane'.body = lane.body
                \/ lane'.body # <<>> /\ OfSelection(lane.body[1].id)'
      PROVE  LaneInv'
  <2>1. LaneTyped'
    BY <1>0, <1>1 DEF LaneInv, LaneTyped
  <2> QED
    BY <1>1, <2>1, LaneUnmoved, LaneStays
<1>2. CASE UNCHANGED laneVars
  BY <1>0, <1>1, <1>2 DEF laneVars
<1>3. CASE FetchPDF
  <2>1. lane' \in Loop /\ lane'.at = "waiting"
    <3> DEFINE at == "waiting"
    <3>1. at \in LaneAt /\ lane' = [lane EXCEPT !.at = at]
      BY <1>n, <1>3, Zenon DEF FetchPDF
    <3> HIDE DEF at
    <3>2. lane' \in Loop /\ lane'.at = at
      BY <1>0, <3>1 DEF Loop
    <3> QED
      BY <3>2 DEF at
  <2> QED
    BY <1>3, <2>1, BrowserConfig, LaneSelects DEF FetchPDF
<1>4. CASE TakePDF
  <2>1. /\ results # <<>> /\ results' = Tail(results) /\ UNCHANGED <<net, scope, reading, htmls>>
        /\ lane' = IF CurrentBody(Head(results)) THEN [at |-> "accepted", body |-> <<Head(results)>>] ELSE lane
    BY <1>4 DEF TakePDF
  <2>2. PICK b \in Permit : b = Head(results) /\ b = results[1] /\ BodyOfSelection(b)
    BY <1>0, <2>1 DEF LaneInv
  <2>3. results' \in Seq(Permit)
        /\ \A n \in 1 .. Len(results') : \E m \in 1 .. Len(results) : results'[n] = results[m]
    <3>1. Len(results') = Len(results) - 1 /\ \A n \in 1 .. Len(results') : results'[n] = results[n + 1]
      BY <1>0, <2>1
    <3> QED
      BY <1>0, <2>1, <3>1
  <2>4. CASE b.generation = scope.generation
    <3>1. <<b>> \in Seq(Permit) /\ <<b>>[1] = b /\ <<b>> # <<>>
      OBVIOUS
    <3>2. lane' \in Loop /\ lane'.body = <<b>>
      <4>1. lane' = [at |-> "accepted", body |-> <<b>>]
        BY <2>1, <2>2, <2>4 DEF CurrentBody
      <4> QED
        BY <1>n, <1>r, <3>1, <4>1, Zenon
    <3>3. OfSelection(b.id)
      BY <2>2, <2>4 DEF BodyOfSelection
    <3>4. OfSelection(lane.body[1].id)'
      BY <2>1, <3>1, <3>2, <3>3 DEF OfSelection
    <3>5. LaneTyped'
      BY <2>1, <2>3, <3>2 DEF LaneInv, LaneTyped
    <3> QED
      BY <2>1, <2>3, <3>1, <3>2, <3>4, <3>5, LaneUnmoved, LaneStays
  <2>5. CASE b.generation # scope.generation
    <3>1. lane' = lane
      BY <2>1, <2>2, <2>5 DEF CurrentBody
    <3>2. LaneTyped'
      BY <2>1, <2>3, <3>1 DEF LaneInv, LaneTyped
    <3> QED
      BY <2>1, <2>3, <3>1, <3>2, LaneUnmoved, LaneStays
  <2> QED
    BY <2>4, <2>5
<1>5. CASE TakeHTML
  <2>1. /\ htmls # <<>> /\ htmls' = Tail(htmls) /\ UNCHANGED <<net, scope, reading, results>>
        /\ \/ lane' = lane
           \/ lane' = [at |-> "rendering", body |-> <<Head(htmls)>>]
        /\ lane.at = "waiting"
    BY <1>5 DEF TakeHTML
  <2>2. htmls' \in Seq(Permit) /\ <<Head(htmls)>> \in Seq(Permit)
    BY <1>0, <2>1
  <2>3. lane' \in Loop /\ lane'.at \in {"waiting", "rendering"}
    <3>1. CASE lane' = lane
      BY <1>0, <2>1, <3>1
    <3>2. CASE lane' = [at |-> "rendering", body |-> <<Head(htmls)>>]
      <4>1. lane' \in Loop /\ lane'.at = "rendering"
        BY <1>n, <1>r, <2>2, <3>2, Zenon
      <4> QED
        BY <4>1
    <3> QED
      BY <2>1, <3>1, <3>2
  <2> QED
    BY <1>1, <2>1, <2>2, <2>3
<1>6. ASSUME NEW candidates \in SUBSET Pages, MineAndNavigate(candidates) PROVE LaneInv'
  <2>1. lane' \in Loop /\ lane'.at = "waiting"
    BY <1>0, <1>n, <1>r, <1>6, Zenon DEF MineAndNavigate
  <2>2. CASE UNCHANGED <<net, scope, visited>>
    BY <1>0, <1>1, <1>6, <2>1, <2>2 DEF MineAndNavigate
  <2>3. ASSUME NEW u \in candidates, navigateTo(u) PROVE LaneInv'
    BY <1>6, <2>1, <2>3, LaneSelects DEF MineAndNavigate
  <2> QED
    BY <1>6, <2>2, <2>3 DEF MineAndNavigate
<1>7. CASE TimesOut
  <2>1. lane' \in Loop /\ lane'.at = "timed out"
    BY <1>0, <1>n, <1>r, <1>7, Zenon DEF TimesOut
  <2>2. UNCHANGED <<net, scope, reading, results, htmls>>
    BY <1>7, Zenon DEF TimesOut
  <2>3. lane'.at \notin {"accepted", "fetched"}
    BY <2>1, Zenon
  <2>4. lane' \in Loop
    BY <2>1, Zenon
  <2> QED
    BY <1>0, <1>1, <2>2, <2>3, <2>4
<1>8. ASSUME NEW sound \in BOOLEAN, validateBody(sound) PROVE LaneInv'
  <2> DEFINE at == IF sound THEN "fetched" ELSE "refused"
  <2>1. at \in LaneAt
    BY <1>n, Zenon
  <2>2. lane' = [lane EXCEPT !.at = at] /\ lane.at = "accepted" /\ UNCHANGED <<net, scope, reading, results, htmls>>
    BY <1>8 DEF validateBody
  <2> HIDE DEF at
  <2>3. lane' \in Loop /\ lane'.body = lane.body
    BY <1>0, <2>1, <2>2 DEF Loop
  <2> QED
    BY <1>0, <1>1, <2>2, <2>3
<1>9. ASSUME NEW permit \in reading, Capture(permit) PROVE LaneInv'
  <2>0. permit \in Permit /\ BodyOfSelection(permit)
    BY <1>0 DEF LaneInv
  <2>1. UNCHANGED <<net, scope, lane>> /\ reading' \in SUBSET reading
    BY <1>9 DEF Capture
  <2>2. /\ results' = results \/ results' = Append(results, permit)
        /\ htmls' = htmls \/ htmls' = Append(htmls, permit)
    BY <1>9 DEF Capture, Offer
  <2>3. results' \in Seq(Permit) /\ htmls' \in Seq(Permit)
    <3>1. Append(results, permit) \in Seq(Permit) /\ Append(htmls, permit) \in Seq(Permit)
      BY <1>0, <2>0
    <3> QED
      BY <1>0, <2>2, <3>1
  <2>4. LaneTyped'
    BY <1>0, <2>1, <2>3 DEF LaneInv, LaneTyped
  <2>5. BodyOfSelection(permit)'
    BY <2>0, <2>1 DEF BodyOfSelection, OfSelection
  <2>6. ASSUME NEW n \in 1 .. Len(results')
        PROVE  (\E m \in 1 .. Len(results) : results'[n] = results[m]) \/ BodyOfSelection(results[n])'
    <3>1. CASE results' = Append(results, permit)
      <4>1. Len(results) \in Nat /\ Len(results') = Len(results) + 1
        BY <1>0, <3>1
      <4>2. CASE n = Len(results) + 1
        <5>1. results'[n] = permit
          BY <1>0, <3>1, <4>2
        <5> QED
          BY <2>5, <5>1
      <4>3. CASE n \in 1 .. Len(results)
        BY <1>0, <3>1, <4>3
      <4> QED
        BY <4>1, <4>2, <4>3
    <3> QED
      BY <2>2, <3>1
  <2> QED
    BY <2>1, <2>4, <2>6, LaneUnmoved, LaneStays
<1>10. ASSUME NEW permit \in reading, CaptureLost(permit) PROVE LaneInv'
  BY <1>0, <1>1, <1>10 DEF CaptureLost
<1> QED
  BY <1>2, <1>3, <1>4, <1>5, <1>6, <1>7, <1>8, <1>9, <1>10, TabSteps DEF LaneNext

LEMMA LaneInvSuffices == LaneInv => BytesAreOfSelection
BY DEF LaneInv, OfSelection, BytesAreOfSelection

\* The bytes the browser lane accepts belong to the page it last selected,
\* whatever else the tab loads and however late the bodies are read
\* (browserNavigationScope and FetchPDF of the browser lane).
THEOREM BytesAlwaysOfSelection == LaneSpec => []BytesAreOfSelection
<1>1. LaneSpec => []LaneInv
  BY LaneInvInit, LaneInvNext, PTL DEF LaneSpec
<1> QED
  BY <1>1, LaneInvSuffices, PTL

-----------------------------------------------------------------------------
(* The download ladder.                                                      *)

ClimbFields == {"at", "ref", "doi", "resolver", "queue", "try", "titled", "trace", "delegations",
                "landing", "pending", "result", "answer"}
IsClimb(k) == k = [f \in ClimbFields |-> k[f]]
\* The rungs below the first delegation.
EarlyRungs == {"idle", "arxiv", "pmc", "twin", "oa", "pattern", "landing"}
\* Only an ended climb has an answer, and one that was delegated remembers it.
SoundClimb(k) ==
    /\ IsClimb(k)
    /\ k.at \in {"idle", "over"} => k.queue = <<>>
    /\ k.at # "over" => k.answer = "none" /\ k.result = "none" /\ k.pending = FALSE
    /\ k.at = "over" => /\ k.answer = "found" <=> k.result = "own"
                        /\ k.result # "foreign" /\ k.pending \in BOOLEAN
                        /\ k.pending = TRUE => k.answer = "pending"
    /\ k.delegations \in {0, 1}
    /\ k.at \in EarlyRungs => k.delegations = 0
    /\ k.at # "over" /\ k.delegations = 1 => "delegated" \in k.trace
LadderInv == climb = [c \in Calls |-> climb[c]] /\ \A c \in Calls : SoundClimb(climb[c])

\* What the steps of a climb leave of it.
LEMMA EndsFields ==
  ASSUME NEW k, IsClimb(k), NEW answer
  PROVE  LET r == Ends(k, answer) IN
         /\ IsClimb(r) /\ r.at = "over" /\ r.queue = <<>> /\ r.answer = answer
         /\ r.result = k.result /\ r.pending = k.pending /\ r.delegations = k.delegations
BY DEF IsClimb, ClimbFields, Ends

LEMMA ReturnsFields ==
  ASSUME NEW k, IsClimb(k), NEW bytes
  PROVE  LET r == Returns(k, bytes) IN
         /\ IsClimb(r) /\ r.at = "over" /\ r.queue = <<>> /\ r.answer = "found" /\ r.result = bytes
         /\ r.pending = k.pending /\ r.delegations = k.delegations
BY DEF IsClimb, ClimbFields, Ends, Returns

LEMMA GoesFields ==
  ASSUME NEW k, IsClimb(k), NEW stage
  PROVE  LET r == Goes(k, stage) IN
         /\ IsClimb(r) /\ r.at = stage /\ r.queue = <<>> /\ r.answer = k.answer /\ r.result = k.result
         /\ r.pending = k.pending /\ r.delegations = k.delegations /\ r.trace = k.trace
BY DEF IsClimb, ClimbFields, Goes

LEMMA MarkedFields ==
  ASSUME NEW k, IsClimb(k), NEW marks
  PROVE  LET r == Marked(k, marks) IN
         /\ IsClimb(r) /\ r.at = k.at /\ r.queue = k.queue /\ r.answer = k.answer
         /\ r.result = k.result /\ r.pending = k.pending /\ r.delegations = k.delegations
         /\ r.trace = k.trace \cup marks
BY DEF IsClimb, ClimbFields, Marked

\* A climb that stays on its rung, marked or not, stays sound.
SameClimb(r, k) ==
    /\ IsClimb(r) /\ r.at = k.at /\ r.answer = k.answer /\ r.result = k.result
    /\ r.pending = k.pending /\ r.delegations = k.delegations
    /\ "delegated" \in k.trace => "delegated" \in r.trace
LEMMA StillSound ==
  ASSUME NEW k, NEW r, SoundClimb(k), SameClimb(r, k), k.at \notin {"idle", "over"}
  PROVE  SoundClimb(r)
BY DEF SoundClimb, SameClimb

LEMMA NextURLSame ==
  ASSUME NEW k, SoundClimb(k)
  PROVE  SameClimb(NextURL(k), k)
<1> DEFINE rest == Tail(k.queue)
<1>1. NextURL(k) = [k EXCEPT !.queue = rest, !.try = 0]
  BY DEF NextURL
<1> HIDE DEF rest
<1>2. IsClimb(k)
  BY DEF SoundClimb
<1> QED
  BY <1>1, <1>2 DEF SameClimb, IsClimb, ClimbFields

LEMMA MarkedSame ==
  ASSUME NEW k, SoundClimb(k), NEW marks
  PROVE  SameClimb(Marked(k, marks), k)
<1> DEFINE r == Marked(k, marks)
<1>1. /\ IsClimb(r) /\ r.at = k.at /\ r.queue = k.queue /\ r.answer = k.answer
      /\ r.result = k.result /\ r.pending = k.pending /\ r.delegations = k.delegations
      /\ r.trace = k.trace \cup marks
  BY MarkedFields, Zenon DEF SoundClimb
<1> HIDE DEF r
<1>2. SameClimb(r, k)
  BY <1>1 DEF SameClimb
<1> QED
  BY <1>2 DEF r

LEMMA EndsSound ==
  ASSUME NEW k, SoundClimb(k), k.at # "over", NEW answer, answer # "found"
  PROVE  SoundClimb(Ends(k, answer))
<1> DEFINE r == Ends(k, answer)
<1>1. /\ IsClimb(r) /\ r.at = "over" /\ r.queue = <<>> /\ r.answer = answer
      /\ r.result = k.result /\ r.pending = k.pending /\ r.delegations = k.delegations
  BY EndsFields, Zenon DEF SoundClimb
<1> HIDE DEF r
<1>2. SoundClimb(r)
  BY <1>1 DEF SoundClimb, EarlyRungs
<1> QED
  BY <1>2 DEF r

LEMMA ReturnsSound ==
  ASSUME NEW k, SoundClimb(k), k.at # "over"
  PROVE  SoundClimb(Returns(k, "own"))
<1> DEFINE r == Returns(k, "own")
<1>1. /\ IsClimb(r) /\ r.at = "over" /\ r.queue = <<>> /\ r.answer = "found" /\ r.result = "own"
      /\ r.pending = k.pending /\ r.delegations = k.delegations
  BY ReturnsFields, Zenon DEF SoundClimb
<1> HIDE DEF r
<1>2. SoundClimb(r)
  BY <1>1 DEF SoundClimb, EarlyRungs
<1> QED
  BY <1>2 DEF r

LEMMA GoesSound ==
  ASSUME NEW k, SoundClimb(k), k.at # "over", NEW stage, stage # "over",
         stage \in EarlyRungs => k.at \in EarlyRungs
  PROVE  SoundClimb(Goes(k, stage))
<1> DEFINE r == Goes(k, stage)
<1>1. /\ IsClimb(r) /\ r.at = stage /\ r.queue = <<>> /\ r.answer = k.answer /\ r.result = k.result
      /\ r.pending = k.pending /\ r.delegations = k.delegations /\ r.trace = k.trace
  BY GoesFields, Zenon DEF SoundClimb
<1> HIDE DEF r
<1>2. SoundClimb(r)
  BY <1>1 DEF SoundClimb
<1> QED
  BY <1>2 DEF r

\* A call moves alone.
LEMMA ClimbMoves ==
  ASSUME LadderInv, NEW c \in Calls, NEW r, SoundClimb(r), Moves(c, r)
  PROVE  LadderInv'
<1>1. climb' = [climb EXCEPT ![c] = r] /\ climb = [d \in Calls |-> climb[d]]
  BY DEF Moves, LadderInv
<1>2. climb' = [d \in Calls |-> climb'[d]] /\ climb'[c] = r
      /\ \A d \in Calls : d # c => climb'[d] = climb[d]
  BY <1>1
<1>3. ASSUME NEW d \in Calls PROVE SoundClimb(climb[d])'
  <2>1. CASE d = c
    BY <1>2, <2>1 DEF SoundClimb, IsClimb
  <2>2. CASE d # c
    BY <1>2, <2>2 DEF SoundClimb, IsClimb, LadderInv
  <2> QED
    BY <2>1, <2>2
<1> QED
  BY <1>2, <1>3 DEF LadderInv

LEMMA ClimbLiteral ==
  ASSUME NEW at, NEW ref, NEW doi, NEW resolver, NEW queue, NEW attempt, NEW titled, NEW trace,
         NEW delegations, NEW landing, NEW pending, NEW result, NEW answer
  PROVE  IsClimb([at |-> at, ref |-> ref, doi |-> doi, resolver |-> resolver, queue |-> queue,
                  try |-> attempt, titled |-> titled, trace |-> trace, delegations |-> delegations,
                  landing |-> landing, pending |-> pending, result |-> result, answer |-> answer])
BY DEF IsClimb, ClimbFields

LEMMA NoCallSound ==
  ASSUME NEW at \in {"idle", "arxiv", "pmc"}, NEW ref, NEW doi
  PROVE  SoundClimb([NoCall EXCEPT !.at = at, !.ref = ref, !.doi = doi]) /\ SoundClimb(NoCall)
<1>1. IsClimb(NoCall)
  BY ClimbLiteral, Zenon DEF NoCall
<1>2. /\ NoCall.at = "idle" /\ NoCall.queue = <<>> /\ NoCall.answer = "none" /\ NoCall.result = "none"
      /\ NoCall.pending = FALSE /\ NoCall.delegations = 0
  BY DEF NoCall
<1>3. LET r == [NoCall EXCEPT !.at = at, !.ref = ref, !.doi = doi] IN
      /\ IsClimb(r) /\ r.at = at /\ r.queue = <<>> /\ r.answer = "none" /\ r.result = "none"
      /\ r.pending = FALSE /\ r.delegations = 0
  BY <1>1, <1>2 DEF IsClimb, ClimbFields
<1> QED
  BY <1>1, <1>2, <1>3 DEF SoundClimb

\* What a climb works on may change without a word about its answer.
LEMMA AsideSame ==
  ASSUME NEW k, SoundClimb(k), NEW queue, NEW attempt, NEW titled, NEW landing, NEW doi, NEW resolver
  PROVE  /\ SameClimb([k EXCEPT !.queue = queue], k) /\ SameClimb([k EXCEPT !.try = attempt], k)
         /\ SameClimb([k EXCEPT !.titled = titled], k) /\ SameClimb([k EXCEPT !.landing = landing], k)
         /\ SameClimb([k EXCEPT !.queue = queue, !.try = attempt], k)
         /\ SameClimb([k EXCEPT !.queue = queue, !.titled = titled], k)
         /\ SameClimb([k EXCEPT !.landing = landing, !.queue = queue], k)
         /\ SameClimb([k EXCEPT !.doi = doi, !.queue = queue], k)
         /\ SameClimb([k EXCEPT !.resolver = resolver, !.queue = queue], k)
<1>1. IsClimb(k)
  BY DEF SoundClimb
<1>2. SameClimb([k EXCEPT !.queue = queue], k) /\ SameClimb([k EXCEPT !.try = attempt], k)
  BY <1>1 DEF SameClimb, IsClimb, ClimbFields
<1>3. SameClimb([k EXCEPT !.titled = titled], k) /\ SameClimb([k EXCEPT !.landing = landing], k)
  BY <1>1 DEF SameClimb, IsClimb, ClimbFields
<1>4. SameClimb([k EXCEPT !.queue = queue, !.try = attempt], k)
  BY <1>1 DEF SameClimb, IsClimb, ClimbFields
<1>5. SameClimb([k EXCEPT !.queue = queue, !.titled = titled], k)
  BY <1>1 DEF SameClimb, IsClimb, ClimbFields
<1>6. SameClimb([k EXCEPT !.landing = landing, !.queue = queue], k)
  BY <1>1 DEF SameClimb, IsClimb, ClimbFields
<1>7. SameClimb([k EXCEPT !.doi = doi, !.queue = queue], k)
  BY <1>1 DEF SameClimb, IsClimb, ClimbFields
<1>8. SameClimb([k EXCEPT !.resolver = resolver, !.queue = queue], k)
  BY <1>1 DEF SameClimb, IsClimb, ClimbFields
<1> QED
  BY <1>2, <1>3, <1>4, <1>5, <1>6, <1>7, <1>8

LEMMA MarkedSound ==
  ASSUME NEW k, SoundClimb(k), k.at \notin {"idle", "over"}, NEW marks
  PROVE  SoundClimb(Marked(k, marks)) /\ Marked(k, marks).at = k.at
<1>1. SameClimb(Marked(k, marks), k)
  BY MarkedSame
<1> QED
  BY <1>1, StillSound DEF SameClimb

\* What was delegated ends the climb, or is marked and never delegated again.
LEMMA DelegatedSound ==
  ASSUME NEW k, SoundClimb(k), k.at \in {"landing", "last"}, k.delegations = 0,
         NEW then, SoundClimb(then), NEW answer, NEW bytes, NEW title
  PROVE  SoundClimb(Delegated(k, then, answer, bytes, title))
<1> DEFINE one == k.delegations + 1
           marked == Marked(k, {"delegated"})
           asked == [marked EXCEPT !.delegations = one]
           waiting == [asked EXCEPT !.pending = TRUE]
<1>0. IsClimb(k)
  BY Zenon DEF SoundClimb
<1>1. IsClimb(marked) /\ marked.result = k.result /\ marked.pending = k.pending
      /\ marked.delegations = k.delegations
  BY <1>0, MarkedFields, Zenon
<1>2. one = 1 /\ k.result = "none" /\ k.pending = FALSE
  BY DEF SoundClimb
<1>3. asked = [marked EXCEPT !.delegations = @ + 1]
  BY <1>1
<1> HIDE DEF marked, one
<1>4. IsClimb(asked) /\ asked.result = "none" /\ asked.pending = FALSE /\ asked.delegations = 1
  BY <1>1, <1>2 DEF IsClimb, ClimbFields
<1> HIDE DEF asked
<1>5. IsClimb(waiting) /\ waiting.result = "none" /\ waiting.pending = TRUE /\ waiting.delegations = 1
  BY <1>4 DEF IsClimb, ClimbFields
<1> HIDE DEF waiting
<1>6. SoundClimb(Ends(waiting, "pending"))
  <2> DEFINE r == Ends(waiting, "pending")
  <2>1. /\ IsClimb(r) /\ r.at = "over" /\ r.queue = <<>> /\ r.answer = "pending"
        /\ r.result = waiting.result /\ r.pending = waiting.pending /\ r.delegations = waiting.delegations
    BY <1>5, EndsFields, Zenon
  <2> HIDE DEF r
  <2>2. SoundClimb(r)
    BY <1>5, <2>1 DEF SoundClimb, EarlyRungs
  <2> QED
    BY <2>2 DEF r
<1>7. SoundClimb(Returns(asked, "own"))
  <2> DEFINE r == Returns(asked, "own")
  <2>1. /\ IsClimb(r) /\ r.at = "over" /\ r.queue = <<>> /\ r.answer = "found" /\ r.result = "own"
        /\ r.pending = asked.pending /\ r.delegations = asked.delegations
    BY <1>4, ReturnsFields, Zenon
  <2> HIDE DEF r
  <2>2. SoundClimb(r)
    BY <1>4, <2>1 DEF SoundClimb, EarlyRungs
  <2> QED
    BY <2>2 DEF r
<1>8. \/ Delegated(k, then, answer, bytes, title) = Ends(waiting, "pending")
      \/ Delegated(k, then, answer, bytes, title) = Returns(asked, "own")
      \/ Delegated(k, then, answer, bytes, title) = then
  BY <1>3 DEF Delegated, verifyPublishedCandidate, VerifyPublishedPDF, marked, waiting
<1> QED
  BY <1>6, <1>7, <1>8

\* tryCandidate accepts only what it has verified.
LEMMA TriedSound ==
  ASSUME NEW k, SoundClimb(k), k.at \notin {"idle", "over"}, NEW reply, NEW bytes, NEW title
  PROVE  SoundClimb(Tried(k, reply, bytes, title))
<1> DEFINE checked == [k EXCEPT !.titled = title]
           blamed == Marked(k, IF Challenges(reply) THEN {"challenge"} ELSE {})
<1>1. SoundClimb(checked) /\ checked.at = k.at
  <2>1. SameClimb(checked, k)
    BY AsideSame, Zenon
  <2> QED
    BY <2>1, StillSound DEF SameClimb
<1>2. SoundClimb(blamed) /\ blamed.at = k.at
  BY MarkedSound
<1> HIDE DEF checked, blamed
<1>3. SoundClimb(NextURL(checked)) /\ SoundClimb(NextURL(blamed))
  BY <1>1, <1>2, NextURLSame, StillSound
<1>4. SoundClimb(Returns(checked, "own"))
  BY <1>1, ReturnsSound
<1>5. \/ Tried(k, reply, bytes, title) = NextURL(checked)
      \/ Tried(k, reply, bytes, title) = NextURL(blamed)
      \/ Tried(k, reply, bytes, title) = Returns(checked, "own")
  BY DEF Tried, verifyPublishedCandidate, VerifyPublishedPDF, checked, blamed
<1> QED
  BY <1>3, <1>4, <1>5

\* The rungs before a paper is handed out.
LEMMA EarlySteps ==
  ASSUME LadderInv, NEW c \in Calls,
         \/ NoDOI(c) \/ AfterPMC(c) \/ NoEarlyDelegation(c) \/ \E ref \in Refs : Start(c, ref)
         \/ \E answer \in {<<>>} \cup Errors : tryArxiv(c, answer) \/ TryTwin(c, answer)
         \/ \E urls \in URLs \cup Errors :
               \/ AskResolver(c, urls) \/ MinePage(c, urls) \/ FetchLanding(c, urls)
               \/ \E found \in BOOLEAN : ResolvePMCID(c, found, urls)
         \/ \E n \in 0 .. MaxURLs : ResolversDone(c, n)
  PROVE  LadderInv'
<1> DEFINE k == climb[c]
<1>0. SoundClimb(k)
  BY DEF LadderInv
<1>1. CASE NoDOI(c)
  <2>1. k.at = "pmc"
    BY <1>1, Zenon DEF NoDOI, At
  <2>2. SoundClimb(Goes(k, "last"))
    BY <1>0, <2>1, GoesSound DEF EarlyRungs
  <2>3. SoundClimb(Ends(k, "no identity")) /\ SoundClimb(Ends(k, "no pdf"))
    BY <1>0, <2>1, EndsSound, Zenon
  <2>4. \E r : SoundClimb(r) /\ Moves(c, r)
    BY <1>1, <2>2, <2>3, Zenon DEF NoDOI
  <2> QED
    BY <2>4, ClimbMoves
<1>2. CASE AfterPMC(c)
  <2>1. k.at = "pmc"
    BY <1>2 DEF AfterPMC, At
  <2>2. SoundClimb(Goes(k, "twin")) /\ SoundClimb(Goes(k, "oa"))
    BY <1>0, <2>1, GoesSound DEF EarlyRungs
  <2> QED
    BY <1>2, <2>2, ClimbMoves DEF AfterPMC
<1>3. CASE NoEarlyDelegation(c)
  <2>1. SoundClimb(Goes(k, "browser")) /\ Moves(c, Goes(k, "browser"))
    BY <1>0, <1>3, GoesSound DEF NoEarlyDelegation, At, EarlyRungs
  <2> QED
    BY <2>1, ClimbMoves
<1>4. ASSUME NEW ref \in Refs, Start(c, ref) PROVE LadderInv'
  <2> DEFINE at == IF ref.arxiv THEN "arxiv" ELSE "pmc"
             r == [NoCall EXCEPT !.at = at, !.ref = ref, !.doi = ref.doi]
  <2>1. at \in {"idle", "arxiv", "pmc"} /\ Moves(c, r)
    BY <1>4, Zenon DEF Start
  <2> HIDE DEF at
  <2>2. SoundClimb(r)
    BY <2>1, NoCallSound, Zenon
  <2> QED
    BY <2>1, <2>2, ClimbMoves
<1>5. ASSUME NEW answer, NEW stage \in {"pmc", "oa"}, k.at \in {"arxiv", "twin"},
             Moves(c, IF answer = <<>> THEN Returns(k, "own") ELSE Goes(Marked(k, Blame(answer)), stage))
      PROVE  LadderInv'
  <2>1. SoundClimb(Returns(k, "own"))
    BY <1>0, <1>5, ReturnsSound
  <2>2. SoundClimb(Marked(k, Blame(answer))) /\ Marked(k, Blame(answer)).at = k.at
    BY <1>0, <1>5, MarkedSound
  <2>3. SoundClimb(Goes(Marked(k, Blame(answer)), stage))
    BY <1>5, <2>2, GoesSound DEF EarlyRungs
  <2> QED
    BY <1>5, <2>1, <2>3, ClimbMoves
<1>6. ASSUME NEW answer, tryArxiv(c, answer) \/ TryTwin(c, answer) PROVE LadderInv'
  BY <1>5, <1>6 DEF tryArxiv, TryTwin, At
<1>7. ASSUME NEW urls, AskResolver(c, urls) PROVE LadderInv'
  <2> DEFINE m == Marked(k, Blame(urls))
             resolver == m.resolver + 1
             queue == IF urls \in Errors THEN <<>> ELSE urls
             r == [m EXCEPT !.resolver = resolver, !.queue = queue]
  <2>0. k.at = "oa"
    BY <1>7, Zenon DEF AskResolver, At
  <2>1. SoundClimb(m) /\ m.at = k.at
    BY <1>0, <2>0, MarkedSound, Zenon
  <2>2. Moves(c, r)
    BY <1>7, Zenon DEF AskResolver
  <2> HIDE DEF m, resolver, queue
  <2>3. SameClimb(r, m)
    BY <2>1, AsideSame, Zenon
  <2>4. SoundClimb(r)
    BY <2>0, <2>1, <2>3, StillSound
  <2> QED
    BY <2>2, <2>4, ClimbMoves
<1>8. ASSUME NEW urls, MinePage(c, urls) PROVE LadderInv'
  <2> DEFINE queue == PDFs(Len(urls)) \o Tail(k.queue)
             r == [k EXCEPT !.queue = queue]
  <2>1. k.at = "oa"
    BY <1>8, Zenon DEF MinePage, At
  <2>2. \A marks : SoundClimb(NextURL(Marked(k, marks)))
    BY <1>0, <2>1, MarkedSound, NextURLSame, StillSound
  <2>3. Moves(c, r) \/ \E marks : Moves(c, NextURL(Marked(k, marks)))
    BY <1>8, Zenon DEF MinePage
  <2> HIDE DEF queue
  <2>4. SameClimb(r, k)
    BY <1>0, AsideSame, Zenon
  <2>5. SoundClimb(r)
    BY <1>0, <2>1, <2>4, StillSound
  <2> QED
    BY <2>2, <2>3, <2>5, ClimbMoves
<1>9. ASSUME NEW n, ResolversDone(c, n) PROVE LadderInv'
  <2> DEFINE g == Goes(k, "pattern")
             queue == PDFs(n)
             r == [g EXCEPT !.queue = queue]
  <2>1. Moves(c, r) /\ k.at = "oa"
    BY <1>9 DEF ResolversDone, At
  <2>2. SoundClimb(g) /\ g.at = "pattern"
    BY <1>0, <2>1, GoesSound, GoesFields DEF EarlyRungs, SoundClimb
  <2> HIDE DEF g, queue
  <2>3. SameClimb(r, g)
    BY <2>2, AsideSame, Zenon
  <2>4. SoundClimb(r)
    BY <2>2, <2>3, StillSound
  <2> QED
    BY <2>1, <2>4, ClimbMoves
<1>10. ASSUME NEW urls, FetchLanding(c, urls) PROVE LadderInv'
  <2> DEFINE g == Goes(k, "landing")
             m == Marked(g, {"no candidates"})
             queue == PDFs(Len(urls))
  <2>1. k.at = "pattern"
    BY <1>10, Zenon DEF FetchLanding, At
  <2>2. SoundClimb(g) /\ g.at = "landing"
    BY <1>0, <2>1, GoesSound, GoesFields DEF EarlyRungs, SoundClimb
  <2>3. \/ Moves(c, Marked(g, Blame(urls))) \/ Moves(c, [m EXCEPT !.landing = TRUE])
        \/ Moves(c, [g EXCEPT !.landing = TRUE, !.queue = queue])
    BY <1>10, Zenon DEF FetchLanding
  <2> HIDE DEF g, queue
  <2>4. SoundClimb(Marked(g, Blame(urls))) /\ SoundClimb(m) /\ m.at = g.at
    BY <2>2, MarkedSound, Zenon
  <2> HIDE DEF m
  <2>5. SameClimb([m EXCEPT !.landing = TRUE], m)
    BY <2>4, AsideSame, Zenon
  <2>6. SameClimb([g EXCEPT !.landing = TRUE, !.queue = queue], g)
    BY <2>2, AsideSame, Zenon
  <2>7. /\ SoundClimb([m EXCEPT !.landing = TRUE])
        /\ SoundClimb([g EXCEPT !.landing = TRUE, !.queue = queue])
    BY <2>2, <2>4, <2>5, <2>6, StillSound
  <2> QED
    BY <2>3, <2>4, <2>7, ClimbMoves
<1>11. ASSUME NEW found, NEW urls, ResolvePMCID(c, found, urls) PROVE LadderInv'
  <2> DEFINE doi == IF found THEN "doi" ELSE "resolved"
             queue == PDFs(Len(urls))
             r == [k EXCEPT !.doi = doi, !.queue = queue]
  <2>1. k.at = "pmc" /\ (Moves(c, r) \/ Moves(c, Ends(k, "no pdf")))
    BY <1>11, Zenon DEF ResolvePMCID, At
  <2> HIDE DEF doi, queue
  <2>2. SameClimb(r, k)
    BY <1>0, AsideSame, Zenon
  <2>3. k.at = "pmc"
    BY <2>1, Zenon
  <2>4. SoundClimb(r)
    BY <1>0, <2>2, <2>3, StillSound
  <2>5. SoundClimb(Ends(k, "no pdf"))
    BY <1>0, <2>3, EndsSound, Zenon
  <2>6. \E s : SoundClimb(s) /\ Moves(c, s)
    BY <2>1, <2>4, <2>5, Zenon
  <2> QED
    BY <2>6, ClimbMoves
<1> QED
  BY <1>1, <1>2, <1>3, <1>4, <1>6, <1>7, <1>8, <1>9, <1>10, <1>11

\* The candidates, the fleet, the browser and the agent.
LEMMA LateSteps ==
  ASSUME LadderInv, NEW c \in Calls,
         \/ LadderEnds(c) \/ BrowserDone(c) \/ AgentDone(c) \/ RobotsRefuse(c) \/ Cancel(c)
         \/ \E n : Extract(c, n) \/ OpenBrowser(c, n)
         \/ \E bytes, reply : tryCandidate(c, reply, bytes)
         \/ \E bytes, answer : DelegateEarly(c, answer, bytes) \/ DelegateLast(c, answer, bytes)
         \/ \E bytes, ok : TryBrowser(c, ok, bytes)
  PROVE  LadderInv'
<1> DEFINE k == climb[c]
<1>0. SoundClimb(k)
  BY DEF LadderInv
<1>1. CASE LadderEnds(c)
  <2>1. k.at = "last" /\ Moves(c, Ends(k, "no pdf"))
    BY <1>1, Zenon DEF LadderEnds, At
  <2>2. SoundClimb(Ends(k, "no pdf"))
    BY <1>0, <2>1, EndsSound, Zenon
  <2> QED
    BY <2>1, <2>2, ClimbMoves, Zenon
<1>2. CASE BrowserDone(c)
  <2>1. k.at = "browser" /\ Moves(c, Goes(k, "agent"))
    BY <1>2, Zenon DEF BrowserDone, At
  <2>2. SoundClimb(Goes(k, "agent"))
    BY <1>0, <2>1, GoesSound DEF EarlyRungs
  <2> QED
    BY <2>1, <2>2, ClimbMoves
<1>3. CASE AgentDone(c)
  <2>1. SoundClimb(Goes(k, "last")) /\ Moves(c, Goes(k, "last"))
    BY <1>0, <1>3, GoesSound DEF AgentDone, At, EarlyRungs
  <2> QED
    BY <2>1, ClimbMoves
<1>4. CASE RobotsRefuse(c)
  <2>1. k.at \notin {"idle", "over"} /\ Moves(c, NextURL(k))
    BY <1>0, <1>4 DEF RobotsRefuse, SoundClimb
  <2>2. SoundClimb(NextURL(k))
    BY <1>0, <2>1, NextURLSame, StillSound
  <2> QED
    BY <2>1, <2>2, ClimbMoves
<1>5. CASE Cancel(c)
  <2>1. SoundClimb(Ends(k, "no pdf")) /\ Moves(c, Ends(k, "no pdf"))
    BY <1>0, <1>5, EndsSound, Zenon DEF Cancel
  <2> QED
    BY <2>1, ClimbMoves, Zenon
<1>6. ASSUME NEW n, Extract(c, n) PROVE LadderInv'
  <2> DEFINE queue == PDFs(n)
             r == [k EXCEPT !.landing = FALSE, !.queue = queue]
  <2>1. k.at = "agent" /\ Moves(c, r)
    BY <1>6, Zenon DEF Extract, At
  <2> HIDE DEF queue
  <2>2. SameClimb(r, k)
    BY <1>0, AsideSame, Zenon
  <2>3. SoundClimb(r)
    BY <1>0, <2>1, <2>2, StillSound
  <2> QED
    BY <2>1, <2>3, ClimbMoves
<1>7. ASSUME NEW n, OpenBrowser(c, n) PROVE LadderInv'
  <2> DEFINE queue == PDFs(n)
             r == [k EXCEPT !.queue = queue, !.try = 1]
  <2>1. k.at = "browser" /\ Moves(c, r)
    BY <1>7, Zenon DEF OpenBrowser, At
  <2> HIDE DEF queue
  <2>2. SameClimb(r, k)
    BY <1>0, AsideSame, Zenon
  <2>3. SoundClimb(r)
    BY <1>0, <2>1, <2>2, StillSound
  <2> QED
    BY <2>1, <2>3, ClimbMoves
<1>8. ASSUME NEW bytes, NEW reply, tryCandidate(c, reply, bytes) PROVE LadderInv'
  <2> DEFINE attempt == k.try + 1
             r == [k EXCEPT !.try = attempt]
  <2>1. k.at \notin {"idle", "over"}
    BY <1>0, <1>8 DEF tryCandidate, SoundClimb
  <2>2. Moves(c, r) \/ \E title : Moves(c, Tried(k, reply, bytes, title))
    BY <1>8 DEF tryCandidate
  <2> HIDE DEF attempt
  <2>3. SameClimb(r, k)
    BY <1>0, AsideSame, Zenon
  <2>4. SoundClimb(r) /\ \A title : SoundClimb(Tried(k, reply, bytes, title))
    BY <1>0, <2>1, <2>3, StillSound, TriedSound
  <2> QED
    BY <2>2, <2>4, ClimbMoves
<1>9. ASSUME NEW bytes, NEW answer, DelegateEarly(c, answer, bytes) PROVE LadderInv'
  <2> DEFINE m == Marked(k, {"delegated"})
             one == m.delegations + 1
             asked == [m EXCEPT !.delegations = one]
             then == Goes(asked, "browser")
  <2>1. k.at = "landing" /\ \E title : Moves(c, Delegated(k, then, answer, bytes, title))
    BY <1>9 DEF DelegateEarly, At
  <2>2. /\ IsClimb(m) /\ m.at = k.at /\ m.queue = k.queue /\ m.answer = k.answer
        /\ m.result = k.result /\ m.pending = k.pending /\ m.delegations = k.delegations
        /\ m.trace = k.trace \cup {"delegated"}
    BY <1>0, MarkedFields, Zenon DEF SoundClimb
  <2>3. k.delegations = 0 /\ k.answer = "none" /\ k.result = "none" /\ k.pending = FALSE
    BY <1>0, <2>1 DEF SoundClimb, EarlyRungs
  <2>4. one = 1
    BY <2>2, <2>3
  <2> HIDE DEF m, one
  <2>5. /\ IsClimb(asked) /\ asked.answer = "none" /\ asked.result = "none" /\ asked.pending = FALSE
        /\ asked.delegations = 1 /\ "delegated" \in asked.trace
    BY <2>2, <2>3, <2>4 DEF IsClimb, ClimbFields
  <2> HIDE DEF asked
  <2>g. ASSUME NEW q, IsClimb(q)
        PROVE  LET r == Goes(q, "browser") IN
               /\ IsClimb(r) /\ r.at = "browser" /\ r.queue = <<>> /\ r.answer = q.answer
               /\ r.result = q.result /\ r.pending = q.pending /\ r.delegations = q.delegations
               /\ r.trace = q.trace
    BY <2>g, GoesFields
  <2>6. /\ IsClimb(then) /\ then.at = "browser" /\ then.queue = <<>> /\ then.answer = asked.answer
        /\ then.result = asked.result /\ then.pending = asked.pending
        /\ then.delegations = asked.delegations /\ then.trace = asked.trace
    BY <2>5, <2>g, Zenon
  <2> HIDE DEF then
  <2>7. SoundClimb(then)
    BY <2>5, <2>6 DEF SoundClimb, EarlyRungs
  <2>8. \A title : SoundClimb(Delegated(k, then, answer, bytes, title))
    BY <1>0, <2>1, <2>3, <2>7, DelegatedSound
  <2> QED
    BY <2>1, <2>8, ClimbMoves
<1>10. ASSUME NEW bytes, NEW answer, DelegateLast(c, answer, bytes) PROVE LadderInv'
  <2> DEFINE one == k.delegations + 1
             asked == [k EXCEPT !.delegations = one]
             then == Ends(asked, "no pdf")
  <2>1. k.at = "last" /\ "delegated" \notin k.trace
        /\ \E title : Moves(c, Delegated(k, then, answer, bytes, title))
    BY <1>10, Zenon DEF DelegateLast, At, MayDelegate
  <2>2. k.at = "last" /\ "delegated" \notin k.trace
    BY <2>1, Zenon
  <2>3. k.delegations = 0 /\ k.result = "none" /\ k.pending = FALSE /\ IsClimb(k)
    BY <1>0, <2>2 DEF SoundClimb
  <2>4. one = 1
    BY <2>3
  <2> HIDE DEF one
  <2>5. IsClimb(asked) /\ asked.result = "none" /\ asked.pending = FALSE /\ asked.delegations = 1
    BY <2>3, <2>4 DEF IsClimb, ClimbFields
  <2> HIDE DEF asked
  <2>6. /\ IsClimb(then) /\ then.at = "over" /\ then.queue = <<>> /\ then.answer = "no pdf"
        /\ then.result = asked.result /\ then.pending = asked.pending
        /\ then.delegations = asked.delegations
    BY <2>5, EndsFields, Zenon
  <2> HIDE DEF then
  <2>9. then.answer # "found"
    BY <2>6, Zenon
  <2>a. /\ IsClimb(then) /\ then.at = "over" /\ then.queue = <<>>
        /\ then.result = asked.result /\ then.pending = asked.pending
        /\ then.delegations = asked.delegations
    BY <2>6, Zenon
  <2>7. SoundClimb(then)
    BY <2>5, <2>9, <2>a DEF SoundClimb, EarlyRungs
  <2>8. \A title : SoundClimb(Delegated(k, then, answer, bytes, title))
    BY <1>0, <2>2, <2>3, <2>7, DelegatedSound
  <2> QED
    BY <2>1, <2>8, ClimbMoves
<1>11. ASSUME NEW bytes, NEW ok, TryBrowser(c, ok, bytes) PROVE LadderInv'
  <2>1. PICK title : Moves(c, IF ~ok THEN [k EXCEPT !.queue = Tail(@)]
                              ELSE IF verifyPublishedCandidate(bytes, title)
                              THEN Returns([k EXCEPT !.titled = title], bytes)
                              ELSE [k EXCEPT !.queue = Tail(@), !.titled = title])
    BY <1>11, Zenon DEF TryBrowser
  <2> DEFINE queue == Tail(k.queue)
             checked == [k EXCEPT !.titled = title]
             r == [k EXCEPT !.queue = queue]
             s == [k EXCEPT !.queue = queue, !.titled = title]
  <2>2. Moves(c, r) \/ Moves(c, Returns(checked, "own")) \/ Moves(c, s)
    BY <2>1 DEF verifyPublishedCandidate, VerifyPublishedPDF
  <2> HIDE DEF queue
  <2>3. SameClimb(r, k) /\ SameClimb(s, k) /\ SameClimb(checked, k)
    BY <1>0, AsideSame, Zenon
  <2>4. k.at = "browser"
    BY <1>11, Zenon DEF TryBrowser, At
  <2>5. SoundClimb(r) /\ SoundClimb(s) /\ SoundClimb(checked) /\ checked.at = k.at
    BY <1>0, <2>3, <2>4, StillSound DEF SameClimb
  <2> HIDE DEF checked, r, s
  <2>6. SoundClimb(Returns(checked, "own"))
    BY <2>4, <2>5, ReturnsSound
  <2> QED
    BY <2>2, <2>5, <2>6, ClimbMoves
<1> QED
  BY <1>1, <1>2, <1>3, <1>4, <1>5, <1>6, <1>7, <1>8, <1>9, <1>10, <1>11

LEMMA LadderInvInit == LadderInit => LadderInv
<1>1. SoundClimb(NoCall)
  <2>1. "idle" \in {"idle", "arxiv", "pmc"}
    OBVIOUS
  <2> QED
    BY <2>1, NoCallSound, Zenon
<1> QED
  BY <1>1 DEF LadderInit, LadderInv

LEMMA LadderInvNext == LadderInv /\ [LadderNext]_ladderVars => LadderInv'
<1> SUFFICES ASSUME LadderInv, [LadderNext]_ladderVars PROVE LadderInv'
  OBVIOUS
<1>1. ASSUME UNCHANGED climb PROVE LadderInv'
  BY <1>1 DEF LadderInv, SoundClimb, IsClimb
<1>2. CASE RobotsExpire \/ (\E rules \in RuleSets : FetchRobots(rules)) \/ UNCHANGED ladderVars
  BY <1>1, <1>2 DEF RobotsExpire, FetchRobots, ladderVars
<1> QED
  BY <1>2, EarlySteps, LateSteps DEF LadderNext

LEMMA LadderInvSuffices == LadderInv => LadderSound
<1> SUFFICES ASSUME LadderInv, NEW c \in Calls
             PROVE  /\ climb[c].result # "foreign"
                    /\ climb[c].answer = "found" <=> climb[c].result = "own"
                    /\ climb[c].delegations <= 1
                    /\ climb[c].pending => climb[c].answer = "pending"
  BY DEF LadderSound
<1>1. SoundClimb(climb[c])
  BY DEF LadderInv
<1> QED
  BY <1>1 DEF SoundClimb

\* Every climb returns the paper's own bytes or none, and hands the paper out
\* once at most (Downloader.FetchPDF and what it calls).
THEOREM LadderAlwaysSound == LadderSpec => []LadderSound
<1>1. LadderSpec => []LadderInv
  BY LadderInvInit, LadderInvNext, PTL DEF LadderSpec
<1> QED
  BY <1>1, LadderInvSuffices, PTL

-----------------------------------------------------------------------------
(* The conversation with MinerU.                                             *)

TalkFields == {"at", "key", "first", "origin", "carries", "hops"}
IsTalk(t) == t = [f \in TalkFields |-> t[f]]
Speaking == Steps \cup {"waiting"}
\* What OpenPackage has checked.
OneDocument ==
    extractMembers(package) /\ selectArtifact(package, "middle") /\ Named(package, "middle") # {}
\* A key in use is not put aside, so its fault is that of an earlier paper.
WireInv ==
    /\ IsTalk(talk)
    /\ talk.at \in Speaking => talk.key \in ApiKeys \ aside
    /\ shown \in [ApiKeys -> SUBSET {"base"}]
    /\ aside \in SUBSET ApiKeys
    /\ faults = [k \in ApiKeys |-> faults[k]]
    /\ \A k \in aside : faults[k] # "paper"
    /\ package \in Archives
    /\ talk.at \in {"persisting", "done"} => OneDocument

LEMMA SilentFields ==
  ASSUME NEW at
  PROVE  IsTalk(Silent(at)) /\ Silent(at).at = at
BY DEF Silent, Call, IsTalk, TalkFields

\* A request that carries the key to the API alone shows it to nobody else.
LEMMA SentSafe ==
  ASSUME WireInv, NEW request, Send(request), request.carries => request.origin = "base"
  PROVE  shown' \in [ApiKeys -> SUBSET {"base"}]
<1>1. shown \in [ApiKeys -> SUBSET {"base"}]
  BY DEF WireInv
<1>2. CASE request.carries
  BY <1>1, <1>2 DEF Send
<1>3. CASE ~request.carries
  BY <1>1, <1>3 DEF Send
<1> QED
  BY <1>2, <1>3

\* Steps of the talk alone.
LEMMA TalkMoves ==
  ASSUME WireInv, UNCHANGED <<aside, faults, package>>, IsTalk(talk)',
         shown' \in [ApiKeys -> SUBSET {"base"}],
         talk'.at \in Speaking => talk'.key \in ApiKeys \ aside,
         talk'.at \in {"persisting", "done"} => OneDocument
  PROVE  WireInv'
BY DEF WireInv, OneDocument

\* The talk falls silent: nothing is sent and no key is in use.
LEMMA FallsSilent ==
  ASSUME WireInv, UNCHANGED <<shown, aside, faults, package>>, NEW at, talk' = Silent(at),
         at \notin Speaking, at \in {"persisting", "done"} => OneDocument
  PROVE  WireInv'
<1>2. IsTalk(talk') /\ talk'.at = at
  BY SilentFields
<1>3. IsTalk(talk)'
  BY <1>2 DEF IsTalk
<1>4. shown' \in [ApiKeys -> SUBSET {"base"}]
  BY DEF WireInv
<1> QED
  BY <1>2, <1>3, <1>4, TalkMoves

\* The next request of the conversation.
LEMMA NextRequest ==
  ASSUME WireInv, UNCHANGED <<aside, faults, package>>, NEW step \in Speaking,
         NEW key \in ApiKeys \ aside, NEW origin, NEW carries, carries => origin = "base",
         Send(Call(step, key, origin, carries))
  PROVE  WireInv'
<1> DEFINE request == Call(step, key, origin, carries)
<1>1. IsTalk(request) /\ request.at = step /\ request.key = key /\ request.origin = origin
      /\ request.carries = carries
  BY DEF Call, IsTalk, TalkFields
<1>2. talk' = request
  BY DEF Send
<1> HIDE DEF request
<1>3. IsTalk(talk)'
  BY <1>1, <1>2 DEF IsTalk
<1>4. request.carries => request.origin = "base"
  BY <1>1
<1>5. shown' \in [ApiKeys -> SUBSET {"base"}]
  BY <1>4, SentSafe DEF request
<1>6. step \notin {"persisting", "done"}
  BY DEF Speaking, Steps
<1> QED
  BY <1>1, <1>2, <1>3, <1>5, <1>6, TalkMoves

\* No problem of a paper's is taken for a daily limit.
LEMMA PaperIsNoLimit ==
  ASSUME NEW p \in Problems, classifyV1Error(p) = "daily"
  PROVE  p.fault # "paper"
<1> SUFFICES ASSUME p.fault = "paper" PROVE FALSE
  OBVIOUS
<1>1. /\ p.code \in {"none", "fatal", "file_too_large", "other"} /\ "paper" \in p.text
      /\ p.status \in {200, 400, 500}
  BY DEF Problems
<1>2. p.status \notin {429, 401, 403}
  BY <1>1
<1>3. classifyAPIError(p) = "fatal"
  BY <1>1, <1>2 DEF classifyAPIError, NumericCodes
<1>4. classifyV1Error(p) = "fatal"
  BY <1>1, <1>3, Zenon DEF classifyV1Error
<1> QED
  BY <1>4

LEMMA WireInvInit == WireInit => WireInv
<1> SUFFICES ASSUME WireInit PROVE WireInv
  OBVIOUS
<1>2. IsTalk(talk) /\ talk.at = "idle"
  BY SilentFields DEF WireInit
<1>3. package \in Archives
  <2>1. package = <<>> /\ MaxEntries \in Nat
    BY WireConfig DEF WireInit
  <2>2. <<>> \in [1 .. 0 -> [path : ArchivePaths, dir : BOOLEAN]]
    OBVIOUS
  <2> QED
    BY <2>1, <2>2 DEF Archives, BoundedSeq, SeqOf
<1>4. shown \in [ApiKeys -> SUBSET {"base"}] /\ aside = {} /\ faults = [k \in ApiKeys |-> faults[k]]
  BY DEF WireInit
<1> QED
  BY <1>2, <1>3, <1>4 DEF WireInv, Speaking, Steps

LEMMA WireInvNext == WireInv /\ [WireNext]_wireVars => WireInv'
<1> SUFFICES ASSUME WireInv, [WireNext]_wireVars PROVE WireInv'
  OBVIOUS
<1>0. /\ talk.at \in Speaking => talk.key \in ApiKeys \ aside
      /\ aside \in SUBSET ApiKeys /\ faults = [k \in ApiKeys |-> faults[k]]
      /\ shown \in [ApiKeys -> SUBSET {"base"}] /\ IsTalk(talk)
  BY DEF WireInv
<1>s. /\ Steps \subseteq Speaking /\ Speaking \cap {"idle", "failed", "retryable", "exhausted", "opening",
                                                     "persisting", "done"} = {}
  BY DEF Steps, Speaking
<1>1. CASE UNCHANGED wireVars
  BY <1>1 DEF wireVars, WireInv, IsTalk, OneDocument
<1>2. ASSUME NEW at \in {"failed", "retryable", "exhausted"}, talk' = Silent(at),
             UNCHANGED <<shown, aside, faults, package>>
      PROVE  WireInv'
  BY <1>2, <1>s, FallsSilent
<1>3. CASE Malformed \/ Broken \/ AllExhausted
  BY <1>2, <1>3 DEF Malformed, Broken, AllExhausted
<1>4. ASSUME NEW step \in Speaking, NEW key \in ApiKeys \ aside, ToBase(step, key),
             UNCHANGED <<aside, faults, package>>
      PROVE  WireInv'
  BY <1>4, NextRequest DEF ToBase
<1>5. CASE UploadKnown \/ UploadPut \/ UploadCompleted \/ GetV1Job \/ JobCompleted
  <2>1. talk.at \in Speaking /\ UNCHANGED <<aside, faults, package>>
    BY <1>5 DEF UploadKnown, UploadPut, UploadCompleted, GetV1Job, JobCompleted, Speaking, Steps
  <2>2. \E step \in Speaking : ToBase(step, talk.key)
    BY <1>5 DEF UploadKnown, UploadPut, UploadCompleted, GetV1Job, JobCompleted, Speaking, Steps
  <2> QED
    BY <1>0, <1>4, <2>1, <2>2
<1>6. CASE JobRunning
  <2> DEFINE s == Silent("waiting")
             t == [s EXCEPT !.key = talk.key]
  <2>1. talk.at \in Speaking /\ talk' = t /\ UNCHANGED <<shown, aside, faults, package>>
    BY <1>6 DEF JobRunning, Speaking, Steps
  <2>2. IsTalk(s) /\ s.at = "waiting"
    BY SilentFields
  <2> HIDE DEF s
  <2>3. IsTalk(t) /\ t.at = "waiting" /\ t.key = talk.key
    BY <2>2 DEF IsTalk, TalkFields
  <2> HIDE DEF t
  <2>4. IsTalk(talk)'
    BY <2>1, <2>3 DEF IsTalk
  <2> QED
    BY <1>0, <2>1, <2>3, <2>4, TalkMoves
<1>7. ASSUME NEW k \in ApiKeys, AcquireKey(k) PROVE WireInv'
  BY <1>4, <1>7 DEF AcquireKey, Speaking, Steps
<1>8. ASSUME NEW p \in Problems, Refused(p) PROVE WireInv'
  <2> DEFINE v == classifyV1Error(p)
  <2>1. /\ talk.at \in Speaking /\ faults' = [faults EXCEPT ![talk.key] = p.fault]
        /\ UNCHANGED <<shown, package>>
    BY <1>8, <1>s DEF Refused
  <2>2. PICK at \in {"idle", "failed", "retryable"} : talk' = Silent(at)
    BY <1>8 DEF Refused
  <2>3. \/ v = "daily" /\ aside' = aside \cup {talk.key}
        \/ aside' = aside
    BY <1>8 DEF Refused
  <2>4. v = "daily" => p.fault # "paper"
    BY PaperIsNoLimit
  <2> HIDE DEF v
  <2>5. talk.key \in ApiKeys \ aside
    BY <1>0, <2>1
  <2>6. faults' = [k \in ApiKeys |-> faults'[k]] /\ faults'[talk.key] = p.fault
        /\ \A k \in ApiKeys : k # talk.key => faults'[k] = faults[k]
    BY <1>0, <2>1, <2>5
  <2>7. aside' \in SUBSET ApiKeys /\ \A k \in aside' : faults'[k] # "paper"
    BY <1>0, <2>3, <2>4, <2>5, <2>6 DEF WireInv
  <2>8. IsTalk(talk)' /\ talk'.at = at
    <3>1. IsTalk(talk') /\ talk'.at = at
      BY <2>2, SilentFields
    <3> QED
      BY <3>1 DEF IsTalk
  <2>9. talk'.at \notin Speaking \cup {"persisting", "done"}
    BY <2>8 DEF Speaking, Steps
  <2> QED
    BY <1>0, <2>1, <2>6, <2>7, <2>8, <2>9 DEF WireInv
<1>9. ASSUME NEW to \in Origins, Redirected(to) PROVE WireInv'
  <2> DEFINE carries == talk.first = "base" /\ doV1(to)
             hops == talk.hops + 1
             t == [talk EXCEPT !.origin = to, !.carries = carries, !.hops = hops]
  <2>1. Send(t) /\ talk.at \in Steps /\ UNCHANGED <<aside, faults, package>>
    BY <1>9 DEF Redirected
  <2>2. carries => to = "base"
    BY DEF doV1, sameOrigin
  <2> HIDE DEF carries, hops
  <2>3. IsTalk(t) /\ t.at = talk.at /\ t.key = talk.key /\ t.origin = to /\ t.carries = carries
    BY <1>0 DEF IsTalk, TalkFields
  <2> HIDE DEF t
  <2>4. shown' \in [ApiKeys -> SUBSET {"base"}]
    BY <2>1, <2>2, <2>3, SentSafe
  <2>5. talk' = t
    BY <2>1 DEF Send
  <2>6. IsTalk(talk)'
    BY <2>3, <2>5 DEF IsTalk
  <2>7. talk'.at \in Speaking /\ talk'.at \notin {"persisting", "done"} /\ talk'.key \in ApiKeys \ aside
    BY <1>0, <1>s, <2>1, <2>3, <2>5
  <2> QED
    BY <2>1, <2>4, <2>6, <2>7, TalkMoves
<1>10. ASSUME NEW to \in Origins, UploadV1(to) PROVE WireInv'
  <2> DEFINE carries == sameOrigin("base", to)
  <2>1. talk.at \in Speaking /\ "put" \in Speaking /\ UNCHANGED <<aside, faults, package>>
        /\ Send(Call("put", talk.key, to, carries))
    BY <1>10 DEF UploadV1, Speaking, Steps
  <2>2. carries => to = "base"
    BY DEF sameOrigin
  <2> HIDE DEF carries
  <2>3. talk.key \in ApiKeys \ aside
    BY <1>0, <2>1
  <2> QED
    BY <2>1, <2>2, <2>3, NextRequest
<1>11. ASSUME NEW archive \in Archives, FetchV1Result(archive) PROVE WireInv'
  <2>1. talk' = Silent("opening") /\ package' = archive /\ UNCHANGED <<shown, aside, faults>>
    BY <1>11 DEF FetchV1Result
  <2>2. IsTalk(talk)' /\ talk'.at = "opening"
    <3>1. IsTalk(talk') /\ talk'.at = "opening"
      BY <2>1, SilentFields
    <3> QED
      BY <3>1 DEF IsTalk
  <2> QED
    BY <1>s, <2>1, <2>2 DEF WireInv
<1>12. ASSUME NEW ok \in BOOLEAN, OpenPackage(ok) PROVE WireInv'
  <2>1. CASE ExtractPackage(package, ok)
    <3>1. talk' = Silent("persisting") /\ UNCHANGED <<shown, aside, faults, package>> /\ OneDocument
      BY <1>12, <2>1 DEF OpenPackage, ExtractPackage, OneDocument, resultFromMembers
    <3> QED
      BY <1>s, <3>1, FallsSilent
  <2>2. CASE ~ExtractPackage(package, ok)
    BY <1>2, <1>12, <2>2 DEF OpenPackage
  <2> QED
    BY <2>1, <2>2
<1>13. ASSUME NEW ok \in BOOLEAN, Persist(ok) PROVE WireInv'
  <2>1. OneDocument /\ UNCHANGED <<shown, aside, faults, package>>
    BY <1>13 DEF Persist, WireInv
  <2>2. talk' = Silent("done") \/ talk' = Silent("retryable")
    BY <1>13 DEF Persist
  <2> QED
    BY <1>s, <2>1, <2>2, FallsSilent
<1> QED
  BY <1>1, <1>3, <1>5, <1>6, <1>7, <1>8, <1>9, <1>10, <1>11, <1>12, <1>13 DEF WireNext

\* A path that is a strict prefix of another is that one's parent directory.
LEMMA PrefixIsParent ==
  ASSUME NEW p \in Seq(STRING), NEW q \in Seq(STRING), p # <<>>, IsStrictPrefix(p, q)
  PROVE  Len(p) \in 1 .. Len(q) - 1 /\ SubSeq(q, 1, Len(p)) = p
<1>1. Len(p) <= Len(q) /\ SubSeq(p, 1, Len(p)) = SubSeq(q, 1, Len(p)) /\ p # q
  BY DEF IsStrictPrefix, IsPrefix
<1>2. SubSeq(p, 1, Len(p)) = p /\ SubSeq(q, 1, Len(q)) = q /\ Len(p) \in Nat /\ Len(q) \in Nat /\ Len(p) >= 1
  OBVIOUS
<1> QED
  BY <1>1, <1>2

\* The members of an archive that are files, and they are finitely many.
LEMMA FilesOfArchive ==
  ASSUME NEW archive \in Archives
  PROVE  /\ \A p \in Files(archive) : p \in Seq(STRING) /\ p # <<>>
         /\ IsFiniteSet(Files(archive))
<1>1. PICK n \in 0 .. MaxEntries : archive \in [1 .. n -> [path : ArchivePaths, dir : BOOLEAN]]
  BY DEF Archives, BoundedSeq, SeqOf
<1>2. Files(archive) = {archive[i].path : i \in {j \in 1 .. n : ~archive[j].dir}}
  BY <1>1 DEF Files, Range
<1>3. \A p \in Files(archive) : p \in Seq(STRING) /\ p # <<>>
  BY <1>1, <1>2, WireConfig
<1>4. IsFiniteSet(Files(archive))
  <2> DEFINE S == {j \in 1 .. n : ~archive[j].dir}
             f == [i \in S |-> archive[i].path]
  <2>1. f \in Surjection(S, Files(archive))
    BY <1>2 DEF Surjection
  <2>2. n \in Int /\ IsFiniteSet(1 .. n)
    BY <1>1, WireConfig, FS_Interval
  <2>3. IsFiniteSet(S)
    BY <2>2, FS_Subset
  <2> HIDE DEF S, f
  <2> QED
    BY <2>1, <2>3, FS_Surjection
<1> QED
  BY <1>3, <1>4

LEMMA WireInvSuffices == WireInv => WireSafe
<1> SUFFICES ASSUME WireInv PROVE WireSafe
  OBVIOUS
<1>1. \A k \in ApiKeys : shown[k] \subseteq {"base"}
  BY DEF WireInv
<1>2. \A k \in aside : faults[k] # "paper"
  BY DEF WireInv
<1>3. ASSUME talk.at \in {"persisting", "done"}, NEW p \in Files(package), NEW q \in Files(package)
      PROVE  ~IsStrictPrefix(p, q)
  <2> SUFFICES ASSUME IsStrictPrefix(p, q) PROVE FALSE
    OBVIOUS
  <2>1. package \in Archives /\ extractMembers(package)
    BY <1>3 DEF WireInv, OneDocument
  <2>2. Len(p) \in 1 .. Len(q) - 1 /\ SubSeq(q, 1, Len(p)) = p
    BY <2>1, FilesOfArchive, PrefixIsParent
  <2>3. PICK e \in Range(package) : e.path = q
    BY DEF Files
  <2>4. SubSeq(q, 1, Len(p)) \notin Files(package)
    BY <2>1, <2>2, <2>3 DEF extractMembers
  <2> QED
    BY <2>2, <2>4
<1>4. ASSUME talk.at \in {"persisting", "done"}
      PROVE  \E m \in Files(package) : Named(package, "middle") = {m}
  <2> DEFINE N == Named(package, "middle")
  <2>1. package \in Archives /\ Cardinality(N) <= 1 /\ N # {}
    BY <1>4 DEF WireInv, OneDocument, selectArtifact
  <2>2. N \in SUBSET Files(package)
    BY DEF Named
  <2> HIDE DEF N
  <2>3. IsFiniteSet(N)
    BY <2>1, <2>2, FilesOfArchive, FS_Subset
  <2>4. Cardinality(N) \in Nat /\ Cardinality(N) # 0
    BY <2>1, <2>3, FS_CardinalityType, FS_EmptySet
  <2>5. Cardinality(N) = 1
    BY <2>1, <2>4
  <2>6. PICK m : N = {m}
    BY <2>3, <2>5, FS_Singleton
  <2> QED
    BY <2>2, <2>6 DEF N
<1> QED
  BY <1>1, <1>2, <1>3, <1>4 DEF WireSafe

\* Redirects and upload targets show a key to the API alone, no paper's fault
\* puts a key aside, and a package that is kept is one tree with one document
\* (doV1, UploadV1, classifyV1Error, ExtractPackage).
THEOREM WireAlwaysSafe == WireSpec => []WireSafe
<1>1. WireSpec => []WireInv
  BY WireInvInit, WireInvNext, PTL DEF WireSpec
<1> QED
  BY <1>1, WireInvSuffices, PTL

-----------------------------------------------------------------------------
(* The arXiv client.                                                         *)

AnswerSet == ArxivReplies \cup {NoReply}
SentRecord == [at : Nat, by : Fetching, reply : AnswerSet]
JobFields == {"at", "op", "attempt", "until", "ans"}
IsJob(k) ==
    /\ k = [f \in JobFields |-> k[f]]
    /\ k.at \in {"idle", "limit", "http", "backoff", "done"} /\ k.attempt \in Nat
    /\ k.at # "done" => k.ans = "none"
\* An answer after which a caller may ask again, and the wait it asks for.
NotFinal(q) == q.reply.status # "404" /\ (q.reply.status = "200" => q.reply.body = "cut")
Due(q) == q.at + parseRetryAfter(q.reply)
\* The tokens left bound what may still be sent, from every request on.
TokensInv ==
    /\ bucket \in 0 .. Burst /\ fetchTime \in Nat /\ sent \in Seq(SentRecord)
    /\ \A j \in DOMAIN sent :
          /\ sent[j].at <= fetchTime
          /\ Len(sent) - j + 1 + bucket <= Burst + Rps * (fetchTime - sent[j].at)
    /\ \A j, k \in DOMAIN sent : j <= k => k - j + 1 <= Burst + Rps * (sent[k].at - sent[j].at)
\* How many requests a caller has made, by where its call is.
Made(k, n) ==
    /\ k.at = "idle" => n = 0
    /\ k.at = "limit" => n = k.attempt - 1 /\ k.attempt <= RetryMax + 1
    /\ k.at = "http" => n = k.attempt /\ k.attempt <= RetryMax + 1
    /\ k.at = "backoff" => n = k.attempt /\ k.attempt <= RetryMax
    /\ k.at = "done" => n <= RetryMax + 1
\* A call that pauses or waits for the limiter has heard nothing final, and
\* goes on only after every time it was told to wait for.
CallerInv(c) ==
    /\ IsJob(job[c])
    /\ By(c) # {} => LastBy(c) \in By(c) /\ \A j \in By(c) : j <= LastBy(c)
    /\ Made(job[c], Cardinality(By(c)))
    /\ \A j, k \in By(c) : j < k => NotFinal(sent[j]) /\ sent[k].at >= Due(sent[j])
    /\ job[c].at = "http" => By(c) # {}
    /\ job[c].at \in {"limit", "backoff"} => \A j \in By(c) : NotFinal(sent[j])
    /\ job[c].at = "limit" => \A j \in By(c) : fetchTime >= Due(sent[j])
    /\ job[c].at = "backoff" => \A j \in By(c) :
          fetchTime >= Due(sent[j]) \/ (job[c].until \in Int /\ job[c].until >= Due(sent[j]))
    /\ job[c].op = "fetch" /\ job[c].ans = "ok" => /\ By(c) # {} /\ sent[LastBy(c)].reply.status = "200"
                                                  /\ sent[LastBy(c)].reply.body = "pdf"
ArxivInv ==
    /\ TokensInv
    /\ job = [c \in Fetching |-> job[c]]
    /\ \A c \in Fetching : CallerInv(c)

LEMMA ArxivNumbers ==
  /\ Rps \in Nat /\ Burst \in Nat /\ RetryMax \in Nat /\ MaxTime \in Nat /\ Burst >= 1
BY ArxivConfig

LEMMA SentFields ==
  ASSUME NEW q \in SentRecord
  PROVE  /\ q.at \in Nat /\ q.by \in Fetching /\ q.reply \in AnswerSet
         /\ Due(q) \in Int /\ Due(q) >= q.at
<1>1. /\ q.at \in Nat /\ q.by \in Fetching /\ q.reply \in AnswerSet
  BY DEF SentRecord
<1>2. q.reply.retryAfter \in Int
  BY <1>1, ArxivConfig DEF AnswerSet, NoReply
<1>3. parseRetryAfter(q.reply) \in Nat
  BY <1>2 DEF parseRetryAfter
<1> QED
  BY <1>1, <1>3 DEF Due

\* Adding to one factor.
LEMMA RpsOver ==
  ASSUME NEW x \in Int
  PROVE  Rps * x \in Int /\ Rps * (x + 1) = Rps * x + Rps
BY ArxivNumbers

\* A request takes a token; so there was one.
LEMMA TokensSend ==
  ASSUME TokensInv, NEW c \in Fetching, TakesToken(c), UNCHANGED fetchTime,
         sent' = Append(sent, [at |-> fetchTime, by |-> c, reply |-> NoReply])
  PROVE  TokensInv'
<1> DEFINE q == [at |-> fetchTime, by |-> c, reply |-> NoReply]
<1>1. /\ fetchTime \in Nat /\ sent \in Seq(SentRecord) /\ bucket \in 1 .. Burst /\ bucket' = bucket - 1
      /\ Len(sent) \in Nat
  BY ArxivNumbers DEF TokensInv, TakesToken
<1>2. q \in SentRecord /\ q.at = fetchTime
  BY <1>1 DEF SentRecord, AnswerSet
<1>3. PICK n \in Nat : n = Len(sent)
  BY <1>1
<1>n. fetchTime \in Nat /\ bucket \in Nat /\ bucket > 0
  BY <1>1, ArxivNumbers
<1> HIDE DEF q
<1>4. /\ sent' \in Seq(SentRecord) /\ Len(sent') = n + 1 /\ DOMAIN sent' = 1 .. n + 1
      /\ DOMAIN sent = 1 .. n /\ \A j \in 1 .. n : sent'[j] = sent[j]
      /\ sent'[n + 1] = q
  BY <1>1, <1>2, <1>3 DEF q
<1>5. \A j \in 1 .. n : sent[j].at \in Nat
  BY <1>1, <1>4, SentFields
<1>6. ASSUME NEW j \in 1 .. n + 1
      PROVE  /\ sent'[j].at <= fetchTime
             /\ n + 1 - j + 1 + bucket - 1 <= Burst + Rps * (fetchTime - sent'[j].at)
  <2>1. CASE j = n + 1
    <3>1. fetchTime - sent'[j].at = 0 /\ Rps * 0 = 0
      BY <2>1, <1>1, <1>2, <1>4, ArxivNumbers
    <3> QED
      BY <2>1, <3>1, <1>1, <1>2, <1>4, ArxivNumbers
  <2>2. CASE j \in 1 .. n
    <3>1. sent[j].at <= fetchTime /\ n - j + 1 + bucket <= Burst + Rps * (fetchTime - sent[j].at)
      BY <2>2, <1>3, <1>4 DEF TokensInv
    <3>2. fetchTime - sent[j].at \in Int
      BY <2>2, <1>1, <1>5
    <3>3. Rps * (fetchTime - sent[j].at) \in Int
      BY <3>2, RpsOver, Zenon
    <3> QED
      BY <2>2, <3>1, <3>3, <1>1, <1>4, ArxivNumbers
  <2> QED
    BY <2>1, <2>2, <1>3
<1>7. ASSUME NEW j \in 1 .. n + 1, NEW k \in 1 .. n + 1, j <= k
      PROVE  k - j + 1 <= Burst + Rps * (sent'[k].at - sent'[j].at)
  <2>1. CASE k \in 1 .. n
    <3>1. j \in 1 .. n
      BY <1>3, <2>1, <1>7
    <3>2. k - j + 1 <= Burst + Rps * (sent[k].at - sent[j].at)
      BY <2>1, <3>1, <1>4, <1>7 DEF TokensInv
    <3> QED
      BY <2>1, <3>1, <3>2, <1>4
  <2>2. CASE k = n + 1
    <3>1. sent'[k].at = fetchTime
      BY <2>2, <1>2, <1>4
    <3>2. n + 1 - j + 1 + bucket - 1 <= Burst + Rps * (fetchTime - sent'[j].at)
      BY <1>6
    <3>3. PICK a \in Nat : a = sent'[j].at
      BY <1>1, <1>2, <1>4, <1>5
    <3>4. PICK x \in Int : x = fetchTime - a
      BY <1>n
    <3>5. PICK y \in Int : y = Rps * (fetchTime - sent'[j].at)
      BY <3>3, <3>4, RpsOver, Zenon
    <3>6. n + 1 - j + 1 + bucket - 1 <= Burst + y
      BY <3>2, <3>5
    <3>7. k - j + 1 <= Burst + y
      BY <2>2, <3>6, <1>n, ArxivNumbers
    <3> QED
      BY <3>1, <3>5, <3>7
  <2> QED
    BY <2>1, <2>2, <1>3
<1>8. bucket' \in 0 .. Burst /\ fetchTime' \in Nat
  BY <1>1, ArxivNumbers
<1>9. \A j \in DOMAIN sent' : /\ sent'[j].at <= fetchTime'
                              /\ Len(sent') - j + 1 + bucket' <= Burst + Rps * (fetchTime' - sent'[j].at)
  <2> SUFFICES ASSUME NEW j \in 1 .. n + 1
               PROVE  /\ sent'[j].at <= fetchTime
                      /\ (n + 1) - j + 1 + (bucket - 1) <= Burst + Rps * (fetchTime - sent'[j].at)
    BY <1>1, <1>4
  <2> QED
    BY <1>6, <1>1, <1>3
<1>10. \A j, k \in DOMAIN sent' : j <= k => k - j + 1 <= Burst + Rps * (sent'[k].at - sent'[j].at)
  BY <1>4, <1>7
<1> QED
  BY <1>4, <1>8, <1>9, <1>10 DEF TokensInv

LEMMA TokensTick ==
  ASSUME TokensInv, ArxivTick
  PROVE  TokensInv'
<1>1. /\ fetchTime \in Nat /\ sent \in Seq(SentRecord) /\ bucket \in 0 .. Burst /\ Len(sent) \in Nat
      /\ fetchTime' = fetchTime + 1 /\ sent' = sent /\ bucket' <= bucket + Rps /\ bucket' \in 0 .. Burst
  BY ArxivNumbers DEF TokensInv, ArxivTick
<1>n. /\ fetchTime \in Nat /\ bucket \in Nat /\ Len(sent) \in Nat /\ bucket' \in Nat
      /\ bucket' <= bucket + Rps
  BY <1>1, ArxivNumbers
<1>2. ASSUME NEW j \in DOMAIN sent
      PROVE  /\ sent[j].at <= fetchTime + 1
             /\ Len(sent) - j + 1 + bucket' <= Burst + Rps * ((fetchTime + 1) - sent[j].at)
  <2>1. sent[j].at \in Nat /\ j \in Int
    BY <1>1, SentFields
  <2>a. PICK a \in Nat : a = sent[j].at
    BY <2>1
  <2>2. a <= fetchTime /\ Len(sent) - j + 1 + bucket <= Burst + Rps * (fetchTime - a)
    BY <2>a DEF TokensInv
  <2>3. PICK x \in Int : x = fetchTime - a
    BY <1>n
  <2>4. (fetchTime + 1) - a = x + 1
    BY <1>n, <2>3
  <2>5. PICK y \in Int : y = Rps * x /\ Rps * (x + 1) = y + Rps
    BY RpsOver
  <2>6. Len(sent) - j + 1 + bucket <= Burst + y
    BY <2>2, <2>3, <2>5
  <2>7. Len(sent) - j + 1 + bucket' <= Burst + (y + Rps)
    <3>1. PICK n \in Int, b \in Int, c2 \in Int, i \in Int :
             n = Len(sent) /\ b = bucket /\ c2 = bucket' /\ i = j
      BY <1>n, <2>1
    <3>2. n - i + 1 + b <= Burst + y /\ c2 <= b + Rps
      BY <2>6, <3>1, <1>n
    <3>3. n - i + 1 + c2 <= Burst + (y + Rps)
      BY <3>2, ArxivNumbers
    <3> QED
      BY <3>1, <3>3
  <2>8. a <= fetchTime + 1
    BY <1>n, <2>2
  <2> QED
    BY <2>a, <2>4, <2>5, <2>7, <2>8
<1>3. fetchTime' \in Nat
  BY <1>1
<1> DEFINE Kept(s, t) == \A j \in DOMAIN s :
             s[j].at <= t /\ Len(s) - j + 1 + bucket' <= Burst + Rps * (t - s[j].at)
<1>k. Kept(sent, fetchTime + 1)
  BY <1>2
<1> HIDE DEF Kept
<1>e. sent' = sent /\ fetchTime' = fetchTime + 1
  BY <1>1
<1>4. Kept(sent', fetchTime')
  BY <1>k, <1>e, Zenon
<1>5. \A j, k \in DOMAIN sent' : j <= k => k - j + 1 <= Burst + Rps * (sent'[k].at - sent'[j].at)
  BY <1>1 DEF TokensInv
<1> QED
  BY <1>1, <1>3, <1>4, <1>5, Zenon DEF TokensInv, Kept

\* An answer changes no time.
LEMMA TokensAnswer ==
  ASSUME TokensInv, NEW l, NEW r \in AnswerSet, UNCHANGED <<bucket, fetchTime>>,
         sent' = [k \in DOMAIN sent |-> IF k = l THEN [sent[k] EXCEPT !.reply = r] ELSE sent[k]]
  PROVE  /\ TokensInv' /\ Len(sent') = Len(sent) /\ DOMAIN sent' = DOMAIN sent
         /\ \A k \in DOMAIN sent : sent'[k].at = sent[k].at /\ sent'[k].by = sent[k].by
<1>1. PICK n \in Nat : n = Len(sent) /\ sent \in Seq(SentRecord) /\ DOMAIN sent = 1 .. n
  BY DEF TokensInv
<1>2. ASSUME NEW k \in 1 .. n
      PROVE  sent'[k] \in SentRecord /\ sent'[k].at = sent[k].at /\ sent'[k].by = sent[k].by
  <2>1. sent[k] \in SentRecord
    BY <1>1
  <2>2. [sent[k] EXCEPT !.reply = r] \in SentRecord
    BY <2>1 DEF SentRecord
  <2> QED
    BY <1>1, <2>1, <2>2 DEF SentRecord
<1>3. sent' = [k \in 1 .. n |-> sent'[k]] /\ sent' \in Seq(SentRecord)
  BY <1>1, <1>2
<1>4. Len(sent') = n /\ DOMAIN sent' = 1 .. n
  BY <1>1, <1>3
<1> QED
  BY <1>1, <1>2, <1>3, <1>4 DEF TokensInv

LEMMA ByFinite ==
  ASSUME TokensInv, NEW c
  PROVE  /\ IsFiniteSet(By(c)) /\ Cardinality(By(c)) \in Nat /\ (Cardinality(By(c)) = 0 => By(c) = {})
         /\ By(c) \subseteq DOMAIN sent
         /\ \A j \in By(c) : j \in Nat /\ sent[j] \in SentRecord
<1>1. PICK n \in Nat : n = Len(sent) /\ DOMAIN sent = 1 .. n /\ sent \in Seq(SentRecord)
  BY DEF TokensInv
<1>2. IsFiniteSet(1 .. n) /\ By(c) \subseteq 1 .. n
  BY <1>1, FS_Interval DEF By
<1>3. IsFiniteSet(By(c))
  BY <1>2, FS_Subset
<1>4. \A j \in By(c) : j \in Nat /\ sent[j] \in SentRecord
  BY <1>1, <1>2
<1> QED
  BY <1>1, <1>2, <1>3, <1>4, FS_CardinalityType, FS_EmptySet

LEMMA LastKept ==
  ASSUME NEW c, By(c)' = By(c)
  PROVE  LastBy(c)' = LastBy(c)
BY DEF LastBy

\* A caller whose call and requests are not touched.
LEMMA CallerKept ==
  ASSUME TokensInv, NEW d \in Fetching, CallerInv(d), fetchTime' \in Nat, fetchTime' >= fetchTime,
         job'[d] = job[d], By(d)' = By(d), \A j \in By(d) : sent'[j] = sent[j]
  PROVE  CallerInv(d)'
<1>1. LastBy(d)' = LastBy(d)
  BY LastKept
<1>2. IsJob(job'[d]) /\ Made(job'[d], Cardinality(By(d)'))
  BY DEF CallerInv
<1>3. \A j \in By(d) : Due(sent'[j]) = Due(sent[j]) /\ NotFinal(sent'[j]) = NotFinal(sent[j])
                       /\ sent'[j].at = sent[j].at
  BY DEF NotFinal
<1>4. ASSUME NEW j \in By(d), fetchTime >= Due(sent[j]) PROVE fetchTime' >= Due(sent[j])
  <2>1. PICK x \in Int, t \in Int, u \in Int : x = Due(sent[j]) /\ t = fetchTime /\ u = fetchTime'
    BY ByFinite, SentFields DEF TokensInv
  <2> QED
    BY <1>4, <2>1
<1>5. /\ By(d) # {} => LastBy(d) \in By(d) /\ \A j \in By(d) : j <= LastBy(d)
      /\ \A j, k \in By(d) : j < k => NotFinal(sent[j]) /\ sent[k].at >= Due(sent[j])
      /\ job[d].at \in {"limit", "backoff"} => \A j \in By(d) : NotFinal(sent[j])
  BY DEF CallerInv
<1>6. /\ job[d].at = "limit" => \A j \in By(d) : fetchTime >= Due(sent[j])
      /\ job[d].at = "backoff" => \A j \in By(d) :
            fetchTime >= Due(sent[j]) \/ (job[d].until \in Int /\ job[d].until >= Due(sent[j]))
  BY DEF CallerInv
<1>7. job[d].op = "fetch" /\ job[d].ans = "ok" =>
         By(d) # {} /\ sent[LastBy(d)].reply.status = "200" /\ sent[LastBy(d)].reply.body = "pdf"
  BY DEF CallerInv
<1>8. (By(d) # {} => sent'[LastBy(d)] = sent[LastBy(d)]) /\ (job[d].at = "http" => By(d) # {})
  BY <1>5 DEF CallerInv
<1> QED
  BY <1>1, <1>2, <1>3, <1>4, <1>5, <1>6, <1>7, <1>8 DEF CallerInv

\* A step of one caller's call that sends nothing and hears nothing.
LEMMA CallerMoves ==
  ASSUME ArxivInv, NEW c \in Fetching, NEW k, job' = [job EXCEPT ![c] = k], UNCHANGED <<fetchTime, sent>>,
         TokensInv', IsJob(k), Made(k, Cardinality(By(c))), k.op = "fetch" => k.ans # "ok",
         k.at \in {"limit", "backoff"} => \A j \in By(c) : NotFinal(sent[j]),
         k.at = "limit" => \A j \in By(c) : fetchTime >= Due(sent[j]),
         k.at \in {"limit", "done"}
  PROVE  ArxivInv'
<1>1. /\ job' = [d \in Fetching |-> job'[d]] /\ job'[c] = k
      /\ \A d \in Fetching \ {c} : job'[d] = job[d]
  BY DEF ArxivInv
<1>2. \A d : By(d)' = By(d)
  BY DEF By
<1>3. ASSUME NEW d \in Fetching \ {c} PROVE CallerInv(d)'
  <2>1. CallerInv(d) /\ TokensInv /\ fetchTime' \in Nat /\ fetchTime' >= fetchTime
    BY DEF ArxivInv, TokensInv
  <2> QED
    BY <1>1, <1>2, <2>1, CallerKept
<1>4. CallerInv(c)'
  <2>1. LastBy(c)' = LastBy(c) /\ By(c)' = By(c) /\ CallerInv(c)
    BY <1>2, LastKept DEF ArxivInv
  <2> QED
    BY <1>1, <2>1 DEF CallerInv
<1> QED
  BY <1>1, <1>3, <1>4 DEF ArxivInv

LEMMA NewJob ==
  ASSUME NEW k, k = [f \in JobFields |-> k[f]], k.at \in {"limit", "done"}, k.attempt = 1,
         k.at = "limit" => k.ans = "none", RetryMax \in Nat
  PROVE  IsJob(k) /\ Made(k, 0)
BY DEF IsJob, Made

\* The calls that end or begin without a request, the pause that ends, and the
\* wait that is cancelled.
LEMMA CallSteps ==
  ASSUME ArxivInv, NEW c \in Fetching, NEW yes \in BOOLEAN, NEW id \in {"bare", "versioned", "bad"},
         \/ Fetch(c, yes) \/ ResolveLatestVersion(c, id) \/ BackoffEnds(c, yes)
         \/ WaitLimiter(c, yes) /\ yes
  PROVE  ArxivInv'
<1> DEFINE n == Cardinality(By(c))
<1>1. /\ TokensInv /\ CallerInv(c) /\ job = [d \in Fetching |-> job[d]]
  BY DEF ArxivInv
<1>2. /\ n \in Nat /\ (n = 0 => By(c) = {}) /\ RetryMax \in Nat
      /\ \A j \in By(c) : Due(sent[j]) \in Int
  BY <1>1, ByFinite, SentFields, ArxivNumbers
<1>3. /\ IsJob(job[c]) /\ Made(job[c], n)
      /\ job[c].at \in {"limit", "backoff"} => \A j \in By(c) : NotFinal(sent[j])
  BY <1>1 DEF CallerInv
<1>4. job[c].at = "idle" => By(c) = {}
  BY <1>2, <1>3 DEF Made
<1>5. /\ job[c].attempt \in Nat
      /\ job[c] = [f \in JobFields |-> job[c][f]]
  BY <1>3 DEF IsJob
<1> HIDE DEF n
<1>6. CASE Fetch(c, yes)
  <2> DEFINE at == IF yes THEN "limit" ELSE "done"
             ans == IF yes THEN "none" ELSE "invalid"
             k == [NoJob EXCEPT !.at = at, !.attempt = 1, !.ans = ans]
  <2>a. at \in {"limit", "done"} /\ ans \in {"none", "invalid"} /\ (at = "limit" => ans = "none")
    OBVIOUS
  <2>2. job' = [job EXCEPT ![c] = k] /\ UNCHANGED <<bucket, fetchTime, sent>> /\ By(c) = {} /\ n = 0
    BY <1>3, <1>4, <1>6 DEF Fetch, Made
  <2> HIDE DEF at, ans
  <2>b. k = [f \in JobFields |-> k[f]] /\ k.at = at /\ k.ans = ans /\ k.attempt = 1
    BY DEF NoJob, JobFields
  <2> HIDE DEF k
  <2>1. /\ IsJob(k) /\ Made(k, 0) /\ k.at \in {"limit", "done"} /\ k.ans # "ok"
    BY <1>2, <2>a, <2>b, NewJob
  <2>3. TokensInv'
    BY <1>1, <2>2 DEF TokensInv
  <2> QED
    BY <2>1, <2>2, <2>3, CallerMoves DEF n
<1>7. CASE ResolveLatestVersion(c, id)
  <2> DEFINE ans == CASE id = "bare" -> "none" [] id = "versioned" -> "ok" [] OTHER -> "invalid"
             at == IF id = "bare" THEN "limit" ELSE "done"
             k == [NoJob EXCEPT !.op = "resolve", !.attempt = 1, !.at = at, !.ans = ans]
  <2>a. at \in {"limit", "done"} /\ (at = "limit" => ans = "none")
    OBVIOUS
  <2>2. job' = [job EXCEPT ![c] = k] /\ UNCHANGED <<bucket, fetchTime, sent>> /\ By(c) = {} /\ n = 0
    BY <1>3, <1>4, <1>7 DEF ResolveLatestVersion, Made
  <2> HIDE DEF ans, at
  <2>b. k = [f \in JobFields |-> k[f]] /\ k.at = at /\ k.ans = ans /\ k.attempt = 1 /\ k.op = "resolve"
    BY DEF NoJob, JobFields
  <2> HIDE DEF k
  <2>1. /\ IsJob(k) /\ Made(k, 0) /\ k.at \in {"limit", "done"} /\ k.op # "fetch"
    BY <1>2, <2>a, <2>b, NewJob
  <2>3. TokensInv'
    BY <1>1, <2>2 DEF TokensInv
  <2> QED
    BY <2>1, <2>2, <2>3, CallerMoves DEF n
<1>8. CASE BackoffEnds(c, yes) /\ yes
  <2> DEFINE k == [job[c] EXCEPT !.at = "done", !.ans = "ErrUpstream"]
  <2>1. job' = [job EXCEPT ![c] = k] /\ UNCHANGED <<bucket, fetchTime, sent>> /\ job[c].at = "backoff"
    BY <1>1, <1>8 DEF BackoffEnds
  <2>2. IsJob(k) /\ k.at = "done" /\ k.ans = "ErrUpstream" /\ k.attempt = job[c].attempt
    BY <1>5 DEF IsJob, JobFields
  <2>3. Made(k, n)
    BY <1>2, <1>3, <1>5, <2>1, <2>2 DEF Made
  <2> HIDE DEF k
  <2>4. TokensInv'
    BY <1>1, <2>1 DEF TokensInv
  <2> QED
    BY <2>1, <2>2, <2>3, <2>4, CallerMoves DEF n
<1>9. CASE BackoffEnds(c, yes) /\ ~yes
  <2> DEFINE k == [job[c] EXCEPT !.at = "limit", !.attempt = job[c].attempt + 1]
  <2>1. /\ job' = [job EXCEPT ![c] = k] /\ UNCHANGED <<bucket, fetchTime, sent>>
        /\ job[c].at = "backoff" /\ fetchTime >= job[c].until
    <3> DEFINE other == [job[c] EXCEPT !.at = "done", !.ans = "ErrUpstream"]
    <3>1. job' = [job EXCEPT ![c] = IF yes THEN other ELSE k]
      BY <1>9 DEF BackoffEnds
    <3> HIDE DEF k, other
    <3>2. job' = [job EXCEPT ![c] = k]
      BY <1>9, <3>1
    <3> QED
      BY <1>9, <3>2 DEF BackoffEnds
  <2>2. /\ IsJob(k) /\ k.at = "limit" /\ k.attempt = job[c].attempt + 1 /\ k.ans = "none"
    <3>1. job[c].ans = "none"
      BY <1>3, <2>1 DEF IsJob
    <3>2. /\ k = [f \in JobFields |-> k[f]] /\ k.at = "limit" /\ k.attempt = job[c].attempt + 1
          /\ k.ans = job[c].ans
      BY <1>5 DEF JobFields
    <3> HIDE DEF k
    <3> QED
      BY <1>5, <3>1, <3>2 DEF IsJob
  <2>3. Made(k, n)
    BY <1>2, <1>3, <1>5, <2>1, <2>2 DEF Made
  <2> HIDE DEF k
  <2>4. TokensInv'
    BY <1>1, <2>1 DEF TokensInv
  <2>5. \A j \in By(c) : fetchTime >= Due(sent[j])
    <3> SUFFICES ASSUME NEW j \in By(c), ~(fetchTime >= Due(sent[j])) PROVE FALSE
      OBVIOUS
    <3>1. job[c].until \in Int /\ job[c].until >= Due(sent[j])
      BY <1>1, <2>1 DEF CallerInv
    <3>2. PICK x \in Int, t \in Int, u \in Int : x = Due(sent[j]) /\ t = fetchTime /\ u = job[c].until
      BY <1>1, <1>2, <3>1 DEF TokensInv
    <3> QED
      BY <2>1, <3>1, <3>2
  <2> QED
    BY <1>3, <2>1, <2>2, <2>3, <2>4, <2>5, CallerMoves DEF n
<1>10. CASE WaitLimiter(c, yes) /\ yes
  <2> DEFINE k == [job[c] EXCEPT !.at = "done", !.ans = "cancelled"]
  <2>1. job' = [job EXCEPT ![c] = k] /\ UNCHANGED <<bucket, fetchTime, sent>> /\ job[c].at = "limit"
    BY <1>1, <1>10 DEF WaitLimiter, FetchEnds
  <2>2. IsJob(k) /\ k.at = "done" /\ k.ans = "cancelled" /\ k.attempt = job[c].attempt
    BY <1>5 DEF IsJob, JobFields
  <2>3. Made(k, n)
    BY <1>2, <1>3, <1>5, <2>1, <2>2 DEF Made
  <2> HIDE DEF k
  <2>4. TokensInv'
    BY <1>1, <2>1 DEF TokensInv
  <2> QED
    BY <2>1, <2>2, <2>3, <2>4, CallerMoves DEF n
<1> QED
  BY <1>6, <1>7, <1>8, <1>9, <1>10

LEMMA GreatestIs ==
  ASSUME NEW S, \A j \in S : j \in Int, NEW m \in S, \A j \in S : j <= m
  PROVE  (CHOOSE k \in S : \A j \in S : j <= k) = m
<1>1. \A k \in S : (\A j \in S : j <= k) => k = m
  OBVIOUS
<1> QED
  BY <1>1

\* A request goes out after every pause that was asked for, and not after a
\* final answer.
LEMMA SendStep ==
  ASSUME ArxivInv, NEW c \in Fetching, WaitLimiter(c, FALSE)
  PROVE  ArxivInv'
<1> DEFINE q == [at |-> fetchTime, by |-> c, reply |-> NoReply]
           k == [job[c] EXCEPT !.at = "http"]
           N == Cardinality(By(c))
<1>1. /\ TokensInv /\ CallerInv(c) /\ job = [d \in Fetching |-> job[d]]
  BY DEF ArxivInv
<1>2. /\ job[c].at = "limit" /\ TakesToken(c) /\ job' = [job EXCEPT ![c] = k]
      /\ sent' = Append(sent, q) /\ fetchTime' = fetchTime
  BY <1>1 DEF WaitLimiter
<1>3. TokensInv'
  BY <1>1, <1>2, TokensSend
<1>4. /\ IsJob(job[c]) /\ Made(job[c], N) /\ \A j \in By(c) : NotFinal(sent[j]) /\ fetchTime >= Due(sent[j])
      /\ \A i, j \in By(c) : i < j => NotFinal(sent[i]) /\ sent[j].at >= Due(sent[i])
  BY <1>1, <1>2 DEF CallerInv
<1>5. IsJob(k) /\ k.at = "http" /\ k.attempt = job[c].attempt /\ k.ans = "none"
  BY <1>2, <1>4 DEF IsJob, JobFields
<1>6. PICK n \in Nat : n = Len(sent) /\ DOMAIN sent = 1 .. n /\ sent \in Seq(SentRecord)
  BY <1>1 DEF TokensInv
<1>7. q \in SentRecord /\ q.by = c /\ q.at = fetchTime
  BY <1>1 DEF TokensInv, SentRecord, AnswerSet
<1> HIDE DEF q, k
<1>8. /\ DOMAIN sent' = 1 .. n + 1 /\ sent'[n + 1] = q /\ \A j \in 1 .. n : sent'[j] = sent[j]
  BY <1>2, <1>6, <1>7
<1>9. By(c)' = By(c) \cup {n + 1} /\ \A d \in Fetching \ {c} : By(d)' = By(d)
  BY <1>6, <1>7, <1>8 DEF By
<1>10. \A d \in Fetching : \A j \in By(d) : j \in 1 .. n /\ sent'[j] = sent[j]
  BY <1>6, <1>8 DEF By
<1>11. /\ job' = [d \in Fetching |-> job'[d]] /\ job'[c] = k /\ \A d \in Fetching \ {c} : job'[d] = job[d]
  BY <1>1, <1>2
<1>12. ASSUME NEW d \in Fetching \ {c} PROVE CallerInv(d)'
  <2>1. CallerInv(d) /\ fetchTime' \in Nat /\ fetchTime' >= fetchTime
    BY <1>1, <1>2 DEF ArxivInv, TokensInv
  <2> QED
    BY <1>1, <1>9, <1>10, <1>11, <2>1, CallerKept
<1>13. CallerInv(c)'
  <2>1. LastBy(c)' = n + 1 /\ \A j \in By(c)' : j <= n + 1
    <3>1. \A j \in By(c)' : j \in Int /\ j <= n + 1
      BY <1>9, <1>10
    <3>2. n + 1 \in By(c)'
      BY <1>9
    <3> QED
      BY <3>1, <3>2, GreatestIs DEF LastBy
  <2>2. Cardinality(By(c)') = N + 1 /\ N \in Nat
    <3>1. IsFiniteSet(By(c)) /\ n + 1 \notin By(c)
      BY <1>1, <1>10, ByFinite
    <3> QED
      BY <3>1, <1>9, FS_AddElement, FS_CardinalityType
  <2> HIDE DEF N
  <2>3. Made(k, Cardinality(By(c)'))
    BY <1>2, <1>4, <1>5, <2>2 DEF Made, IsJob
  <2>4. ASSUME NEW i \in By(c)', NEW j \in By(c)', i < j
        PROVE  NotFinal(sent'[i]) /\ sent'[j].at >= Due(sent'[i])
    <3>1. i \in By(c)
      BY <1>6, <1>9, <1>10, <2>1, <2>4
    <3>2. CASE j \in By(c)
      BY <3>1, <3>2, <2>4, <1>4, <1>10
    <3>3. CASE j = n + 1
      BY <3>1, <3>3, <1>4, <1>7, <1>8, <1>10
    <3> QED
      BY <1>9, <3>2, <3>3
  <2> QED
    BY <1>5, <1>9, <1>11, <2>1, <2>3, <2>4 DEF CallerInv
<1> QED
  BY <1>3, <1>11, <1>12, <1>13 DEF ArxivInv

\* What a download makes of an answer.
LEMMA AttemptEnds ==
  ASSUME NEW c \in Fetching, IsJob(job[c]), NEW r \in ArxivReplies, NEW yes \in BOOLEAN,
         NEW k, k = AfterAttempt(c, r, yes)
  PROVE  /\ k = [f \in JobFields |-> k[f]] /\ k.attempt = job[c].attempt /\ k.op = job[c].op
         /\ \/ k.at = "done" /\ (k.ans = "ok" => r.status = "200" /\ r.body = "pdf")
            \/ /\ k.at = "backoff" /\ k.until = fetchTime + Pause(r, job[c].attempt)
               /\ ~(job[c].attempt > RetryMax) /\ k.ans = job[c].ans
               /\ r.status # "404" /\ (r.status = "200" => r.body = "cut")
<1> DEFINE e == doOnce(r)
           last == IF e = "ErrRateLimited" THEN e ELSE "ErrUpstream"
<1>1. /\ e = "ok" => r.status = "200" /\ r.body = "pdf"
      /\ ~(e = "ok" \/ Fatal(e)) => r.status # "404" /\ (r.status = "200" => r.body = "cut")
  BY ArxivConfig DEF doOnce, Fatal
<1>2. last # "ok" /\ job[c] = [f \in JobFields |-> job[c][f]]
  BY DEF IsJob
<1>3. k = IF e = "ok" \/ Fatal(e) THEN [job[c] EXCEPT !.at = "done", !.ans = e]
          ELSE IF yes THEN [job[c] EXCEPT !.at = "done", !.ans = "ErrUpstream"]
          ELSE IF job[c].attempt > RetryMax THEN [job[c] EXCEPT !.at = "done", !.ans = last]
          ELSE [job[c] EXCEPT !.at = "backoff", !.until = fetchTime + Pause(r, job[c].attempt)]
  BY DEF AfterAttempt
<1> HIDE DEF e, last
<1>4. CASE e = "ok" \/ Fatal(e)
  BY <1>1, <1>2, <1>3, <1>4 DEF JobFields
<1>5. CASE ~(e = "ok" \/ Fatal(e)) /\ yes
  BY <1>2, <1>3, <1>5 DEF JobFields
<1>6. CASE ~(e = "ok" \/ Fatal(e)) /\ ~yes /\ job[c].attempt > RetryMax
  BY <1>2, <1>3, <1>6 DEF JobFields
<1>7. CASE ~(e = "ok" \/ Fatal(e)) /\ ~yes /\ ~(job[c].attempt > RetryMax)
  BY <1>1, <1>2, <1>3, <1>7 DEF JobFields
<1> QED
  BY <1>4, <1>5, <1>6, <1>7

LEMMA AnswerStep ==
  ASSUME ArxivInv, NEW c \in Fetching, NEW r \in ArxivReplies, NEW yes \in BOOLEAN, RoundTrip(c, r, yes)
  PROVE  ArxivInv'
<1> DEFINE l == LastBy(c)
           N == Cardinality(By(c))
           k == IF job[c].op = "fetch" THEN AfterAttempt(c, r, yes) ELSE AfterAbstract(c, r)
<1>1. /\ TokensInv /\ CallerInv(c) /\ job = [d \in Fetching |-> job[d]]
  BY DEF ArxivInv
<1>2. /\ job[c].at = "http" /\ UNCHANGED <<bucket, fetchTime>> /\ job' = [job EXCEPT ![c] = k]
      /\ sent' = [i \in DOMAIN sent |-> IF i = l THEN [sent[i] EXCEPT !.reply = r] ELSE sent[i]]
  BY DEF RoundTrip
<1>3. /\ IsJob(job[c]) /\ Made(job[c], N) /\ By(c) # {} /\ l \in By(c) /\ \A j \in By(c) : j <= l
      /\ \A i, j \in By(c) : i < j => NotFinal(sent[i]) /\ sent[j].at >= Due(sent[i])
  BY <1>1, <1>2 DEF CallerInv
<1>4. N \in Nat /\ \A d \in Fetching : \A j \in By(d) : j \in DOMAIN sent /\ j \in Int /\ sent[j] \in SentRecord
  BY <1>1, ByFinite
<1>5. k = [f \in JobFields |-> k[f]] /\ k.attempt = job[c].attempt /\ k.op = job[c].op /\ job[c].ans = "none"
      /\ \/ k.at = "done" /\ (k.op = "fetch" /\ k.ans = "ok" => r.status = "200" /\ r.body = "pdf")
         \/ /\ k.at = "backoff" /\ k.until = fetchTime + Pause(r, job[c].attempt)
            /\ ~(job[c].attempt > RetryMax) /\ k.ans = job[c].ans
            /\ r.status # "404" /\ (r.status = "200" => r.body = "cut")
  <2>1. job[c].ans = "none" /\ job[c] = [f \in JobFields |-> job[c][f]]
    BY <1>2, <1>3 DEF IsJob
  <2>2. CASE job[c].op = "fetch"
    <3>1. k = AfterAttempt(c, r, yes)
      BY <2>2
    <3> HIDE DEF k
    <3> QED
      BY <1>3, <2>1, <3>1, AttemptEnds
  <2>3. CASE job[c].op # "fetch"
    <3> DEFINE ans == CASE r.status = "404" -> "ErrNotFound" [] r.status = "429" -> "ErrRateLimited"
                        [] r.status = "200" /\ r.body = "html" -> "ok" [] OTHER -> "ErrUpstream"
    <3>1. k = [job[c] EXCEPT !.at = "done", !.ans = ans]
      BY <2>3 DEF AfterAbstract
    <3> HIDE DEF k, ans
    <3> QED
      BY <2>1, <2>3, <3>1 DEF JobFields
  <2> QED
    BY <2>2, <2>3
<1> HIDE DEF l, N, k
<1>6. TokensInv' /\ DOMAIN sent' = DOMAIN sent
      /\ \A j \in DOMAIN sent : sent'[j].at = sent[j].at /\ sent'[j].by = sent[j].by
  BY <1>1, <1>2, TokensAnswer DEF AnswerSet
<1>7. \A d : By(d)' = By(d)
  BY <1>6 DEF By
<1>8. \A j \in DOMAIN sent \ {l} : sent'[j] = sent[j]
  BY <1>2
<1>9. sent[l] \in SentRecord /\ sent'[l].reply = r /\ sent'[l].at = sent[l].at /\ sent[l].by = c
  BY <1>2, <1>3, <1>4, <1>6 DEF By, SentRecord
<1>10. /\ job' = [d \in Fetching |-> job'[d]] /\ job'[c] = k /\ \A d \in Fetching \ {c} : job'[d] = job[d]
  BY <1>1, <1>2
<1>11. ASSUME NEW d \in Fetching \ {c} PROVE CallerInv(d)'
  <2>1. CallerInv(d) /\ fetchTime' \in Nat /\ fetchTime' >= fetchTime
    BY <1>1, <1>2 DEF ArxivInv, TokensInv
  <2>2. l \notin By(d)
    BY <1>9 DEF By
  <2>3. \A j \in By(d) : sent'[j] = sent[j]
    BY <1>4, <1>8, <2>2
  <2> QED
    BY <1>1, <1>7, <1>10, <2>1, <2>3, CallerKept
<1>12. ASSUME NEW i \in By(c), NEW j \in By(c), i < j
       PROVE  /\ sent'[i] = sent[i] /\ NotFinal(sent'[i]) /\ sent'[j].at >= Due(sent'[i])
  <2>1. i # l /\ i \in DOMAIN sent /\ j \in DOMAIN sent
    BY <1>3, <1>4, <1>12
  <2> QED
    BY <1>3, <1>6, <1>8, <1>12, <2>1
<1>13. CallerInv(c)'
  <2>1. LastBy(c)' = l
    BY <1>7, LastKept DEF l
  <2>2. job[c].attempt \in Nat /\ RetryMax \in Nat
    BY <1>3, ArxivNumbers DEF IsJob
  <2>3. IsJob(k) /\ Made(k, N)
    BY <1>2, <1>3, <1>4, <1>5, <2>2 DEF IsJob, Made
  <2>4. Cardinality(By(c)') = N
    BY <1>7 DEF N
  <2>5. CASE k.at = "done"
    BY <1>3, <1>5, <1>7, <1>9, <1>10, <1>12, <2>1, <2>3, <2>4, <2>5 DEF CallerInv
  <2>6. CASE k.at = "backoff"
    <3>1. /\ k.until = fetchTime + Pause(r, job[c].attempt) /\ k.ans = "none"
          /\ r.status # "404" /\ (r.status = "200" => r.body = "cut")
      BY <1>5, <2>6
    <3>2. ASSUME NEW j \in By(c)
          PROVE  /\ NotFinal(sent'[j])
                 /\ fetchTime >= Due(sent'[j]) \/ (k.until \in Int /\ k.until >= Due(sent'[j]))
      <4>0. fetchTime \in Nat /\ sent[l].at \in Nat /\ sent[l].at <= fetchTime
        BY <1>1, <1>3, <1>4, <1>9, SentFields DEF TokensInv
      <4>1. CASE j < l
        <5>1. NotFinal(sent'[j]) /\ sent[l].at >= Due(sent'[j]) /\ sent'[j] = sent[j]
          BY <1>3, <1>9, <1>12, <4>1
        <5>2. PICK x \in Int, t \in Int, u \in Int : x = Due(sent'[j]) /\ t = fetchTime /\ u = sent[l].at
          BY <1>4, <4>0, <5>1, SentFields
        <5>3. fetchTime >= Due(sent'[j])
          BY <4>0, <5>1, <5>2
        <5> QED
          BY <5>1, <5>3
      <4>2. CASE j = l
        <5>1. NotFinal(sent'[j])
          BY <1>9, <3>1, <4>2 DEF NotFinal
        <5>2. Due(sent'[j]) = sent[l].at + parseRetryAfter(r) /\ parseRetryAfter(r) \in Nat
          BY <1>9, <4>2, ArxivConfig DEF Due, parseRetryAfter
        <5>3. PICK w \in Nat, t \in Nat, u \in Nat : w = parseRetryAfter(r) /\ t = fetchTime /\ u = sent[l].at
          BY <4>0, <5>2
        <5>4. CASE w > 0
          <6>1. k.until = t + w
            BY <3>1, <5>3, <5>4 DEF Pause
          <6>2. u <= t /\ Due(sent'[j]) = u + w
            BY <4>0, <5>2, <5>3
          <6> QED
            BY <5>1, <6>1, <6>2
        <5>5. CASE ~(w > 0)
          <6>1. w = 0 /\ u <= t /\ Due(sent'[j]) = u + w
            BY <4>0, <5>2, <5>3, <5>5
          <6> QED
            BY <5>1, <5>3, <6>1
        <5> QED
          BY <5>4, <5>5
      <4> QED
        BY <1>3, <1>4, <4>1, <4>2
    <3>3. \A i, j \in By(c) : i < j => NotFinal(sent'[i]) /\ sent'[j].at >= Due(sent'[i])
      BY <1>12
    <3>4. /\ \A j \in By(c) : NotFinal(sent'[j])
          /\ \A j \in By(c) : fetchTime' >= Due(sent'[j]) \/ (k.until \in Int /\ k.until >= Due(sent'[j]))
      BY <1>2, <3>2
    <3>5. l \in By(c) /\ \A j \in By(c) : j <= l
      BY <1>3
    <3>6. By(c)' = By(c) /\ job'[c] = k
      BY <1>7, <1>10
    <3> QED
      BY <2>1, <2>3, <2>4, <2>6, <3>1, <3>3, <3>4, <3>5, <3>6 DEF CallerInv
  <2> QED
    BY <1>5, <2>5, <2>6
<1> QED
  BY <1>6, <1>10, <1>11, <1>13 DEF ArxivInv

LEMMA ArxivInvInit == ArxivInit => ArxivInv
<1> SUFFICES ASSUME ArxivInit PROVE ArxivInv
  OBVIOUS
<1>1. sent = <<>> /\ \A c : By(c) = {}
  BY DEF ArxivInit, By
<1>2. TokensInv
  BY <1>1, ArxivNumbers DEF ArxivInit, TokensInv
<1>3. NoJob = [f \in JobFields |-> NoJob[f]] /\ NoJob.at = "idle" /\ NoJob.attempt = 0 /\ NoJob.ans = "none"
  BY DEF NoJob, JobFields
<1>4. job = [c \in Fetching |-> job[c]] /\ \A c \in Fetching : job[c] = NoJob
  BY DEF ArxivInit
<1>5. Cardinality({}) = 0
  BY FS_EmptySet
<1>6. IsJob(NoJob) /\ Made(NoJob, 0)
  BY <1>3 DEF IsJob, Made
<1> QED
  BY <1>1, <1>2, <1>3, <1>4, <1>5, <1>6 DEF ArxivInv, CallerInv

LEMMA ArxivInvNext == ArxivInv /\ [ArxivNext]_arxivVars => ArxivInv'
<1> SUFFICES ASSUME ArxivInv, [ArxivNext]_arxivVars PROVE ArxivInv'
  OBVIOUS
<1>1. ASSUME NEW c \in Fetching, NEW yes \in BOOLEAN, Fetch(c, yes) \/ WaitLimiter(c, yes) \/ BackoffEnds(c, yes)
      PROVE  ArxivInv'
  <2>1. CASE WaitLimiter(c, yes) /\ ~yes
    BY <2>1, SendStep
  <2> QED
    BY <1>1, <2>1, CallSteps
<1>2. ASSUME NEW c \in Fetching, NEW id \in {"bare", "versioned", "bad"}, ResolveLatestVersion(c, id)
      PROVE  ArxivInv'
  BY <1>2, CallSteps
<1>3. ASSUME NEW c \in Fetching, NEW r \in ArxivReplies, NEW yes \in BOOLEAN, RoundTrip(c, r, yes)
      PROVE  ArxivInv'
  BY <1>3, AnswerStep
<1>4. CASE ArxivTick
  <2>1. TokensInv /\ TokensInv'
    BY <1>4, TokensTick DEF ArxivInv
  <2>2. UNCHANGED <<job, sent>> /\ fetchTime' \in Nat /\ fetchTime' >= fetchTime
    BY <1>4, <2>1 DEF ArxivTick, TokensInv
  <2>3. \A d : By(d)' = By(d)
    BY <2>2 DEF By
  <2>4. \A d \in Fetching : CallerInv(d)'
    BY <2>1, <2>2, <2>3, CallerKept DEF ArxivInv
  <2> QED
    BY <2>1, <2>2, <2>4 DEF ArxivInv
<1>5. CASE UNCHANGED arxivVars
  <2>1. UNCHANGED <<job, sent, fetchTime, bucket>>
    BY <1>5 DEF arxivVars
  <2>2. TokensInv /\ TokensInv' /\ fetchTime' \in Nat /\ fetchTime' >= fetchTime
    BY <2>1 DEF ArxivInv, TokensInv
  <2>3. \A d : By(d)' = By(d)
    BY <2>1 DEF By
  <2>4. \A d \in Fetching : CallerInv(d)'
    BY <2>1, <2>2, <2>3, CallerKept DEF ArxivInv
  <2> QED
    BY <2>1, <2>2, <2>4 DEF ArxivInv
<1> QED
  BY <1>1, <1>2, <1>3, <1>4, <1>5 DEF ArxivNext, ArxivRest

LEMMA ArxivInvSuffices == ArxivInv => FetchPolite
<1> SUFFICES ASSUME ArxivInv PROVE FetchPolite
  OBVIOUS
<1>1. \A j, k \in DOMAIN sent : j <= k => k - j + 1 <= Burst + Rps * (sent[k].at - sent[j].at)
  BY DEF ArxivInv, TokensInv
<1>2. ASSUME NEW c \in Fetching
      PROVE  /\ Cardinality(By(c)) <= RetryMax + 1
             /\ \A j, k \in By(c) : j < k =>
                   /\ sent[j].reply.status # "404"
                   /\ sent[j].reply.status = "200" => sent[j].reply.body = "cut"
                   /\ sent[k].at >= sent[j].at + parseRetryAfter(sent[j].reply)
             /\ job[c].op = "fetch" /\ job[c].ans = "ok" =>
                   sent[LastBy(c)].reply.status = "200" /\ sent[LastBy(c)].reply.body = "pdf"
  <2>1. CallerInv(c) /\ TokensInv
    BY DEF ArxivInv
  <2>2. Cardinality(By(c)) <= RetryMax + 1
    <3>1. PICK n \in Nat : n = Cardinality(By(c))
      BY <2>1, ByFinite
    <3>2. Made(job[c], n) /\ IsJob(job[c]) /\ job[c].attempt \in Nat
      BY <2>1, <3>1 DEF CallerInv, IsJob
    <3>3. n <= RetryMax + 1
      BY <3>2, ArxivNumbers DEF Made, IsJob
    <3> QED
      BY <3>1, <3>3
  <2>3. \A j, k \in By(c) : j < k => NotFinal(sent[j]) /\ sent[k].at >= Due(sent[j])
    BY <2>1 DEF CallerInv
  <2>4. job[c].op = "fetch" /\ job[c].ans = "ok" =>
           sent[LastBy(c)].reply.status = "200" /\ sent[LastBy(c)].reply.body = "pdf"
    BY <2>1 DEF CallerInv
  <2> QED
    BY <2>2, <2>3, <2>4 DEF NotFinal, Due
<1> QED
  BY <1>1, <1>2 DEF FetchPolite

\* However the callers' retries overlap, the host sees no more requests in a
\* stretch of time than the limiter allows, nobody asks again too early or
\* after a final answer, and a result is a whole PDF (arxiv.Fetcher).
THEOREM FetchesAlwaysPolite == ArxivSpec => []FetchPolite
<1>1. ArxivSpec => []ArxivInv
  BY ArxivInvInit, ArxivInvNext, PTL DEF ArxivSpec
<1> QED
  BY <1>1, ArxivInvSuffices, PTL

-----------------------------------------------------------------------------
(* The downloads in the composed platform.                                   *)

DownloadsInv == LaneInv /\ ProxyInv /\ LadderInv /\ WireInv /\ ArxivInv

\* A step of the platform is, for each of its services, a step of its own or none.
LEMMA PlatformStepsDownloads ==
  ASSUME [PlatformNext]_platformVars
  PROVE  /\ [LaneNext]_laneVars /\ [ProxyNext]_proxyVars /\ [LadderNext]_ladderVars
         /\ [WireNext]_wireVars /\ [ArxivNext]_arxivVars
<1>1. CASE UNCHANGED platformVars
  BY <1>1 DEF platformVars
<1>2. CASE PlatformNext
  BY <1>2 DEF PlatformNext, MeteringMoves, LaneMoves, ProxyMoves, LadderMoves, WireMoves,
     AccountsMove, ArxivMoves, OperationsMove, HealthMoves, BrowsersMove, PluginsMove, Only, Still
<1> QED
  BY <1>1, <1>2

\* What is delivered is the document asked for, fetched within the limits the
\* sites set, each key shown to its own host only, and the proxy's copy always
\* somebody's to delete, whatever moves beside it.
THEOREM DownloadsAlwaysSound == PlatformSpec => []DownloadsSound
<1>1. PlatformInit => DownloadsInv
  BY LaneInvInit, ProxyInvInit, LadderInvInit, WireInvInit, ArxivInvInit DEF PlatformInit, DownloadsInv
<1>2. DownloadsInv /\ [PlatformNext]_platformVars => DownloadsInv'
  BY PlatformStepsDownloads, LaneInvNext, ProxyInvNext, LadderInvNext, WireInvNext, ArxivInvNext
     DEF DownloadsInv
<1>3. DownloadsInv => DownloadsSound
  BY LaneInvSuffices, ProxyInvSuffices, LadderInvSuffices, WireInvSuffices, ArxivInvSuffices
     DEF DownloadsInv, DownloadsSound
<1> QED
  BY <1>1, <1>2, <1>3, PTL DEF PlatformSpec

-----------------------------------------------------------------------------
(* The accounts.                                                             *)

Texts == {""} \cup {EmailOf[i] : i \in Idents} \cup {LoginOf[i] : i \in Idents}
AccountRecord ==
    [live : BOOLEAN, email : Texts, github : Texts, gitea : Texts,
     admin : BOOLEAN, super : BOOLEAN, disabled : BOOLEAN]
VisitRecord ==
    [at : {"idle", "matched", "gated", "answered", "synced", "stamping"},
     who : Idents \cup {NoOne}, record : Idents \cup {NoOne}, told : BOOLEAN]
EditRecord ==
    [at : {"idle", "saving"}, caller : Idents \cup {NoOne}, target : Idents \cup {NoOne},
     field : {"admin", "disabled"}, to : BOOLEAN]
IsLive(u) == u \in Idents /\ account[u].live
\* An email that is given belongs to one account.
OneAccountPerEmail ==
    \A u, w \in Idents : IsLive(u) /\ IsLive(w) /\ u # w /\ account[u].email # ""
                         => account[u].email # account[w].email
\* A sign-in in flight has found an account that exists or none.
VisitInv(x) ==
    /\ x.at # "idle" => x.who \in Idents
    /\ x.record # NoOne => IsLive(x.record)
    /\ x.at = "stamping" => x.record # NoOne
\* An edit that is about to be saved was allowed: who disables a superadmin is
\* another one (roles are only raised at boot, when no edit is in flight).
EditInv(x) ==
    x.at = "saving" =>
        /\ IsLive(x.caller) /\ IsLive(x.target) /\ x.caller # x.target
        /\ x.field # "admin" /\ x.to /\ account[x.target].super => account[x.caller].super
DepositInv(d) == d.value \in KeyValues \cup {NoOne}
UsersInv ==
    /\ account \in [Idents -> AccountRecord] /\ linked \in [Idents -> Idents \cup {NoOne}]
    /\ visit \in [Visits -> VisitRecord] /\ edit \in [Edits -> EditRecord]
    /\ DOMAIN deposit = Idents
    /\ \A i \in Idents : linked[i] # NoOne => IsLive(linked[i])
    /\ OneAccountPerEmail
    /\ \A v \in Visits : VisitInv(visit[v])
    /\ \A e \in Edits : EditInv(edit[e])
    /\ \A u \in Idents : DepositInv(deposit[u])

LEMMA RestingRecords ==
  /\ NoAccount \in AccountRecord /\ ~NoAccount.live
  /\ NoVisit \in VisitRecord /\ NoVisit.at = "idle" /\ NoVisit.record = NoOne
  /\ NoEdit \in EditRecord /\ NoEdit.at = "idle"
<1>1. NoVisit \in VisitRecord /\ NoVisit.at = "idle" /\ NoVisit.record = NoOne
  BY DEF NoVisit, VisitRecord
<1>2. NoEdit \in EditRecord /\ NoEdit.at = "idle"
  BY DEF NoEdit, EditRecord
<1>3. ASSUME NEW e \in Texts
      PROVE  [live |-> FALSE, email |-> e, github |-> e, gitea |-> e,
              admin |-> FALSE, super |-> FALSE, disabled |-> FALSE] \in AccountRecord
  BY DEF AccountRecord
<1>4. "" \in Texts
  BY Zenon DEF Texts
<1>5. NoAccount \in AccountRecord
  BY <1>3, <1>4, Zenon DEF NoAccount
<1>6. ~NoAccount.live
  BY Zenon DEF NoAccount
<1> QED
  BY <1>1, <1>2, <1>5, <1>6

LEMMA UsersInvInit == UsersInit => UsersInv
<1> SUFFICES ASSUME UsersInit PROVE UsersInv
  OBVIOUS
<1>1. account \in [Idents -> AccountRecord] /\ \A u \in Idents : ~account[u].live
  BY RestingRecords DEF UsersInit
<1>2. linked \in [Idents -> Idents \cup {NoOne}] /\ \A i \in Idents : linked[i] = NoOne
  BY DEF UsersInit
<1>3. visit \in [Visits -> VisitRecord] /\ \A v \in Visits : VisitInv(visit[v])
  BY RestingRecords DEF UsersInit, VisitInv
<1>4. edit \in [Edits -> EditRecord] /\ \A e \in Edits : EditInv(edit[e])
  BY RestingRecords DEF UsersInit, EditInv
<1>5. DOMAIN deposit = Idents /\ \A u \in Idents : DepositInv(deposit[u])
  BY DEF UsersInit, DepositInv
<1>6. OneAccountPerEmail
  BY <1>1, Zenon DEF OneAccountPerEmail, IsLive
<1> QED
  BY <1>1, <1>2, <1>3, <1>4, <1>5, <1>6 DEF UsersInv

\* What was found to exist still does, after a step that keeps the accounts alive.
LEMMA VisitKept ==
  ASSUME NEW x, VisitInv(x), \A u \in Idents : account[u].live => account'[u].live
  PROVE  VisitInv(x)'
BY DEF VisitInv, IsLive

\* An allowed edit stays allowed while no role changes.
LEMMA EditKept ==
  ASSUME NEW x, EditInv(x), 
         \A u \in Idents : account[u].live => account'[u].live /\ account'[u].super = account[u].super
  PROVE  EditInv(x)'
BY DEF EditInv, IsLive

\* Steps that leave the accounts, links, edits and deposits alone and move
\* sign-ins to what is right for them.
LEMMA SignInSteps ==
  ASSUME UsersInv, NEW v \in Visits, NEW x \in VisitRecord,
         visit' = [visit EXCEPT ![v] = x], VisitInv(x),
         UNCHANGED <<account, linked, edit, deposit>>
  PROVE  UsersInv'
<1>1. visit' \in [Visits -> VisitRecord] /\ \A w \in Visits : visit'[w] = IF w = v THEN x ELSE visit[w]
  BY DEF UsersInv
<1>2. \A u : IsLive(u)' = IsLive(u)
  BY DEF IsLive
<1>3. \A w \in Visits : VisitInv(visit[w])'
  <2> SUFFICES ASSUME NEW w \in Visits PROVE VisitInv(visit[w])'
    OBVIOUS
  <2>1. VisitInv(visit'[w])
    BY <1>1 DEF UsersInv
  <2> QED
    BY <1>2, <2>1 DEF VisitInv
<1>4. \A e \in Edits : EditInv(edit[e])'
  BY <1>2 DEF UsersInv, EditInv
<1>5. OneAccountPerEmail'
  BY <1>2, Zenon DEF UsersInv, OneAccountPerEmail
<1> QED
  BY <1>1, <1>2, <1>3, <1>4, <1>5 DEF UsersInv, DepositInv

LEMMA MatchStep ==
  ASSUME UsersInv, NEW v \in Visits, NEW i \in Idents, NEW bind \in Idents \cup {NoOne}, Match(v, i, bind)
  PROVE  UsersInv'
<1> DEFINE sameMail == {u \in Living : account[u].email # "" /\ account[u].email = EmailOf[i]}
           found == IF linked[i] # NoOne THEN {linked[i]}
                    ELSE IF bind # NoOne THEN {bind}
                    ELSE IF sameMail # {} THEN sameMail ELSE {NoOne}
           x(u) == [at |-> IF bind # NoOne /\ u = bind THEN "gated" ELSE "matched",
                    who |-> i, record |-> u, told |-> FALSE]
<1>1. /\ bind # NoOne => account[bind].live
      /\ \E u \in found : visit' = [visit EXCEPT ![v] = x(u)]
      /\ UNCHANGED <<account, linked, edit, deposit>>
  BY Zenon DEF Match
<1>2. PICK u \in found : visit' = [visit EXCEPT ![v] = x(u)]
  BY <1>1
<1>3. \A w \in sameMail : IsLive(w)
  BY Zenon DEF IsLive, Living
<1> HIDE DEF sameMail
<1>4. u # NoOne => IsLive(u)
  BY <1>1, <1>3 DEF UsersInv, IsLive
<1>5. x(u) \in VisitRecord /\ VisitInv(x(u))
  BY <1>4 DEF VisitRecord, VisitInv, IsLive
<1> QED
  BY <1>1, <1>2, <1>5, SignInSteps

LEMMA HookSteps ==
  ASSUME UsersInv, NEW v \in Visits, Refuse(v) \/ checkOAuthConflicts(v) \/ syncStableUserID(v)
  PROVE  UsersInv'
<1>1. visit[v] \in VisitRecord /\ VisitInv(visit[v]) /\ DOMAIN visit = Visits
  BY DEF UsersInv
<1>2. CASE Refuse(v)
  BY <1>2, RestingRecords, SignInSteps DEF Refuse, VisitInv
<1>3. CASE checkOAuthConflicts(v)
  <2> DEFINE kind == Clash(visit[v].who, visit[v].record)
             told == visit[v].at = "matched" /\ kind # "none"
             x == [visit[v] EXCEPT !.at = "answered", !.told = told]
  <2>1. /\ visit[v].at \in {"matched", "gated"} /\ UNCHANGED <<account, linked, edit, deposit>>
        /\ visit' = [visit EXCEPT ![v].at = "answered", ![v].told = told]
    BY <1>3, Zenon DEF checkOAuthConflicts
  <2> HIDE DEF kind
  <2>2. visit' = [visit EXCEPT ![v] = x]
    BY <1>1, <2>1
  <2>3. x \in VisitRecord /\ VisitInv(x)
    BY <1>1, <2>1 DEF VisitRecord, VisitInv
  <2> QED
    BY <2>1, <2>2, <2>3, SignInSteps
<1>4. CASE syncStableUserID(v)
  <2> DEFINE r == IF visit[v].record = NoOne /\ account[visit[v].who].live THEN visit[v].who ELSE visit[v].record
             x == [visit[v] EXCEPT !.at = "synced", !.record = r]
  <2>1. /\ visit[v].at = "answered" /\ UNCHANGED <<account, linked, edit, deposit>>
        /\ visit' = [visit EXCEPT ![v].at = "synced", ![v].record = r]
    BY <1>4 DEF syncStableUserID
  <2>2. visit' = [visit EXCEPT ![v] = x]
    BY <1>1, <2>1
  <2>3. r \in Idents \cup {NoOne} /\ (r # NoOne => IsLive(r))
    BY <1>1, <2>1 DEF VisitRecord, VisitInv, IsLive
  <2>4. x \in VisitRecord /\ VisitInv(x)
    BY <1>1, <2>1, <2>3 DEF VisitRecord, VisitInv
  <2> QED
    BY <2>1, <2>2, <2>4, SignInSteps
<1> QED
  BY <1>2, <1>3, <1>4

\* The account is linked, or made: its name, email and link were free.
LEMMA LinkStep ==
  ASSUME UsersInv, NEW v \in Visits, LinkOrCreate(v)
  PROVE  UsersInv'
<1> DEFINE i == visit[v].who
           r == visit[v].record
           u == IF r = NoOne THEN i ELSE r
           taken == \/ linked[i] \notin {NoOne, u}
                    \/ r = NoOne /\ (account[i].live \/ EmailTaken(i))
           new == [NoAccount EXCEPT !.live = TRUE, !.email = EmailOf[i]]
<1>1. visit[v] \in VisitRecord /\ VisitInv(visit[v]) /\ DOMAIN visit = Visits /\ visit[v].at = "synced"
  BY DEF UsersInv, LinkOrCreate
<1>2. i \in Idents /\ r \in Idents \cup {NoOne} /\ (r # NoOne => IsLive(r))
  BY <1>1 DEF VisitRecord, VisitInv
<1>3. CASE taken
  <2>1. visit' = [visit EXCEPT ![v] = NoVisit] /\ UNCHANGED <<account, linked, edit, deposit>>
    BY <1>3 DEF LinkOrCreate
  <2> QED
    BY <2>1, RestingRecords, SignInSteps DEF VisitInv
<1>4. CASE ~taken
  <2>1. /\ linked' = [linked EXCEPT ![i] = u]
        /\ account' = IF r # NoOne THEN account ELSE [account EXCEPT ![i] = new]
        /\ visit' = [visit EXCEPT ![v].at = "stamping", ![v].record = u]
        /\ UNCHANGED <<edit, deposit>>
    BY <1>4 DEF LinkOrCreate
  <2>2. new \in AccountRecord /\ new.live /\ new.email = EmailOf[i]
    <3>1. EmailOf[i] \in Texts
      BY <1>2, Zenon DEF Texts
    <3> QED
      BY <3>1, RestingRecords DEF AccountRecord
  <2> HIDE DEF new
  <2>3. account' \in [Idents -> AccountRecord] /\ u \in Idents /\ account'[u].live
    BY <1>2, <2>1, <2>2 DEF UsersInv, IsLive
  <2>4. \A w \in Idents : account[w].live => account'[w] = account[w]
    BY <1>2, <1>4, <2>1 DEF UsersInv
  <2>5. linked' \in [Idents -> Idents \cup {NoOne}] /\ \A j \in Idents : linked'[j] # NoOne => (linked'[j] \in Idents /\ account'[linked'[j]].live)
    BY <1>2, <2>1, <2>3, <2>4 DEF UsersInv, IsLive
  <2>6. visit' \in [Visits -> VisitRecord] /\ \A w \in Visits : VisitInv(visit[w])'
    <3> DEFINE x == [visit[v] EXCEPT !.at = "stamping", !.record = u]
    <3>1. x \in VisitRecord /\ x.record = u /\ x.who = i /\ u # NoOne
      BY <1>1, <1>2, <2>3, AccountsConfig DEF VisitRecord
    <3>2. visit' = [visit EXCEPT ![v] = x]
      BY <1>1, <2>1
    <3>3. visit' \in [Visits -> VisitRecord] /\ visit'[v] = x
      BY <3>1, <3>2 DEF UsersInv
    <3>4. VisitInv(visit[v])'
      BY <1>2, <2>3, <3>1, <3>3 DEF VisitInv, IsLive
    <3>5. ASSUME NEW w \in Visits, w # v PROVE VisitInv(visit[w])'
      <4>1. visit'[w] = visit[w] /\ VisitInv(visit[w])
        BY <2>1, <3>5 DEF UsersInv
      <4>2. \A y \in Idents : account[y].live => account'[y].live
        BY <2>4
      <4> QED
        BY <4>1, <4>2 DEF VisitInv, IsLive
    <3> QED
      BY <3>3, <3>4, <3>5, Zenon
  <2>7. OneAccountPerEmail'
    <3>1. ASSUME NEW w \in Idents, account'[w].live PROVE account[w].live \/ (r = NoOne /\ w = i)
      <4>1. CASE r # NoOne
        BY <2>1, <3>1, <4>1
      <4>2. CASE r = NoOne /\ w # i
        <5>1. account' = [account EXCEPT ![i] = new]
          BY <2>1, <4>2
        <5>2. account'[w] = account[w]
          BY <4>2, <5>1 DEF UsersInv
        <5> QED
          BY <3>1, <5>2
      <4> QED
        BY <4>1, <4>2
    <3>2. r = NoOne => /\ account'[i].email = EmailOf[i]
                       /\ ~EmailTaken(i)
      BY <1>2, <1>4, <2>1, <2>2 DEF UsersInv
    <3>3. r = NoOne => \A w \in Idents : account[w].live => ~(EmailOf[i] # "" /\ account[w].email = EmailOf[i])
      BY <3>2, Zenon DEF EmailTaken, Living
    <3> SUFFICES ASSUME NEW a \in Idents, NEW b \in Idents, account'[a].live, account'[b].live, a # b,
                        account'[a].email # "", account'[a].email = account'[b].email
                 PROVE  FALSE
      BY Zenon DEF OneAccountPerEmail, IsLive
    <3>4. CASE account[a].live /\ account[b].live
      <4>1. account'[a] = account[a] /\ account'[b] = account[b]
        BY <2>4, <3>4
      <4> QED
        BY <3>4, <4>1, Zenon DEF UsersInv, OneAccountPerEmail, IsLive
    <3>5. CASE ~account[a].live
      <4>1. r = NoOne /\ a = i /\ account[b].live
        BY <3>1, <3>5, Zenon
      <4>2. account'[b] = account[b]
        BY <2>4, <4>1
      <4> QED
        BY <3>2, <3>3, <4>1, <4>2, Zenon
    <3>6. CASE ~account[b].live
      <4>1. r = NoOne /\ b = i /\ account[a].live
        BY <3>1, <3>6, Zenon
      <4>2. account'[a] = account[a]
        BY <2>4, <4>1
      <4> QED
        BY <3>2, <3>3, <4>1, <4>2, Zenon
    <3> QED
      BY <3>4, <3>5, <3>6, Zenon
  <2>8. \A e \in Edits : EditInv(edit[e])'
    BY <2>1, <2>4 DEF UsersInv, EditInv, IsLive
  <2>9. edit' \in [Edits -> EditRecord] /\ DOMAIN deposit' = Idents /\ \A w \in Idents : DepositInv(deposit[w])'
    BY <2>1 DEF UsersInv, DepositInv
  <2> QED
    BY <2>3, <2>5, <2>6, <2>7, <2>8, <2>9 DEF UsersInv, IsLive
<1> QED
  BY <1>3, <1>4

\* Steps that change records of accounts, but neither who exists nor an email,
\* and leave the links and the deposits alone.
LEMMA RecordsChange ==
  ASSUME UsersInv, account' \in [Idents -> AccountRecord],
         \A u \in Idents : account'[u].live = account[u].live /\ account'[u].email = account[u].email,
         visit' \in [Visits -> VisitRecord], \A v \in Visits : visit'[v] = visit[v] \/ visit'[v] = NoVisit,
         edit' \in [Edits -> EditRecord], \A e \in Edits : EditInv(edit[e])',
         UNCHANGED <<linked, deposit>>
  PROVE  UsersInv'
<1>1. \A u : IsLive(u)' = IsLive(u)
  BY DEF IsLive
<1>2. \A v \in Visits : VisitInv(visit[v])'
  <2> SUFFICES ASSUME NEW v \in Visits PROVE VisitInv(visit[v])'
    OBVIOUS
  <2>1. VisitInv(visit[v])
    BY DEF UsersInv
  <2>2. CASE visit'[v] = visit[v]
    BY <1>1, <2>1, <2>2 DEF VisitInv
  <2>3. CASE visit'[v] = NoVisit
    BY <2>3, RestingRecords DEF VisitInv
  <2> QED
    BY <2>2, <2>3
<1>3. OneAccountPerEmail'
  <2> SUFFICES ASSUME NEW u \in Idents, NEW w \in Idents, account'[u].live, account'[w].live, u # w,
                      account'[u].email # "", account'[u].email = account'[w].email
               PROVE  FALSE
    BY Zenon DEF OneAccountPerEmail, IsLive
  <2>1. /\ account[u].live /\ account[w].live /\ account[u].email = account[w].email
        /\ account[u].email = account'[u].email
    OBVIOUS
  <2> QED
    BY <2>1, Zenon DEF UsersInv, OneAccountPerEmail, IsLive
<1>4. \A i \in Idents : (linked[i] # NoOne => IsLive(linked[i]))'
  BY <1>1 DEF UsersInv
<1>5. linked' \in [Idents -> Idents \cup {NoOne}] /\ DOMAIN deposit' = Idents
      /\ \A w \in Idents : DepositInv(deposit[w])'
  BY DEF UsersInv, DepositInv
<1> QED
  BY <1>2, <1>3, <1>4, <1>5 DEF UsersInv

LEMMA StampStep ==
  ASSUME UsersInv, NEW v \in Visits, stampLoginOnRecord(v)
  PROVE  UsersInv'
<1>1. PICK i, u, login : i = visit[v].who /\ u = visit[v].record /\ login = LoginOf[visit[v].who]
  OBVIOUS
<1>2. visit[v] \in VisitRecord /\ VisitInv(visit[v]) /\ visit[v].at = "stamping"
  BY DEF UsersInv, stampLoginOnRecord
<1>3. i \in Idents /\ u \in Idents /\ login = LoginOf[i]
  BY <1>1, <1>2 DEF VisitRecord, VisitInv, IsLive
<1>4. /\ \/ account' = account \/ account' = [account EXCEPT ![u].github = login]
         \/ account' = [account EXCEPT ![u].gitea = login]
      /\ visit' = [visit EXCEPT ![v] = NoVisit] /\ UNCHANGED <<linked, edit, deposit>>
  BY <1>1, Zenon DEF stampLoginOnRecord
<1>5. login \in Texts
  BY <1>3, Zenon DEF Texts
<1>6. /\ account' \in [Idents -> AccountRecord]
      /\ \A w \in Idents : /\ account'[w].live = account[w].live /\ account'[w].email = account[w].email
                           /\ account'[w].super = account[w].super
  BY <1>3, <1>4, <1>5 DEF UsersInv, AccountRecord
<1>7. visit' \in [Visits -> VisitRecord] /\ \A w \in Visits : visit'[w] = visit[w] \/ visit'[w] = NoVisit
  BY <1>4, RestingRecords DEF UsersInv
<1>8. edit' \in [Edits -> EditRecord] /\ \A e \in Edits : EditInv(edit[e])'
  BY <1>4, <1>6 DEF UsersInv, EditInv, IsLive
<1> QED
  BY <1>4, <1>6, <1>7, <1>8, RecordsChange

LEMMA BootStep ==
  ASSUME UsersInv, Boot
  PROVE  UsersInv'
<1>1. /\ account' = [u \in Idents |->
           IF ~account[u].live THEN account[u]
           ELSE [account[u] EXCEPT !.admin = account[u].admin \/ Seeded(u, SeedAdmins),
                                   !.super = account[u].super \/ Seeded(u, SeedSupers)]]
      /\ visit' = [v \in Visits |-> NoVisit] /\ edit' = [e \in Edits |-> NoEdit] /\ UNCHANGED <<linked, deposit>>
  BY DEF Boot
<1>2. \A u, list : Seeded(u, list) \in BOOLEAN
  BY Zenon DEF Seeded, loginListed
<1>3. ASSUME NEW u \in Idents
      PROVE  account'[u] \in AccountRecord /\ account'[u].live = account[u].live /\ account'[u].email = account[u].email
  <2>1. account[u] \in AccountRecord
    BY DEF UsersInv
  <2>2. PICK a \in BOOLEAN, s \in BOOLEAN : a = (account[u].admin \/ Seeded(u, SeedAdmins))
                                            /\ s = (account[u].super \/ Seeded(u, SeedSupers))
    BY <1>2, <2>1, Zenon DEF AccountRecord
  <2>3. account'[u] = account[u] \/ account'[u] = [account[u] EXCEPT !.admin = a, !.super = s]
    BY <1>1, <2>2, Zenon
  <2> QED
    BY <2>1, <2>3 DEF AccountRecord
<1>4. account' \in [Idents -> AccountRecord]
  BY <1>1, <1>3
<1>5. visit' \in [Visits -> VisitRecord] /\ \A v \in Visits : visit'[v] = NoVisit
  BY <1>1, RestingRecords
<1>6. edit' \in [Edits -> EditRecord] /\ \A e \in Edits : EditInv(edit[e])'
  BY <1>1, RestingRecords DEF EditInv
<1> QED
  BY <1>1, <1>3, <1>4, <1>5, <1>6, RecordsChange

LEMMA EditReadsStep ==
  ASSUME UsersInv, NEW e \in Edits, NEW c \in Idents, NEW t \in Idents,
         NEW field \in {"admin", "disabled"}, NEW to \in BOOLEAN, EditReads(e, c, t, field, to)
  PROVE  UsersInv'
<1> DEFINE x == [at |-> "saving", caller |-> c, target |-> t, field |-> field, to |-> to]
<1>1. /\ account[c].live /\ account[t].live /\ MayEdit(c, t, field, to)
      /\ edit' = [edit EXCEPT ![e] = x] /\ UNCHANGED <<account, linked, visit, deposit>>
  BY DEF EditReads
<1>2. c # t /\ (field # "admin" /\ to /\ account[t].super => account[c].super)
  BY <1>1 DEF MayEdit, isSuperadminCaller
<1>3. x \in EditRecord
  BY DEF EditRecord
<1>4. EditInv(x)
  BY <1>1, <1>2 DEF EditInv, IsLive
<1> HIDE DEF x
<1>5. edit' \in [Edits -> EditRecord] /\ \A d \in Edits : edit'[d] = edit[d] \/ edit'[d] = x
  BY <1>1, <1>3 DEF UsersInv
<1>6. \A d \in Edits : EditInv(edit[d])'
  <2> SUFFICES ASSUME NEW d \in Edits PROVE EditInv(edit[d])'
    OBVIOUS
  <2>1. EditInv(edit[d]) /\ EditInv(x)
    BY <1>4 DEF UsersInv
  <2> QED
    BY <1>1, <1>5, <2>1 DEF EditInv, IsLive
<1> QED
  BY <1>1, <1>5, <1>6, RecordsChange DEF UsersInv

LEMMA EditSavesStep ==
  ASSUME UsersInv, NEW e \in Edits, EditSaves(e)
  PROVE  UsersInv'
<1>1. PICK t, to : t = edit[e].target /\ to = edit[e].to
  OBVIOUS
<1>2. edit[e] \in EditRecord /\ EditInv(edit[e]) /\ edit[e].at = "saving"
  BY DEF UsersInv, EditSaves
<1>3. t \in Idents /\ to \in BOOLEAN
  BY <1>1, <1>2 DEF EditInv, EditRecord, IsLive
<1>4. /\ account' = [account EXCEPT ![t].admin = to] \/ account' = [account EXCEPT ![t].disabled = to]
      /\ edit' = [edit EXCEPT ![e] = NoEdit] /\ UNCHANGED <<linked, visit, deposit>>
  BY <1>1 DEF EditSaves
<1>5. /\ account' \in [Idents -> AccountRecord]
      /\ \A w \in Idents : /\ account'[w].live = account[w].live /\ account'[w].email = account[w].email
                           /\ account'[w].super = account[w].super
  BY <1>3, <1>4 DEF UsersInv, AccountRecord
<1>6. edit' \in [Edits -> EditRecord] /\ \A d \in Edits : edit'[d] = edit[d] \/ edit'[d] = NoEdit
  BY <1>4, RestingRecords DEF UsersInv
<1>7. \A d \in Edits : EditInv(edit[d])'
  <2> SUFFICES ASSUME NEW d \in Edits PROVE EditInv(edit[d])'
    OBVIOUS
  <2>1. CASE edit'[d] = NoEdit
    BY <2>1, RestingRecords DEF EditInv
  <2>2. CASE edit'[d] = edit[d]
    BY <1>5, <2>2 DEF UsersInv, EditInv, IsLive
  <2> QED
    BY <1>6, <2>1, <2>2
<1> QED
  BY <1>4, <1>5, <1>6, <1>7, RecordsChange DEF UsersInv

\* Unlinking, and what touches neither accounts nor links.
LEMMA OtherSteps ==
  ASSUME UsersInv,
         \/ NewSecret \/ UNCHANGED userVars
         \/ \E i \in Idents : AckExpires(i) \/ Unlink(i) \/ DeleteKey(i)
         \/ \E u \in Depositors, value \in KeyValues : SetKey(u, value)
  PROVE  UsersInv'
<1>1. UNCHANGED <<account, visit, edit>>
  BY DEF NewSecret, userVars, AckExpires, Unlink, DeleteKey, SetKey
<1>2. linked' \in [Idents -> Idents \cup {NoOne}] /\ \A i \in Idents : linked'[i] \in {linked[i], NoOne}
  BY DEF UsersInv, NewSecret, userVars, AckExpires, Unlink, DeleteKey, SetKey
<1>3. DOMAIN deposit' = Idents /\ \A w \in Idents : DepositInv(deposit[w])'
  <2>1. CASE UNCHANGED deposit
    BY <2>1 DEF UsersInv, DepositInv
  <2>2. ASSUME NEW i \in Idents, DeleteKey(i) PROVE DOMAIN deposit' = Idents /\ \A w \in Idents : DepositInv(deposit[w])'
    BY <2>2 DEF UsersInv, DepositInv, DeleteKey
  <2>3. ASSUME NEW u \in Depositors, NEW value \in KeyValues, SetKey(u, value)
        PROVE  DOMAIN deposit' = Idents /\ \A w \in Idents : DepositInv(deposit[w])'
    BY <2>3, AccountsConfig DEF UsersInv, DepositInv, SetKey
  <2> QED
    BY <2>1, <2>2, <2>3 DEF NewSecret, userVars, AckExpires, Unlink
<1>4. \A v \in Visits : VisitInv(visit[v])'
  BY <1>1 DEF UsersInv, VisitInv, IsLive
<1>5. \A e \in Edits : EditInv(edit[e])'
  BY <1>1 DEF UsersInv, EditInv, IsLive
<1>6. OneAccountPerEmail'
  BY <1>1, Zenon DEF UsersInv, OneAccountPerEmail, IsLive
<1>7. \A i \in Idents : (linked[i] # NoOne => IsLive(linked[i]))'
  BY <1>1, <1>2 DEF UsersInv, IsLive
<1> QED
  BY <1>1, <1>2, <1>3, <1>4, <1>5, <1>6, <1>7 DEF UsersInv

LEMMA UsersInvNext == UsersInv /\ [UsersNext]_userVars => UsersInv'
<1> SUFFICES ASSUME UsersInv, [UsersNext]_userVars PROVE UsersInv'
  OBVIOUS
<1>1. ASSUME NEW v \in Visits, NEW i \in Idents, Match(v, i, NoOne) PROVE UsersInv'
  BY <1>1, MatchStep
<1>2. ASSUME NEW v \in Visits, NEW b \in Binds, Match(v, b[1], b[2]) PROVE UsersInv'
  <2>1. b[1] \in Idents /\ b[2] \in Idents \cup {NoOne}
    BY AccountsConfig
  <2> QED
    BY <1>2, <2>1, MatchStep
<1>3. ASSUME NEW v \in Visits,
             Refuse(v) \/ checkOAuthConflicts(v) \/ syncStableUserID(v) \/ LinkOrCreate(v) \/ stampLoginOnRecord(v)
      PROVE  UsersInv'
  BY <1>3, HookSteps, LinkStep, StampStep
<1>4. CASE Boot
  BY <1>4, BootStep
<1>5. ASSUME NEW e \in Edits, EditSaves(e) PROVE UsersInv'
  BY <1>5, EditSavesStep
<1>6. ASSUME NEW e \in Edits, NEW c \in Idents, NEW t \in Idents,
             NEW field \in {"admin", "disabled"}, NEW to \in BOOLEAN, EditReads(e, c, t, field, to)
      PROVE  UsersInv'
  BY <1>6, EditReadsStep
<1> QED
  BY <1>1, <1>2, <1>3, <1>4, <1>5, <1>6, OtherSteps DEF UsersNext

LEMMA UsersInvSuffices ==
  UsersInv => /\ \A i \in Idents : linked[i] # NoOne => account[linked[i]].live
              /\ \A u, w \in Living : u # w /\ account[u].email # "" => account[u].email # account[w].email
              /\ \A u \in Idents : ListMeta(u) = "usable" => GetKeys(u) \subseteq KeyValues
<1> SUFFICES ASSUME UsersInv
             PROVE  /\ \A i \in Idents : linked[i] # NoOne => account[linked[i]].live
                    /\ \A u, w \in Living : u # w /\ account[u].email # "" => account[u].email # account[w].email
                    /\ \A u \in Idents : ListMeta(u) = "usable" => GetKeys(u) \subseteq KeyValues
  OBVIOUS
<1>1. \A i \in Idents : linked[i] # NoOne => account[linked[i]].live
  BY DEF UsersInv, IsLive
<1>2. \A u, w \in Living : u # w /\ account[u].email # "" => account[u].email # account[w].email
  BY Zenon DEF UsersInv, OneAccountPerEmail, IsLive, Living
<1>3. \A u \in Idents : ListMeta(u) = "usable" => GetKeys(u) \subseteq KeyValues
  BY DEF UsersInv, DepositInv, ListMeta, GetKeys
<1> QED
  BY <1>1, <1>2, <1>3

\* Who disables a superadmin is another superadmin.
LEMMA NotTheLastSuper ==
  ASSUME UsersInv, [UsersNext]_userVars, NEW u \in Supers, ~account[u].disabled, account'[u].disabled
  PROVE  Cardinality(Supers) > 1
<1>1. u \in Idents /\ account[u].live /\ account[u].super
  BY DEF Supers, Living
<1>2. PICK e \in Edits : EditSaves(e) /\ edit[e].field = "disabled" /\ edit[e].to /\ edit[e].target = u
  <2>1. ~UNCHANGED account
    OBVIOUS
  <2>2. ASSUME NEW v \in Visits, LinkOrCreate(v) PROVE FALSE
    <3>1. account' = account \/ (account' = [account EXCEPT ![visit[v].who] = [NoAccount EXCEPT !.live = TRUE, !.email = EmailOf[visit[v].who]]]
                                  /\ ~account[visit[v].who].live)
      BY <2>2, Zenon DEF LinkOrCreate
    <3> QED
      BY <1>1, <2>1, <3>1 DEF UsersInv
  <2>3. ASSUME NEW v \in Visits, stampLoginOnRecord(v) PROVE FALSE
    <3>1. PICK w, login : \/ account' = account \/ account' = [account EXCEPT ![w].github = login]
                          \/ account' = [account EXCEPT ![w].gitea = login]
      BY <2>3, Zenon DEF stampLoginOnRecord
    <3> QED
      BY <1>1, <3>1 DEF UsersInv, AccountRecord
  <2>4. CASE Boot
    BY <1>1, <2>4 DEF Boot, UsersInv, AccountRecord
  <2>5. PICK e \in Edits : EditSaves(e)
    BY <2>1, <2>2, <2>3, <2>4 DEF UsersNext, userVars, NewSecret, Refuse, checkOAuthConflicts, syncStableUserID,
       Match, AckExpires, Unlink, DeleteKey, SetKey, EditReads
  <2>6. edit[e] \in EditRecord
    BY DEF UsersInv
  <2>7. edit[e].field = "disabled" /\ edit[e].to /\ edit[e].target = u
    BY <1>1, <2>5, <2>6 DEF EditSaves, EditRecord, UsersInv, AccountRecord
  <2> QED
    BY <2>5, <2>7
<1>3. EditInv(edit[e]) /\ edit[e].at = "saving"
  BY <1>2 DEF UsersInv, EditSaves
<1>4. PICK c : c \in Supers /\ c # u
  BY <1>1, <1>2, <1>3 DEF EditInv, IsLive, Supers, Living
<1>5. IsFiniteSet(Supers)
  BY AccountsConfig, FS_Subset DEF Supers, Living
<1>6. IsFiniteSet({u, c}) /\ Cardinality({u, c}) = 2
  <2>1. IsFiniteSet({u}) /\ Cardinality({u}) = 1 /\ c \notin {u}
    BY <1>4, FS_Singleton
  <2>2. IsFiniteSet({u} \cup {c}) /\ Cardinality({u} \cup {c}) = Cardinality({u}) + 1
    BY <2>1, FS_AddElement
  <2>3. {u, c} = {u} \cup {c}
    OBVIOUS
  <2> QED
    BY <2>1, <2>2, <2>3
<1>7. Cardinality({u, c}) <= Cardinality(Supers)
  BY <1>4, <1>5, FS_Subset
<1>8. Cardinality(Supers) \in Nat
  BY <1>5, FS_CardinalityType
<1> QED
  BY <1>6, <1>7, <1>8

\* However sign-ins, edits, deposits and restarts interleave: an identity leads
\* to an account that exists, an email that is given belongs to one account, a
\* key listed as usable is one that was deposited, and a sole superadmin is
\* never locked out by an edit (auth hooks, admin_users.go, userkeys).
THEOREM AccountsAlwaysSound == UsersSpec => AccountsSound
<1> DEFINE Holds ==
             /\ \A i \in Idents : linked[i] # NoOne => account[linked[i]].live
             /\ \A u, w \in Living : u # w /\ account[u].email # "" => account[u].email # account[w].email
             /\ \A u \in Idents : ListMeta(u) = "usable" => GetKeys(u) \subseteq KeyValues
           Kept == \A u \in Supers : ~account[u].disabled /\ account'[u].disabled => Cardinality(Supers) > 1
<1>1. UsersInv => Holds
  BY UsersInvSuffices, Zenon
<1>2. UsersInv /\ [UsersNext]_userVars => Kept
  BY NotTheLastSuper, Zenon
<1>3. AccountsSound <=> []Holds /\ [][Kept]_userVars
  BY Zenon DEF AccountsSound
<1> HIDE DEF Holds, Kept
<1>4. UsersSpec => []UsersInv
  BY UsersInvInit, UsersInvNext, PTL DEF UsersSpec
<1>5. UsersSpec => []Holds /\ [][Kept]_userVars
  BY <1>1, <1>2, <1>4, PTL DEF UsersSpec
<1> QED
  BY <1>3, <1>5, PTL

\* A step of the platform is a step of the accounts, or leaves them alone.
LEMMA PlatformStepsAccounts ==
  ASSUME [PlatformNext]_platformVars
  PROVE  [UsersNext]_userVars
<1>1. CASE UNCHANGED platformVars
  BY <1>1 DEF platformVars
<1>2. CASE PlatformNext
  BY <1>2 DEF PlatformNext, MeteringMoves, LaneMoves, ProxyMoves, LadderMoves, WireMoves,
     AccountsMove, ArxivMoves, OperationsMove, HealthMoves, BrowsersMove, PluginsMove, Only, Still
<1> QED
  BY <1>1, <1>2

\* The same of the composed platform, whatever moves beside the accounts.
THEOREM AccountsSoundOnHost == PlatformSpec => AccountsSound
<1>1. PlatformInit => UsersInit
  BY DEF PlatformInit
<1>2. [PlatformNext]_platformVars => [UsersNext]_userVars
  BY PlatformStepsAccounts
<1>3. PlatformSpec => UsersSpec
  BY <1>1, <1>2, PTL DEF PlatformSpec, UsersSpec
<1> QED
  BY <1>3, AccountsAlwaysSound, PTL
=============================================================================
