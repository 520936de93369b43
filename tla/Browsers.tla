------------------------------ MODULE Browsers ------------------------------
(***************************************************************************)
(* The two browser supervisors: the download worker's, which owns a process  *)
(* group and a profile directory (internal/downloadworker/browser.go), and   *)
(* the downloader proxy's, which replaces a browser that stops answering     *)
(* (cmd/downloaderproxy/main.go).                                            *)
(***************************************************************************)
EXTENDS Integers

CONSTANTS
    MissLimit,         \* misses after which the proxy replaces its browser (3)
    MaxSpawns,      \* bound: processes started
    MaxCrashes      \* bound: failures of the browsers

ASSUME BrowsersConfig == {MaxSpawns, MaxCrashes} \subseteq Nat /\ MissLimit \in Nat \ {0}

VARIABLES
    chrome,      \* the worker's browser and the goroutine that keeps it
    proxyChrome,        \* the proxy's browser and its misses
    external,    \* something else listens on the port
    spawns, crashes

browserVars == <<chrome, proxyChrome, external, spawns, crashes>>

NoChrome == [at |-> "off", root |-> FALSE, helpers |-> {}, alive |-> FALSE, cancelled |-> FALSE,
             profile |-> FALSE, gen |-> 0]

BrowsersTypeOK ==
    /\ chrome.at \in {"off", "refused", "spawn", "watch", "term", "pause", "closed"}
    /\ chrome.helpers \subseteq 0 .. MaxSpawns /\ chrome.gen \in 0 .. MaxSpawns
    /\ proxyChrome.proc \in {"none", "starts", "runs", "hangs", "zombie", "reaps"}
    /\ proxyChrome.misses \in 0 .. MissLimit
    /\ external \in BOOLEAN /\ spawns \in 0 .. MaxSpawns /\ crashes \in 0 .. MaxCrashes

BrowsersInit ==
    /\ chrome = NoChrome /\ proxyChrome = [proc |-> "none", misses |-> 0] /\ external \in BOOLEAN
    /\ spawns = 0 /\ crashes = 0

Crashes == crashes < MaxCrashes /\ crashes' = crashes + 1
SpawnCounted == spawns < MaxSpawns /\ spawns' = spawns + 1
Quietly == UNCHANGED <<proxyChrome, external, crashes>>

(***************************** the worker's browser ***********************)

\* A browser that listens already is not ours; an external URL is used as it is.
probeCDP == external
StartBrowser ==
    /\ chrome.at = "off"
    /\ chrome' = IF probeCDP THEN [chrome EXCEPT !.at = "refused"]
                 ELSE [NoChrome EXCEPT !.at = "spawn", !.profile = TRUE]
    /\ Quietly /\ UNCHANGED spawns
\* The loop's head: cancelled, or another process in a group of its own.
BrowserSpawns(ok) ==
    /\ chrome.at = "spawn" /\ ~chrome.cancelled /\ SpawnCounted
    /\ chrome' = IF ok THEN [chrome EXCEPT !.at = "watch", !.root = TRUE, !.alive = TRUE, !.gen = spawns',
                                           !.helpers = @ \cup {spawns'}]
                 ELSE [chrome EXCEPT !.at = "pause"]
    /\ Quietly
\* The root process dies by itself, its helpers perhaps not.
BrowserCrashes(all) ==
    /\ Crashes /\ chrome.root
    /\ chrome' = [chrome EXCEPT !.root = FALSE, !.helpers = IF all THEN @ \ {chrome.gen} ELSE @]
    /\ UNCHANGED <<proxyChrome, external, spawns>>
\* A variant: only the root process is killed.
KillRoot(b) == [b EXCEPT !.root = FALSE]
\* SIGKILL to the whole process group, after every exit.
KillGroup(b) == [b EXCEPT !.root = FALSE, !.helpers = @ \ {b.gen}]
\* The select: the root has exited, or it was told to, on SIGTERM within five
\* seconds or killed after them.
BrowserReaped ==
    /\ (chrome.at = "watch" /\ ~chrome.root) \/ chrome.at = "term"
    /\ chrome' = [KillGroup(chrome) EXCEPT !.at = "pause", !.alive = FALSE]
    /\ Quietly /\ UNCHANGED spawns
BrowserTermed ==
    /\ chrome.at = "watch" /\ chrome.cancelled /\ chrome' = [chrome EXCEPT !.at = "term"]
    /\ Quietly /\ UNCHANGED spawns
\* Three seconds, cut short by the cancellation; the profile goes last.
BrowserPaused ==
    /\ chrome.at = "pause" \/ (chrome.at = "spawn" /\ chrome.cancelled)
    /\ chrome' = IF chrome.cancelled THEN [chrome EXCEPT !.at = "closed", !.profile = FALSE]
                 ELSE [chrome EXCEPT !.at = "spawn"]
    /\ Quietly /\ UNCHANGED spawns
\* Close cancels and waits for the goroutine's end.
Close ==
    /\ chrome.at \notin {"off", "refused", "closed"} /\ ~chrome.cancelled
    /\ chrome' = [chrome EXCEPT !.cancelled = TRUE]
    /\ Quietly /\ UNCHANGED spawns

(***************************** the proxy's browser ************************)

LaneOnly == UNCHANGED <<chrome, external>>
startBrowser ==
    /\ proxyChrome.proc = "none" /\ SpawnCounted /\ proxyChrome' = [proc |-> "starts", misses |-> 0]
    /\ LaneOnly /\ UNCHANGED crashes
\* Up to thirty seconds for the first answer, then supervised either way.
waitForCDP(answers) ==
    /\ proxyChrome.proc = "starts"
    /\ proxyChrome' = [proxyChrome EXCEPT !.proc = IF answers THEN "runs" ELSE "hangs"]
    /\ LaneOnly /\ UNCHANGED <<spawns, crashes>>
\* A dead process that was not waited for still takes signal 0.
procAlive == proxyChrome.proc \in {"runs", "hangs", "zombie"}
\* One probe, every five seconds; what has missed GiveUp of them is killed and reaped.
superviseBrowser ==
    /\ procAlive
    /\ proxyChrome' = IF proxyChrome.proc = "runs" THEN [proxyChrome EXCEPT !.misses = 0]
               ELSE IF proxyChrome.misses + 1 >= MissLimit THEN [proc |-> "reaps", misses |-> 0]
               ELSE [proxyChrome EXCEPT !.misses = @ + 1]
    /\ LaneOnly /\ UNCHANGED <<spawns, crashes>>
\* The profile's lock file goes before the next start.
LaneReaped ==
    /\ proxyChrome.proc = "reaps" /\ proxyChrome' = [proxyChrome EXCEPT !.proc = "none"]
    /\ LaneOnly /\ UNCHANGED <<spawns, crashes>>
LaneBreaks(how) ==
    /\ proxyChrome.proc \in {"runs", "hangs"} /\ how # proxyChrome.proc /\ Crashes
    /\ proxyChrome' = [proxyChrome EXCEPT !.proc = how]
    /\ LaneOnly /\ UNCHANGED spawns

\* Nothing more is started here.
BrowsersRest == spawns = MaxSpawns /\ UNCHANGED browserVars

BrowsersNext ==
    \/ StartBrowser \/ BrowserReaped \/ BrowserTermed \/ BrowserPaused \/ Close
    \/ \E yes \in BOOLEAN : BrowserSpawns(yes) \/ BrowserCrashes(yes) \/ waitForCDP(yes)
    \/ startBrowser \/ superviseBrowser \/ LaneReaped
    \/ \E how \in {"runs", "hangs", "zombie"} : LaneBreaks(how)
    \/ BrowsersRest

BrowsersSpec == BrowsersInit /\ [][BrowsersNext]_browserVars

-----------------------------------------------------------------------------
(* However its browser dies, the worker never starts another while a process *)
(* of the earlier one is left, never reports one alive that it has reaped,   *)
(* and once Close has returned neither a process nor the profile is left.    *)
(* The proxy never replaces a browser that answered one of the last probes.  *)
NoStrayBrowser ==
    /\ chrome.at \in {"spawn", "pause", "closed"} => ~chrome.root /\ chrome.helpers = {} /\ ~chrome.alive
    /\ chrome.at = "closed" => ~chrome.profile
    /\ proxyChrome.proc = "runs" => proxyChrome.misses < MissLimit
=============================================================================
