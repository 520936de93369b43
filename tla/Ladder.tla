------------------------------- MODULE Ladder -------------------------------
(***************************************************************************)
(* The strategy ladder of the in-process downloader: Downloader.FetchPDF    *)
(* and what it calls (internal/downloader: fetcher, resolvers, landing      *)
(* pages, the link-extracting agent, the browser lane, delegation).  One    *)
(* download climbs from arXiv through open-access resolvers, publisher      *)
(* patterns and landing pages to a remote worker or proxy, a browser and an *)
(* agent; the trace of what failed decides which of the last ones are       *)
(* tried.  The network answers as it likes, also with another paper's PDF.  *)
(***************************************************************************)
EXTENDS Integers, Sequences, SequencesExt

CONSTANTS
    Calls,          \* concurrent calls of FetchPDF
    Refs,           \* the identities they may be given: [arxiv, doi, title]
    Resolvers,      \* oaResolvers, in order
    Deployments,    \* configurations: [remote, browser, agent, twins, robots]
    FetchRetryMax,  \* fetchRetryMax
    MaxURLs         \* bound: candidates one source offers

ASSUME LadderConfig ==
    /\ \A r \in Refs : r.doi \in {"none", "doi", "pmcid"} /\ {r.arxiv, r.title} \subseteq BOOLEAN
    /\ \A d \in Deployments : d.remote \in {"none", "worker", "proxy"}
    /\ {FetchRetryMax, MaxURLs} \subseteq Nat
    /\ Resolvers \in Seq(STRING)

VARIABLES
    climb,      \* what each climb works on, and its FetchOutcome
    robots,     \* the cached robots.txt verdict of the candidates' host
    deployed    \* the configuration, one of Deployments

ladderVars == <<climb, robots, deployed>>

Stages == <<"arxiv", "pmc", "twin", "oa", "pattern", "landing", "delegate", "browser", "agent", "last">>
Marks == {"challenge", "no candidates", "delegated"}
\* A candidate URL looks like a PDF or like a page to be mined.
URLs == BoundedSeq({"pdf", "page"}, MaxURLs)
NoCall == [at |-> "idle", ref |-> CHOOSE r \in Refs : TRUE, doi |-> "none", resolver |-> 1,
           queue |-> <<>>, try |-> 0, titled |-> "open", trace |-> {}, delegations |-> 0,
           landing |-> FALSE, pending |-> FALSE, result |-> "none", answer |-> "none"]

LadderTypeOK ==
    /\ robots \in {"unknown", "open", "closed"}
    /\ \A c \in Calls :
          /\ climb[c].at \in Range(Stages) \cup {"idle", "over"} /\ climb[c].trace \subseteq Marks
          /\ climb[c].try \in 0 .. FetchRetryMax
          /\ climb[c].result \in {"none", "own", "foreign"}
          /\ climb[c].answer \in {"none", "found", "no pdf", "no identity", "pending"}

LadderInit == climb = [c \in Calls |-> NoCall] /\ robots = "unknown" /\ deployed \in Deployments

\* A source's list, or an error, which may mean a bot wall.
Errors == {<<"error">>, <<"challenge">>}
Blame(urls) == IF urls = <<"challenge">> THEN {"challenge"} ELSE {}
PDFs(n) == [i \in 1 .. n |-> "pdf"]

\* Unpaywall lists its PDF links before its pages; Europe PMC its open links
\* before those behind a subscription, also for a PMCID; Semantic Scholar has
\* one link or an error, after one more try when it was told to slow down.
UnpaywallCandidates == Errors \cup
    {u \in URLs : \A i, j \in 1 .. Len(u) : i < j /\ u[i] = "page" => u[j] = "page"}
epmcPDFURLs == URLs
SemanticScholarCandidates == Errors \cup {u \in URLs : Len(u) = 1}
Candidates(r) ==
    CASE r = "unpaywall" -> UnpaywallCandidates
      [] r = "semantic_scholar" -> SemanticScholarCandidates
      [] r = "europepmc" -> Errors \cup epmcPDFURLs
      [] OTHER -> Errors \cup URLs

Moves(c, to) == climb' = [climb EXCEPT ![c] = to]
At(c, stage) == climb[c].at = stage
Ends(k, answer) == [k EXCEPT !.at = "over", !.queue = <<>>, !.answer = answer]
Returns(k, bytes) == [Ends(k, "found") EXCEPT !.result = bytes]
Goes(k, stage) == [k EXCEPT !.at = stage, !.queue = <<>>, !.try = 0]
Marked(k, marks) == [k EXCEPT !.trace = @ \cup marks]
NextURL(k) == [k EXCEPT !.queue = Tail(@), !.try = 0]

-----------------------------------------------------------------------------
(* One candidate: fetch, doOnce, ClassifyBody and the checks of FetchPDF.    *)

Replies == {"pdf", "short pdf", "cut pdf", "idp pdf", "challenge", "paywall", "page",
            "403", "202", "429", "5xx", "4xx", "none"}
\* Only 429 and 5xx are tried again, whatever the page says.
retryable(reply) == reply \in {"429", "5xx"}
\* FetchPDF: what the validation pipeline lets through.
IsPDF(reply) == reply = "pdf"
\* traceSawChallenge: the errors that mean a bot wall.
Challenges(reply) == reply \in {"challenge", "403", "202", "idp pdf"}
\* robotsAllows: the longest matching rule wins, the later one of equals.
robotsAllows(rules) ==
    FoldLeft(LAMBDA best, rule : IF rule.length >= best.length THEN rule ELSE best,
             [length |-> -1, allowed |-> TRUE], rules).allowed
RuleSets == BoundedSeq([length : 1 .. 2, allowed : BOOLEAN], 2)

\* verifyPublishedCandidate: a trusted title, from the request, the catalog or
\* OpenAlex and looked up once, and the front matter that carries it.
Titles(k) == IF k.titled # "open" THEN {k.titled} ELSE IF k.ref.title THEN {"yes"} ELSE {"yes", "no"}
VerifyPublishedPDF(bytes, title) == bytes = "own" /\ title = "yes"
verifyPublishedCandidate(bytes, title) == VerifyPublishedPDF(bytes, title)

\* tryCandidate: the bytes are accepted only if they are proven to be the
\* paper's; otherwise the attempt is one more line of the trace.
Tried(k, reply, bytes, title) ==
    IF IsPDF(reply)
    THEN LET checked == [k EXCEPT !.titled = title] IN
         IF verifyPublishedCandidate(bytes, title) THEN Returns(checked, bytes) ELSE NextURL(checked)
    ELSE NextURL(Marked(k, IF Challenges(reply) THEN {"challenge"} ELSE {}))
tryCandidate(c, reply, bytes) ==
    LET k == climb[c] IN
    /\ k.queue # <<>> /\ Head(k.queue) = "pdf" /\ k.at \notin {"browser"}
    /\ ~deployed.robots \/ robots = "open"
    /\ IF retryable(reply) /\ k.try < FetchRetryMax THEN Moves(c, [k EXCEPT !.try = @ + 1])
       ELSE \E title \in Titles(k) : Moves(c, Tried(k, reply, bytes, title))
    /\ UNCHANGED <<robots, deployed>>
\* rulesFor: fetched once per host while fresh; any failure leaves it open.
FetchRobots(rules) ==
    /\ deployed.robots /\ robots = "unknown" /\ \E c \in Calls : climb[c].queue # <<>>
    /\ robots' = IF robotsAllows(rules) THEN "open" ELSE "closed"
    /\ UNCHANGED <<climb, deployed>>
RobotsExpire == robots # "unknown" /\ robots' = "unknown" /\ UNCHANGED <<climb, deployed>>
RobotsRefuse(c) ==
    /\ deployed.robots /\ robots = "closed" /\ climb[c].queue # <<>> /\ climb[c].at # "browser"
    /\ Moves(c, NextURL(climb[c])) /\ UNCHANGED <<robots, deployed>>
\* The request's context ends: every lane left fails at once.
Cancel(c) ==
    /\ climb[c].at \notin {"idle", "over"} /\ Moves(c, Ends(climb[c], "no pdf"))
    /\ UNCHANGED <<robots, deployed>>

-----------------------------------------------------------------------------
(* The rungs.                                                                *)

Start(c, ref) ==
    /\ At(c, "idle") /\ UNCHANGED <<robots, deployed>>
    /\ Moves(c, [NoCall EXCEPT !.at = IF ref.arxiv THEN "arxiv" ELSE "pmc", !.ref = ref, !.doi = ref.doi])
\* tryArxiv: the identity is pinned by the fetcher.
tryArxiv(c, answer) ==
    /\ At(c, "arxiv")
    /\ Moves(c, IF answer = <<>> THEN Returns(climb[c], "own")
                ELSE Goes(Marked(climb[c], Blame(answer)), "pmc"))
    /\ UNCHANGED <<robots, deployed>>
\* CandidatesByPMCID: the PMCID becomes a DOI if Europe PMC knows one, and its
\* links are tried.
ResolvePMCID(c, known, urls) ==
    LET k == climb[c] IN
    /\ At(c, "pmc") /\ k.doi = "pmcid" /\ k.queue = <<>> /\ UNCHANGED <<robots, deployed>>
    /\ urls \in Errors \cup epmcPDFURLs
    /\ Moves(c, IF urls \in Errors THEN Ends(k, "no pdf")
                ELSE [k EXCEPT !.doi = IF known THEN "doi" ELSE "resolved", !.queue = PDFs(Len(urls))])
\* Without a DOI the fleet is the last resort of an arXiv paper.
NoDOI(c) ==
    LET k == climb[c] IN
    /\ At(c, "pmc") /\ k.doi = "none" /\ UNCHANGED <<robots, deployed>>
    /\ Moves(c, IF ~k.ref.arxiv THEN Ends(k, "no identity")
                ELSE IF deployed.remote = "worker" THEN Goes(k, "last") ELSE Ends(k, "no pdf"))
AfterPMC(c) ==
    LET k == climb[c] IN
    /\ At(c, "pmc") /\ k.doi \in {"doi", "resolved"} /\ k.queue = <<>> /\ UNCHANGED <<robots, deployed>>
    /\ Moves(c, Goes(k, IF deployed.twins /\ ~k.ref.arxiv THEN "twin" ELSE "oa"))
\* The arXiv twin OpenAlex names.
TryTwin(c, answer) ==
    /\ At(c, "twin")
    /\ Moves(c, IF answer = <<>> THEN Returns(climb[c], "own")
                ELSE Goes(Marked(climb[c], Blame(answer)), "oa"))
    /\ UNCHANGED <<robots, deployed>>

AskResolver(c, urls) ==
    LET k == climb[c] IN
    /\ At(c, "oa") /\ k.queue = <<>> /\ k.resolver <= Len(Resolvers)
    /\ urls \in Candidates(Resolvers[k.resolver])
    /\ Moves(c, [Marked(k, Blame(urls)) EXCEPT !.resolver = @ + 1,
                                               !.queue = IF urls \in Errors THEN <<>> ELSE urls])
    /\ UNCHANGED <<robots, deployed>>
\* scrapeLanding of a repository page: its links take the page's place.
MinePage(c, urls) ==
    LET k == climb[c] IN
    /\ At(c, "oa") /\ k.queue # <<>> /\ Head(k.queue) = "page"
    /\ Moves(c, CASE urls \in Errors -> NextURL(Marked(k, Blame(urls)))
                  [] urls = <<>> -> NextURL(Marked(k, {"no candidates"}))
                  [] OTHER -> [k EXCEPT !.queue = PDFs(Len(urls)) \o Tail(@)])
    /\ UNCHANGED <<robots, deployed>>
ResolversDone(c, patterns) ==
    LET k == climb[c] IN
    /\ At(c, "oa") /\ k.queue = <<>> /\ k.resolver > Len(Resolvers) /\ UNCHANGED <<robots, deployed>>
    /\ Moves(c, [Goes(k, "pattern") EXCEPT !.queue = PDFs(patterns)])
\* FetchLanding: the page of the DOI, kept for the agent.
FetchLanding(c, urls) ==
    LET k == Goes(climb[c], "landing") IN
    /\ At(c, "pattern") /\ climb[c].queue = <<>> /\ UNCHANGED <<robots, deployed>>
    /\ Moves(c, CASE urls \in Errors -> Marked(k, Blame(urls))
                  [] urls = <<>> -> [Marked(k, {"no candidates"}) EXCEPT !.landing = TRUE]
                  [] OTHER -> [k EXCEPT !.landing = TRUE, !.queue = PDFs(Len(urls))])

\* tryRemote.  A failure is marked, so that the paper is not handed out twice;
\* a worker's task may live on; bytes that are not archived yet are verified.
Delegated(k, then, answer, bytes, title) ==
    LET asked == [Marked(k, {"delegated"}) EXCEPT !.delegations = @ + 1] IN
    CASE answer = "pending" -> Ends([asked EXCEPT !.pending = TRUE], "pending")
      [] answer = "archived" -> Returns(asked, "own")
      [] answer = "pdf" /\ verifyPublishedCandidate(bytes, title) -> Returns(asked, bytes)
      [] OTHER -> then
RemoteAnswers == {"pdf", "failed"} \cup IF deployed.remote = "worker" THEN {"pending", "archived"} ELSE {}
\* The proxy shares the climb's title, a worker's result has a lookup of its own.
RemoteTitles(k) == IF deployed.remote = "proxy" THEN Titles(k) ELSE Titles([k EXCEPT !.titled = "open"])
MayDelegate(k) == deployed.remote # "none" /\ "delegated" \notin k.trace
ChallengedRemote(k) == deployed.remote # "none" /\ "challenge" \in k.trace
DelegateEarly(c, answer, bytes) ==
    LET k == climb[c] IN
    /\ At(c, "landing") /\ k.queue = <<>> /\ ChallengedRemote(k)
    /\ \E title \in RemoteTitles(k) :
          Moves(c, Delegated(k, Goes([Marked(k, {"delegated"}) EXCEPT !.delegations = @ + 1], "browser"),
                             answer, bytes, title))
    /\ UNCHANGED <<robots, deployed>>
NoEarlyDelegation(c) ==
    /\ At(c, "landing") /\ climb[c].queue = <<>> /\ ~ChallengedRemote(climb[c])
    /\ Moves(c, Goes(climb[c], "browser")) /\ UNCHANGED <<robots, deployed>>
DelegateLast(c, answer, bytes) ==
    LET k == climb[c] IN
    /\ At(c, "last") /\ MayDelegate(k)
    /\ \E title \in RemoteTitles(k) : Moves(c, Delegated(k, Ends([k EXCEPT !.delegations = @ + 1], "no pdf"),
                                                         answer, bytes, title))
    /\ UNCHANGED <<robots, deployed>>
LadderEnds(c) ==
    /\ At(c, "last") /\ ~MayDelegate(climb[c]) /\ Moves(c, Ends(climb[c], "no pdf"))
    /\ UNCHANGED <<robots, deployed>>

\* browserTargets: the PDF-ish URLs already tried and the DOI itself.
OpenBrowser(c, targets) ==
    LET k == climb[c] IN
    /\ At(c, "browser") /\ k.queue = <<>> /\ k.try = 0 /\ deployed.browser
    /\ k.trace \cap {"challenge", "no candidates"} # {}
    /\ Moves(c, [k EXCEPT !.queue = PDFs(targets), !.try = 1]) /\ UNCHANGED <<robots, deployed>>
\* A variant: what the browser shows is taken for the paper.
BrowserTrusts(c, ok, bytes) ==
    LET k == climb[c] IN
    /\ At(c, "browser") /\ k.queue # <<>>
    /\ Moves(c, IF ok THEN Returns(k, bytes) ELSE [k EXCEPT !.queue = Tail(@)])
    /\ UNCHANGED <<robots, deployed>>
TryBrowser(c, ok, bytes) ==
    LET k == climb[c] IN
    /\ At(c, "browser") /\ k.queue # <<>>
    /\ \E title \in Titles(k) :
          Moves(c, IF ~ok THEN [k EXCEPT !.queue = Tail(@)]
                   ELSE IF verifyPublishedCandidate(bytes, title)
                   THEN Returns([k EXCEPT !.titled = title], bytes)
                   ELSE [k EXCEPT !.queue = Tail(@), !.titled = title])
    /\ UNCHANGED <<robots, deployed>>
BrowserDone(c) ==
    LET k == climb[c] IN
    /\ At(c, "browser") /\ k.queue = <<>>
    /\ k.try = 1 \/ ~deployed.browser \/ k.trace \cap {"challenge", "no candidates"} = {}
    /\ Moves(c, Goes(k, "agent")) /\ UNCHANGED <<robots, deployed>>
\* The agent's links: OpenAIExtractor or ClaudeExtractor, parseAgentAnswer.
Extract(c, links) ==
    /\ At(c, "agent") /\ climb[c].queue = <<>> /\ deployed.agent /\ climb[c].landing
    /\ Moves(c, [climb[c] EXCEPT !.landing = FALSE, !.queue = PDFs(links)])
    /\ UNCHANGED <<robots, deployed>>
AgentDone(c) ==
    /\ At(c, "agent") /\ climb[c].queue = <<>> /\ (~deployed.agent \/ ~climb[c].landing)
    /\ Moves(c, Goes(climb[c], "last")) /\ UNCHANGED <<robots, deployed>>

LadderNext ==
    \/ RobotsExpire \/ \E rules \in RuleSets : FetchRobots(rules)
    \/ \E c \in Calls :
          \/ NoDOI(c) \/ AfterPMC(c) \/ NoEarlyDelegation(c) \/ LadderEnds(c)
          \/ BrowserDone(c) \/ AgentDone(c) \/ RobotsRefuse(c) \/ Cancel(c)
          \/ \E ref \in Refs : Start(c, ref)
          \/ \E answer \in {<<>>} \cup Errors : tryArxiv(c, answer) \/ TryTwin(c, answer)
          \/ \E urls \in URLs \cup Errors :
                \/ AskResolver(c, urls) \/ MinePage(c, urls) \/ FetchLanding(c, urls)
                \/ \E known \in BOOLEAN : ResolvePMCID(c, known, urls)
          \/ \E n \in 0 .. MaxURLs : ResolversDone(c, n) \/ Extract(c, n)
          \/ \E n \in 1 .. MaxURLs : OpenBrowser(c, n)
          \/ \E bytes \in {"own", "foreign"} :
                \/ \E reply \in Replies : tryCandidate(c, reply, bytes)
                \/ \E answer \in RemoteAnswers :
                      DelegateEarly(c, answer, bytes) \/ DelegateLast(c, answer, bytes)
                \/ \E ok \in BOOLEAN : TryBrowser(c, ok, bytes)

LadderSpec == LadderInit /\ [][LadderNext]_ladderVars

-----------------------------------------------------------------------------
(* Properties.                                                               *)

\* Whatever rung ends the climb: the bytes returned are the paper's own, the
\* paper is handed to a remote at most once, and a task that lives on at a
\* worker is never joined by bytes fetched here.
LadderSound ==
    \A c \in Calls :
        /\ climb[c].result # "foreign" /\ (climb[c].answer = "found" <=> climb[c].result = "own")
        /\ climb[c].delegations <= 1
        /\ climb[c].pending => climb[c].answer = "pending"
==============================================================================
