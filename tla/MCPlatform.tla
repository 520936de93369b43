----------------------------- MODULE MCPlatform -----------------------------
(***************************************************************************)
(* Small instances of the fetching lanes, the accounts and the host.       *)
(* They have no variable in common (where one depends on another, its      *)
(* module states what it relies on), so they are checked one at a time:    *)
(* focus names the service that moves, the others rest in their initial    *)
(* state.                                                                  *)
(***************************************************************************)
EXTENDS Metering, BrowserLane, ProxyJobs, Ladder, MineruWire, Accounts,
        ArxivFetch, Operations, Health, Browsers, Plugins, TLC

CONSTANTS Focus, a1, a2, b1, b2

(* Values of the constants. *)
MCSymmetry   == Permutations({a1, a2})
MCSearcher   == [c \in Searchers |-> "u1"]
MCTotal      == [g \in Gates |-> 2]
MCUser       == [g \in Gates |-> IF g = "ranked" THEN 2 ELSE 1]
MCPerMinute  == [g \in Gates |-> 1]
\* Ladder: every kind of reference, every deployment.
MCRefs       == [arxiv : BOOLEAN, doi : {"none", "doi", "pmcid"}, title : BOOLEAN]
MCResolvers  == <<"openalex", "unpaywall", "semantic_scholar">>
MCDeployments == {[remote |-> r, browser |-> b, agent |-> TRUE, twins |-> b, robots |-> ~b] :
                     r \in {"none", "worker", "proxy"}, b \in BOOLEAN}
MCPaths      == {<<"md">>, <<"middle">>, <<"x">>, <<"x", "md">>, <<"x", "middle">>}
\* Accounts: the same login at two providers.
MCProvider   == "gh" :> "github" @@ "gx" :> "gitea"
MCLogin      == [i \in Idents |-> "ann"]
MCEmail      == "gh" :> "a@x" @@ "gx" :> ""
MCOneEmail   == [i \in Idents |-> "a@x"]
MCAdmins     == {<<"gitea", "ann">>}
MCSupers     == {<<"github", "ann">>}
MCBinds      == {<<"gx", "gh">>}
\* ArxivFetch: one answer of each kind the fetcher tells apart.
MCReply(s, b, n) == [status |-> s, body |-> b, retryAfter |-> n]
MCReplies    == {MCReply("200", "pdf", 0), MCReply("200", "html", 0), MCReply("200", "cut", 0),
                 MCReply("404", "html", 0), MCReply("4xx", "html", 0),
                 MCReply("429", "html", 2), MCReply("5xx", "html", -1)}
\* Operations: root under sudo, and the operator's own shell.
MCLogins     == {[euid |-> "root", sudo |-> "op", known |-> TRUE, home |-> "root", tty |-> TRUE],
                 [euid |-> "op", sudo |-> "none", known |-> TRUE, home |-> "op", tty |-> FALSE]}
MCUnitOptions ==
    {[mode |-> "", force |-> FALSE, dryRun |-> FALSE, config |-> FALSE],
     [mode |-> "system", force |-> TRUE, dryRun |-> FALSE, config |-> TRUE],
     [mode |-> "user", force |-> TRUE, dryRun |-> TRUE, config |-> FALSE],
     [mode |-> "user", force |-> TRUE, dryRun |-> FALSE, config |-> FALSE]}
MCBuckets    == <<"s1", "s2">>

VARIABLE focus

\* Services that do not move have one initial state.
OthersRest ==
    /\ focus = "ladder" \/ deployed = CHOOSE d \in Deployments : TRUE
    /\ focus = "operations" \/ \A p \in People : configFile[p] = "absent"
    /\ focus = "browsers" \/ ~external
PlatformInit ==
    /\ focus \in Focus
    /\ MeterInit /\ LaneInit /\ ProxyInit /\ LadderInit /\ WireInit
    /\ UsersInit /\ ArxivInit /\ OperInit /\ HealthInit /\ BrowsersInit
    /\ PluginsInit
    /\ OthersRest

Still(name, v) == IF focus = name THEN TRUE ELSE UNCHANGED v
Only(name) ==
    /\ focus = name /\ UNCHANGED focus
    /\ Still("metering", meterVars) /\ Still("lane", laneVars)
    /\ Still("proxy", proxyVars) /\ Still("ladder", ladderVars)
    /\ Still("wire", wireVars) /\ Still("accounts", userVars)
    /\ Still("arxiv", arxivVars) /\ Still("operations", operVars)
    /\ Still("health", healthVars) /\ Still("browsers", browserVars)
    /\ Still("plugins", pluginVars)
MeteringMoves    == Only("metering") /\ MeterNext
LaneMoves        == Only("lane") /\ LaneNext
ProxyMoves       == Only("proxy") /\ ProxyNext
LadderMoves      == Only("ladder") /\ LadderNext
WireMoves        == Only("wire") /\ WireNext
AccountsMove     == Only("accounts") /\ UsersNext
ArxivMoves       == Only("arxiv") /\ ArxivNext
OperationsMove   == Only("operations") /\ OperNext
HealthMoves      == Only("health") /\ HealthNext
BrowsersMove     == Only("browsers") /\ BrowsersNext
PluginsMove      == Only("plugins") /\ PluginsNext
PlatformNext ==
    \/ MeteringMoves \/ LaneMoves \/ ProxyMoves \/ LadderMoves \/ WireMoves
    \/ AccountsMove \/ ArxivMoves \/ OperationsMove \/ HealthMoves
    \/ BrowsersMove \/ PluginsMove

platformVars ==
    <<focus, meterVars, laneVars, proxyVars, ladderVars, wireVars, userVars,
      arxivVars, operVars, healthVars, browserVars, pluginVars>>
PlatformSpec == PlatformInit /\ [][PlatformNext]_platformVars

\* Every service keeps its state within its types.
PlatformTypeOK ==
    /\ focus = "metering" => MeterTypeOK
    /\ focus = "lane" => LaneTypeOK
    /\ focus = "proxy" => ProxyTypeOK
    /\ focus = "ladder" => LadderTypeOK
    /\ focus = "wire" => WireTypeOK
    /\ focus = "accounts" => UsersTypeOK
    /\ focus = "arxiv" => ArxivTypeOK
    /\ focus = "operations" => OperTypeOK
    /\ focus = "health" => HealthTypeOK
    /\ focus = "browsers" => BrowsersTypeOK
    /\ focus = "plugins" => PluginsTypeOK

\* What an in-process download delivers is the document that was asked for,
\* fetched within the limits the remote sites set, with each key shown only to
\* its own host; the proxy's copy of it is always somebody's to delete.
DownloadsSound ==
    /\ BytesAreOfSelection /\ LadderSound /\ FetchPolite /\ WireSafe
    /\ FilesCollected

\* The host stays in order: one process writes pb_data, an outage shows in the
\* health report, and no browser outlives the worker that started it.
HostSound == OneWriter /\ OutagesTold /\ NoStrayBrowser
=============================================================================
