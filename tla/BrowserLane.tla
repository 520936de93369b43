----------------------------- MODULE BrowserLane -----------------------------
(***************************************************************************)
(* The browser lane (internal/downloader/browser.go,                        *)
(* browser_provenance.go): one tab is sent to a URL and to the PDF links    *)
(* found on the pages it shows, one at a time.  Every request and response  *)
(* of the tab is intercepted; bodies are read by goroutines of their own,   *)
(* so they arrive late and in any order, while page scripts, frames and     *)
(* prefetches load documents nobody asked for.                              *)
(***************************************************************************)
EXTENDS Integers, FiniteSets, Sequences

CONSTANTS
    Pages,          \* URLs
    Target,         \* the URL the lane is asked for
    Frames,         \* frames of the tab, MainFrame among them
    MainFrame,
    MaxNavigations, \* explicit selections (8 in the code)
    MaxRedirects,   \* redirects followed from one selection (8 in the code)
    ChannelSize,    \* capacity of resultCh and htmlCh (8 in the code)
    MaxNetRequests, \* bound: requests the tab makes
    NoPage

ASSUME BrowserConfig ==
    /\ Target \in Pages /\ MainFrame \in Frames
    /\ {MaxNavigations, MaxRedirects, ChannelSize, MaxNetRequests} \subseteq Nat

VARIABLES
    net,        \* the tab's requests: where each came from and what became of it
    scope,      \* browserNavigationScope
    reading,    \* capture goroutines: a permit and the body they read
    results, htmls,     \* resultCh and htmlCh
    lastHTML,
    visited,    \* URLs navigated to
    lane        \* the main loop: where it is and what it answers

laneVars == <<net, scope, reading, results, htmls, lastHTML, visited, lane>>

RequestIds == 1 .. MaxNetRequests
BodyKinds == {"pdf", "html"}
NoScope == [selected |-> NoPage, generation |-> 0, requests |-> {}]
Scoped(id) == {r \in scope.requests : r.id = id}

LaneTypeOK ==
    /\ Len(net) <= MaxNetRequests /\ visited \subseteq Pages
    /\ \A i \in 1 .. Len(net) : net[i].stage \in {"paused", "sent", "redirected", "done"}
    /\ scope.generation <= MaxNavigations
    /\ Len(results) <= ChannelSize /\ Len(htmls) <= ChannelSize
    /\ lane.at \in {"idle", "waiting", "rendering", "accepted", "fetched", "refused", "timed out"}

LaneInit ==
    /\ net = <<>> /\ scope = NoScope /\ reading = {} /\ results = <<>> /\ htmls = <<>>
    /\ lastHTML = FALSE /\ visited = {} /\ lane = [at |-> "idle", body |-> <<>>]

-----------------------------------------------------------------------------
(* The tab.  A request knows the page of the selection it follows from       *)
(* (root): a redirect keeps it, a script or a frame starts one of its own.   *)

Requested(url, root, frame, parent) ==
    Append(net, [url |-> url, root |-> root, frame |-> frame, parent |-> parent,
                 stage |-> "paused"])
\* selectNavigation: a new generation that knows none of the old requests.
selectNavigation(url) ==
    scope' = [selected |-> url, generation |-> scope.generation + 1, requests |-> {}]
MayNavigate(url) ==
    url \notin visited /\ Cardinality(visited) < MaxNavigations /\ Len(net) < MaxNetRequests
navigateTo(url) ==
    /\ MayNavigate(url) /\ visited' = visited \cup {url} /\ selectNavigation(url)
    /\ net' = Requested(url, url, MainFrame, 0)

\* FetchPDF and navigate up to the loop.
FetchPDF ==
    /\ lane.at = "idle" /\ navigateTo(Target) /\ lane' = [lane EXCEPT !.at = "waiting"]
    /\ UNCHANGED <<reading, results, htmls, lastHTML>>
\* A page script navigates the main frame, a frame loads a document.
StrayRequest(url, frame) ==
    /\ lane.at \in {"waiting", "rendering"} /\ Len(net) < MaxNetRequests
    /\ \E i \in 1 .. Len(net) : net[i].stage = "done"
    /\ net' = Requested(url, url, frame, 0)
    /\ UNCHANGED <<scope, reading, results, htmls, lastHTML, visited, lane>>

\* A variant: any request of the main frame counts.
ObserveAnyRequest(i) == net[i].frame = MainFrame
\* observe, request stage: the selected URL, or the redirect a known response
\* announced.
ObserveRequest(i) ==
    /\ net[i].frame = MainFrame
    /\ IF net[i].parent = 0 THEN net[i].url = scope.selected
       ELSE \E p \in Scoped(net[i].parent) : p.next = net[i].url /\ p.redirects < MaxRedirects
RedirectsOf(i) ==
    IF net[i].parent = 0 THEN 0 ELSE (CHOOSE p \in Scoped(net[i].parent) : TRUE).redirects + 1
RequestPaused(i) ==
    /\ i \in 1 .. Len(net) /\ net[i].stage = "paused" /\ lane.at \in {"waiting", "rendering"}
    /\ scope' = IF ObserveRequest(i)
                THEN [scope EXCEPT !.requests = (@ \ Scoped(i)) \cup
                         {[id |-> i, url |-> net[i].url, next |-> NoPage, redirects |-> RedirectsOf(i)]}]
                ELSE scope
    /\ net' = [net EXCEPT ![i].stage = "sent"]
    /\ UNCHANGED <<reading, results, htmls, lastHTML, visited, lane>>
\* observe, a redirect: the announced URL is kept with the request before the
\* response is let through.
RedirectObserved(i, to) ==
    /\ i \in 1 .. Len(net) /\ net[i].stage = "sent" /\ lane.at \in {"waiting", "rendering"}
    /\ scope' = [scope EXCEPT !.requests =
                    {IF r.id = i THEN [r EXCEPT !.next = to] ELSE r : r \in @}]
    /\ Len(net) < MaxNetRequests
    /\ net' = Append([net EXCEPT ![i].stage = "redirected"],
                     [url |-> to, root |-> net[i].root, frame |-> net[i].frame, parent |-> i,
                      stage |-> "paused"])
    /\ UNCHANGED <<reading, results, htmls, lastHTML, visited, lane>>
\* observe, a body: a goroutine with a permit reads it.  Other responses, and
\* errors, are let through unread.
ResponseObserved(i, kind) ==
    /\ i \in 1 .. Len(net) /\ net[i].stage = "sent" /\ lane.at \in {"waiting", "rendering"}
    /\ reading' = IF Scoped(i) # {}
                  THEN reading \cup {[id |-> i, generation |-> scope.generation, kind |-> kind]}
                  ELSE reading
    /\ net' = [net EXCEPT ![i].stage = "done"]
    /\ UNCHANGED <<scope, results, htmls, lastHTML, visited, lane>>

-----------------------------------------------------------------------------
(* Captures.                                                                 *)

\* current: the permit is of this generation and its request is known.
Current(permit) == permit.generation = scope.generation /\ Scoped(permit.id) # {}
Offer(channel, body) == IF Len(channel) < ChannelSize THEN Append(channel, body) ELSE channel
Capture(permit) ==
    /\ permit \in reading /\ reading' = reading \ {permit}
    /\ IF ~Current(permit) THEN UNCHANGED <<results, htmls, lastHTML>>
       ELSE IF permit.kind = "pdf" THEN results' = Offer(results, permit) /\ UNCHANGED <<htmls, lastHTML>>
       ELSE htmls' = Offer(htmls, permit) /\ lastHTML' = TRUE /\ UNCHANGED results
    /\ UNCHANGED <<net, scope, visited, lane>>
\* GetResponseBody fails, or the tab is closed under the goroutine.
CaptureLost(permit) ==
    /\ permit \in reading /\ reading' = reading \ {permit}
    /\ UNCHANGED <<net, scope, results, htmls, lastHTML, visited, lane>>

-----------------------------------------------------------------------------
(* The main loop.                                                            *)

CurrentBody(body) == body.generation = scope.generation
TakePDF ==
    /\ lane.at = "waiting" /\ results # <<>> /\ results' = Tail(results)
    /\ lane' = IF CurrentBody(Head(results)) THEN [at |-> "accepted", body |-> <<Head(results)>>]
               ELSE lane
    /\ UNCHANGED <<net, scope, reading, htmls, lastHTML, visited>>
TakeHTML ==
    /\ lane.at = "waiting" /\ htmls # <<>> /\ htmls' = Tail(htmls)
    /\ lane' = IF CurrentBody(Head(htmls)) THEN [at |-> "rendering", body |-> <<Head(htmls)>>]
               ELSE lane
    /\ UNCHANGED <<net, scope, reading, results, lastHTML, visited>>
\* mineBrowserHTML after the render window: the first candidate that may still
\* be navigated to, if there is one.
MineAndNavigate(candidates) ==
    /\ lane.at = "rendering" /\ lane' = [at |-> "waiting", body |-> <<>>]
    /\ IF {u \in candidates : MayNavigate(u)} = {} THEN UNCHANGED <<net, scope, visited>>
       ELSE \E u \in candidates : navigateTo(u)
    /\ UNCHANGED <<reading, results, htmls, lastHTML>>
\* The timer or the context: the last HTML is classified, or it is a timeout.
TimesOut ==
    /\ lane.at \in {"waiting", "rendering"} /\ lane' = [at |-> "timed out", body |-> <<>>]
    /\ UNCHANGED <<net, scope, reading, results, htmls, lastHTML, visited>>
\* validateBody: status, size and trailer of the bytes taken.
validateBody(sound) ==
    /\ lane.at = "accepted" /\ lane' = [lane EXCEPT !.at = IF sound THEN "fetched" ELSE "refused"]
    /\ UNCHANGED <<net, scope, reading, results, htmls, lastHTML, visited>>

LaneNext ==
    \/ FetchPDF \/ TakePDF \/ TakeHTML \/ TimesOut \/ \E sound \in BOOLEAN : validateBody(sound)
    \/ \E url \in Pages, frame \in Frames : StrayRequest(url, frame)
    \/ \E i \in RequestIds :
          \/ RequestPaused(i) \/ \E to \in Pages : RedirectObserved(i, to)
          \/ \E kind \in BodyKinds : ResponseObserved(i, kind)
    \/ \E permit \in reading : Capture(permit) \/ CaptureLost(permit)
    \/ \E candidates \in SUBSET Pages : MineAndNavigate(candidates)

LaneSpec == LaneInit /\ [][LaneNext]_laneVars

-----------------------------------------------------------------------------
(* Properties.                                                               *)

\* The bytes the lane accepts are those of the page it last selected, or of
\* redirects that page's responses announced, in the main frame: never of an
\* abandoned navigation, a frame or a page some script went to.
BytesAreOfSelection ==
    lane.at \in {"accepted", "fetched"} =>
        LET r == net[lane.body[1].id] IN r.root = scope.selected /\ r.frame = MainFrame
==============================================================================
