------------------------------ MODULE Resolver ------------------------------
(***************************************************************************)
(* The OpenAlex resolver (internal/openalex/lookup.go): DOI resolution and   *)
(* upload-time metadata behind one bounded in-memory cache and one           *)
(* singleflight group, and the uncached fetch of a whole record for the      *)
(* corpus.  OpenAlex's records change while calls, cached answers and shared *)
(* flights are under way, requests fail, and callers go away.                *)
(***************************************************************************)
EXTENDS Integers, FiniteSets, Sequences, SequencesExt

CONSTANTS
    Askers,        \* the callers
    Dois,          \* normalized DOIs
    WorkRecords,   \* records OpenAlex may hold: [arxiv, mirror, best, locs]
    Mailto,        \* whether a contact address is configured
    PositiveTTL, NegativeTTL, MaxCacheSize,
    MaxAsks,       \* bound: calls
    MaxChanges,    \* bound: changes of OpenAlex's records and failed requests
    MaxNow         \* bound: the clock

NoUrl   == ""
Absent  == [arxiv |-> FALSE, mirror |-> NoUrl, best |-> NoUrl, locs |-> <<"unknown DOI">>]
Ops     == {"resolve", "metadata", "record"}
Failure(e) == [err |-> e, got |-> <<>>]
Success(v) == [err |-> "", got |-> <<v>>]
NotFound   == Failure("ErrDOINotFound")
Upstream   == Failure("ErrUpstream")
Canceled   == Failure("canceled")

ASSUME ResolverConfig ==
    /\ Absent \notin WorkRecords /\ Mailto \in BOOLEAN
    /\ {PositiveTTL, NegativeTTL, MaxCacheSize} \subseteq Nat \ {0}
    /\ {MaxAsks, MaxChanges, MaxNow} \subseteq Nat

VARIABLES
    held,      \* DOI -> for every instant so far, the records OpenAlex had in it
    cache,     \* key -> [ans, until]
    order,     \* the keys of the cache, least recently written first
    flights,   \* the keys under way in the singleflight group
    asks,      \* asker -> its call
    spent, changes

resolverVars == <<held, cache, order, flights, asks, spent, changes>>

ResNow == Len(held[CHOOSE d \in Dois : TRUE])
Latest(d) == held[d][ResNow].last
Free == [at |-> "idle", op |-> "resolve", doi |-> CHOOSE d \in Dois : TRUE, ans |-> NotFound,
         when |-> 0, first |-> FALSE, gone |-> FALSE]

ResolverTypeOK ==
    /\ \A d \in Dois : \A t \in 1 .. ResNow :
          held[d][t].last \in held[d][t].had /\ held[d][t].had \subseteq WorkRecords \cup {Absent}
    /\ DOMAIN cache \subseteq {"resolve", "metadata"} \X Dois
    /\ flights \subseteq Ops \X Dois
    /\ \A a \in Askers : asks[a].at \in {"idle", "missed", "joined", "done"}
    /\ spent \in 0 .. MaxAsks /\ changes \in 0 .. MaxChanges

ResolverInit ==
    /\ held \in [Dois -> {<<[last |-> r, had |-> {r}]>> : r \in WorkRecords \cup {Absent}}]
    /\ cache = <<>> /\ order = <<>> /\ flights = {}
    /\ asks = [a \in Askers |-> Free] /\ spent = 0 /\ changes = 0

-----------------------------------------------------------------------------
(* What a record says (parse.go).                                            *)

ExtractArxivID(r) == r.arxiv
researchingPDFURL(r) == r.mirror
\* A known publisher mirror, OpenAlex's own pick, the first location.
ExtractOAPdfURL(r) ==
    LET urls == SelectSeq(<<researchingPDFURL(r), r.best>> \o r.locs, LAMBDA u : u # NoUrl)
    IN  IF urls = <<>> THEN NoUrl ELSE Head(urls)
\* The other distinct URLs, in OpenAlex's order.
ExtractLocationsPDFURLs(r) ==
    LET urls == <<r.best>> \o r.locs
        Fresh(i) == /\ urls[i] \notin {NoUrl, ExtractOAPdfURL(r)}
                    /\ \A j \in 1 .. i - 1 : urls[j] # urls[i]
    IN  [k \in 1 .. Cardinality({i \in DOMAIN urls : Fresh(i)}) |->
            urls[CHOOSE i \in DOMAIN urls :
                    Fresh(i) /\ Cardinality({j \in 1 .. i : Fresh(j)}) = k]]

\* The verbatim record, or a 404.
getRaw(r) == IF r = Absent THEN NotFound ELSE Success(r)
lookup(r) ==
    IF r = Absent \/ (~ExtractArxivID(r) /\ ExtractOAPdfURL(r) = NoUrl) THEN NotFound
    ELSE Success([arxiv |-> ExtractArxivID(r), oa |-> ExtractOAPdfURL(r),
                  locations |-> ExtractLocationsPDFURLs(r)])
\* Title and authors need no way to fetch the paper.
MetadataOf(r) == IF r = Absent THEN NotFound ELSE Success([arxiv |-> ExtractArxivID(r)])
AnswerOf(op, r) == CASE op = "resolve" -> lookup(r) [] op = "metadata" -> MetadataOf(r)
                     [] op = "record" -> getRaw(r)

-----------------------------------------------------------------------------
(* The cache.                                                                *)

WithoutKey(f, k) == [x \in DOMAIN f \ {k} |-> f[x]]
\* evictFromOrder.
evictFromOrder(k) == SelectSeq(order, LAMBDA x : x # k)
Expired(k) == ResNow > cache[k].until
\* cacheGet: an expired entry goes, from the map and from the order.
cacheGet(k) ==
    IF k \in DOMAIN cache /\ Expired(k)
    THEN cache' = WithoutKey(cache, k) /\ order' = evictFromOrder(k)
    ELSE UNCHANGED <<cache, order>>
Hit(k) == k \in DOMAIN cache /\ ~Expired(k)

\* cachePut's bookkeeping: a known key moves to the tail, a new one may evict
\* the head.
NewOrder(k) ==
    IF k \in DOMAIN cache THEN Append(evictFromOrder(k), k)
    ELSE Append(IF Cardinality(DOMAIN cache) >= MaxCacheSize THEN Tail(order) ELSE order, k)
cachePut(k, e) ==
    LET evicts == k \notin DOMAIN cache /\ Cardinality(DOMAIN cache) >= MaxCacheSize
        kept   == IF evicts THEN DOMAIN cache \ {Head(order)} ELSE DOMAIN cache
    IN  /\ cache' = [x \in kept \cup {k} |-> IF x = k THEN e ELSE cache[x]]
        /\ order' = NewOrder(k)

-----------------------------------------------------------------------------
(* The calls.                                                                *)

Call(a, op, d) == [Free EXCEPT !.op = op, !.doi = d, !.at = "missed"]

\* normalizeDOI: case and URL prefixes go, what is no DOI is refused.
normalizeDOI(in) == IF in.wellFormed THEN in.doi ELSE "ErrInvalidDOI"

\* Everything a call does before it enters the singleflight group.
Begins(a, op, in) ==
    LET d == normalizeDOI(in)
        k == <<op, d>>
    IN  /\ asks[a].at \in {"idle", "done"} /\ spent < MaxAsks /\ spent' = spent + 1
        /\ IF ~Mailto \/ d = "ErrInvalidDOI"
           THEN /\ asks' = [asks EXCEPT ![a] = [Call(a, op, in.doi) EXCEPT !.at = "done", !.when = ResNow,
                                !.ans = Failure(IF Mailto THEN "ErrInvalidDOI" ELSE "ErrNotConfigured")]]
                /\ UNCHANGED <<cache, order>>
           ELSE /\ asks' = [asks EXCEPT ![a] =
                       IF op # "record" /\ Hit(k)
                       THEN [Call(a, op, d) EXCEPT !.at = "done", !.ans = cache[k].ans, !.when = ResNow]
                       ELSE Call(a, op, d)]
                /\ IF op = "record" THEN UNCHANGED <<cache, order>> ELSE cacheGet(k)
        /\ UNCHANGED <<held, flights, changes>>

ResolveDOI(a, in)      == Begins(a, "resolve", in)
LookupMetadata(a, in)  == Begins(a, "metadata", in)
FetchWorkRecord(a, in) == Begins(a, "record", in)

FlightKey(a) == <<asks[a].op, asks[a].doi>>
\* sf.Do: the first caller of a key starts the flight, the others wait for it.
\* The flight may have landed since the cache was read.
JoinFlight(a) ==
    /\ asks[a].at = "missed"
    /\ flights' = flights \cup {FlightKey(a)}
    /\ asks' = [asks EXCEPT ![a].at = "joined", ![a].first = FlightKey(a) \notin flights]
    /\ UNCHANGED <<held, cache, order, spent, changes>>

\* A variant: the flight runs in its first caller's context.
FlightCancelled(k) ==
    \E a \in Askers : asks[a].at = "joined" /\ FlightKey(a) = k /\ asks[a].first /\ asks[a].gone
\* context.WithoutCancel: the flight belongs to no caller.
Cancels(k) == FALSE
\* Answers and unknown DOIs are cached, transient failures and whole records not.
Caches(k, ans) == k[1] # "record" /\ ans \notin {Upstream, Canceled}

\* The flight lands: the answer is cached and every waiter gets it.
Land(k, fails) ==
    LET ans == IF Cancels(k) THEN Canceled ELSE IF fails THEN Upstream
               ELSE AnswerOf(k[1], Latest(k[2]))
        ttl == IF ans \in {NotFound, Upstream, Canceled} THEN NegativeTTL ELSE PositiveTTL
    IN  /\ k \in flights /\ (fails => changes < MaxChanges)
        /\ changes' = IF fails THEN changes + 1 ELSE changes
        /\ flights' = flights \ {k}
        /\ asks' = [a \in Askers |->
               IF asks[a].at = "joined" /\ FlightKey(a) = k
               THEN [asks[a] EXCEPT !.at = "done", !.ans = ans, !.when = ResNow,
                                    !.first = FALSE, !.gone = FALSE] ELSE asks[a]]
        /\ IF Caches(k, ans) THEN cachePut(k, [ans |-> ans, until |-> ResNow + ttl])
           ELSE UNCHANGED <<cache, order>>
        /\ UNCHANGED <<held, spent>>

\* The client behind a call disconnects; the call goes on.
LeaveAsk(a) ==
    /\ asks[a].at \in {"missed", "joined"} /\ ~asks[a].gone
    /\ asks' = [asks EXCEPT ![a].gone = TRUE]
    /\ UNCHANGED <<held, cache, order, flights, spent, changes>>

\* OpenAlex indexes a work, or changes or withdraws its record.
OpenAlexChanges(d, r) ==
    /\ changes < MaxChanges /\ changes' = changes + 1 /\ r # Latest(d)
    /\ held' = [held EXCEPT ![d][ResNow] = [last |-> r, had |-> @.had \cup {r}]]
    /\ UNCHANGED <<cache, order, flights, asks, spent>>
OpenAlexTick ==
    /\ ResNow < MaxNow
    /\ held' = [d \in Dois |-> Append(held[d], [last |-> Latest(d), had |-> {Latest(d)}])]
    /\ UNCHANGED <<cache, order, flights, asks, spent, changes>>
\* Every call is answered and the bounds are spent.
ResolverRest ==
    /\ ResNow = MaxNow /\ flights = {} /\ \A a \in Askers : asks[a].at \in {"idle", "done"}
    /\ UNCHANGED resolverVars

Spellings == [doi : Dois, wellFormed : BOOLEAN]
ResolverNext ==
    \/ \E a \in Askers, in \in Spellings :
          ResolveDOI(a, in) \/ LookupMetadata(a, in) \/ FetchWorkRecord(a, in)
    \/ \E a \in Askers : JoinFlight(a) \/ LeaveAsk(a)
    \/ \E k \in Ops \X Dois, fails \in BOOLEAN : Land(k, fails)
    \/ \E d \in Dois, r \in WorkRecords \cup {Absent} : OpenAlexChanges(d, r)
    \/ OpenAlexTick \/ ResolverRest

ResolverSpec == ResolverInit /\ [][ResolverNext]_resolverVars

-----------------------------------------------------------------------------
\* The records OpenAlex had for d in the ttl before an instant.
HadWithin(d, t, ttl) == UNION {held[d][u].had : u \in {v \in 1 .. t : v >= t - ttl}}

(* An answer is one OpenAlex could have given at some instant within the     *)
(* time-to-live of its kind: no failure is remembered as "not found", none   *)
(* outlives its entry, and nobody is told of another caller's cancellation.  *)
(* A resolution always names a way to fetch the paper and lists no URL       *)
(* twice, a waiter's flight is under way, and the cache is bounded, its      *)
(* order a list of exactly its keys.                                         *)
ResolverHonest ==
    /\ \A a \in Askers : LET c == asks[a] IN
          /\ c.at = "done" /\ c.ans.err \notin {"ErrUpstream", "ErrInvalidDOI", "ErrNotConfigured"} =>
                \E r \in HadWithin(c.doi, c.when, IF c.ans = NotFound THEN NegativeTTL ELSE PositiveTTL) :
                   AnswerOf(c.op, r) = c.ans
          /\ c.at = "done" /\ c.op = "resolve" /\ c.ans.err = "" =>
                LET res == c.ans.got[1] IN
                /\ res.arxiv \/ res.oa # NoUrl
                /\ IsInjective(<<res.oa>> \o res.locations)
          /\ c.at = "joined" => FlightKey(a) \in flights
    /\ Cardinality(DOMAIN cache) <= MaxCacheSize /\ \A k \in DOMAIN cache : cache[k].ans # Upstream
    /\ Len(order) = Cardinality(DOMAIN cache) /\ Range(order) = DOMAIN cache
=============================================================================
