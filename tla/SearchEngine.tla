----------------------------- MODULE SearchEngine -----------------------------
(***************************************************************************)
(* Plain and multi search (internal/search, routes/search.go,               *)
(* search_multi.go): providers are asked concurrently, each may fail on its *)
(* own, the hits are merged by identity (DOI, else arXiv id, else title)    *)
(* and the hits with an identity are resolved or minted, one registry       *)
(* transaction per hit, while other searches mint the same papers.          *)
(***************************************************************************)
EXTENDS Integers, Sequences, FiniteSets, SequencesExt

CONSTANTS
    Searches,       \* concurrent requests
    Found,          \* the hits each remote provider has
    WorkOf,         \* the work each external identity names
    DoiIds,           \* the identities that are DOIs; the others are arXiv ids
    Entries,        \* what clients search for: "text" or an identity
    MaxResults, MaxCandidates,  \* caps of a response
    PaperRows       \* bound: registry rows, 1 .. PaperRows

ASSUME SearchConfig ==
    /\ Entries \subseteq {"text"} \cup DOMAIN WorkOf
    /\ {MaxResults, MaxCandidates, PaperRows} \subseteq Nat

Externals == DOMAIN Found
Providers == Externals \cup {"catalog"}
KeyIds == DOMAIN WorkOf
Blank == "none"     \* a field a hit does not have

VARIABLES
    owner,          \* paper_identities: the row of each identity, 0 for none
    mintedRows,           \* registry rows minted so far
    query,          \* each search's progress
    reported        \* history: how often a row was reported as created

engVars == <<owner, mintedRows, query, reported>>

NoQuery == [at |-> "idle", route |-> "search", entry |-> "text", waiting |-> {},
            got |-> [p \in Providers |-> <<>>], todo |-> <<>>, results |-> <<>>,
            candidates |-> 0]

EngTypeOK ==
    /\ owner \in [KeyIds -> 0 .. PaperRows] /\ mintedRows \in 0 .. PaperRows
    /\ \A s \in Searches :
          /\ query[s].at \in {"idle", "asking", "minting", "answered"}
          /\ Len(query[s].results) <= MaxResults + Cardinality(KeyIds)
          /\ query[s].candidates <= MaxCandidates

EngInit ==
    /\ owner = [i \in KeyIds |-> 0] /\ mintedRows = 0
    /\ query = [s \in Searches |-> NoQuery]
    /\ reported = [p \in 1 .. PaperRows |-> 0]

-----------------------------------------------------------------------------
(* Asking the providers.                                                     *)

\* RegisterSearch with a text or an identity; an empty entry is refused by
\* rejectEmptySearchEntry and changes nothing.
Ask(s, entry) ==
    /\ query[s].at = "idle"
    /\ query' = [query EXCEPT ![s] = [NoQuery EXCEPT !.at = "asking", !.entry = entry,
                                                     !.waiting = Providers]]
    /\ UNCHANGED <<owner, mintedRows, reported>>
\* RegisterSearchMulti: the sources asked for, normalised, at least one.
AskMulti(s, sources) ==
    /\ query[s].at = "idle" /\ sources # {}
    /\ query' = [query EXCEPT ![s] = [NoQuery EXCEPT !.at = "asking", !.route = "multi",
                                                     !.waiting = sources]]
    /\ UNCHANGED <<owner, mintedRows, reported>>

HitIds(h) == {h.doi, h.arxiv} \ {Blank}
\* CatalogProvider.exactLookup: the row's identities; a text search finds rows
\* by title, which the other providers' hits stand for.
CatalogHits(entry) ==
    IF entry = "text" \/ owner[entry] = 0 THEN <<>>
    ELSE LET column(ids) == IF ids = {} THEN Blank ELSE CHOOSE i \in ids : TRUE
             mine == {i \in KeyIds : owner[i] = owner[entry]}
         IN <<[doi |-> column(mine \cap DoiIds), arxiv |-> column(mine \ DoiIds), title |-> Blank,
               score |-> 9]>>
\* ArxivProvider, OpenAlexProvider and RemoteProvider.Search: by identity the
\* hit that has it, by text all of them.
ExternalHits(p, entry) ==
    SelectSeq(Found[p], LAMBDA h : entry = "text" \/ entry \in HitIds(h))
HitsOf(p, entry) == IF p = "catalog" THEN CatalogHits(entry) ELSE ExternalHits(p, entry)
\* fanOut, one provider.  The table of failures it also returns is only reported.
ProviderAnswers(s, p) ==
    /\ query[s].at = "asking" /\ p \in query[s].waiting
    /\ query' = [query EXCEPT ![s].waiting = @ \ {p}, ![s].got[p] = HitsOf(p, query[s].entry)]
    /\ UNCHANGED <<owner, mintedRows, reported>>
\* RecordFailure, a panic or the provider's timeout: no hits of this provider.
ProviderFails(s, p) ==
    /\ query[s].at = "asking" /\ p \in query[s].waiting
    /\ query' = [query EXCEPT ![s].waiting = @ \ {p}]
    /\ UNCHANGED <<owner, mintedRows, reported>>

-----------------------------------------------------------------------------
(* Merging and minting.                                                      *)

\* A variant: equal titles make hits one.
identityKeyTitle(h) == IF h.title # Blank THEN h.title ELSE h.doi
identityKey(h) ==
    IF h.doi # Blank THEN h.doi ELSE IF h.arxiv # Blank THEN h.arxiv ELSE h.title
Filled(a, b) == IF a = Blank THEN b ELSE a
MergedHit(m, h) ==
    [doi |-> Filled(m.doi, h.doi), arxiv |-> Filled(m.arxiv, h.arxiv),
     title |-> Filled(m.title, h.title), score |-> IF h.score > m.score THEN h.score ELSE m.score]
\* mergeHits: by the key a hit had when it was first seen, best score first.
mergeHits(hits) ==
    LET keys == FoldLeft(LAMBDA ks, h : IF identityKey(h) \in Range(ks) THEN ks
                                        ELSE Append(ks, identityKey(h)), <<>>, hits)
        group(k) == SelectSeq(hits, LAMBDA h : identityKey(h) = k)
        merged == [i \in 1 .. Len(keys) |-> FoldLeft(MergedHit, Head(group(keys[i])), group(keys[i]))]
    IN SortSeq(merged, LAMBDA a, b : a.score > b.score)
InOrder(got) == got["catalog"] \o FlattenSeq(SetToSeq({got[p] : p \in Externals}))
\* The fan-out is complete.  A multi search mints once per identity.
MergeResults(s) ==
    /\ query[s].at = "asking" /\ query[s].waiting = {}
    /\ query' = [query EXCEPT ![s].at = "minting", ![s].todo = mergeHits(InOrder(query[s].got))]
    /\ UNCHANGED <<owner, mintedRows, reported>>

\* ResolveOrMint, one transaction (its detail is in Catalog): the rows that own
\* one of the identities, merged into the oldest when there are two.
Owners(h) == {owner[i] : i \in HitIds(h)} \ {0}
Resolved(h) == IF Owners(h) = {} THEN mintedRows + 1 ELSE CHOOSE p \in Owners(h) : \A q \in Owners(h) : p <= q
MintHit(s) ==
    LET q == query[s]  h == Head(q.todo)  paper == Resolved(h)  created == Owners(h) = {} IN
    /\ q.at = "minting" /\ q.todo # <<>> /\ HitIds(h) # {}
    /\ q.route = "search" => Len(q.results) < MaxResults
    /\ paper <= PaperRows /\ mintedRows' = IF created THEN paper ELSE mintedRows
    /\ owner' = [i \in KeyIds |-> IF i \in HitIds(h) \/ owner[i] \in Owners(h) THEN paper ELSE owner[i]]
    /\ reported' = IF created THEN [reported EXCEPT ![paper] = @ + 1] ELSE reported
    /\ query' = [query EXCEPT ![s].todo = Tail(@),
                              ![s].results = Append(@, [hit |-> h, paper |-> paper])]
\* A title-only hit is a candidate at most; a hit beyond the cap is dropped.
PassHit(s) ==
    LET q == query[s]  h == Head(q.todo) IN
    /\ q.at = "minting" /\ q.todo # <<>>
    /\ HitIds(h) = {} \/ (q.route = "search" /\ Len(q.results) >= MaxResults)
    /\ query' = [query EXCEPT ![s].todo = Tail(@),
           ![s].candidates = IF HitIds(h) = {} /\ @ < MaxCandidates THEN @ + 1 ELSE @]
    /\ UNCHANGED <<owner, mintedRows, reported>>
\* The registry fails, or the client has left: a search answers 503 or 500, a
\* multi search answers what it has.  What was minted stays.
MintFails(s) ==
    /\ query[s].at = "minting" /\ query[s].todo # <<>>
    /\ query' = [query EXCEPT ![s] = IF query[s].route = "multi"
                                     THEN [query[s] EXCEPT !.at = "answered"] ELSE NoQuery]
    /\ UNCHANGED <<owner, mintedRows, reported>>
\* attachResultSummaries and attachMultiAnchors, and the response.
AnswerSearch(s) ==
    /\ query[s].at = "minting" /\ query[s].todo = <<>>
    /\ query' = [query EXCEPT ![s].at = "answered"]
    /\ UNCHANGED <<owner, mintedRows, reported>>
Forget(s) ==
    /\ query[s].at = "answered" /\ query' = [query EXCEPT ![s] = NoQuery]
    /\ UNCHANGED <<owner, mintedRows, reported>>

EngNext == \E s \in Searches :
    \/ \E entry \in Entries : Ask(s, entry)
    \/ \E sources \in SUBSET Externals : AskMulti(s, sources)
    \/ \E p \in Providers : ProviderAnswers(s, p) \/ ProviderFails(s, p)
    \/ MergeResults(s) \/ MintHit(s) \/ PassHit(s) \/ MintFails(s) \/ AnswerSearch(s) \/ Forget(s)

EngSpec == EngInit /\ [][EngNext]_engVars

-----------------------------------------------------------------------------
(* Properties.                                                               *)

\* However searches interleave and providers fail, identities of two works
\* never come to one registry row, although their hits share a title; a result
\* names the row that owned its identities (or a row since merged away); and a
\* row is reported as created at most once.
SearchAnchors ==
    /\ \A i, j \in KeyIds : owner[i] # 0 /\ owner[i] = owner[j] => WorkOf[i] = WorkOf[j]
    /\ \A s \in Searches : \A k \in 1 .. Len(query[s].results) :
          LET r == query[s].results[k] IN
          \A i \in HitIds(r.hit) : owner[i] # 0 /\ owner[i] <= r.paper
    /\ \A p \in 1 .. PaperRows : reported[p] = IF p <= mintedRows THEN 1 ELSE 0
==============================================================================
