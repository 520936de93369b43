------------------------------- MODULE Corpus -------------------------------
(***************************************************************************)
(* The local OpenAlex corpus (internal/openalexcorpus): the bootstrap        *)
(* command that streams the snapshot's parts into openalex_works, the        *)
(* concurrent index builds of the command and of a starting server, the      *)
(* operator's queries, and the batch look-up that reads the corpus first and *)
(* writes what it had to fetch back, through the lazy loader of              *)
(* internal/lazyload.                                                        *)
(***************************************************************************)
EXTENDS Integers, FiniteSets, Sequences, SequencesExt

CONSTANTS
    WorkIds,           \* OpenAlex ids, as numbers
    Parts,         \* the snapshot in key order: [date, works], works a sequence of records
    Lookers,       \* clients of the batch look-up
    RefLists,      \* the lists of references they send
    Indexes,       \* the number of corpusIndexes
    PartBatch,     \* --batch
    MaxBoots,      \* bound: runs of the bootstrap, and starts of the server
    MaxLookups,    \* bound: look-ups
    MaxTroubles    \* bound: failures, interruptions and changes at OpenAlex

NoDate == 0
NoRecord == [id |-> 0]     \* a record without an id
Builders == {"boot", "edge"}
\* A record: its id, a revision, what the generated columns derive from it.
IsWork(w) == w # NoRecord => /\ w.id \in WorkIds /\ w.rev \in Nat /\ w.year \in Nat
                           /\ w.arxiv \in BOOLEAN /\ w.cites \subseteq WorkIds

ASSUME CorpusConfig ==
    /\ WorkIds \subseteq Nat \ {0}
    /\ \A i \in DOMAIN Parts : Parts[i].date \in Nat
    /\ {Indexes, PartBatch} \subseteq Nat \ {0} /\ {MaxBoots, MaxLookups, MaxTroubles} \subseteq Nat

VARIABLES
    corpusRows,        \* openalex_works: id -> [work, date]
    live,        \* id -> the record OpenAlex serves now, or NoWork
    index,       \* index -> "none", "building", "invalid" or "valid"
    boot,        \* the bootstrap command
    builder,     \* the passes of EnsureIndexes
    looks,       \* look-up requests
    loads,       \* ref -> the loader's shared execution of it
    boots, lookups, troubles

corpusVars == <<corpusRows, live, index, boot, builder, looks, loads, boots, lookups, troubles>>
tableState  == <<corpusRows, live>>
indexState  == <<index, builder>>
lookupState == <<looks, loads, lookups>>

NoBoot  == [at |-> "none", parts |-> <<>>, pos |-> 0, buf |-> <<>>, sel |-> <<>>, fetched |-> {}]
NoPass  == [at |-> "none", i |-> 0, errs |-> FALSE, beside |-> FALSE, spoiled |-> FALSE]
NoLook  == [at |-> "none", refs |-> <<>>, found |-> <<>>, hadRow |-> <<>>]

CorpusTypeOK ==
    /\ DOMAIN corpusRows \subseteq WorkIds
    /\ \A i \in DOMAIN corpusRows : IsWork(corpusRows[i].work) /\ corpusRows[i].work.id = i
    /\ index \in [1 .. Indexes -> {"none", "building", "invalid", "valid"}]
    /\ boot.at \in {"none", "part", "index", "done", "failed"}
    /\ \A b \in Builders : builder[b].at \in {"none", "check", "drop", "create", "build", "done", "failed"}
    /\ \A c \in Lookers : looks[c].at \in {"none", "next", "wait", "done"}
    /\ boots \in 0 .. MaxBoots /\ lookups \in 0 .. MaxLookups /\ troubles \in 0 .. MaxTroubles

\* OpenAlex serves at least what its snapshot holds.
LastIn(parts, i) ==
    LET ws == SelectSeq(FlattenSeq([k \in DOMAIN parts |-> parts[k].works]), LAMBDA w : w.id = i)
    IN  IF ws = <<>> THEN NoRecord ELSE Last(ws)
CorpusInit ==
    /\ corpusRows = <<>> /\ live = [i \in WorkIds |-> LastIn(Parts, i)]
    /\ index \in [1 .. Indexes -> {"none"}] /\ boot = NoBoot
    /\ builder = [b \in Builders |-> NoPass] /\ looks = [c \in Lookers |-> NoLook] /\ loads = <<>>
    /\ boots = 0 /\ lookups = 0 /\ troubles = 0

Trouble == troubles < MaxTroubles /\ troubles' = troubles + 1
Troubles(bad) == IF bad THEN Trouble ELSE UNCHANGED troubles

-----------------------------------------------------------------------------
(* EnsureIndexes.  Builds and drops of indexes on one table exclude each      *)
(* other (ShareUpdateExclusive); the look at pg_index takes no lock.          *)

Building == \E i \in 1 .. Indexes : index[i] = "building"
Pass(b) == builder[b]
\* The pass is through with its index; the errors are joined at the end.
NextIndex(b, failed) ==
    LET errs == Pass(b).errs \/ failed
    IN  IF Pass(b).i < Indexes THEN [Pass(b) EXCEPT !.i = @ + 1, !.at = "check", !.errs = errs]
        ELSE [Pass(b) EXCEPT !.at = IF errs THEN "failed" ELSE "done", !.errs = errs]
Running(b) == builder[b].at \in {"check", "drop", "create", "build"}
\* A pass that fails may have undone what one beside it had passed.
Advance(b, pass, failed) ==
    builder' = [x \in Builders |->
                   IF x = b THEN pass
                   ELSE [builder[x] EXCEPT !.spoiled = @ \/ (failed /\ Pass(b).beside)]]

EnsureIndexes(b) ==
    LET other == CHOOSE x \in Builders : x # b
    IN  builder' = [builder EXCEPT ![b] = [NoPass EXCEPT !.at = "check", !.i = 1, !.beside = Running(other)],
                                   ![other].beside = @ \/ Running(other)]

\* A variant: an index that exists is taken for built.
NeverDrops(state) == FALSE
\* An index that exists but is not valid, because its build is under way or
\* was interrupted.
NeedsDrop(state) == state \in {"invalid", "building"}

dropIfInvalid(b, fails) ==
    /\ Troubles(fails) /\ UNCHANGED <<tableState, boot, lookupState, boots>>
    /\ \/ /\ Pass(b).at = "check" /\ UNCHANGED index
          /\ Advance(b, IF fails THEN NextIndex(b, TRUE)
                        ELSE [Pass(b) EXCEPT !.at = IF NeedsDrop(index[Pass(b).i]) THEN "drop" ELSE "create"],
                     fails)
       \/ /\ Pass(b).at = "drop" /\ ~Building
          /\ index' = IF fails THEN index ELSE [index EXCEPT ![Pass(b).i] = "none"]
          /\ Advance(b, IF fails THEN NextIndex(b, TRUE) ELSE [Pass(b) EXCEPT !.at = "create"], fails)
\* CREATE INDEX CONCURRENTLY IF NOT EXISTS.
ensureOneIndex(b, fails) ==
    /\ Troubles(fails) /\ UNCHANGED <<tableState, boot, lookupState, boots>>
    /\ \/ /\ Pass(b).at = "create" /\ ~fails /\ ~Building
          /\ IF index[Pass(b).i] = "none"
             THEN index' = [index EXCEPT ![Pass(b).i] = "building"]
                  /\ Advance(b, [Pass(b) EXCEPT !.at = "build"], FALSE)
             ELSE Advance(b, NextIndex(b, FALSE), FALSE) /\ UNCHANGED index
       \/ /\ Pass(b).at = "build"
          /\ index' = [index EXCEPT ![Pass(b).i] = IF fails THEN "invalid" ELSE "valid"]
          /\ Advance(b, NextIndex(b, fails), fails)
\* The command is interrupted, the server stopped, or the index budget spent.
Abandons(b) ==
    /\ index' = IF Pass(b).at = "build" THEN [index EXCEPT ![Pass(b).i] = "invalid"] ELSE index
    /\ Advance(b, [Pass(b) EXCEPT !.at = "failed"], TRUE)

\* A starting server, once its base schema is there and when so configured.
ensureCatalogSchema ==
    /\ boots < MaxBoots /\ boots' = boots + 1 /\ ~Running("edge") /\ EnsureIndexes("edge")
    /\ UNCHANGED <<tableState, index, boot, lookupState, troubles>>
StopEdge ==
    /\ Running("edge") /\ Trouble /\ Abandons("edge")
    /\ UNCHANGED <<tableState, boot, lookupState, boots>>

-----------------------------------------------------------------------------
(* bootstrap-pg.                                                             *)

\* PartitionDate, filterPartsSince: a part without a date is always kept.
filterPartsSince(since) == SelectSeq(Parts, LAMBDA p : p.date = NoDate \/ p.date >= since)

runOpenAlexBootstrapPG(since, limit) ==
    /\ boot.at \in {"none", "done", "failed"} /\ boots < MaxBoots /\ boots' = boots + 1
    /\ LET keys == filterPartsSince(since)
           sel  == IF limit = 0 \/ Len(keys) <= limit THEN keys ELSE SubSeq(keys, 1, limit)
       IN  boot' = [NoBoot EXCEPT !.at = "part", !.pos = 1, !.parts = sel, !.sel = sel]
    /\ UNCHANGED <<tableState, indexState, lookupState, troubles>>

\* One INSERT ... ON CONFLICT DO UPDATE: it fails as a whole when the batch
\* names an id twice.
Upsertable(works) == \A i, j \in DOMAIN works : i # j => works[i].id # works[j].id
UpsertWorks(works, date) ==
    LET ids == {works[k].id : k \in DOMAIN works}
    IN  corpusRows' = [i \in DOMAIN corpusRows \cup ids |->
                    IF i \in ids THEN [work |-> works[CHOOSE k \in DOMAIN works : works[k].id = i],
                                       date |-> date]
                    ELSE corpusRows[i]]
BootFails == boot' = [boot EXCEPT !.at = "failed"]
Part == Head(boot.parts)
\* StreamRawWorks: the next record of the part joins the batch.
StreamRawWorks(fails) ==
    /\ boot.at = "part" /\ boot.parts # <<>> /\ boot.pos <= Len(Part.works)
    /\ Len(boot.buf) < PartBatch /\ Troubles(fails)
    /\ IF fails THEN BootFails
       ELSE LET w == Part.works[boot.pos] IN
            boot' = [boot EXCEPT !.pos = @ + 1, !.buf = IF w = NoRecord THEN @ ELSE Append(@, w)]
    /\ UNCHANGED <<tableState, indexState, lookupState, boots>>
\* A variant: the last, partial batch of a part is not written.
FlushesFull == Len(boot.buf) = PartBatch
\* A full batch, or what is left when the part ends.
Flushes == Len(boot.buf) = PartBatch \/ boot.pos > Len(Part.works)
IngestPart(fails) ==
    /\ boot.at = "part" /\ boot.parts # <<>> /\ Troubles(fails)
    /\ IF Flushes /\ boot.buf # <<>>
       THEN IF fails \/ ~Upsertable(boot.buf) THEN BootFails /\ UNCHANGED corpusRows
            ELSE /\ UpsertWorks(boot.buf, Part.date)
                 /\ boot' = [boot EXCEPT !.buf = <<>>,
                                            !.fetched = @ \ {boot.buf[k].id : k \in DOMAIN boot.buf}]
       ELSE /\ ~fails /\ boot.pos > Len(Part.works) /\ UNCHANGED corpusRows
            /\ boot' = [boot EXCEPT !.parts = Tail(@), !.pos = 1, !.buf = <<>>]
    /\ UNCHANGED <<live, indexState, lookupState, boots>>
BootBuildsIndexes ==
    /\ boot.at = "part" /\ boot.parts = <<>>
    /\ boot' = [boot EXCEPT !.at = "index"] /\ EnsureIndexes("boot")
    /\ UNCHANGED <<tableState, index, lookupState, boots, troubles>>
BootEnds ==
    /\ boot.at = "index" /\ ~Running("boot") /\ boot' = [boot EXCEPT !.at = Pass("boot").at]
    /\ UNCHANGED <<tableState, indexState, lookupState, boots, troubles>>
BootInterrupted ==
    /\ boot.at \in {"part", "index"} /\ Trouble /\ BootFails
    /\ IF Running("boot") THEN Abandons("boot") ELSE UNCHANGED indexState
    /\ UNCHANGED <<tableState, lookupState, boots>>

-----------------------------------------------------------------------------
(* Queries.                                                                  *)

GetWork(i) == IF i \in DOMAIN corpusRows THEN <<corpusRows[i].work>> ELSE <<>>
\* doi is a generated column; here a DOI is named by the id of its work.
GetWorkByDOI(i) == GetWork(i)

\* addFilter: one clause per filter; an unknown key is an error.
addFilter(w, f) ==
    CASE f.key = "has_arxiv" -> w.arxiv = f.val
      [] f.key = "arxiv_id"  -> w.arxiv /\ w.id = f.val
      [] f.key = "publication_year" -> w.year = f.val
      [] f.key = "from_publication_year" -> w.year >= f.val
      [] f.key = "to_publication_year"   -> w.year <= f.val
      [] f.key = "cites"    -> f.val \in w.cites
      [] f.key = "cited_by" -> f.val \in DOMAIN corpusRows /\ w.id \in corpusRows[f.val].work.cites
buildWhere(filters) == {i \in DOMAIN corpusRows : \A f \in filters : addFilter(corpusRows[i].work, f)}
\* orderBySQL: the sort column, then the id; without a sort, the id.
orderBySQL(i, j, sort) ==
    LET y == corpusRows[i].work.year  z == corpusRows[j].work.year
    IN  CASE sort = "id" -> i < j
          [] sort = "year"      -> y < z \/ (y = z /\ i < j)
          [] sort = "year:desc" -> y > z \/ (y = z /\ i < j)
\* QueryWorks: LIMIT and OFFSET of that order.
QueryWorks(filters, sort, page, perPage) ==
    LET sel  == buildWhere(filters)
        rank == [i \in sel |-> Cardinality({j \in sel : orderBySQL(j, i, sort)})]
    IN  {i \in sel : rank[i] >= (page - 1) * perPage /\ rank[i] < page * perPage}

-----------------------------------------------------------------------------
(* The batch look-up.                                                        *)

\* splitRef.
Fetchable(ref) == ref.kind \in {"openalex", "doi"}
splitRef(ref) == ref.kind \in {"openalex", "doi", "arxiv"}
\* Two ids may carry one reference only once in the batch: parseLookupIDs.
parseLookupIDs(refs) == [k \in 1 .. Cardinality(Range(refs)) |->
    refs[CHOOSE i \in DOMAIN refs : /\ \A j \in 1 .. i - 1 : refs[j] # refs[i]
                                    /\ Cardinality({refs[j] : j \in 1 .. i}) = k]]

corpusResolve(ref) ==
    CASE ref.kind = "openalex" -> GetWork(ref.id)
      [] ref.kind = "doi"      -> GetWorkByDOI(ref.id)
      [] ref.kind = "arxiv"    ->
            LET hit == QueryWorks({[key |-> "arxiv_id", val |-> ref.id]}, "id", 1, 1)
            IN  IF hit = {} THEN <<>> ELSE <<corpusRows[CHOOSE i \in hit : TRUE].work>>

Ref(c) == looks[c].refs[Len(looks[c].found) + 1]
paperLookupHandler(c, refs) ==
    /\ looks[c].at \in {"none", "done"} /\ lookups < MaxLookups /\ lookups' = lookups + 1
    /\ looks' = [looks EXCEPT ![c] = [NoLook EXCEPT !.at = "next", !.refs = parseLookupIDs(refs)]]
    /\ UNCHANGED <<tableState, indexState, boot, loads, boots, troubles>>
AnsweredLook(c, work, had) ==
    LET l == [looks[c] EXCEPT !.found = Append(@, work), !.hadRow = Append(@, had)]
    IN  [l EXCEPT !.at = IF Len(l.found) = Len(l.refs) THEN "done" ELSE "next"]
\* Materializer.Get: a malformed reference is echoed unresolved, any other
\* starts or joins the shared execution for it.
GetLookup(c) ==
    /\ looks[c].at = "next"
    /\ IF splitRef(Ref(c))
       THEN /\ looks' = [looks EXCEPT ![c].at = "wait"]
            /\ loads' = [r \in DOMAIN loads \cup {Ref(c)} |->
                            IF r \in DOMAIN loads THEN loads[r]
                            ELSE [at |-> "load", work |-> NoRecord, had |-> corpusResolve(r) # <<>>]]
       ELSE looks' = [looks EXCEPT ![c] = AnsweredLook(c, <<>>, FALSE)] /\ UNCHANGED loads
    /\ UNCHANGED <<tableState, indexState, boot, lookups, boots, troubles>>
\* The shared execution ends: everyone who waits for it gets its outcome.
Finishes(r, work, had) ==
    /\ loads' = [x \in DOMAIN loads \ {r} |-> loads[x]]
    /\ looks' = [c \in Lookers |-> IF looks[c].at = "wait" /\ Ref(c) = r THEN AnsweredLook(c, work, had)
                                   ELSE looks[c]]
LoadAt(r, at) == r \in DOMAIN loads /\ loads[r].at = at
\* corpusStore.Load: a failed read is a miss.
LoadRef(r, fails) ==
    /\ LoadAt(r, "load") /\ Troubles(fails)
    /\ LET work == IF fails THEN <<>> ELSE corpusResolve(r)
           had  == loads[r].had /\ ~fails
       IN  IF work # <<>> \/ ~Fetchable(r) THEN Finishes(r, work, had)
           ELSE loads' = [loads EXCEPT ![r].at = "fetch", ![r].had = had] /\ UNCHANGED looks
    /\ UNCHANGED <<tableState, indexState, boot, lookups, boots>>
\* The loader of newCorpusMaterializer: unknown and unreachable are both
\* unresolved for the batch.
FetchRef(r, fails) ==
    /\ LoadAt(r, "fetch") /\ Troubles(fails)
    /\ IF fails \/ live[r.id] = NoRecord THEN Finishes(r, <<>>, loads[r].had)
       ELSE loads' = [loads EXCEPT ![r].at = "store", ![r].work = live[r.id]] /\ UNCHANGED looks
    /\ UNCHANGED <<tableState, indexState, boot, lookups, boots>>
\* UpsertFetchedWork, without a partition date; a failure is only logged.
UpsertFetchedWork(w) == /\ UpsertWorks(<<w>>, NoDate)
                        /\ boot' = [boot EXCEPT !.fetched = @ \cup {w.id}]
StoreRef(r, fails) ==
    /\ LoadAt(r, "store") /\ Troubles(fails)
    /\ IF fails THEN UNCHANGED <<corpusRows, boot>> ELSE UpsertFetchedWork(loads[r].work)
    /\ Finishes(r, <<loads[r].work>>, loads[r].had)
    /\ UNCHANGED <<live, indexState, lookups, boots>>
\* The client is gone: the batch stops before its next reference.
LeaveLookup(c) ==
    /\ looks[c].at = "next" /\ Trouble
    /\ looks' = [looks EXCEPT ![c].at = "done", ![c].refs = SubSeq(@, 1, Len(looks[c].found))]
    /\ UNCHANGED <<tableState, indexState, boot, loads, lookups, boots>>

\* OpenAlex revises or withdraws a work.
LiveChanges(i, gone) ==
    /\ Trouble /\ live[i] # NoRecord
    /\ live' = [live EXCEPT ![i] = IF gone THEN NoRecord ELSE [live[i] EXCEPT !.rev = live[i].rev + 1]]
    /\ UNCHANGED <<corpusRows, indexState, boot, lookupState, boots>>
\* Nothing is under way and the bounds are spent.
CorpusRest ==
    /\ boots = MaxBoots /\ lookups = MaxLookups /\ boot.at \notin {"part", "index"} /\ loads = <<>>
    /\ \A b \in Builders : ~Running(b)
    /\ \A c \in Lookers : looks[c].at \in {"none", "done"}
    /\ UNCHANGED corpusVars

Dates == {Parts[k].date : k \in DOMAIN Parts}
AllRefs == UNION {Range(refs) : refs \in RefLists}
CorpusNext ==
    \/ ensureCatalogSchema \/ StopEdge \/ BootBuildsIndexes \/ BootEnds \/ BootInterrupted
    \/ \E since \in Dates, limit \in {0, 1} : runOpenAlexBootstrapPG(since, limit)
    \/ \E bad \in BOOLEAN :
          \/ StreamRawWorks(bad) \/ IngestPart(bad)
          \/ \E b \in Builders : dropIfInvalid(b, bad) \/ ensureOneIndex(b, bad)
          \/ \E r \in AllRefs : LoadRef(r, bad) \/ FetchRef(r, bad) \/ StoreRef(r, bad)
          \/ \E i \in WorkIds : LiveChanges(i, bad)
    \/ \E c \in Lookers : GetLookup(c) \/ LeaveLookup(c) \/ \E refs \in RefLists : paperLookupHandler(c, refs)
    \/ CorpusRest

CorpusSpec == CorpusInit /\ [][CorpusNext]_corpusVars

-----------------------------------------------------------------------------
\* A bootstrap that ended well has every record of its parts in the table, the
\* newest part's unless a look-up has refreshed it since.
PartsIngested ==
    boot.at = "done" =>
        \A i \in WorkIds : LastIn(boot.sel, i) # NoRecord =>
            i \in DOMAIN corpusRows /\ (i \in boot.fetched \/ corpusRows[i].work = LastIn(boot.sel, i))
\* A pass that reports success leaves every index valid, unless another pass
\* failed beside it: an interrupted build is always found and redone.
IndexesBuilt ==
    (\E b \in Builders : builder[b].at = "done" /\ ~builder[b].spoiled) /\ (\A b \in Builders : ~Running(b))
        => \A i \in 1 .. Indexes : index[i] = "valid"
\* A result is about the work that was asked for, and a work the corpus had
\* when its execution began, and could read, is never reported as unresolved.
LookupsHonest ==
    \A c \in Lookers : \A k \in DOMAIN looks[c].hadRow : LET l == looks[c] IN
        IF l.found[k] = <<>> THEN ~l.hadRow[k]
        ELSE l.found[k][1].id = l.refs[k].id
\* In every sort order the pages of a query hold each matching work once.
PagesPartition ==
    \A sort \in {"id", "year", "year:desc"}, i \in DOMAIN corpusRows :
        Cardinality({p \in 1 .. Cardinality(DOMAIN corpusRows) : i \in QueryWorks({}, sort, p, 1)}) = 1

(* The corpus is what its sources say: interrupted and repeated bootstraps,  *)
(* overlapping index builds and write-backs of live records leave complete   *)
(* tables, valid indexes, honest look-ups and pages without gaps             *)
(* (openalexcorpus/ingest.go, "an interrupted operator run is safe to        *)
(* resume"; schema.go, "both edges racing ... are safe").                    *)
CorpusFaithful == PartsIngested /\ IndexesBuilt /\ LookupsHonest /\ PagesPartition
=============================================================================
