----------------------------- MODULE MineruWire -----------------------------
(***************************************************************************)
(* One conversion as it is spoken to MinerU's V1 API                        *)
(* (internal/mineru/v1.go, errors.go, archive.go, and the loop of source.go *)
(* that drives them): create an upload, put the bytes, complete it, submit, *)
(* poll, download and open the package.  Every request may be redirected,   *)
(* every answer may be an error that has to be read as the paper's fault,   *)
(* the key's or nobody's.                                                   *)
(***************************************************************************)
EXTENDS Integers, Sequences, SequencesExt, FiniteSets

CONSTANTS
    ApiKeys,        \* MinerU API keys
    Origins,        \* "base" is the API's; "sub" shares its domain
    ArchivePaths,   \* member paths, as sequences of components
    MaxEntries,     \* bound: members of an archive
    MaxHops,        \* bound: redirects of one request (10 in the code)
    NoKey

ASSUME WireConfig ==
    /\ "base" \in Origins /\ {MaxEntries, MaxHops} \subseteq Nat /\ NoKey \notin ApiKeys
    /\ \A p \in ArchivePaths : p \in Seq(STRING) /\ p # <<>>    \* the ZIP reader refuses other names

VARIABLES
    talk,       \* the conversion: its step, key and the request under way
    shown,      \* origins each key has been sent to
    aside,      \* keys put aside for the day
    faults,     \* what really went wrong when each key was last refused
    package     \* the archive downloaded

wireVars == <<talk, shown, aside, faults, package>>

Steps == {"create", "put", "complete", "submit", "poll", "download"}
Call(step, key, origin, carries) ==
    [at |-> step, key |-> key, first |-> origin, origin |-> origin, carries |-> carries, hops |-> 0]
Silent(at) == Call(at, NoKey, "base", FALSE)

WireTypeOK ==
    /\ talk.at \in Steps \cup {"idle", "waiting", "opening", "persisting", "done", "failed", "retryable", "exhausted"}
    /\ talk.key \in ApiKeys \cup {NoKey} /\ talk.hops \in 0 .. MaxHops
    /\ shown \in [ApiKeys -> SUBSET Origins] /\ aside \subseteq ApiKeys
    /\ faults \in [ApiKeys -> {"none", "quota", "paper", "service", "key"}]

WireInit ==
    /\ talk = Silent("idle") /\ shown = [k \in ApiKeys |-> {}] /\ aside = {}
    /\ faults = [k \in ApiKeys |-> "none"] /\ package = <<>>

\* A request leaves with or without the key.
Send(request) ==
    /\ talk' = request
    /\ shown' = IF request.carries THEN [shown EXCEPT ![request.key] = @ \cup {request.origin}] ELSE shown
ToBase(step, key) == Send(Call(step, key, "base", TRUE))

-----------------------------------------------------------------------------
(* Errors.                                                                   *)

\* The shapes refusals come in, with their true fault.
NumericCodes == {"daily", "transient", "fatal"}
Problems ==
    {[fault |-> "quota", code |-> c, text |-> {"daily"}, status |-> s] :
        c \in {"none", "daily", "quota_exceeded"}, s \in {200, 400, 429}} \cup
    {[fault |-> "paper", code |-> c, text |-> t \cup {"paper"}, status |-> s] :
        c \in {"none", "fatal", "file_too_large", "other"}, t \in SUBSET {"daily"}, s \in {200, 400, 500}} \cup
    {[fault |-> "service", code |-> c, text |-> {}, status |-> s] :
        c \in {"none", "transient", "queue_full"}, s \in {400, 408, 500}} \cup
    {[fault |-> "key", code |-> c, text |-> {}, status |-> s] : c \in {"none", "invalid_api_key"}, s \in {401, 403}}
\* A variant: the daily words are looked for first.
classifyDailyFirst(p) ==
    IF p.status = 429 THEN "daily"
    ELSE IF p.code \in NumericCodes THEN p.code
    ELSE IF p.status \in {401, 403} THEN "fatal"
    ELSE IF "daily" \in p.text THEN "daily"
    ELSE IF "paper" \in p.text THEN "fatal"
    ELSE IF p.status >= 500 \/ p.status = 408 THEN "transient" ELSE "unknown"
\* The status 429 first, then a numeric code, then a refused key, then words:
\* those about the paper before those about a daily limit.
classifyAPIError(p) ==
    IF p.status = 429 THEN "daily"
    ELSE IF p.code \in NumericCodes THEN p.code
    ELSE IF p.status \in {401, 403} THEN "fatal"
    ELSE IF "paper" \in p.text THEN "fatal"
    ELSE IF "daily" \in p.text THEN "daily"
    ELSE IF p.status >= 500 \/ p.status = 408 THEN "transient" ELSE "unknown"
classifyV1Error(p) ==
    CASE p.code \in {"invalid_api_key", "file_too_large"} -> "fatal"
      [] p.code = "quota_exceeded" -> "daily"
      [] p.code = "queue_full" -> "transient"
      [] OTHER -> classifyAPIError(p)
\* convertSource: a daily limit puts the key aside and the conversion starts
\* over with the next one; anything else ends it.
Refused(p) ==
    /\ talk.at \in Steps /\ faults' = [faults EXCEPT ![talk.key] = p.fault]
    /\ CASE classifyV1Error(p) = "daily" ->
              aside' = aside \cup {talk.key} /\ talk' = Silent("idle")
         [] OTHER ->
              aside' = aside /\ talk' = Silent(IF classifyV1Error(p) = "fatal" THEN "failed" ELSE "retryable")
    /\ UNCHANGED <<shown, package>>
\* An answer that parses to nothing usable is fatal for the paper.
Malformed ==
    /\ talk.at \in Steps \ {"put"} /\ talk' = Silent("failed") /\ UNCHANGED <<shown, aside, faults, package>>
\* The context ends, or the connection fails.
Broken ==
    /\ talk.at \in Steps \cup {"waiting"} /\ talk' = Silent("retryable")
    /\ UNCHANGED <<shown, aside, faults, package>>

-----------------------------------------------------------------------------
(* The exchange.                                                             *)

AcquireKey(k) ==
    /\ talk.at = "idle" /\ k \notin aside /\ ToBase("create", k) /\ UNCHANGED <<aside, faults, package>>
AllExhausted ==
    /\ talk.at = "idle" /\ aside = ApiKeys /\ talk' = Silent("exhausted")
    /\ UNCHANGED <<shown, aside, faults, package>>
sameOrigin(a, b) == a = b
\* net/http itself drops the key when the domain changes, not for a subdomain.
NetHTTPKeeps(to) == to \in {"base", "sub"}
\* doV1: what a redirected request carries is decided against the first one.
doV1(to) == talk.carries /\ NetHTTPKeeps(to) /\ sameOrigin(talk.first, to)
Redirected(to) ==
    /\ talk.at \in Steps /\ talk.hops < MaxHops
    /\ Send([talk EXCEPT !.origin = to, !.carries = talk.first = "base" /\ doV1(to), !.hops = @ + 1])
    /\ UNCHANGED <<aside, faults, package>>

\* UploadV1: MinerU may know the bytes; otherwise it names a place to put them,
\* which gets the key only if it is the API itself.
UploadKnown ==
    /\ talk.at = "create" /\ ToBase("submit", talk.key) /\ UNCHANGED <<aside, faults, package>>
UploadV1(target) ==
    /\ talk.at = "create" /\ Send(Call("put", talk.key, target, sameOrigin("base", target)))
    /\ UNCHANGED <<aside, faults, package>>
UploadPut ==
    /\ talk.at = "put" /\ ToBase("complete", talk.key) /\ UNCHANGED <<aside, faults, package>>
UploadCompleted ==
    /\ talk.at = "complete" /\ ToBase("submit", talk.key) /\ UNCHANGED <<aside, faults, package>>
\* V1Job.output of what SubmitV1 or GetV1Job answered.
JobRunning ==
    /\ talk.at \in {"submit", "poll"} /\ talk' = [Silent("waiting") EXCEPT !.key = talk.key]
    /\ UNCHANGED <<shown, aside, faults, package>>
GetV1Job ==
    /\ talk.at = "waiting" /\ ToBase("poll", talk.key) /\ UNCHANGED <<aside, faults, package>>
JobCompleted ==
    /\ talk.at \in {"submit", "poll"} /\ ToBase("download", talk.key) /\ UNCHANGED <<aside, faults, package>>
FetchV1Result(archive) ==
    /\ talk.at = "download" /\ talk' = Silent("opening") /\ package' = archive
    /\ UNCHANGED <<shown, aside, faults>>

-----------------------------------------------------------------------------
(* The package: members with a path, directories among them.                 *)

Archives == BoundedSeq([path : ArchivePaths, dir : BOOLEAN], MaxEntries)
Files(archive) == {e.path : e \in {x \in Range(archive) : ~x.dir}}
\* extractMembers: no path twice, and no file where another member has a parent.
extractMembers(archive) ==
    /\ \A i, j \in DOMAIN archive : i # j => archive[i].path # archive[j].path
    /\ \A e \in Range(archive) : \A n \in 1 .. Len(e.path) - 1 : SubSeq(e.path, 1, n) \notin Files(archive)
\* selectArtifact: the member of that name, which must be one.
Named(archive, base) == {p \in Files(archive) : p[Len(p)] = base}
selectArtifact(archive, base) == Cardinality(Named(archive, base)) <= 1
resultFromMembers(archive) == selectArtifact(archive, "md") /\ selectArtifact(archive, "middle")
\* ExtractPackage: markdown and a complete Middle document with sound anchors.
ExtractPackage(archive, sound) ==
    /\ extractMembers(archive) /\ resultFromMembers(archive) /\ sound
    /\ Named(archive, "middle") # {} /\ Named(archive, "md") # {}
OpenPackage(sound) ==
    /\ talk.at = "opening"
    /\ talk' = Silent(IF ExtractPackage(package, sound) THEN "persisting" ELSE "failed")
    /\ UNCHANGED <<shown, aside, faults, package>>
\* WriteBundle and PublishBundle.
Persist(ok) ==
    /\ talk.at = "persisting" /\ talk' = Silent(IF ok THEN "done" ELSE "retryable")
    /\ UNCHANGED <<shown, aside, faults, package>>

WireNext ==
    \/ Malformed \/ Broken \/ AllExhausted \/ UploadKnown \/ UploadPut \/ UploadCompleted
    \/ JobRunning \/ GetV1Job \/ JobCompleted
    \/ \E k \in ApiKeys : AcquireKey(k)
    \/ \E p \in Problems : Refused(p)
    \/ \E to \in Origins : Redirected(to) \/ UploadV1(to)
    \/ \E archive \in Archives : FetchV1Result(archive)
    \/ \E ok \in BOOLEAN : OpenPackage(ok) \/ Persist(ok)

WireSpec == WireInit /\ [][WireNext]_wireVars

-----------------------------------------------------------------------------
(* Properties.                                                               *)

\* However requests are redirected and wherever uploads are sent, a key reaches
\* no origin but the API's; a paper that MinerU will never accept puts no key
\* aside; and a package that is kept unpacks to one tree with one document.
WireSafe ==
    /\ \A k \in ApiKeys : shown[k] \subseteq {"base"}
    /\ \A k \in aside : faults[k] # "paper"
    /\ talk.at \in {"persisting", "done"} =>
          /\ \A p, q \in Files(package) : ~IsStrictPrefix(p, q)
          /\ \E m \in Files(package) : Named(package, "middle") = {m}
==============================================================================
