----------------------------- MODULE ArxivFetch -----------------------------
(***************************************************************************)
(* The arXiv client (internal/arxiv): callers of one Fetcher share its rate  *)
(* limiter; each download retries over several responses, waiting as long as *)
(* the server asks (fetcher.go), and a bare id is resolved to its latest     *)
(* version from the abstract page (resolve_version.go).                      *)
(***************************************************************************)
EXTENDS Integers, FiniteSets, Sequences

CONSTANTS
    Fetching,      \* callers
    Rps, Burst,    \* the limiter: tokens per tick, and its capacity
    RetryMax,      \* retries after the first attempt
    ArxivReplies,       \* [status, body, retryAfter]: what the server may answer
    MinWait, MaxWait,   \* the exponential back-off
    MaxSent,       \* bound: requests and calls
    MaxTime        \* bound: the clock

ASSUME ArxivConfig ==
    /\ {Rps, Burst, RetryMax, MinWait, MaxWait, MaxSent, MaxTime} \subseteq Nat
    /\ Burst >= 1    \* New refuses anything else
    /\ \A r \in ArxivReplies : /\ r.status \in {"200", "404", "429", "4xx", "5xx", "none"}
                          /\ r.body \in {"pdf", "html", "large", "cut"} /\ r.retryAfter \in Int

VARIABLES
    bucket,    \* the limiter's bucket
    fetchTime,
    job,       \* caller -> its call
    sent       \* the requests so far: [at, by, reply]

arxivVars == <<bucket, fetchTime, job, sent>>

NoReply == [status |-> "none", body |-> "cut", retryAfter |-> 0]
NoJob == [at |-> "idle", op |-> "fetch", attempt |-> 0, until |-> 0, ans |-> "none"]

ArxivTypeOK ==
    /\ bucket \in 0 .. Burst /\ fetchTime \in 0 .. MaxTime
    /\ \A c \in Fetching : job[c].at \in {"idle", "limit", "http", "backoff", "done"}
    /\ Len(sent) <= MaxSent

ArxivInit ==
    /\ bucket = Burst /\ fetchTime = 0 /\ job = [c \in Fetching |-> NoJob] /\ sent = <<>>

FetchEnds(c, ans) == job' = [job EXCEPT ![c].at = "done", ![c].ans = ans]

\* Fetch and FetchURL: an unversioned id, a URL that is not http(s), is refused.
Fetch(c, valid) ==
    /\ job[c].at = "idle"
    /\ job' = [job EXCEPT ![c] = [NoJob EXCEPT !.at = IF valid THEN "limit" ELSE "done", !.attempt = 1,
                                               !.ans = IF valid THEN "none" ELSE "invalid"]]
    /\ UNCHANGED <<bucket, fetchTime, sent>>
\* A versioned id is returned as it is, an invalid one refused.
ResolveLatestVersion(c, id) ==
    /\ job[c].at = "idle"
    /\ job' = [job EXCEPT ![c] = [NoJob EXCEPT !.op = "resolve", !.attempt = 1,
                                     !.at = IF id = "bare" THEN "limit" ELSE "done",
                                     !.ans = CASE id = "bare" -> "none" [] id = "versioned" -> "ok"
                                               [] OTHER -> "invalid"]]
    /\ UNCHANGED <<bucket, fetchTime, sent>>

By(c) == {k \in DOMAIN sent : sent[k].by = c}
LastBy(c) == CHOOSE k \in By(c) : \A j \in By(c) : j <= k

\* A variant: a retry does not wait for the limiter.
FirstTakesToken(c) == IF job[c].attempt = 1 THEN bucket > 0 /\ bucket' = bucket - 1 ELSE UNCHANGED bucket
\* limiter.Wait, before every attempt; the call's context may end meanwhile.
TakesToken(c) == bucket > 0 /\ bucket' = bucket - 1
WaitLimiter(c, cancelled) ==
    /\ job[c].at = "limit"
    /\ IF cancelled THEN FetchEnds(c, "cancelled") /\ UNCHANGED <<bucket, sent>>
       ELSE /\ TakesToken(c) /\ job' = [job EXCEPT ![c].at = "http"]
            /\ Len(sent) < MaxSent /\ sent' = Append(sent, [at |-> fetchTime, by |-> c, reply |-> NoReply])
    /\ UNCHANGED fetchTime

\* doOnce: the sentinel of a response, or a result.
doOnce(r) ==
    IF r.status = "404" THEN "ErrNotFound"
    ELSE IF r.status = "429" THEN "ErrRateLimited"
    ELSE IF r.status \in {"5xx", "none"} THEN "transient"
    ELSE IF r.status = "4xx" THEN "ErrUpstream"
    ELSE IF r.body = "cut" THEN "transient"
    ELSE IF r.body = "large" THEN "ErrTooLarge"
    ELSE IF r.body = "html" THEN "ErrNotPDF" ELSE "ok"
\* parseRetryAfter: seconds or a date; what is past or unreadable is 0.
parseRetryAfter(r) == IF r.status \in {"429", "5xx"} /\ r.retryAfter > 0 THEN r.retryAfter ELSE 0
\* Exponential from MinWait, capped.
Backoff(attempt) == IF MinWait * 2 ^ (attempt - 1) > MaxWait THEN MaxWait ELSE MinWait * 2 ^ (attempt - 1)
Pause(r, attempt) == IF parseRetryAfter(r) > 0 THEN parseRetryAfter(r) ELSE Backoff(attempt)

Fatal(e) == e \in {"ErrNotFound", "ErrTooLarge", "ErrNotPDF"}
\* After one round trip: a result, a fatal answer, the call cancelled, the
\* retries spent, or another attempt after a pause.
AfterAttempt(c, r, cancelled) ==
    LET e == doOnce(r) IN
    IF e = "ok" \/ Fatal(e) THEN [job[c] EXCEPT !.at = "done", !.ans = e]
    ELSE IF cancelled THEN [job[c] EXCEPT !.at = "done", !.ans = "ErrUpstream"]
    ELSE IF job[c].attempt > RetryMax
    THEN [job[c] EXCEPT !.at = "done", !.ans = IF e = "ErrRateLimited" THEN e ELSE "ErrUpstream"]
    ELSE [job[c] EXCEPT !.at = "backoff", !.until = fetchTime + Pause(r, job[c].attempt)]
\* The abstract page, once: the version tag may be missing.
AfterAbstract(c, r) ==
    [job[c] EXCEPT !.at = "done",
        !.ans = CASE r.status = "404" -> "ErrNotFound" [] r.status = "429" -> "ErrRateLimited"
                  [] r.status = "200" /\ r.body = "html" -> "ok" [] OTHER -> "ErrUpstream"]
RoundTrip(c, r, cancelled) ==
    /\ job[c].at = "http"
    /\ sent' = [k \in DOMAIN sent |-> IF k = LastBy(c) THEN [sent[k] EXCEPT !.reply = r] ELSE sent[k]]
    /\ job' = [job EXCEPT ![c] = IF job[c].op = "fetch" THEN AfterAttempt(c, r, cancelled)
                                 ELSE AfterAbstract(c, r)]
    /\ UNCHANGED <<bucket, fetchTime>>
BackoffEnds(c, cancelled) ==
    /\ job[c].at = "backoff" /\ (cancelled \/ fetchTime >= job[c].until)
    /\ job' = [job EXCEPT ![c] = IF cancelled THEN [job[c] EXCEPT !.at = "done", !.ans = "ErrUpstream"]
                                 ELSE [job[c] EXCEPT !.at = "limit", !.attempt = job[c].attempt + 1]]
    /\ UNCHANGED <<bucket, fetchTime, sent>>

ArxivTick ==
    /\ fetchTime < MaxTime /\ fetchTime' = fetchTime + 1
    /\ bucket' = IF bucket + Rps > Burst THEN Burst ELSE bucket + Rps
    /\ UNCHANGED <<job, sent>>
\* All calls have ended, or the clock's bound stops them.
ArxivRest == fetchTime = MaxTime /\ UNCHANGED arxivVars

ArxivNext ==
    \/ \E c \in Fetching, yes \in BOOLEAN : Fetch(c, yes) \/ WaitLimiter(c, yes) \/ BackoffEnds(c, yes)
    \/ \E c \in Fetching, id \in {"bare", "versioned", "bad"} : ResolveLatestVersion(c, id)
    \/ \E c \in Fetching, r \in ArxivReplies, yes \in BOOLEAN : RoundTrip(c, r, yes)
    \/ ArxivTick \/ ArxivRest

ArxivSpec == ArxivInit /\ [][ArxivNext]_arxivVars

-----------------------------------------------------------------------------
(* Whatever the callers do, and however their retries overlap, the host sees *)
(* no more requests in a stretch of time than the limiter's burst and rate   *)
(* allow.  A caller never asks again before the time the server named, after *)
(* a final answer, or more often than the retries allow, and it is given a   *)
(* result only when its last response was a whole PDF.                       *)
FetchPolite ==
    /\ \A j, k \in DOMAIN sent : j <= k => k - j + 1 <= Burst + Rps * (sent[k].at - sent[j].at)
    /\ \A c \in Fetching :
          /\ Cardinality(By(c)) <= RetryMax + 1
          /\ \A j, k \in By(c) : j < k =>
                /\ sent[j].reply.status # "404"
                /\ sent[j].reply.status = "200" => sent[j].reply.body = "cut"
                /\ sent[k].at >= sent[j].at + parseRetryAfter(sent[j].reply)
          /\ job[c].op = "fetch" /\ job[c].ans = "ok" =>
                sent[LastBy(c)].reply.status = "200" /\ sent[LastBy(c)].reply.body = "pdf"
=============================================================================
