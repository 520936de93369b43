------------------------------- MODULE Access -------------------------------
(***************************************************************************)
(* Access tokens: the device-code grant (routes/oauthdevice.go), personal    *)
(* access tokens (internal/pat, routes/pat.go) and the guard every route     *)
(* goes through (routes/auth.go).  A handler reads a row, decides on what it  *)
(* read and writes with a conditional UPDATE; several requests are in flight. *)
(* Each SQL statement is one step; bcrypt makes the verification slow.       *)
(***************************************************************************)
EXTENDS Integers, FiniteSets

CONSTANTS
    DevCodes, AccTokens,      \* ids a device code and a token may get
    AccUsers, Callers,       \* users, requests in flight
    CodeLife, PollGap,        \* ExpiresInSeconds, PollIntervalSeconds (ticks)
    TokenLife, CacheLife,     \* expires_in_days, the verify cache's TTL
    PollCap,                  \* MaxPollCount
    LastTick,                 \* bound: clock
    NoUser

ASSUME AccessConfig ==
    /\ {CodeLife, PollGap, TokenLife, CacheLife, PollCap, LastTick} \subseteq Nat
    /\ NoUser \notin AccUsers
    /\ -1 \notin DevCodes \cup AccTokens     \* Missing: ids are random strings

VARIABLES
    code,       \* oauth_device_codes rows
    pat,        \* pat_tokens rows; from: the code it was minted for
    cached,     \* verify cache: when the entry was put, or Missing
    disabled,   \* users whose availability is off
    tick,
    req         \* the request each caller has in flight

accVars == <<code, pat, cached, disabled, tick, req>>

Missing == -1
NoCode  == [status |-> "none", user |-> NoUser, polls |-> 0, last |-> Missing, until |-> 0]
NoPat   == [user |-> NoUser, until |-> 0, from |-> Missing, live |-> FALSE]
NoReq   == [op |-> "idle", code |-> Missing, pat |-> Missing, user |-> NoUser,
            now |-> 0, row |-> NoCode, dead |-> FALSE, barred |-> FALSE]
CodeStatuses == {"none", "pending", "approved", "denied", "expired", "consumed"}

AccTypeOK ==
    /\ \A d \in DevCodes : /\ code[d].status \in CodeStatuses
                           /\ code[d].user \in AccUsers \cup {NoUser} /\ code[d].polls \in Nat
    /\ \A t \in AccTokens : pat[t].user \in AccUsers \cup {NoUser}
    /\ cached \in [AccTokens -> Missing .. LastTick]
    /\ disabled \subseteq AccUsers /\ tick \in 0 .. LastTick
    /\ \A r \in Callers :
          req[r].op \in {"idle", "poll", "mint", "approve", "verify", "owner", "accepted"}

AccInit ==
    /\ code = [d \in DevCodes |-> NoCode] /\ pat = [t \in AccTokens |-> NoPat]
    /\ cached = [t \in AccTokens |-> Missing] /\ disabled = {} /\ tick = 0
    /\ req = [r \in Callers |-> NoReq]

EndRequest(r) == req' = [req EXCEPT ![r] = NoReq]
Step(r, op) == req' = [req EXCEPT ![r].op = op]
Expired(row, now) == now > row.until

-----------------------------------------------------------------------------
(* The device grant.                                                         *)

\* oauthDeviceCodeHandler.
IssueCode(d) ==
    /\ code[d].status = "none"
    /\ code' = [code EXCEPT ![d] = [NoCode EXCEPT !.status = "pending",
                                                  !.until = tick + CodeLife]]
    /\ UNCHANGED <<pat, cached, disabled, tick, req>>

\* oauthDeviceTokenHandler finds the row.
Poll(r, d) ==
    /\ req[r].op = "idle" /\ code[d].status # "none"
    /\ req' = [req EXCEPT ![r] = [NoReq EXCEPT !.op = "poll", !.code = d, !.now = tick,
                                               !.row = code[d]]]
    /\ UNCHANGED <<code, pat, cached, disabled, tick>>
\* oauthDeviceMarkExpired.
MarkExpired(d) ==
    code' = IF code[d].status \in {"pending", "approved"}
            THEN [code EXCEPT ![d].status = "expired"] ELSE code
\* oauthDeviceBumpPoll.
BumpPoll(d, now) == code' = [code EXCEPT ![d].polls = @ + 1, ![d].last = now]
TooSoon(x) == x.row.last # Missing /\ x.now - x.row.last < PollGap
\* It decides on the row it read.
PollDecides(r) ==
    LET x == req[r] IN
    /\ x.op = "poll"
    /\ IF x.row.polls >= PollCap \/ Expired(x.row, x.now)
       THEN MarkExpired(x.code) /\ EndRequest(r)
       ELSE /\ BumpPoll(x.code, x.now)
            /\ IF TooSoon(x) \/ x.row.status # "approved" THEN EndRequest(r)
               ELSE req' = [req EXCEPT ![r] = [NoReq EXCEPT !.op = "mint", !.code = x.code,
                                                            !.user = x.row.user]]
    /\ UNCHANGED <<pat, cached, disabled, tick>>

\* Mutant: the row is consumed without looking at its status again.
ConsumesAny(d) == TRUE
\* UPDATE ... SET status = consumed WHERE status = approved touched a row.
Consumes(d) == code[d].status = "approved"
\* The minting transaction.
MintToken(r) ==
    LET x == req[r] IN
    /\ x.op = "mint" /\ EndRequest(r)
    /\ IF Consumes(x.code)
       THEN \E t \in AccTokens :
              /\ pat[t] = NoPat
              /\ pat' = [pat EXCEPT ![t] = [user |-> x.user, until |-> tick + TokenLife,
                                            from |-> x.code, live |-> TRUE]]
              /\ code' = [code EXCEPT ![x.code].status = "consumed"]
       ELSE UNCHANGED <<code, pat>>
    /\ UNCHANGED <<cached, disabled, tick>>

\* oauthDeviceApproveHandler: finds the row, refuses an expired one ...
ApproveReads(r, d, u) ==
    /\ req[r].op = "idle" /\ code[d].status # "none" /\ u \notin disabled
    /\ IF Expired(code[d], tick) THEN MarkExpired(d) /\ UNCHANGED req
       ELSE /\ req' = [req EXCEPT ![r] = [NoReq EXCEPT !.op = "approve", !.code = d,
                                                       !.user = u]]
            /\ UNCHANGED code
    /\ UNCHANGED <<pat, cached, disabled, tick>>
Approves(d) == code[d].status = "pending"
\* ... and approves it if it is still pending (else 409).
ApproveWrites(r) ==
    LET x == req[r] IN
    /\ x.op = "approve" /\ EndRequest(r)
    /\ code' = IF Approves(x.code)
               THEN [code EXCEPT ![x.code].status = "approved", ![x.code].user = x.user]
               ELSE code
    /\ UNCHANGED <<pat, cached, disabled, tick>>
\* oauthDeviceDenyHandler: only the conditional UPDATE decides.
Deny(d) ==
    /\ code[d].status = "pending" /\ code' = [code EXCEPT ![d].status = "denied"]
    /\ UNCHANGED <<pat, cached, disabled, tick, req>>

-----------------------------------------------------------------------------
(* Tokens made and deleted by their owner, users disabled by an admin.       *)

\* patCreateHandler.
CreatePAT(t, u) ==
    /\ pat[t] = NoPat /\ u \notin disabled
    /\ pat' = [pat EXCEPT ![t] = [user |-> u, until |-> tick + TokenLife,
                                  from |-> Missing, live |-> TRUE]]
    /\ UNCHANGED <<code, cached, disabled, tick, req>>
\* patDeleteHandler; InvalidateByPATID follows the delete.
DeletePAT(t) ==
    /\ pat[t].live /\ pat' = [pat EXCEPT ![t].live = FALSE]
    /\ cached' = [cached EXCEPT ![t] = Missing]
    /\ UNCHANGED <<code, disabled, tick, req>>
\* "qatlasd pat mint" and "pat revoke": another process, which neither asks
\* whether the user is disabled nor knows the server's cache.
patMintCommand(t, u) ==
    /\ pat[t] = NoPat
    /\ pat' = [pat EXCEPT ![t] = [user |-> u, until |-> tick + TokenLife, from |-> Missing, live |-> TRUE]]
    /\ UNCHANGED <<code, cached, disabled, tick, req>>
patRevokeCommand(t) ==
    /\ pat[t].live /\ pat' = [pat EXCEPT ![t].live = FALSE]
    /\ UNCHANGED <<code, cached, disabled, tick, req>>
\* adminUpdateUserHandler.
SetDisabled(u, off) ==
    /\ disabled' = IF off THEN disabled \cup {u} ELSE disabled \ {u}
    /\ req' = [r \in Callers |-> IF ~off /\ req[r].pat # Missing /\ pat[req[r].pat].user = u
                                  THEN [req[r] EXCEPT !.barred = FALSE] ELSE req[r]]
    /\ UNCHANGED <<code, pat, cached, tick>>

-----------------------------------------------------------------------------
(* The guard: isAuthorized with pat.Lookup.                                  *)

\* Cache.Get.
CacheGet(t) == /\ cached[t] # Missing /\ tick - cached[t] < CacheLife
             /\ ~Expired(pat[t], tick)
RecordLives(t) == pat[t].live
\* A request arrives.  A hit still reads both records; otherwise the rows of
\* the prefix are loaded.
Authenticate(r, t) ==
    LET x == [NoReq EXCEPT !.pat = t, !.dead = ~pat[t].live \/ Expired(pat[t], tick),
                           !.barred = pat[t].user \in disabled]
    IN  /\ req[r].op = "idle" /\ pat[t] # NoPat
        /\ IF CacheGet(t) /\ RecordLives(t)
           THEN req' = [req EXCEPT ![r] = [x EXCEPT !.op = "owner"]] /\ UNCHANGED cached
           ELSE /\ cached' = [cached EXCEPT ![t] = Missing]
                /\ req' = [req EXCEPT ![r] = IF pat[t].live THEN [x EXCEPT !.op = "verify"]
                                             ELSE NoReq]
        /\ UNCHANGED <<code, pat, disabled, tick>>
\* bcrypt has matched: the expiry is looked at, the result cached.
BcryptMatched(r) ==
    LET t == req[r].pat IN
    /\ req[r].op = "verify"
    /\ IF Expired(pat[t], tick) THEN EndRequest(r) /\ UNCHANGED cached
       ELSE cached' = [cached EXCEPT ![t] = tick] /\ Step(r, "owner")
    /\ UNCHANGED <<code, pat, disabled, tick>>
\* The owner's record is read; a disabled owner's token is as good as unknown.
OwnerChecked(r) ==
    /\ req[r].op = "owner"
    /\ IF pat[req[r].pat].user \in disabled THEN EndRequest(r) ELSE Step(r, "accepted")
    /\ UNCHANGED <<code, pat, cached, disabled, tick>>
Served(r) ==
    /\ req[r].op = "accepted" /\ EndRequest(r)
    /\ UNCHANGED <<code, pat, cached, disabled, tick>>

\* A full cache drops any entry; a restart drops all, and the requests.
Evict(t) ==
    /\ cached[t] # Missing /\ cached' = [cached EXCEPT ![t] = Missing]
    /\ UNCHANGED <<code, pat, disabled, tick, req>>
AccRestart ==
    /\ cached' = [t \in AccTokens |-> Missing] /\ req' = [r \in Callers |-> NoReq]
    /\ UNCHANGED <<code, pat, disabled, tick>>
AccTick ==
    /\ tick < LastTick /\ tick' = tick + 1
    /\ UNCHANGED <<code, pat, cached, disabled, req>>

AccNext ==
    \/ \E d \in DevCodes : IssueCode(d) \/ Deny(d)
    \/ \E r \in Callers :
          \/ \E d \in DevCodes : Poll(r, d) \/ \E u \in AccUsers : ApproveReads(r, d, u)
          \/ PollDecides(r) \/ MintToken(r) \/ ApproveWrites(r)
          \/ \E t \in AccTokens : Authenticate(r, t)
          \/ BcryptMatched(r) \/ OwnerChecked(r) \/ Served(r)
    \/ \E t \in AccTokens : \/ DeletePAT(t) \/ patRevokeCommand(t) \/ Evict(t)
                            \/ \E u \in AccUsers : CreatePAT(t, u) \/ patMintCommand(t, u)
    \/ \E u \in AccUsers, off \in BOOLEAN : SetDisabled(u, off)
    \/ AccRestart \/ AccTick
AccSpec == AccInit /\ [][AccNext]_accVars

-----------------------------------------------------------------------------
(* Properties. *)

MintedFor(d) == {t \in AccTokens : pat[t].from = d}
\* One approval yields one token: a code is consumed exactly when a token was
\* minted for it, never two, and the token belongs to the user who approved,
\* whatever polls, approvals, denials and expiries run at the same time.
OneTokenPerCode ==
    \A d \in DevCodes :
        /\ Cardinality(MintedFor(d)) = IF code[d].status = "consumed" THEN 1 ELSE 0
        /\ \A t \in MintedFor(d) : pat[t].user = code[d].user /\ code[d].user # NoUser

\* A token that was deleted or had expired before a request came, or whose owner
\* is disabled since before it came, does not authenticate it, although a slow
\* verification may put its result in the cache after the deletion cleared it.
RevokedRefused ==
    \A r \in Callers : req[r].op = "accepted" => ~req[r].dead /\ ~req[r].barred

\* Tokens are minted once per approval and refused once they are revoked.
TokensSound == OneTokenPerCode /\ RevokedRefused
=============================================================================
