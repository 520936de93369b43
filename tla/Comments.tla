------------------------------ MODULE Comments ------------------------------
(***************************************************************************)
(* Block comments: internal/comments and routes/comments.go.  A comment is a *)
(* discussion or a reply to one.  Every write is one PostgreSQL transaction  *)
(* whose now() is the time it began and whose effect shows when it commits;  *)
(* FOR UPDATE makes what lies between the read and the commit one step.      *)
(* A client keeps one call in flight; a reader follows a paper's list by     *)
(* pages and by its since cursor.                                            *)
(***************************************************************************)
EXTENDS Integers, Sequences, FiniteSets

CONSTANTS
    Clients, Users, UserOf,    \* several clients may act for one user
    Writers,                   \* not the system PAT, and comments:write held
    CommentAdmins,
    Keys, Bodies,              \* Idempotency-Key values, request bodies
    Statuses,                  \* of pending, confirmed, retracted
    CacheSize,                 \* entries of the replay cache (1024)
    PageSize,                  \* per_page
    MaxComments, MaxTime,      \* bounds: ids, clock ticks,
    MaxChanges,                \* and status changes and edits
    TicksPerMilli,             \* storage timestamps are finer than cursors
    NoKey

ASSUME CommentsConfig ==
    /\ UserOf \in [Clients -> Users] /\ CommentAdmins \subseteq Users
    /\ Writers \subseteq Clients
    /\ Statuses \subseteq {"pending", "confirmed", "retracted"}
    /\ NoKey \notin Keys
    /\ {CacheSize, PageSize, TicksPerMilli, MaxTime} \subseteq Nat \ {0}
    /\ {MaxComments, MaxChanges} \subseteq Nat

VARIABLES
    comment,   \* rows, by id; on: 0 for a discussion, else its discussion
    minted,    \* ids handed out (monotonic ULIDs)
    time,
    write,     \* the write handler of a client
    replay,    \* Idempotency.cache
    order,     \* Idempotency.order
    trail,     \* comment_status_events
    edits,     \* comment_body_revisions: read, what the editor had read
    follower   \* the reader

comVars == <<comment, minted, time, write, replay, order, trail, edits, follower>>
rowVars == <<comment, minted, trail, edits>>

CommentIds == 1 .. MaxComments
States     == Statuses \cup {"none"}
Absent     == [on |-> -1, by |-> 0, at |-> 0, rev |-> 0, status |-> "none"]
NoWrite    == [op |-> "idle", id |-> 0, mine |-> 0, at |-> 0, rev |-> 0, key |-> NoKey,
               body |-> 0, status |-> "none"]
NoSince    == <<0, 0>>
Stored(i)  == comment[i].on >= 0
Discussion(i) == comment[i].on = 0

ComTypeOK ==
    /\ \A i \in CommentIds : comment[i] = Absent \/
          comment[i] \in [on : 0 .. MaxComments, by : Users, at : 1 .. MaxTime,
                          rev : Nat \ {0}, status : States]
    /\ minted \in 0 .. MaxComments /\ time \in 1 .. MaxTime
    /\ \A c \in Clients : write[c] = NoWrite \/
          write[c].op \in {"lookup", "begin", "create", "remember", "status", "edit", "editing"}
    /\ DOMAIN replay \subseteq Keys /\ order \in Seq(Keys)
    /\ follower.cursor \in 0 .. MaxComments

ComInit ==
    /\ comment = [i \in CommentIds |-> Absent] /\ minted = 0 /\ time = 1
    /\ write = [c \in Clients |-> NoWrite]
    /\ replay = <<>> /\ order = <<>> /\ trail = <<>> /\ edits = <<>>
    /\ follower = [cursor |-> 0, since |-> NoSince, seen |-> {}, owed |-> {}]

-----------------------------------------------------------------------------
(* POST: a discussion (on = 0) or a reply.                                   *)

commentWriteGuard(c) == c \in Writers
commentCallerIsAdmin(c) == UserOf[c] \in CommentAdmins

Posts(c, on, body, key, status) ==
    /\ commentWriteGuard(c) /\ write[c].op = "idle" /\ minted < MaxComments
    /\ write' = [write EXCEPT ![c] = [NoWrite EXCEPT !.op = "lookup", !.id = on, !.body = body,
                                                !.key = key, !.status = status]]
    /\ UNCHANGED <<rowVars, time, replay, order, follower>>
\* The handlers as far as their lookup of the key.  checkBodyLimit is no guard:
\* its 413 is written and nil returned, and both handlers go on.
createDiscussion(c, body, key, status) == Posts(c, 0, body, key, status)
createReply(c, on, body, key) == Posts(c, on, body, key, "none")

\* RequestHash: method, path and body.
Hash(x) == <<x.id, x.body, x.status>>
\* Idempotency.Result: a replay, a mismatch (409), or a miss.
Lookup(c) ==
    LET x == write[c] IN
    /\ x.op = "lookup"
    /\ write' = [write EXCEPT ![c] = IF x.key # NoKey /\ x.key \in DOMAIN replay THEN NoWrite
                                   ELSE [x EXCEPT !.op = "begin"]]
    /\ UNCHANGED <<rowVars, time, replay, order, follower>>
\* The transaction begins and mints the id; a discussion's anchor may be missing.
Begin(c) ==
    /\ write[c].op = "begin" /\ minted < MaxComments
    /\ \/ write[c].id = 0 /\ write' = [write EXCEPT ![c] = NoWrite] /\ UNCHANGED minted
       \/ /\ write' = [write EXCEPT ![c] = [@ EXCEPT !.op = "create", !.at = time,
                                                       !.mine = minted + 1]]
          /\ minted' = minted + 1
    /\ UNCHANGED <<comment, trail, edits, time, replay, order, follower>>

Inserts(c) ==
    LET x == write[c] IN
    /\ comment' = [comment EXCEPT ![x.mine] =
          [on |-> x.id, by |-> UserOf[c], at |-> x.at, rev |-> 1, status |-> x.status]]
    /\ write' = [write EXCEPT ![c] = IF x.key = NoKey THEN NoWrite
                                   ELSE [x EXCEPT !.op = "remember"]]
\* The row and the event of its first status.
CreateDiscussion(c) ==
    LET x == write[c] IN
    /\ x.op = "create" /\ x.id = 0 /\ Inserts(c)
    /\ trail' = IF x.status = "none" THEN trail
                ELSE Append(trail, [id |-> x.mine, from |-> "none", to |-> x.status])
    /\ UNCHANGED <<minted, edits, time, replay, order, follower>>
\* INSERT ... SELECT from the discussion's row, which must be there.
CreateReply(c) ==
    LET x == write[c] IN
    /\ x.op = "create" /\ x.id # 0
    /\ IF Discussion(x.id) THEN Inserts(c)
       ELSE write' = [write EXCEPT ![c] = NoWrite] /\ UNCHANGED comment
    /\ UNCHANGED <<minted, trail, edits, time, replay, order, follower>>
\* PostgreSQL fails a write: the transaction is rolled back.
commentStoreError(c) ==
    /\ write[c].op \in {"create", "status", "editing"}
    /\ write' = [write EXCEPT ![c] = NoWrite]
    /\ UNCHANGED <<rowVars, time, replay, order, follower>>

Put(f, k, v) == [j \in DOMAIN f \cup {k} |-> IF j = k THEN v ELSE f[j]]
Without(f, S) == [j \in DOMAIN f \ S |-> f[j]]
\* The eviction order with k remembered.
Ordered(k) == IF k \in DOMAIN replay THEN order ELSE Append(order, k)
\* Idempotency.Remember: the oldest key makes room.
Remember(c) ==
    LET k == write[c].key
        o == Ordered(k)
        full == Len(o) > CacheSize
    IN  /\ write[c].op = "remember"
        /\ order' = IF full THEN Tail(o) ELSE o
        /\ replay' = Put(IF full THEN Without(replay, {Head(o)}) ELSE replay, k,
                         Hash(write[c]))
        /\ write' = [write EXCEPT ![c] = NoWrite]
        /\ UNCHANGED <<rowVars, time, follower>>

-----------------------------------------------------------------------------
(* PATCH status and body.                                                    *)

\* setStatus reads the discussion for its author, then begins the transaction.
setStatus(c, i, to) ==
    /\ commentWriteGuard(c) /\ write[c].op = "idle" /\ Discussion(i) /\ Len(trail) < MaxChanges
    /\ comment[i].by = UserOf[c] \/ commentCallerIsAdmin(c)
    /\ write' = [write EXCEPT ![c] = [NoWrite EXCEPT !.op = "status", !.id = i, !.at = time,
                                                !.status = to]]
    /\ UNCHANGED <<rowVars, time, replay, order, follower>>
\* SELECT status FOR UPDATE.
FromStatus(c) == comment[write[c].id].status
SetStatus(c) ==
    LET x == write[c] IN
    /\ x.op = "status"
    /\ trail' = Append(trail, [id |-> x.id, from |-> FromStatus(c), to |-> x.status])
    /\ comment' = [comment EXCEPT ![x.id] = [@ EXCEPT !.status = x.status, !.at = x.at]]
    /\ write' = [write EXCEPT ![c] = NoWrite]
    /\ UNCHANGED <<minted, time, replay, order, edits, follower>>

\* ListReplies: a discussion's replies after the cursor, oldest first.
ListReplies(d, after) ==
    LET m == {r \in CommentIds : Stored(r) /\ comment[r].on = d /\ r > after}
    IN  {r \in m : Cardinality({q \in m : q < r}) < PageSize}
\* A client reads a discussion and a page of its replies, and keeps the
\* revision of one of them (its ETag) for an edit.
getDiscussion(c, d, i) ==
    /\ write[c].op = "idle" /\ Len(edits) < MaxChanges /\ Discussion(d)
    /\ i = d \/ \E after \in 0 .. MaxComments : i \in ListReplies(d, after)
    /\ write' = [write EXCEPT ![c] = [NoWrite EXCEPT !.op = "edit", !.id = i,
                                                !.rev = comment[i].rev]]
    /\ UNCHANGED <<rowVars, time, replay, order, follower>>
\* The author alone may edit, under If-Match; anyone else is refused (403).
Edits(c) ==
    /\ write' = [write EXCEPT ![c] = IF commentWriteGuard(c) /\ comment[write[c].id].by = UserOf[c]
                                   THEN [write[c] EXCEPT !.op = "editing", !.at = time]
                                   ELSE NoWrite]
    /\ UNCHANGED <<rowVars, time, replay, order, follower>>
editDiscussionBody(c) == write[c].op = "edit" /\ Discussion(write[c].id) /\ Edits(c)
editReplyBody(c)      == write[c].op = "edit" /\ ~Discussion(write[c].id) /\ Edits(c)
\* Mutant: no compare-and-set.
CurrentAny(c) == TRUE
\* revision = expectedRevision, under the row lock; else 409.
Current(c) == comment[write[c].id].rev = write[c].rev
Revises(c) ==
    LET x == write[c] IN
    /\ write' = [write EXCEPT ![c] = NoWrite]
    /\ IF Current(c)
       THEN /\ edits' = Append(edits, [id |-> x.id, read |-> x.rev,
                                       old |-> comment[x.id].rev])
            /\ comment' = [comment EXCEPT ![x.id] = [@ EXCEPT !.rev = comment[x.id].rev + 1,
                                                          !.at = x.at]]
       ELSE UNCHANGED <<edits, comment>>
    /\ UNCHANGED <<minted, time, replay, order, trail, follower>>
UpdateDiscussionBody(c) == write[c].op = "editing" /\ Discussion(write[c].id) /\ Revises(c)
UpdateReplyBody(c)      == write[c].op = "editing" /\ ~Discussion(write[c].id) /\ Revises(c)

\* What revisions shows of a discussion: the edits of it and of its replies,
\* and its status events, ORDER BY revision_id and event_id; the ids are the
\* places in the logs.
History(d) ==
    [revs   |-> {n \in DOMAIN edits : LET i == edits[n].id IN i = d \/ comment[i].on = d},
     events |-> {n \in DOMAIN trail : trail[n].id = d}]

-----------------------------------------------------------------------------
(* GET the paper's list.                                                     *)

Milli(t) == t \div TicksPerMilli
\* sinceAfter, and the row comparison of ListDiscussions.
After(i, s) == \/ Milli(comment[i].at) > s[1]
               \/ Milli(comment[i].at) = s[1] /\ i > s[2]
Version(i) == <<i, comment[i].at, comment[i].rev, comment[i].status>>
\* ListDiscussions: newest ids first, LIMIT PageSize.
Matching(cursor, since) ==
    {i \in CommentIds : /\ Discussion(i)
                        /\ cursor = 0 \/ i < cursor
                        /\ since = NoSince \/ After(i, since)}
Page(cursor, since) ==
    LET m == Matching(cursor, since)
    IN  {i \in m : Cardinality({j \in m : j > i}) < PageSize}
NextCursor(items) == CHOOSE i \in items : \A j \in items : i <= j
\* The newest item of the last page, in the cursor's precision.
Advanced(items, since) ==
    IF items = {} THEN since
    ELSE LET top == CHOOSE i \in items : \A j \in items :
                        \/ comment[j].at < comment[i].at
                        \/ comment[j].at = comment[i].at /\ j <= i
         IN  <<Milli(comment[top].at), top>>
ListDiscussions ==
    LET items == Page(follower.cursor, follower.since)
        last  == Cardinality(items) < PageSize
        owed  == IF follower.cursor # 0 THEN follower.owed
                 ELSE IF follower.since = NoSince THEN Matching(0, NoSince) ELSE {}
    IN  /\ follower' = [cursor |-> IF last THEN 0 ELSE NextCursor(items),
                    since  |-> IF last THEN Advanced(items, follower.since) ELSE follower.since,
                    seen   |-> follower.seen \cup {Version(i) : i \in items},
                    owed   |-> owed]
        /\ UNCHANGED <<rowVars, time, write, replay, order>>

Clock ==
    /\ time < MaxTime /\ time' = time + 1
    /\ UNCHANGED <<rowVars, write, replay, order, follower>>
\* The cache and the calls live in the process.
ComRestart ==
    /\ replay' = <<>> /\ order' = <<>> /\ write' = [c \in Clients |-> NoWrite]
    /\ UNCHANGED <<rowVars, time, follower>>

ComNext ==
    \/ \E c \in Clients :
          \/ \E b \in Bodies, k \in Keys \cup {NoKey} :
                \/ \E s \in States : createDiscussion(c, b, k, s)
                \/ \E on \in 1 .. minted : createReply(c, on, b, k)
          \/ Lookup(c) \/ Begin(c) \/ CreateDiscussion(c) \/ CreateReply(c) \/ Remember(c)
          \/ \E i \in CommentIds, s \in Statuses : setStatus(c, i, s)
          \/ SetStatus(c) \/ commentStoreError(c)
          \/ \E d, i \in CommentIds : getDiscussion(c, d, i)
          \/ editDiscussionBody(c) \/ editReplyBody(c)
          \/ UpdateDiscussionBody(c) \/ UpdateReplyBody(c)
    \/ ListDiscussions \/ Clock \/ ComRestart
ComSpec == ComInit /\ [][ComNext]_comVars

-----------------------------------------------------------------------------
(* Properties. *)

\* The status a run of events leaves behind, and a shown comment's edits.
LatestId(ids)    == CHOOSE n \in ids : \A m \in ids : m <= n
Left(log, ids) == IF ids = {} THEN "none" ELSE log[LatestId(ids)].to
EditsOf(h, i)  == {n \in h.revs : edits[n].id = i}
UpTo(ids, n)   == {m \in ids : m <= n}
\* The history a discussion shows accounts for it as it is: its status events
\* lead from no status to the current one without a gap, the body revisions of
\* it and of each reply number their edits, and each edit replaced the very
\* text its editor had read, however many clients write at once.
HistoryFaithful ==
    \A d \in {j \in CommentIds : Discussion(j)} :
        LET h == History(d)
        IN  /\ \A n \in h.events : trail[n].from = Left(trail, {m \in h.events : m < n})
            /\ comment[d].status = Left(trail, h.events)
            /\ \A i \in {j \in CommentIds : j = d \/ comment[j].on = d} :
                  LET ed == EditsOf(h, i)
                  IN  /\ comment[i].rev = Cardinality(ed) + 1
                      /\ \A n \in ed : /\ edits[n].read = edits[n].old
                                       /\ edits[n].old = Cardinality(UpTo(ed, n))
\* A full listing that has reached its last page has shown every discussion that
\* existed when it began, whatever was created or edited between its pages.
PagesComplete ==
    follower.cursor = 0 => follower.owed \subseteq {v[1] : v \in follower.seen}
\* What readers are shown is what is there: the history of a discussion, and the
\* pages of a paper's list.
CommentsShown == HistoryFaithful /\ PagesComplete
=============================================================================
