------------------------------ MODULE Accounts ------------------------------
(***************************************************************************)
(* Accounts (internal/auth, routes/admin_users.go, internal/userkeys): the   *)
(* OAuth sign-in hook, the roles seeded at boot and edited by administrators *)
(* and the search keys users deposit.  A sign-in is PocketBase's lookup, the *)
(* hook's checks, PocketBase's own linking or creation and the stamp of the  *)
(* provider login; several are in flight.  An account created by the hook is *)
(* named after the identity it was created for.                              *)
(***************************************************************************)
EXTENDS Integers, FiniteSets

CONSTANTS
    Idents,                  \* provider identities, which also name accounts
    ProviderOf, LoginOf, EmailOf,   \* "" is a login or an email that is not given
    AllowedLogins,           \* GitHub logins that may sign in
    SeedAdmins, SeedSupers,  \* the configured roles: <<provider, login>>
    Visits, Edits,           \* sign-ins and administrators' edits in flight
    Binds,                   \* <<identity, account>>: bindings users ask for in the dashboard
    Depositors, KeyValues,   \* users who deposit search API keys, and the keys
    NoOne

ASSUME AccountsConfig ==
    /\ ProviderOf \in [Idents -> {"github", "gitea"}] /\ NoOne \notin Idents
    /\ Depositors \subseteq Idents /\ Binds \subseteq Idents \X Idents
    /\ DOMAIN LoginOf = Idents /\ DOMAIN EmailOf = Idents /\ IsFiniteSet(Idents)

VARIABLES
    account,    \* the users records
    linked,     \* the account each identity signs in to (externalAuths)
    offered,    \* identities whose conflict was answered within the last minutes
    visit,      \* the sign-ins
    edit,       \* the edits
    secret,     \* which server secret keys are encrypted under
    deposit     \* each user's search key and the secret it was encrypted under

userVars == <<account, linked, offered, visit, edit, secret, deposit>>

NoAccount == [live |-> FALSE, email |-> "", github |-> "", gitea |-> "",
              admin |-> FALSE, super |-> FALSE, disabled |-> FALSE]
NoVisit == [at |-> "idle", who |-> NoOne, record |-> NoOne, told |-> FALSE]
NoEdit == [at |-> "idle", caller |-> NoOne, target |-> NoOne, field |-> "disabled", to |-> FALSE]
Living == {u \in Idents : account[u].live}

UsersTypeOK ==
    /\ \A u \in Idents : account[u].live \in BOOLEAN /\ account[u].admin \in BOOLEAN
    /\ linked \in [Idents -> Idents \cup {NoOne}] /\ offered \subseteq Idents
    /\ \A v \in Visits : visit[v].at \in {"idle", "matched", "gated", "answered", "synced", "stamping"}
    /\ secret \in 1 .. 2

UsersInit ==
    /\ account = [u \in Idents |-> NoAccount] /\ linked = [i \in Idents |-> NoOne] /\ offered = {}
    /\ visit = [v \in Visits |-> NoVisit] /\ edit = [e \in Edits |-> NoEdit]
    /\ secret = 1 /\ deposit = [u \in Idents |-> [value |-> NoOne, under |-> 0]]

-----------------------------------------------------------------------------
(* The configured lists.                                                     *)

loginListed(list, provider, login) == login # "" /\ <<provider, login>> \in list
IsGitHubLoginAllowed(login) == login \in AllowedLogins \ {""} \/ loginListed(SeedAdmins, "github", login)
\* Gitea accounts are not gated.
enforceLoginAllowlist(i) == ProviderOf[i] = "gitea" \/ IsGitHubLoginAllowed(LoginOf[i])

-----------------------------------------------------------------------------
(* Signing in.                                                               *)

Visit(v, at) == visit' = [visit EXCEPT ![v].at = at]
\* PocketBase: the linked account, else one of the same email, else none; a
\* signed-in user who binds a provider brings the account along.
Match(v, i, bind) ==
    LET sameMail == {u \in Living : account[u].email # "" /\ account[u].email = EmailOf[i]}
        found == IF linked[i] # NoOne THEN {linked[i]}
                 ELSE IF bind # NoOne THEN {bind}
                 ELSE IF sameMail # {} THEN sameMail ELSE {NoOne}
    IN  /\ visit[v].at = "idle" /\ (bind # NoOne => account[bind].live)
        /\ \E u \in found : visit' = [visit EXCEPT ![v] =
               [at |-> IF bind # NoOne /\ u = bind THEN "gated" ELSE "matched", who |-> i, record |-> u, told |-> FALSE]]
        /\ UNCHANGED <<account, linked, offered, edit, secret, deposit>>
rejectDisabledUser(u) == u # NoOne /\ account[u].disabled
\* The two refusals come first: 403, nothing is written.
Refuse(v) ==
    /\ visit[v].at \in {"matched", "gated"}
    /\ ~enforceLoginAllowlist(visit[v].who) \/ rejectDisabledUser(visit[v].record)
    /\ visit' = [visit EXCEPT ![v] = NoVisit]
    /\ UNCHANGED <<account, linked, offered, edit, secret, deposit>>

findLoginMatches(login) == {u \in Living : login # "" /\ login \in {account[u].github, account[u].gitea}}
\* checkOAuthConflicts: an identity not linked yet whose email or login belongs
\* to an account is answered 409; a login may be tried again.
Clash(i, record) ==
    IF linked[i] # NoOne THEN "none"
    ELSE IF record # NoOne THEN "email"
    ELSE IF findLoginMatches(LoginOf[i]) # {} /\ i \notin offered THEN "username" ELSE "none"
\* The answer is written, the function returns nil, and the hook goes on.
checkOAuthConflicts(v) ==
    LET x == visit[v]
        kind == Clash(x.who, x.record)
    IN  /\ x.at \in {"matched", "gated"} /\ enforceLoginAllowlist(x.who) /\ ~rejectDisabledUser(x.record)
        /\ offered' = IF x.at = "matched" /\ kind = "username" THEN offered \cup {x.who} ELSE offered
        /\ visit' = [visit EXCEPT ![v].at = "answered", ![v].told = x.at = "matched" /\ kind # "none"]
        /\ UNCHANGED <<account, linked, edit, secret, deposit>>
\* conflictAckTTL.
AckExpires(i) ==
    /\ i \in offered /\ offered' = offered \ {i}
    /\ UNCHANGED <<account, linked, visit, edit, secret, deposit>>

\* No account found: the one named after the identity, if it exists.
syncStableUserID(v) ==
    LET x == visit[v]
    IN  /\ x.at = "answered"
        /\ visit' = [visit EXCEPT ![v].at = "synced",
                         ![v].record = IF x.record = NoOne /\ account[x.who].live THEN x.who ELSE x.record]
        /\ UNCHANGED <<account, linked, offered, edit, secret, deposit>>
\* The unique email of the users collection.
EmailTaken(i) == \E w \in Living : EmailOf[i] # "" /\ account[w].email = EmailOf[i]
\* PocketBase (e.Next) links the account, or creates the one named after the
\* identity; a name, an email or a link that exists makes the transaction fail.
LinkOrCreate(v) ==
    LET x == visit[v]
        i == x.who
        u == IF x.record = NoOne THEN i ELSE x.record
        taken == \/ linked[i] \notin {NoOne, u}
                 \/ x.record = NoOne /\ (account[i].live \/ EmailTaken(i))
    IN  /\ x.at = "synced"
        /\ IF taken THEN visit' = [visit EXCEPT ![v] = NoVisit] /\ UNCHANGED <<account, linked>>
           ELSE /\ linked' = [linked EXCEPT ![i] = u]
                /\ account' = IF x.record # NoOne THEN account
                              ELSE [account EXCEPT ![i] = [NoAccount EXCEPT !.live = TRUE, !.email = EmailOf[i]]]
                /\ visit' = [visit EXCEPT ![v].at = "stamping", ![v].record = u]
        /\ UNCHANGED <<offered, edit, secret, deposit>>
\* stampGitHubLogin, stampGiteaLogin: only the provider's own field.
stampLoginOnRecord(v) ==
    LET x == visit[v]
        login == LoginOf[x.who]
    IN  /\ x.at = "stamping" /\ visit' = [visit EXCEPT ![v] = NoVisit]
        /\ account' = IF login = "" THEN account
                      ELSE IF ProviderOf[x.who] = "github" THEN [account EXCEPT ![x.record].github = login]
                      ELSE [account EXCEPT ![x.record].gitea = login]
        /\ UNCHANGED <<linked, offered, edit, secret, deposit>>
\* The dashboard's unlinking is PocketBase's.
Unlink(i) ==
    /\ linked[i] # NoOne /\ linked' = [linked EXCEPT ![i] = NoOne]
    /\ UNCHANGED <<account, offered, visit, edit, secret, deposit>>

-----------------------------------------------------------------------------
(* Roles.                                                                    *)

Seeded(u, list) == loginListed(list, "github", account[u].github) \/ loginListed(list, "gitea", account[u].gitea)
\* promoteRoleFlags only ever sets a flag; requests in flight and offers are gone.
Boot ==
    /\ account' = [u \in Idents |->
           IF ~account[u].live THEN account[u]
           ELSE [account[u] EXCEPT !.admin = @ \/ Seeded(u, SeedAdmins), !.super = @ \/ Seeded(u, SeedSupers)]]
    /\ offered' = {} /\ visit' = [v \in Visits |-> NoVisit] /\ edit' = [e \in Edits |-> NoEdit]
    /\ UNCHANGED <<linked, secret, deposit>>
isAdminCaller(u) == account[u].admin \/ account[u].super
isSuperadminCaller(u) == account[u].super
\* Mutant: administrators edit their own flags too.
MayEditAnyone(c, t, field, to) ==
    (field = "admin" \/ (field = "disabled" /\ to /\ account[t].super)) => isSuperadminCaller(c)
\* Nobody edits their own flags; only a superadmin makes an administrator or
\* disables a superadmin.
MayEdit(c, t, field, to) ==
    /\ t # c
    /\ field = "admin" => isSuperadminCaller(c)
    /\ field = "disabled" /\ to => isSuperadminCaller(c) \/ ~account[t].super
\* userAdminGuard and adminUpdateUserHandler up to the checks ...
EditReads(e, c, t, field, to) ==
    /\ edit[e].at = "idle" /\ account[c].live /\ ~account[c].disabled /\ isAdminCaller(c) /\ account[t].live
    /\ MayEdit(c, t, field, to)
    /\ edit' = [edit EXCEPT ![e] = [at |-> "saving", caller |-> c, target |-> t, field |-> field, to |-> to]]
    /\ UNCHANGED <<account, linked, offered, visit, secret, deposit>>
\* ... and its Save, which writes the field that changed.
EditSaves(e) ==
    LET x == edit[e]
    IN  /\ x.at = "saving" /\ edit' = [edit EXCEPT ![e] = NoEdit]
        /\ account' = IF x.field = "admin" THEN [account EXCEPT ![x.target].admin = x.to]
                      ELSE [account EXCEPT ![x.target].disabled = x.to]
        /\ UNCHANGED <<linked, offered, visit, secret, deposit>>

-----------------------------------------------------------------------------
(* Search keys, encrypted with a key derived from the server's secret.       *)

SetKey(u, value) ==
    /\ account[u].live /\ ~account[u].disabled
    /\ deposit' = [deposit EXCEPT ![u] = [value |-> value, under |-> secret]]
    /\ UNCHANGED <<account, linked, offered, visit, edit, secret>>
DeleteKey(u) ==
    /\ deposit[u].value # NoOne /\ deposit' = [deposit EXCEPT ![u] = [value |-> NoOne, under |-> 0]]
    /\ UNCHANGED <<account, linked, offered, visit, edit, secret>>
NewSecret ==
    /\ secret < 2 /\ secret' = secret + 1
    /\ UNCHANGED <<account, linked, offered, visit, edit, deposit>>
\* What cannot be decrypted is skipped, though ListMeta still lists it.
GetKeys(u) == IF deposit[u].under = secret THEN {deposit[u].value} ELSE {}
ListMeta(u) == IF deposit[u].value = NoOne THEN "absent" ELSE IF GetKeys(u) = {} THEN "stale" ELSE "usable"

UsersNext ==
    \/ Boot \/ NewSecret
    \/ \E v \in Visits :
          \/ Refuse(v) \/ checkOAuthConflicts(v) \/ syncStableUserID(v) \/ LinkOrCreate(v) \/ stampLoginOnRecord(v)
          \/ \E i \in Idents : Match(v, i, NoOne)
          \/ \E b \in Binds : Match(v, b[1], b[2])
    \/ \E i \in Idents : AckExpires(i) \/ Unlink(i) \/ DeleteKey(i)
    \/ \E e \in Edits : \/ EditSaves(e)
                        \/ \E c, t \in Idents, field \in {"admin", "disabled"}, to \in BOOLEAN :
                              EditReads(e, c, t, field, to)
    \/ \E u \in Depositors, value \in KeyValues : SetKey(u, value)

UsersSpec == UsersInit /\ [][UsersNext]_userVars

-----------------------------------------------------------------------------
(* Properties.                                                               *)

Supers == {u \in Living : account[u].super}
\* However sign-ins, edits, deposits and restarts interleave: an identity always leads to an account
\* that exists, an email belongs to one account, a key listed as usable is one
\* that was deposited, and a sole superadmin is never locked out by an edit.
AccountsSound ==
    /\ [](/\ \A i \in Idents : linked[i] # NoOne => account[linked[i]].live
          /\ \A u, w \in Living : u # w /\ account[u].email # "" => account[u].email # account[w].email
          /\ \A u \in Idents : ListMeta(u) = "usable" => GetKeys(u) \subseteq KeyValues)
    /\ [][\A u \in Supers : ~account[u].disabled /\ account'[u].disabled => Cardinality(Supers) > 1]_userVars

\* "same-email cross-provider signins must be an explicit choice, not a silent
\* auto-link" and a login conflict interrupts once: a sign-in that was answered
\* 409 writes neither a link nor an account.
ConflictInterrupts ==
    [][\A v \in Visits : visit[v].told /\ visit'[v] \notin {visit[v], NoVisit}
                         => account' = account /\ linked' = linked]_userVars
=============================================================================
