-------------------------- MODULE BrowserIdentity --------------------------
(***************************************************************************)
(* Browser sign-in and sessions of one external identity: single-use login *)
(* attempts, the callback that turns one into a session, resolving and     *)
(* revoking a session, and the operator's scripts that link the identity   *)
(* to another member or disable it.                                        *)
(*                                                                         *)
(* Each database function is one statement, hence one action, except where *)
(* its snapshot and its commit can be told apart: create_browser_session   *)
(* reads the link before its row is visible, and a script revokes the      *)
(* sessions it sees before it commits.  Tokens, cookies and PKCE material  *)
(* are not modelled: a session is named by the callback that made it.      *)
(***************************************************************************)
EXTENDS Naturals, FiniteSets

CONSTANTS
    Attempts,       \* login attempts
    Callbacks,      \* callback requests, each perhaps a repeated one
    Requests,       \* requests that carry a session cookie
    Members,        \* workspace users the identity may be linked to
    LoginLife,      \* five minutes
    Retention,      \* one hour
    IdleLife,       \* IDLE_SECONDS
    SessionLife,    \* SESSION_SECONDS
    MaxTime,        \* bound: the clock
    MaxLinks        \* bound: commits of the operator's scripts

ASSUME IdentityAssumption ==
    /\ "none" \notin Attempts /\ "idle" \notin Callbacks
    /\ LoginLife \in Nat \ {0} /\ Retention \in Nat
    /\ IdleLife \in Nat \ {0} /\ SessionLife \in Nat
    /\ IdleLife < SessionLife /\ LoginLife <= SessionLife
    /\ MaxTime \in Nat /\ MaxLinks \in Nat

VARIABLES
    now,            \* the clock of the server and the database
    attempt,        \* oidc_login_attempts
    callback,       \* callback[c]: what the callback request is doing
    session,        \* browser_sessions, by the callback that made the row
    identity,       \* external_identities: its user, and the link's number
    script,         \* the link or disable script's open transaction
    request         \* request[r]: the actor it has resolved

vars == <<now, attempt, callback, session, identity, script, request>>

Links == 0..MaxLinks
Times == 0..(MaxTime + SessionLife)

AttemptRows == [status: {"none", "open", "consumed", "deleted"}, expires: Times]

CallbackStates ==
    [pc: {"idle", "exchanging", "creating", "auditing", "done"},
     attempt: Attempts \cup {"none"}, link: Links, started: Times]

SessionRows ==
    [status: {"none", "live", "revoked"},
     reason: {"none", "user_logout", "identity_relinked", "identity_deprovisioned"},
     attempt: Attempts \cup {"none"}, link: Links, overtaken: BOOLEAN, held: BOOLEAN,
     created: Times, seen: Times, idle: Times, expires: Times]

IdentityRows == [user: Members, active: BOOLEAN, link: Links]

Scripts == [pc: {"idle", "updated", "revoked"}, kind: {"link", "disable"},
            user: Members, locked: SUBSET Callbacks]

Idle == [pc |-> "idle", attempt |-> "none", link |-> 0, started |-> 0]

NoSession ==
    [status |-> "none", reason |-> "none", attempt |-> "none", link |-> 0,
     overtaken |-> FALSE, held |-> FALSE, created |-> 0, seen |-> 0, idle |-> 0,
     expires |-> 0]

TypeOK ==
    /\ now \in 0..MaxTime
    /\ attempt \in [Attempts -> AttemptRows]
    /\ callback \in [Callbacks -> CallbackStates]
    /\ session \in [Callbacks -> SessionRows]
    /\ identity \in IdentityRows
    /\ script \in Scripts
    /\ request \in [Requests -> Callbacks \cup {"idle"}]

Init ==
    /\ now = 0
    /\ attempt = [a \in Attempts |-> [status |-> "none", expires |-> 0]]
    /\ callback = [c \in Callbacks |-> Idle]
    /\ session = [c \in Callbacks |-> NoSession]
    /\ \E u \in Members :
        /\ identity = [user |-> u, active |-> TRUE, link |-> 0]
        /\ script = [pc |-> "idle", kind |-> "link", user |-> u, locked |-> {}]
    /\ request = [r \in Requests |-> "idle"]

-----------------------------------------------------------------------------
(* Signing in *)

Expired(row) == row.status # "none" /\ now > row.expires + Retention

\* begin_oidc_login_attempt: old and consumed attempts are deleted on the way.
beginLoginAttempt(a) ==
    /\ attempt[a].status = "none"
    /\ attempt' = [b \in Attempts |->
        IF b = a THEN [status |-> "open", expires |-> now + LoginLife]
        ELSE IF attempt[b].status = "consumed" \/ Expired(attempt[b])
        THEN [attempt[b] EXCEPT !.status = "deleted"] ELSE attempt[b]]
    /\ UNCHANGED <<now, callback, session, identity, script, request>>

\* Mutant: the attempt is looked up without consumed_at IS NULL.
ConsumableAgain(a) == attempt[a].status \in {"open", "consumed"} /\ now < attempt[a].expires

Consumable(a) == attempt[a].status = "open" /\ now < attempt[a].expires

\* The callback of an attempt that is not consumable fails and changes nothing.
consumeLoginAttempt(c, a) ==
    /\ callback[c].pc = "idle"
    /\ Consumable(a)
    /\ attempt' = [attempt EXCEPT ![a].status = "consumed"]
    /\ callback' = [callback EXCEPT ![c].pc = "exchanging", ![c].attempt = a]
    /\ UNCHANGED <<now, session, identity, script, request>>

\* The exchange times out, the token does not verify, or no member is linked:
\* the attempt is spent.
CallbackFails(c) ==
    /\ callback[c].pc = "exchanging"
    /\ callback' = [callback EXCEPT ![c].pc = "done"]
    /\ UNCHANGED <<now, attempt, session, identity, script, request>>

\* The token is verified and create_browser_session takes its snapshot.
SnapshotLink(c) ==
    /\ callback[c].pc = "exchanging"
    /\ identity.active
    /\ callback' = [callback EXCEPT ![c].pc = "creating", ![c].link = identity.link,
                                    ![c].started = now]
    /\ UNCHANGED <<now, attempt, session, identity, script, request>>

\* A link script rewrites user_id, a key column: the insert's foreign key waits
\* for its commit, and is content with the row it finds then.
LinkOpen == script.pc # "idle" /\ script.kind = "link"

createBrowserSession(c) ==
    /\ callback[c].pc = "creating"
    /\ ~LinkOpen
    /\ session' = [session EXCEPT ![c] =
        [NoSession EXCEPT
            !.status = "live", !.attempt = callback[c].attempt, !.link = callback[c].link,
            !.overtaken = callback[c].link # identity.link \/ script.pc = "revoked",
            !.created = callback[c].started, !.seen = callback[c].started,
            !.idle = callback[c].started + IdleLife,
            !.expires = callback[c].started + SessionLife]]
    /\ callback' = [callback EXCEPT ![c].pc = "auditing"]
    /\ UNCHANGED <<now, attempt, identity, script, request>>

\* The browser gets the cookie when the sign-in has been audited; a failure to
\* audit answers with an error and leaves a session nobody holds.
AuditLogin(c) ==
    /\ callback[c].pc = "auditing"
    /\ \E held \in BOOLEAN : session' = [session EXCEPT ![c].held = held]
    /\ callback' = [callback EXCEPT ![c].pc = "done"]
    /\ UNCHANGED <<now, attempt, identity, script, request>>

-----------------------------------------------------------------------------
(* Using a session *)

RowFree(c) == c \notin script.locked

\* Mutant: only the absolute expiry is checked.
YoungEnough(c) == now < session[c].expires

Unexpired(c) == now < session[c].expires /\ now < session[c].idle

\* Mutant: an idle extension is not capped by the session's expiry.
ExtendedFreely(c) == now + IdleLife

\* Mutant: the extension starts from the session's expiry.
ExtendedFromExpiry(c) == session[c].expires + IdleLife

Extended(c) ==
    IF session[c].expires < now + IdleLife THEN session[c].expires ELSE now + IdleLife

\* resolve_browser_session: the request goes on with the actor it returns.
resolveSessionActor(r, c) ==
    /\ request[r] = "idle"
    /\ session[c].status = "live" /\ session[c].held
    /\ Unexpired(c)
    /\ identity.active
    /\ RowFree(c)
    /\ session' = [session EXCEPT ![c].seen = now, ![c].idle = Extended(c)]
    /\ request' = [request EXCEPT ![r] = c]
    /\ UNCHANGED <<now, attempt, callback, identity, script>>

\* The handler's own work, whatever has become of the session meanwhile.
Handle(r) ==
    /\ request[r] # "idle"
    /\ request' = [request EXCEPT ![r] = "idle"]
    /\ UNCHANGED <<now, attempt, callback, session, identity, script>>

\* revoke_browser_session keeps an earlier time and reason.
revokeBrowserSession(r) ==
    LET c == request[r]
    IN  /\ request[r] # "idle"
        /\ RowFree(c)
        /\ session' = [session EXCEPT
            ![c].reason = IF @ = "none" THEN "user_logout" ELSE @,
            ![c].status = "revoked"]
        /\ request' = [request EXCEPT ![r] = "idle"]
        /\ UNCHANGED <<now, attempt, callback, identity, script>>

-----------------------------------------------------------------------------
(* The operator's scripts *)

BeginLink(u) ==
    /\ script.pc = "idle"
    /\ identity.link < MaxLinks
    /\ script' = [pc |-> "updated", kind |-> "link", user |-> u, locked |-> {}]
    /\ UNCHANGED <<now, attempt, callback, session, identity, request>>

BeginDisable ==
    /\ script.pc = "idle"
    /\ identity.link < MaxLinks
    /\ identity.active
    /\ script' = [pc |-> "updated", kind |-> "disable", user |-> identity.user, locked |-> {}]
    /\ UNCHANGED <<now, attempt, callback, session, identity, request>>

\* Mutant: the disable script relies on the inactive identity.
SessionsUnlessDisabling ==
    {c \in Callbacks : session[c].status = "live" /\ script.kind = "link"}

VisibleSessions == {c \in Callbacks : session[c].status = "live"}

\* UPDATE browser_sessions: rows that are not committed yet are not seen.
RevokeSessions ==
    /\ script.pc = "updated"
    /\ script' = [script EXCEPT !.pc = "revoked", !.locked = VisibleSessions]
    /\ UNCHANGED <<now, attempt, callback, session, identity, request>>

CommitScript ==
    /\ script.pc = "revoked"
    /\ identity' = [user |-> script.user, active |-> script.kind = "link",
                    link |-> identity.link + 1]
    /\ session' = [c \in Callbacks |->
        IF c \in script.locked
        THEN [session[c] EXCEPT !.status = "revoked",
                !.reason = IF script.kind = "link" THEN "identity_relinked"
                           ELSE "identity_deprovisioned"]
        ELSE session[c]]
    /\ script' = [script EXCEPT !.pc = "idle", !.locked = {}]
    /\ UNCHANGED <<now, attempt, callback, request>>

RollBackScript ==
    /\ script.pc # "idle"
    /\ script' = [script EXCEPT !.pc = "idle", !.locked = {}]
    /\ UNCHANGED <<now, attempt, callback, session, identity, request>>

Tick ==
    /\ now < MaxTime
    /\ now' = now + 1
    /\ UNCHANGED <<attempt, callback, session, identity, script, request>>

Next ==
    \/ Tick
    \/ \E a \in Attempts : beginLoginAttempt(a)
    \/ \E c \in Callbacks, a \in Attempts : consumeLoginAttempt(c, a)
    \/ \E c \in Callbacks : CallbackFails(c)
    \/ \E c \in Callbacks : SnapshotLink(c)
    \/ \E c \in Callbacks : createBrowserSession(c)
    \/ \E c \in Callbacks : AuditLogin(c)
    \/ \E r \in Requests, c \in Callbacks : resolveSessionActor(r, c)
    \/ \E r \in Requests : Handle(r)
    \/ \E r \in Requests : revokeBrowserSession(r)
    \/ \E u \in Members : BeginLink(u)
    \/ BeginDisable
    \/ RevokeSessions
    \/ CommitScript
    \/ RollBackScript

Spec == Init /\ [][Next]_vars

-----------------------------------------------------------------------------
(* Properties *)

\* docs/browser-authentication.md of the repository speaks of one-time state
\* and of an attempt that is consumed atomically: however often the provider's
\* redirect is repeated, and whatever is deleted meanwhile, an attempt makes at
\* most one session, and an attempt whose callback failed makes none.
OneSessionPerAttempt ==
    /\ \A c, d \in Callbacks :
        /\ session[c].status # "none" /\ session[d].status # "none"
        /\ session[c].attempt = session[d].attempt
        => c = d
    /\ \A c \in Callbacks : session[c].status # "none" =>
        attempt[session[c].attempt].status \in {"consumed", "deleted"}
    /\ \A c, d \in Callbacks :
        /\ callback[c].pc = "done" /\ session[c].status = "none"
        /\ session[d].status # "none"
        => session[d].attempt # callback[c].attempt

\* docs/browser-authentication.md: "Re-linking revokes existing browser
\* sessions.  Disable an identity and immediately revoke all of its sessions."
\* A live session was made under the link that holds now, unless its creation
\* overlapped a script: a session that was being inserted is not existing yet
\* for the script, and outlives it.
LiveSessionsOfTheLink ==
    \A c \in Callbacks :
        session[c].status = "live" /\ session[c].link # identity.link =>
            session[c].overtaken

\* A session is used only while its identity is linked and nobody has revoked it,
\* within its absolute life and within the idle life since the use before, however
\* its idle expiry was extended in between; and no later use, redirect or script
\* revives what was revoked.
UsedWithinLife ==
    [][/\ \A r \in Requests : \A c \in Callbacks :
            request[r] = "idle" /\ request'[r] = c =>
                /\ identity.active /\ session[c].status = "live"
                /\ now < session[c].created + SessionLife
                /\ now < session[c].seen + IdleLife
                /\ session'[c].idle <= session[c].created + SessionLife
       /\ \A c \in Callbacks :
            session[c].status = "revoked" => session'[c].status = "revoked"]_vars

=============================================================================
