----------------------- MODULE BrowserIdentityProofs -----------------------
(***************************************************************************)
(* Proofs of BrowserIdentity's type invariant, of its two safety           *)
(* invariants and of its action property, for any numbers of attempts,     *)
(* callbacks, requests and members and any lives.                          *)
(*                                                                         *)
(* The inductive invariant has four parts besides the types.  Spent: an   *)
(* attempt belongs to the one callback that consumed it, and a session to  *)
(* the attempt of its callback.  Linked: while a script is between its     *)
(* revocation and its commit it has locked every live session that did not *)
(* appear after it looked.  Lived: a session's expiries follow from when   *)
(* it was created and last used.  Existing: requests and locks are about   *)
(* sessions there are.                                                     *)
(***************************************************************************)
EXTENDS BrowserIdentity, TLAPS

Spent ==
    /\ \A c \in Callbacks :
        /\ callback[c].pc # "idle" =>
            /\ callback[c].attempt \in Attempts
            /\ attempt[callback[c].attempt].status \in {"consumed", "deleted"}
        /\ session[c].status # "none" =>
            /\ callback[c].pc \in {"auditing", "done"}
            /\ session[c].attempt = callback[c].attempt
    /\ \A c, d \in Callbacks :
        /\ callback[c].pc # "idle" /\ callback[d].pc # "idle"
        /\ callback[c].attempt = callback[d].attempt
        => c = d

Linked ==
    /\ script.pc # "idle" => identity.link < MaxLinks
    /\ script.pc = "revoked" =>
        \A c \in Callbacks :
            session[c].status = "live" => c \in script.locked \/ session[c].overtaken
    /\ LiveSessionsOfTheLink

Lived ==
    \A c \in Callbacks :
        /\ callback[c].started <= MaxTime
        /\ session[c].status # "none" =>
            /\ session[c].expires = session[c].created + SessionLife
            /\ session[c].idle <= session[c].expires
            /\ session[c].idle <= session[c].seen + IdleLife

Existing ==
    /\ \A r \in Requests : request[r] # "idle" => session[request[r]].status # "none"
    /\ \A c \in script.locked : session[c].status # "none"

IInv == TypeOK /\ Spent /\ Linked /\ Lived /\ Existing

-----------------------------------------------------------------------------
(* What keeps each part *)

\* A started callback stays started and keeps its attempt, a used attempt stays
\* used, and no session appears.
LEMMA SpentKept ==
    ASSUME Spent,
           \A c \in Callbacks :
               /\ callback'[c].attempt = callback[c].attempt
               /\ callback[c].pc = "idle" <=> callback'[c].pc = "idle"
               /\ callback[c].pc \in {"auditing", "done"} =>
                      callback'[c].pc \in {"auditing", "done"},
           \A a \in Attempts :
               attempt[a].status \in {"consumed", "deleted"} =>
                   attempt'[a].status \in {"consumed", "deleted"},
           \A c \in Callbacks : session'[c].status # "none" =>
               session[c].status # "none" /\ session'[c].attempt = session[c].attempt
    PROVE  Spent'
<1>1. ASSUME NEW c \in Callbacks, callback'[c].pc # "idle"
      PROVE  /\ callback'[c].attempt \in Attempts
             /\ attempt'[callback'[c].attempt].status \in {"consumed", "deleted"}
    BY <1>1 DEF Spent
<1>2. ASSUME NEW c \in Callbacks, session'[c].status # "none"
      PROVE  /\ callback'[c].pc \in {"auditing", "done"}
             /\ session'[c].attempt = callback'[c].attempt
    BY <1>2 DEF Spent
<1>3. ASSUME NEW c \in Callbacks, NEW d \in Callbacks,
             callback'[c].pc # "idle", callback'[d].pc # "idle",
             callback'[c].attempt = callback'[d].attempt
      PROVE  c = d
    BY <1>3 DEF Spent
<1> QED
    BY <1>1, <1>2, <1>3 DEF Spent

\* No script step, and no session becomes live or loses its mark.
LEMMA LinkedKept ==
    ASSUME Linked, UNCHANGED <<identity, script>>,
           \A c \in Callbacks : session'[c].status = "live" =>
               /\ session[c].status = "live"
               /\ session'[c].link = session[c].link
               /\ session'[c].overtaken = session[c].overtaken
    PROVE  Linked'
    BY DEF Linked, LiveSessionsOfTheLink

\* Neither a callback nor a session starts, and no use is recorded.
LEMMA LivedKept ==
    ASSUME Lived,
           \A c \in Callbacks :
               /\ callback'[c].started = callback[c].started
               /\ session'[c].status # "none" =>
                   /\ session[c].status # "none"
                   /\ session'[c].created = session[c].created
                   /\ session'[c].seen = session[c].seen
                   /\ session'[c].idle = session[c].idle
                   /\ session'[c].expires = session[c].expires
    PROVE  Lived'
<1> SUFFICES ASSUME NEW c \in Callbacks
             PROVE  /\ callback'[c].started <= MaxTime
                    /\ session'[c].status # "none" =>
                        /\ session'[c].expires = session'[c].created + SessionLife
                        /\ session'[c].idle <= session'[c].expires
                        /\ session'[c].idle <= session'[c].seen + IdleLife
    BY DEF Lived
<1> QED
    BY DEF Lived

\* No request resolves a session, no script locks one, and none disappears.
LEMMA ExistingKept ==
    ASSUME TypeOK, Existing,
           \A r \in Requests : request'[r] \in {"idle", request[r]},
           script'.locked \subseteq script.locked,
           \A c \in Callbacks : session[c].status # "none" => session'[c].status # "none"
    PROVE  Existing'
<1>1. script.locked \subseteq Callbacks
    BY DEF TypeOK, Scripts
<1>2. \A r \in Requests : request[r] \in Callbacks \cup {"idle"}
    BY DEF TypeOK
<1> QED
    BY <1>1, <1>2 DEF Existing

-----------------------------------------------------------------------------

LEMMA InitIInv == Init => IInv
<1> SUFFICES ASSUME Init PROVE IInv
    OBVIOUS
<1> USE IdentityAssumption DEF Init
<1>1. TypeOK
    BY DEF TypeOK, Idle, NoSession, Times, Links, AttemptRows, CallbackStates,
           SessionRows, IdentityRows, Scripts
<1>2. Spent
    BY DEF Spent, Idle, NoSession
<1>3. Linked
    BY DEF Linked, LiveSessionsOfTheLink, NoSession
<1>4. Lived
    BY DEF Lived, Idle, NoSession
<1>5. Existing
    BY DEF Existing
<1> QED
    BY <1>1, <1>2, <1>3, <1>4, <1>5 DEF IInv

LEMMA BeginStep ==
    ASSUME IInv, NEW a \in Attempts, beginLoginAttempt(a)
    PROVE  IInv'
<1>1. TypeOK /\ Spent /\ Linked /\ Lived /\ Existing
    BY DEF IInv
<1>2. /\ attempt[a].status = "none"
      /\ UNCHANGED <<now, callback, session, identity, script, request>>
    BY DEF beginLoginAttempt
<1>3. now + LoginLife \in Times
    BY <1>1, IdentityAssumption DEF TypeOK, Times
<1>4. TypeOK'
  <2>1. attempt' \in [Attempts -> AttemptRows]
    BY <1>1, <1>3 DEF TypeOK, beginLoginAttempt, AttemptRows
  <2> QED
    BY <1>1, <1>2, <2>1 DEF TypeOK
<1>5. \A b \in Attempts :
        attempt[b].status \in {"consumed", "deleted"} =>
            attempt'[b].status \in {"consumed", "deleted"}
    BY <1>1 DEF TypeOK, AttemptRows, beginLoginAttempt
<1>6. Spent'
    BY <1>1, <1>2, <1>5, SpentKept
<1>7. Linked'
    BY <1>1, <1>2, LinkedKept
<1>8. Lived'
    BY <1>1, <1>2, LivedKept
<1>9. Existing'
    BY <1>1, <1>2, ExistingKept
<1> QED
    BY <1>4, <1>6, <1>7, <1>8, <1>9 DEF IInv

LEMMA ConsumeStep ==
    ASSUME IInv, NEW c \in Callbacks, NEW a \in Attempts, consumeLoginAttempt(c, a)
    PROVE  IInv'
<1> DEFINE row == [callback[c] EXCEPT !.pc = "exchanging", !.attempt = a]
<1>1. TypeOK /\ Spent /\ Linked /\ Lived /\ Existing
    BY DEF IInv
<1>2. /\ callback[c].pc = "idle" /\ attempt[a].status = "open"
      /\ UNCHANGED <<now, session, identity, script, request>>
    BY DEF consumeLoginAttempt, Consumable
<1>3. /\ row \in CallbackStates
      /\ row.pc = "exchanging" /\ row.attempt = a /\ row.started = callback[c].started
    BY <1>1 DEF TypeOK, CallbackStates
<1>4. callback' = [callback EXCEPT ![c] = row]
    BY <1>1 DEF TypeOK, CallbackStates, consumeLoginAttempt
<1>5. /\ \A d \in Callbacks \ {c} : callback'[d] = callback[d]
      /\ callback'[c] = row
    BY <1>1, <1>4 DEF TypeOK
<1> HIDE DEF row
<1>6. /\ attempt' = [attempt EXCEPT ![a] = [attempt[a] EXCEPT !.status = "consumed"]]
      /\ [attempt[a] EXCEPT !.status = "consumed"] \in AttemptRows
    BY <1>1 DEF TypeOK, AttemptRows, consumeLoginAttempt
<1>7. TypeOK'
    BY <1>1, <1>2, <1>3, <1>4, <1>6 DEF TypeOK
<1>8. /\ \A b \in Attempts \ {a} : attempt'[b] = attempt[b]
      /\ attempt'[a].status = "consumed"
    BY <1>1, <1>6 DEF TypeOK, AttemptRows
<1>9. Spent'
  <2>1. \A d \in Callbacks : callback[d].pc # "idle" => callback[d].attempt # a
    BY <1>1, <1>2 DEF Spent
  <2>2. ASSUME NEW d \in Callbacks, callback'[d].pc # "idle"
        PROVE  /\ callback'[d].attempt \in Attempts
               /\ attempt'[callback'[d].attempt].status \in {"consumed", "deleted"}
    <3>1. CASE d = c
      BY <1>3, <1>5, <1>8, <3>1
    <3>2. CASE d # c
      BY <1>1, <1>5, <1>8, <2>1, <2>2, <3>2 DEF Spent
    <3> QED
      BY <3>1, <3>2
  <2>3. ASSUME NEW d \in Callbacks, session'[d].status # "none"
        PROVE  /\ callback'[d].pc \in {"auditing", "done"}
               /\ session'[d].attempt = callback'[d].attempt
    BY <1>1, <1>2, <1>5, <2>3 DEF Spent
  <2>4. ASSUME NEW d \in Callbacks, NEW e \in Callbacks,
               callback'[d].pc # "idle", callback'[e].pc # "idle",
               callback'[d].attempt = callback'[e].attempt
        PROVE  d = e
    BY <1>1, <1>3, <1>5, <2>1, <2>4 DEF Spent
  <2> QED
    BY <2>2, <2>3, <2>4 DEF Spent
<1>10. Linked'
    BY <1>1, <1>2, LinkedKept
<1>11. Lived'
    BY <1>1, <1>2, <1>3, <1>5, LivedKept
<1>12. Existing'
    BY <1>1, <1>2, ExistingKept
<1> QED
    BY <1>7, <1>9, <1>10, <1>11, <1>12 DEF IInv

LEMMA FailStep ==
    ASSUME IInv, NEW c \in Callbacks, CallbackFails(c)
    PROVE  IInv'
<1> DEFINE row == [callback[c] EXCEPT !.pc = "done"]
<1>1. TypeOK /\ Spent /\ Linked /\ Lived /\ Existing
    BY DEF IInv
<1>2. /\ callback[c].pc = "exchanging" /\ callback' = [callback EXCEPT ![c] = row]
      /\ UNCHANGED <<now, attempt, session, identity, script, request>>
    BY DEF CallbackFails
<1>3. /\ row \in CallbackStates
      /\ row.pc = "done" /\ row.attempt = callback[c].attempt
      /\ row.started = callback[c].started
    BY <1>1 DEF TypeOK, CallbackStates
<1>4. /\ \A d \in Callbacks \ {c} : callback'[d] = callback[d]
      /\ callback'[c] = row
    BY <1>1, <1>2 DEF TypeOK
<1> HIDE DEF row
<1>5. TypeOK'
    BY <1>1, <1>2, <1>3 DEF TypeOK
<1>6. Spent'
    BY <1>1, <1>2, <1>3, <1>4, SpentKept
<1>7. Linked'
    BY <1>1, <1>2, LinkedKept
<1>8. Lived'
    BY <1>1, <1>2, <1>3, <1>4, LivedKept
<1>9. Existing'
    BY <1>1, <1>2, ExistingKept
<1> QED
    BY <1>5, <1>6, <1>7, <1>8, <1>9 DEF IInv

LEMMA SnapshotStep ==
    ASSUME IInv, NEW c \in Callbacks, SnapshotLink(c)
    PROVE  IInv'
<1> DEFINE row == [callback[c] EXCEPT !.pc = "creating", !.link = identity.link,
                                      !.started = now]
<1>1. TypeOK /\ Spent /\ Linked /\ Lived /\ Existing
    BY DEF IInv
<1>2. /\ callback[c].pc = "exchanging"
      /\ UNCHANGED <<now, attempt, session, identity, script, request>>
    BY DEF SnapshotLink
<1>3. now \in Times /\ now <= MaxTime /\ identity.link \in Links
    BY <1>1, IdentityAssumption DEF TypeOK, Times, IdentityRows
<1>4. /\ row \in CallbackStates
      /\ row.pc = "creating" /\ row.attempt = callback[c].attempt /\ row.started = now
    BY <1>1, <1>3 DEF TypeOK, CallbackStates
<1>5. callback' = [callback EXCEPT ![c] = row]
    BY <1>1 DEF TypeOK, CallbackStates, SnapshotLink
<1>6. /\ \A d \in Callbacks \ {c} : callback'[d] = callback[d]
      /\ callback'[c] = row
    BY <1>1, <1>5 DEF TypeOK
<1> HIDE DEF row
<1>7. TypeOK'
    BY <1>1, <1>2, <1>4, <1>5 DEF TypeOK
<1>8. Spent'
    BY <1>1, <1>2, <1>4, <1>6, SpentKept
<1>9. Linked'
    BY <1>1, <1>2, LinkedKept
<1>10. Lived'
    BY <1>1, <1>2, <1>3, <1>4, <1>6 DEF Lived
<1>11. Existing'
    BY <1>1, <1>2, ExistingKept
<1> QED
    BY <1>7, <1>8, <1>9, <1>10, <1>11 DEF IInv

LEMMA CreateStep ==
    ASSUME IInv, NEW c \in Callbacks, createBrowserSession(c)
    PROVE  IInv'
<1> DEFINE row == [callback[c] EXCEPT !.pc = "auditing"]
           begun == callback[c].started
<1>1. TypeOK /\ Spent /\ Linked /\ Lived /\ Existing
    BY DEF IInv
<1>2. /\ callback[c].pc = "creating" /\ callback' = [callback EXCEPT ![c] = row]
      /\ UNCHANGED <<now, attempt, identity, script, request>>
    BY DEF createBrowserSession
<1>3. /\ row \in CallbackStates
      /\ row.pc = "auditing" /\ row.attempt = callback[c].attempt
      /\ row.started = callback[c].started
    BY <1>1 DEF TypeOK, CallbackStates
<1>4. /\ \A d \in Callbacks \ {c} : callback'[d] = callback[d]
      /\ callback'[c] = row
    BY <1>1, <1>2 DEF TypeOK
<1>5. /\ \A d \in Callbacks \ {c} : session'[d] = session[d]
      /\ session'[c] = [NoSession EXCEPT
            !.status = "live", !.attempt = callback[c].attempt, !.link = callback[c].link,
            !.overtaken = callback[c].link # identity.link \/ script.pc = "revoked",
            !.created = begun, !.seen = begun,
            !.idle = begun + IdleLife, !.expires = begun + SessionLife]
      /\ session' \in [Callbacks -> {session[d] : d \in Callbacks \ {c}} \cup {session'[c]}]
    BY <1>1 DEF TypeOK, createBrowserSession
<1> HIDE DEF row
<1>6. /\ session'[c].status = "live" /\ session'[c].attempt = callback[c].attempt
      /\ session'[c].link = callback[c].link
      /\ session'[c].overtaken =
            (callback[c].link # identity.link \/ script.pc = "revoked")
      /\ session'[c].created = begun /\ session'[c].seen = begun
      /\ session'[c].idle = begun + IdleLife /\ session'[c].expires = begun + SessionLife
    BY <1>5 DEF NoSession
<1>7. /\ begun \in Nat /\ begun <= MaxTime
      /\ begun \in Times /\ begun + IdleLife \in Times /\ begun + SessionLife \in Times
      /\ callback[c].link \in Links
      /\ callback[c].attempt \in Attempts \cup {"none"}
    BY <1>1, IdentityAssumption DEF TypeOK, Lived, CallbackStates, Times
<1>8. TypeOK'
  <2>1. session'[c] \in SessionRows
    BY <1>5, <1>7 DEF NoSession, SessionRows
  <2>2. session' \in [Callbacks -> SessionRows]
    BY <1>1, <1>5, <2>1 DEF TypeOK
  <2> QED
    BY <1>1, <1>2, <1>3, <2>2 DEF TypeOK
<1>9. Spent'
  <2>1. ASSUME NEW d \in Callbacks, callback'[d].pc # "idle"
        PROVE  /\ callback'[d].attempt \in Attempts
               /\ attempt'[callback'[d].attempt].status \in {"consumed", "deleted"}
    BY <1>1, <1>2, <1>3, <1>4, <2>1 DEF Spent
  <2>2. ASSUME NEW d \in Callbacks, session'[d].status # "none"
        PROVE  /\ callback'[d].pc \in {"auditing", "done"}
               /\ session'[d].attempt = callback'[d].attempt
    <3>1. CASE d = c
      BY <1>3, <1>4, <1>6, <3>1
    <3>2. CASE d # c
      BY <1>1, <1>4, <1>5, <2>2, <3>2 DEF Spent
    <3> QED
      BY <3>1, <3>2
  <2>3. ASSUME NEW d \in Callbacks, NEW e \in Callbacks,
               callback'[d].pc # "idle", callback'[e].pc # "idle",
               callback'[d].attempt = callback'[e].attempt
        PROVE  d = e
    BY <1>1, <1>2, <1>3, <1>4, <2>3 DEF Spent
  <2> QED
    BY <2>1, <2>2, <2>3 DEF Spent
<1>10. Linked'
  <2>1. ASSUME NEW d \in Callbacks, session'[d].status = "live", script.pc = "revoked"
        PROVE  d \in script.locked \/ session'[d].overtaken
    BY <1>1, <1>5, <1>6, <2>1 DEF Linked
  <2>2. ASSUME NEW d \in Callbacks, session'[d].status = "live",
               session'[d].link # identity.link
        PROVE  session'[d].overtaken
    BY <1>1, <1>5, <1>6, <2>2 DEF Linked, LiveSessionsOfTheLink
  <2> QED
    BY <1>1, <1>2, <2>1, <2>2 DEF Linked, LiveSessionsOfTheLink
<1>11. Lived'
  <2>1. /\ begun + IdleLife <= begun + SessionLife
        /\ begun + IdleLife <= begun + IdleLife
    BY <1>7, IdentityAssumption
  <2>2. ASSUME NEW d \in Callbacks, d # c
        PROVE  /\ callback'[d] = callback[d] /\ session'[d] = session[d]
    BY <1>4, <1>5, <2>2
  <2> QED
    BY <1>1, <1>3, <1>4, <1>6, <1>7, <2>1, <2>2 DEF Lived
<1>12. Existing'
    BY <1>1, <1>2, <1>5, <1>6, ExistingKept
<1> QED
    BY <1>8, <1>9, <1>10, <1>11, <1>12 DEF IInv

LEMMA AuditStep ==
    ASSUME IInv, NEW c \in Callbacks, AuditLogin(c)
    PROVE  IInv'
<1> DEFINE row == [callback[c] EXCEPT !.pc = "done"]
<1>1. TypeOK /\ Spent /\ Linked /\ Lived /\ Existing
    BY DEF IInv
<1>2. PICK held \in BOOLEAN :
        session' = [session EXCEPT ![c] = [session[c] EXCEPT !.held = held]]
    BY DEF AuditLogin
<1>3. /\ callback[c].pc = "auditing" /\ callback' = [callback EXCEPT ![c] = row]
      /\ UNCHANGED <<now, attempt, identity, script, request>>
    BY DEF AuditLogin
<1>4. /\ row \in CallbackStates
      /\ row.pc = "done" /\ row.attempt = callback[c].attempt
      /\ row.started = callback[c].started
    BY <1>1 DEF TypeOK, CallbackStates
<1>5. /\ \A d \in Callbacks \ {c} : callback'[d] = callback[d]
      /\ callback'[c] = row
    BY <1>1, <1>3 DEF TypeOK
<1> HIDE DEF row
<1>6. [session[c] EXCEPT !.held = held] \in SessionRows
    BY <1>1 DEF TypeOK, SessionRows
<1>7. TypeOK'
    BY <1>1, <1>2, <1>3, <1>4, <1>6 DEF TypeOK
<1>8. \A d \in Callbacks :
        /\ session'[d].status = session[d].status
        /\ session'[d].attempt = session[d].attempt
        /\ session'[d].link = session[d].link
        /\ session'[d].overtaken = session[d].overtaken
        /\ session'[d].created = session[d].created
        /\ session'[d].seen = session[d].seen
        /\ session'[d].idle = session[d].idle
        /\ session'[d].expires = session[d].expires
    BY <1>1, <1>2 DEF TypeOK, SessionRows
<1>9. Spent'
    BY <1>1, <1>3, <1>4, <1>5, <1>8, SpentKept
<1>10. Linked'
    BY <1>1, <1>3, <1>8, LinkedKept
<1>11. Lived'
    BY <1>1, <1>4, <1>5, <1>8, LivedKept
<1>12. Existing'
    BY <1>1, <1>3, <1>8, ExistingKept
<1> QED
    BY <1>7, <1>9, <1>10, <1>11, <1>12 DEF IInv

LEMMA ResolveStep ==
    ASSUME IInv, NEW r \in Requests, NEW c \in Callbacks, resolveSessionActor(r, c)
    PROVE  IInv'
<1> DEFINE row == [session[c] EXCEPT !.seen = now, !.idle = Extended(c)]
<1>1. TypeOK /\ Spent /\ Linked /\ Lived /\ Existing
    BY DEF IInv
<1>2. /\ session[c].status = "live"
      /\ session' = [session EXCEPT ![c] = row]
      /\ request' = [request EXCEPT ![r] = c]
      /\ UNCHANGED <<now, attempt, callback, identity, script>>
    BY <1>1 DEF TypeOK, SessionRows, resolveSessionActor
<1>3. now \in Times /\ session[c].expires \in Times
    BY <1>1, IdentityAssumption DEF TypeOK, Times, SessionRows
<1>4. /\ Extended(c) \in Times
      /\ Extended(c) <= session[c].expires /\ Extended(c) <= now + IdleLife
    BY <1>3, IdentityAssumption DEF Extended, Times
<1>5. /\ row \in SessionRows
      /\ row.status = session[c].status /\ row.attempt = session[c].attempt
      /\ row.link = session[c].link /\ row.overtaken = session[c].overtaken
      /\ row.created = session[c].created /\ row.expires = session[c].expires
      /\ row.seen = now /\ row.idle = Extended(c)
    BY <1>1, <1>3, <1>4 DEF TypeOK, SessionRows
<1>6. /\ \A d \in Callbacks \ {c} : session'[d] = session[d]
      /\ session'[c] = row
    BY <1>1, <1>2 DEF TypeOK
<1> HIDE DEF row
<1>7. TypeOK'
    BY <1>1, <1>2, <1>5 DEF TypeOK
<1>8. Spent'
    BY <1>1, <1>2, <1>5, <1>6, SpentKept
<1>9. Linked'
    BY <1>1, <1>2, <1>5, <1>6, LinkedKept
<1>10. Lived'
    BY <1>1, <1>2, <1>4, <1>5, <1>6 DEF Lived
<1>11. Existing'
  <2>1. \A q \in Requests : request'[q] # "idle" => request'[q] \in {request[q], c}
    BY <1>1, <1>2 DEF TypeOK
  <2>2. \A q \in Requests : request[q] \in Callbacks \cup {"idle"}
    BY <1>1 DEF TypeOK
  <2>3. script.locked \subseteq Callbacks
    BY <1>1 DEF TypeOK, Scripts
  <2>4. \A d \in Callbacks : session[d].status # "none" => session'[d].status # "none"
    BY <1>5, <1>6
  <2>5. session'[c].status # "none"
    BY <1>2, <1>5, <1>6
  <2> QED
    BY <1>1, <1>2, <2>1, <2>2, <2>3, <2>4, <2>5 DEF Existing
<1> QED
    BY <1>7, <1>8, <1>9, <1>10, <1>11 DEF IInv

\* A revoked row differs in its status and its reason only.
LEMMA RevokedRow ==
    ASSUME NEW w \in SessionRows,
           NEW why \in {"none", "user_logout", "identity_relinked", "identity_deprovisioned"}
    PROVE  LET v == [w EXCEPT !.status = "revoked", !.reason = why]
           IN  /\ v \in SessionRows
               /\ v.status = "revoked" /\ v.attempt = w.attempt
               /\ v.created = w.created /\ v.expires = w.expires
               /\ v.seen = w.seen /\ v.idle = w.idle
<1> DEFINE v == [w EXCEPT !.status = "revoked", !.reason = why]
<1>1. /\ v.status = "revoked" /\ v.reason = why
      /\ v.attempt = w.attempt /\ v.link = w.link
      /\ v.overtaken = w.overtaken /\ v.held = w.held
      /\ v.created = w.created /\ v.seen = w.seen
      /\ v.idle = w.idle /\ v.expires = w.expires
    BY DEF SessionRows
<1> DEFINE u == [w EXCEPT !.status = "revoked"]
<1>2. u \in SessionRows
    BY DEF SessionRows
<1>3. v = [u EXCEPT !.reason = why]
    OBVIOUS
<1> HIDE DEF u
<1>4. [u EXCEPT !.reason = why] \in SessionRows
    BY <1>2 DEF SessionRows
<1> QED
    BY <1>1, <1>3, <1>4

LEMMA RevokeStep ==
    ASSUME IInv, NEW r \in Requests, revokeBrowserSession(r)
    PROVE  IInv'
<1> DEFINE c == request[r]
           reason == IF session[c].reason = "none" THEN "user_logout"
                     ELSE session[c].reason
           row == [session[c] EXCEPT !.status = "revoked", !.reason = reason]
<1>1. TypeOK /\ Spent /\ Linked /\ Lived /\ Existing
    BY DEF IInv
<1>2. c \in Callbacks
    BY <1>1 DEF TypeOK, revokeBrowserSession
<1>3. /\ session' = [session EXCEPT ![c] = row]
      /\ request' = [request EXCEPT ![r] = "idle"]
      /\ UNCHANGED <<now, attempt, callback, identity, script>>
    BY <1>1, <1>2 DEF TypeOK, SessionRows, revokeBrowserSession
<1>0. reason \in {"none", "user_logout", "identity_relinked", "identity_deprovisioned"}
    BY <1>1, <1>2 DEF TypeOK, SessionRows
<1> HIDE DEF reason
<1>4. /\ row \in SessionRows
      /\ row.status = "revoked" /\ row.attempt = session[c].attempt
      /\ row.created = session[c].created /\ row.expires = session[c].expires
      /\ row.seen = session[c].seen /\ row.idle = session[c].idle
    BY <1>0, <1>1, <1>2, RevokedRow DEF TypeOK
<1>5. /\ \A d \in Callbacks \ {c} : session'[d] = session[d]
      /\ session'[c] = row
    BY <1>1, <1>2, <1>3 DEF TypeOK
<1> HIDE DEF row
<1>6. TypeOK'
    BY <1>1, <1>2, <1>3, <1>4 DEF TypeOK
<1>7. session[c].status # "none"
    BY <1>1 DEF Existing, revokeBrowserSession
<1>8. Spent'
    BY <1>1, <1>3, <1>4, <1>5, <1>7, SpentKept
<1>9. Linked'
    BY <1>1, <1>3, <1>4, <1>5, LinkedKept
<1>10. Lived'
    BY <1>1, <1>3, <1>4, <1>5, <1>7, LivedKept
<1>11. Existing'
  <2>1. \A q \in Requests : request'[q] \in {"idle", request[q]}
    BY <1>1, <1>3 DEF TypeOK
  <2> QED
    BY <1>1, <1>3, <1>4, <1>5, <2>1, ExistingKept
<1> QED
    BY <1>6, <1>8, <1>9, <1>10, <1>11 DEF IInv

\* A script begins, or is rolled back: nothing but the transaction changes.
LEMMA ScriptStep ==
    ASSUME IInv, (\E u \in Members : BeginLink(u)) \/ BeginDisable \/ RollBackScript
    PROVE  IInv'
<1>1. TypeOK /\ Spent /\ Linked /\ Lived /\ Existing
    BY DEF IInv
<1>2. /\ script' \in Scripts /\ script'.pc \in {"idle", "updated"}
      /\ script'.pc # "idle" => identity.link < MaxLinks
      /\ script'.locked = {}
      /\ UNCHANGED <<now, attempt, callback, session, identity, request>>
  <2>1. ASSUME NEW u \in Members, BeginLink(u)
        PROVE  /\ script' \in Scripts /\ script'.pc \in {"idle", "updated"}
               /\ script'.pc # "idle" => identity.link < MaxLinks
               /\ script'.locked = {}
      /\ script'.locked = {}
               /\ UNCHANGED <<now, attempt, callback, session, identity, request>>
    BY <2>1 DEF BeginLink, Scripts
  <2>2. ASSUME BeginDisable
        PROVE  /\ script' \in Scripts /\ script'.pc \in {"idle", "updated"}
               /\ script'.pc # "idle" => identity.link < MaxLinks
               /\ script'.locked = {}
      /\ script'.locked = {}
               /\ UNCHANGED <<now, attempt, callback, session, identity, request>>
    BY <1>1, <2>2 DEF BeginDisable, Scripts, TypeOK, IdentityRows
  <2>3. ASSUME RollBackScript
        PROVE  /\ script' \in Scripts /\ script'.pc \in {"idle", "updated"}
               /\ script'.pc # "idle" => identity.link < MaxLinks
               /\ script'.locked = {}
      /\ script'.locked = {}
               /\ UNCHANGED <<now, attempt, callback, session, identity, request>>
    BY <1>1, <2>3 DEF RollBackScript, Scripts, TypeOK
  <2> QED
    BY <2>1, <2>2, <2>3
<1>3. TypeOK'
    BY <1>1, <1>2 DEF TypeOK
<1>4. Spent'
    BY <1>1, <1>2, SpentKept
<1>5. Linked'
    BY <1>1, <1>2 DEF Linked, LiveSessionsOfTheLink
<1>6. Lived'
    BY <1>1, <1>2, LivedKept
<1>7. Existing'
    BY <1>1, <1>2, ExistingKept
<1> QED
    BY <1>3, <1>4, <1>5, <1>6, <1>7 DEF IInv

LEMMA RevokeSessionsStep ==
    ASSUME IInv, RevokeSessions
    PROVE  IInv'
<1>1. TypeOK /\ Spent /\ Linked /\ Lived /\ Existing
    BY DEF IInv
<1>2. /\ script.pc = "updated"
      /\ UNCHANGED <<now, attempt, callback, session, identity, request>>
    BY DEF RevokeSessions
<1>3. script' \in Scripts /\ script'.pc = "revoked" /\ script'.locked = VisibleSessions
    BY <1>1 DEF TypeOK, Scripts, RevokeSessions, VisibleSessions
<1>4. TypeOK'
    BY <1>1, <1>2, <1>3 DEF TypeOK
<1>5. Spent'
    BY <1>1, <1>2, SpentKept
<1>6. Linked'
    BY <1>1, <1>2, <1>3 DEF Linked, LiveSessionsOfTheLink, VisibleSessions
<1>7. Lived'
    BY <1>1, <1>2, LivedKept
<1>8. Existing'
    BY <1>1, <1>2, <1>3 DEF Existing, VisibleSessions
<1> QED
    BY <1>4, <1>5, <1>6, <1>7, <1>8 DEF IInv

\* What the script did not lock was overtaken by it.
LEMMA CommitStep ==
    ASSUME IInv, CommitScript
    PROVE  IInv'
<1> DEFINE cause == IF script.kind = "link" THEN "identity_relinked"
                    ELSE "identity_deprovisioned"
           Row(c) == [session[c] EXCEPT !.status = "revoked", !.reason = cause]
<1>1. TypeOK /\ Spent /\ Linked /\ Lived /\ Existing
    BY DEF IInv
<1>2. script.pc = "revoked" /\ UNCHANGED <<now, attempt, callback, request>>
    BY DEF CommitScript
<1>3. /\ identity' \in IdentityRows /\ identity'.link = identity.link + 1
  <2>1. identity.link \in Links /\ identity.link < MaxLinks
    BY <1>1, <1>2 DEF TypeOK, IdentityRows, Linked
  <2>2. identity.link + 1 \in Links
    BY <2>1, IdentityAssumption DEF Links
  <2>3. script.user \in Members
    BY <1>1 DEF TypeOK, Scripts
  <2> QED
    BY <2>2, <2>3 DEF CommitScript, IdentityRows
<1>4. script' \in Scripts /\ script'.pc = "idle"
    BY <1>1 DEF CommitScript, TypeOK, Scripts
<1>5. \A c \in Callbacks :
        session'[c] = IF c \in script.locked THEN Row(c) ELSE session[c]
    BY DEF CommitScript
<1>0. cause \in {"identity_relinked", "identity_deprovisioned"}
    OBVIOUS
<1> HIDE DEF cause
<1>6. \A c \in Callbacks :
        /\ Row(c) \in SessionRows
        /\ Row(c).status = "revoked" /\ Row(c).attempt = session[c].attempt
        /\ Row(c).created = session[c].created /\ Row(c).expires = session[c].expires
        /\ Row(c).seen = session[c].seen /\ Row(c).idle = session[c].idle
  <2> TAKE c \in Callbacks
  <2>1. session[c] \in SessionRows
    BY <1>1 DEF TypeOK
  <2>2. cause \in {"none", "user_logout", "identity_relinked", "identity_deprovisioned"}
    BY <1>0
  <2> QED
    BY <2>1, <2>2, RevokedRow
<1> HIDE DEF Row
<1>7. TypeOK'
  <2>1. session' = [c \in Callbacks |->
            IF c \in script.locked THEN Row(c) ELSE session[c]]
    BY DEF CommitScript, Row, cause
  <2>2. session' \in [Callbacks -> SessionRows]
    BY <1>1, <1>6, <2>1 DEF TypeOK
  <2> QED
    BY <1>1, <1>2, <1>3, <1>4, <2>2 DEF TypeOK
<1>8. \A c \in script.locked : session[c].status # "none"
    BY <1>1 DEF Existing
<1>9. Spent'
    BY <1>1, <1>2, <1>5, <1>6, <1>8, SpentKept
<1>10. Linked'
  <2>1. ASSUME NEW c \in Callbacks, session'[c].status = "live"
        PROVE  session'[c].overtaken
    BY <1>1, <1>2, <1>5, <1>6, <2>1 DEF Linked
  <2> QED
    BY <1>4, <2>1 DEF Linked, LiveSessionsOfTheLink
<1>11. Lived'
    BY <1>1, <1>2, <1>5, <1>6, <1>8, LivedKept
<1>12. Existing'
  <2>1. script'.locked = {}
    BY <1>1 DEF CommitScript, TypeOK, Scripts
  <2> QED
    BY <1>1, <1>2, <1>5, <1>6, <2>1, ExistingKept
<1> QED
    BY <1>7, <1>9, <1>10, <1>11, <1>12 DEF IInv

\* Steps that touch neither the tables nor a script.
LEMMA QuietStep ==
    ASSUME IInv, Tick \/ (\E r \in Requests : Handle(r)) \/ UNCHANGED vars
    PROVE  IInv'
<1>1. TypeOK /\ Spent /\ Linked /\ Lived /\ Existing
    BY DEF IInv
<1>2. /\ now' \in 0..MaxTime /\ request' \in [Requests -> Callbacks \cup {"idle"}]
      /\ UNCHANGED <<attempt, callback, session, identity, script>>
    BY <1>1, IdentityAssumption DEF TypeOK, Tick, Handle, vars
<1>3. TypeOK'
    BY <1>1, <1>2 DEF TypeOK
<1>4. Spent' /\ Linked' /\ Lived'
    BY <1>1, <1>2 DEF Spent, Linked, LiveSessionsOfTheLink, Lived
<1>5. \A r \in Requests : request'[r] \in {"idle", request[r]}
    BY <1>1 DEF TypeOK, Tick, Handle, vars
<1>6. Existing'
    BY <1>1, <1>2, <1>5, ExistingKept
<1> QED
    BY <1>3, <1>4, <1>6 DEF IInv

LEMMA NextIInv == IInv /\ [Next]_vars => IInv'
<1> SUFFICES ASSUME IInv, [Next]_vars PROVE IInv'
    OBVIOUS
<1> QED
    BY BeginStep, ConsumeStep, FailStep, SnapshotStep, CreateStep, AuditStep, ResolveStep,
       RevokeStep, ScriptStep, RevokeSessionsStep, CommitStep, QuietStep DEF Next

\* The inductive invariant holds in every state of every behaviour.
THEOREM IdentityInvariant == Spec => []IInv
    BY InitIInv, NextIInv, PTL DEF Spec

\* Every variable keeps its type: no expiry leaves the clock's range.
THEOREM TypeCorrect == Spec => []TypeOK
<1>1. IInv => TypeOK
    BY DEF IInv
<1> QED
    BY <1>1, IdentityInvariant, PTL

\* However often a callback is repeated, an attempt makes at most one session,
\* only once it is consumed, and none if its callback failed.
THEOREM OneSessionPerAttemptHolds == Spec => []OneSessionPerAttempt
<1>1. IInv => OneSessionPerAttempt
    BY DEF IInv, Spent, OneSessionPerAttempt
<1> QED
    BY <1>1, IdentityInvariant, PTL

\* A relinked or disabled identity keeps no live session but those whose creation
\* overlapped the script.
THEOREM LiveSessionsOfTheLinkHolds == Spec => []LiveSessionsOfTheLink
<1>1. IInv => LiveSessionsOfTheLink
    BY DEF IInv, Linked
<1> QED
    BY <1>1, IdentityInvariant, PTL

\* A session is resolved only while it is not revoked, within its idle and its
\* absolute life, and is never live again once it was revoked.
THEOREM UsedWithinLifeHolds == Spec => UsedWithinLife
<1>1. IInv /\ [Next]_vars =>
        [/\ \A r \in Requests : \A c \in Callbacks :
              request[r] = "idle" /\ request'[r] = c =>
                  /\ identity.active /\ session[c].status = "live"
                  /\ now < session[c].created + SessionLife
                  /\ now < session[c].seen + IdleLife
                  /\ session'[c].idle <= session[c].created + SessionLife
         /\ \A c \in Callbacks :
              session[c].status = "revoked" => session'[c].status = "revoked"]_vars
  <2> SUFFICES ASSUME IInv, [Next]_vars
               PROVE  /\ \A r \in Requests : \A c \in Callbacks :
                            request[r] = "idle" /\ request'[r] = c =>
                              /\ identity.active /\ session[c].status = "live"
                              /\ now < session[c].created + SessionLife
                              /\ now < session[c].seen + IdleLife
                              /\ session'[c].idle <= session[c].created + SessionLife
                      /\ \A c \in Callbacks : session[c].status = "revoked" =>
                            session'[c].status = "revoked"
    OBVIOUS
  <2>1. ASSUME NEW r \in Requests, NEW c \in Callbacks,
               request[r] = "idle", request'[r] = c
        PROVE  /\ identity.active /\ session[c].status = "live"
               /\ now < session[c].created + SessionLife
               /\ now < session[c].seen + IdleLife
               /\ session'[c].idle <= session[c].created + SessionLife
    <3>1. request'[r] # request[r]
      BY <2>1, IdentityAssumption
    <3>2. resolveSessionActor(r, c)
      BY <2>1, <3>1, IdentityAssumption
         DEF IInv, TypeOK, Next, vars, Tick, beginLoginAttempt, consumeLoginAttempt,
             CallbackFails, SnapshotLink, createBrowserSession, AuditLogin,
             resolveSessionActor, Handle, revokeBrowserSession, BeginLink, BeginDisable,
             RevokeSessions, CommitScript, RollBackScript
    <3>3. /\ session[c].expires = session[c].created + SessionLife
          /\ session[c].idle <= session[c].seen + IdleLife
      BY <3>2 DEF IInv, Lived, resolveSessionActor
    <3>4. /\ identity.active /\ session[c].status = "live"
          /\ now < session[c].expires /\ now < session[c].idle
          /\ session'[c].idle = Extended(c)
      BY <3>2 DEF resolveSessionActor, Unexpired, IInv, TypeOK
    <3>5. /\ session[c].expires \in Times /\ session[c].idle \in Times
          /\ session[c].seen \in Times /\ session[c].created \in Times /\ now \in Nat
      BY DEF IInv, TypeOK, SessionRows
    <3>6. Extended(c) <= session[c].expires
      BY <3>5, IdentityAssumption DEF Extended, Times
    <3> QED
      BY <3>3, <3>4, <3>5, <3>6, IdentityAssumption DEF Times
  <2>2. ASSUME NEW c \in Callbacks, session[c].status = "revoked"
        PROVE  session'[c].status = "revoked"
    <3>1. callback[c].pc \notin {"idle", "exchanging", "creating"}
          /\ session \in [Callbacks -> SessionRows]
      BY <2>2 DEF IInv, TypeOK, Spent
    <3>2. session[c] \in SessionRows
      BY <3>1
    <3>3. CASE UNCHANGED session
      BY <2>2, <3>3
    <3>4. ASSUME NEW d \in Callbacks, createBrowserSession(d)
          PROVE  session'[c].status = "revoked"
      BY <2>2, <3>1, <3>4 DEF createBrowserSession
    <3>5. ASSUME NEW d \in Callbacks, AuditLogin(d)
          PROVE  session'[c].status = "revoked"
      BY <2>2, <3>1, <3>2, <3>5 DEF AuditLogin, SessionRows
    <3>6. ASSUME NEW r \in Requests, NEW d \in Callbacks, resolveSessionActor(r, d)
          PROVE  session'[c].status = "revoked"
      BY <2>2, <3>1, <3>2, <3>6 DEF resolveSessionActor, SessionRows
    <3>7. ASSUME NEW r \in Requests, revokeBrowserSession(r)
          PROVE  session'[c].status = "revoked"
      BY <2>2, <3>1, <3>2, <3>7 DEF revokeBrowserSession, SessionRows
    <3>8. CASE CommitScript
      BY <2>2, <3>1, <3>2, <3>8 DEF CommitScript, SessionRows
    <3> QED
      BY <3>3, <3>4, <3>5, <3>6, <3>7, <3>8
         DEF Next, vars, Tick, beginLoginAttempt, consumeLoginAttempt, CallbackFails,
             SnapshotLink, Handle, BeginLink, BeginDisable, RevokeSessions, RollBackScript
  <2> QED
    BY <2>1, <2>2
<1> QED
    BY <1>1, IdentityInvariant, PTL DEF Spec, UsedWithinLife

=============================================================================
