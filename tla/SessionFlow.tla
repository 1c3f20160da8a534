----------------------------- MODULE SessionFlow ----------------------------
(***************************************************************************)
(* Login, logout and session use in auth0_api: routes/auth_routes.py,      *)
(* auth/session_store.py, security/csrf.py, and the readers of a session   *)
(* in routes/user_routes.py and routes/graphql_routes.py.                  *)
(*                                                                         *)
(* One browser keeps two cookies: the signed dictionary behind             *)
(* request.session and csrf_token.  A handler works on the dictionary that *)
(* came with its request and the response carries it back, so responses    *)
(* overwrite each other.  Sessions themselves are in Redis or, without     *)
(* REDIS_URL, in a dictionary; every call to the store is an await.        *)
(*                                                                         *)
(* Login attempt a stands for its state, PKCE verifier, nonce and code,    *)
(* and for the session it creates with that session's tokens: all of them  *)
(* are random and fresh.  The SPA sends the Origin, X-Requested-With and   *)
(* Sec-Fetch-Site a browser on the right origin sends, and echoes the      *)
(* csrf_token cookie.                                                      *)
(***************************************************************************)
EXTENDS Naturals, FiniteSets

CONSTANTS
    Attempts,      \* login attempts
    Logouts,       \* POST /api/logout requests
    Calls,         \* requests that use a session
    None,          \* Python None, an absent key or cookie
    Environments,  \* tabs: the browser sends requests while others are
                   \* unanswered; faults: calls to the store may raise and
                   \* responses may get lost
    SESSION_MAX_AGE,
    MaxTime        \* bound: the clock

Requests == Attempts \cup Logouts \cup Calls

ASSUME SessionAssumption ==
    /\ None \notin Requests /\ {"keep", "clear"} \cap Attempts = {}
    /\ Environments \subseteq [tabs : BOOLEAN, faults : BOOLEAN]
    /\ Attempts \cap Logouts = {} /\ Attempts \cap Calls = {} /\ Logouts \cap Calls = {}
    /\ SESSION_MAX_AGE \in Nat \ {0}
    /\ MaxTime \in Nat

VARIABLES
    env,       \* what the browser and the network do, throughout
    now,       \* time.time()
    jar,       \* the browser's session cookie
    csrf,      \* the browser's csrf_token cookie
    store,     \* expires_at per session, 0 for a session not in the store
    redeemed,  \* codes Auth0 has exchanged
    offered,   \* access tokens posted to Auth0's revocation endpoint
    pc,        \* where each request is
    sess,      \* request.session of each request
    echo,      \* the csrf_token each request was sent with
    reply,     \* what the response of each request does to the cookies
    sent,      \* history: the session each request in flight was sent with
    validAt,   \* history: the sessions that were valid when it was sent
    used       \* history: the session whose user or token it was served with

browser == <<jar, csrf>>
request == <<pc, sess, echo, reply, sent, validAt>>
vars == <<env, now, jar, csrf, store, redeemed, offered, pc, sess, echo,
          reply, sent, validAt, used>>

Ids == Attempts \cup {None}

(* The dictionary: the states of Authlib, pkce_verifier, oidc_nonce and    *)
(* session_id.                                                             *)
Cookie == [states : SUBSET Attempts, verifier : Ids, nonce : Ids, sid : Ids]

Empty == [states |-> {}, verifier |-> None, nonce |-> None, sid |-> None]

(* set: the session cookie is written; token: the csrf_token cookie is     *)
(* kept, cleared or set to a session's token; then: what the request is    *)
(* once the browser has the response.                                      *)
NoReply == [set |-> FALSE, token |-> "keep", then |-> "new"]

Init ==
    /\ env \in Environments
    /\ now = 0
    /\ jar = Empty /\ csrf = None
    /\ store = [a \in Attempts |-> 0]
    /\ redeemed = {} /\ offered = {}
    /\ pc = [r \in Requests |-> "new"]
    /\ sess = [r \in Requests |-> Empty]
    /\ echo = [r \in Requests \ Attempts |-> None]
    /\ reply = [r \in Requests |-> NoReply]
    /\ sent = [r \in Requests |-> None]
    /\ validAt = [c \in Calls |-> {}]
    /\ used = [c \in Calls |-> None]

Resting == {"new", "atAuth0", "done"}

Stage == Resting \cup
    {"redirecting", "exchange", "rotate", "create", "mirror", "check", "lookup",
     "revokeToken", "revoke", "read", "forward", "reply"}
-----------------------------------------------------------------------------
(* The browser sends a request whose handler runs up to its first await:   *)
(* it leaves `cookie' in request.session and is at `stage' then.           *)
Sent(r, stage, cookie) ==
    /\ env.tabs \/ \A q \in Requests : pc[q] \in Resting
    /\ pc' = [pc EXCEPT ![r] = stage]
    /\ sess' = [sess EXCEPT ![r] = cookie]
    /\ echo' = [q \in DOMAIN echo |-> IF q = r THEN csrf ELSE echo[q]]
    /\ sent' = [sent EXCEPT ![r] = jar.sid]
    /\ validAt' = [c \in Calls |->
           IF c = r THEN {s \in Attempts : store[s] > now} ELSE validAt[c]]
    /\ UNCHANGED <<env, now, browser, store, redeemed, offered, used>>

(* The handler awaits something else, or resumes. *)
Step(r, stage, cookie) ==
    /\ pc' = [pc EXCEPT ![r] = stage]
    /\ sess' = [sess EXCEPT ![r] = cookie]
    /\ UNCHANGED <<env, now, browser, echo, reply, sent, validAt>>

(* The handler returns: SessionMiddleware writes request.session into the  *)
(* response if it was modified, and not when it was empty before and after.*)
Return(r, cookie, modified, token, then) ==
    /\ pc' = [pc EXCEPT ![r] = "reply"]
    /\ sess' = [sess EXCEPT ![r] = cookie]
    /\ reply' = [reply EXCEPT ![r] =
           [set |-> modified /\ (cookie # Empty \/ sess[r] # Empty),
            token |-> token, then |-> then]]
    /\ UNCHANGED <<env, now, browser, echo, sent, validAt>>

(* A call to the store raises, before or after Redis has executed it: the  *)
(* 500 is written outside SessionMiddleware and carries no cookie.         *)
StoreRaises(r, effect) ==
    /\ env.faults
    /\ store' \in {store, effect}
    /\ Return(r, sess[r], FALSE, "keep", "done")
    /\ UNCHANGED <<redeemed, offered, used>>

(* Nothing is left of a request. *)
Finished(r, then) ==
    /\ pc' = [pc EXCEPT ![r] = then]
    /\ sess' = [sess EXCEPT ![r] = Empty]
    /\ echo' = [q \in DOMAIN echo |-> IF q = r THEN None ELSE echo[q]]
    /\ reply' = [reply EXCEPT ![r] = NoReply]
    /\ sent' = [sent EXCEPT ![r] = None]
    /\ validAt' = [c \in Calls |-> IF c = r THEN {} ELSE validAt[c]]
    /\ used' = [c \in Calls |-> IF c = r THEN None ELSE used[c]]

(* The response arrives. *)
Deliver(r) ==
    /\ pc[r] = "reply"
    /\ jar' = IF reply[r].set THEN sess[r] ELSE jar
    /\ csrf' = CASE reply[r].token = "keep" -> csrf
                 [] reply[r].token = "clear" -> None
                 [] OTHER -> reply[r].token
    /\ Finished(r, reply[r].then)
    /\ UNCHANGED <<env, now, store, redeemed, offered>>

(* The connection broke before it did. *)
Lose(r) ==
    /\ env.faults /\ pc[r] = "reply"
    /\ Finished(r, "done")
    /\ UNCHANGED <<env, now, browser, store, redeemed, offered>>
-----------------------------------------------------------------------------

(* get_session returns a session: it is there and expires_at > time.time(). *)
Live(s) == s # None /\ (s # None => store[s] > now)

(* create_session and revoke_session. *)
With(s) == [store EXCEPT ![s] = now + SESSION_MAX_AGE]

Without(s) == IF s = None THEN store ELSE [store EXCEPT ![s] = 0]

(* get_session deletes what has expired. *)
AfterGet(s) == IF Live(s) THEN store ELSE Without(s)

(* csrf_failure_reason: the echoed cookie must be the session's token.     *)
CsrfSafe(r, s) == echo[r] = s
-----------------------------------------------------------------------------
(* GET /api/login: a new verifier and nonce replace those of the cookie;   *)
(* authorize_redirect may have to fetch Auth0's metadata.                  *)
Login(a) ==
    /\ pc[a] = "new"
    /\ Sent(a, "redirecting", [jar EXCEPT !.verifier = a, !.nonce = a])
    /\ UNCHANGED reply

(* Authlib stores the state and the browser is sent to Auth0, or the       *)
(* exception becomes a 500 that carries the cookie.                        *)
Redirect(a) ==
    /\ pc[a] = "redirecting"
    /\ \/ Return(a, [sess[a] EXCEPT !.states = @ \cup {a}], TRUE, "keep", "atAuth0")
       \/ Return(a, sess[a], TRUE, "keep", "done")
    /\ UNCHANGED <<store, redeemed, offered, used>>

(* GET /api/auth, also when the page is reloaded: a state that is not in   *)
(* the cookie is refused, a known one is removed and the code is exchanged *)
(* with the verifier of the cookie.                                        *)
Callback(a) ==
    /\ pc[a] \in {"atAuth0", "done"}
    /\ IF a \in jar.states
       THEN /\ Sent(a, "exchange", [jar EXCEPT !.states = @ \ {a}])
            /\ UNCHANGED reply
       ELSE /\ Sent(a, "reply", jar)
            /\ reply' = [reply EXCEPT ![a] = [NoReply EXCEPT !.then = "done"]]

(* Mutant: the verifier is popped before the exchange. *)
ExchangeFailsAfterPop(a) ==
    /\ pc[a] = "exchange"
    /\ Return(a, [sess[a] EXCEPT !.verifier = None], TRUE, "keep", "done")
    /\ UNCHANGED <<store, redeemed, offered, used>>

(* Auth0 refuses the code (wrong or missing verifier, used before) or the  *)
(* exchange raises: 401, the verifier and the nonce stay in the cookie.    *)
ExchangeFails(a) ==
    /\ pc[a] = "exchange"
    /\ \/ UNCHANGED redeemed
       \/ sess[a].verifier = a /\ redeemed' = redeemed \cup {a}
    /\ Return(a, sess[a], TRUE, "keep", "done")
    /\ UNCHANGED <<store, offered, used>>

(* The nonce is compared when both the cookie and the id_token have one.   *)
NonceMismatch(claim, expected) ==
    expected # None /\ claim # None /\ claim # expected

(* The exchange succeeds.  The verifier and the nonce are popped; a wrong  *)
(* nonce and missing user information, tenant or token are answered 401 or *)
(* 403; otherwise the previous session is revoked, if there is one, and    *)
(* the dictionary is cleared.                                              *)
ExchangeSucceeds(a) ==
    LET popped == [sess[a] EXCEPT !.verifier = None, !.nonce = None] IN
    /\ pc[a] = "exchange"
    /\ sess[a].verifier = a /\ a \notin redeemed
    /\ redeemed' = redeemed \cup {a}
    /\ \/ Return(a, popped, TRUE, "keep", "done")
       \/ /\ \E claim \in {a, None} : ~NonceMismatch(claim, sess[a].nonce)
          /\ IF popped.sid # None THEN Step(a, "rotate", popped)
                                  ELSE Step(a, "create", Empty)
          /\ UNCHANGED reply
    /\ UNCHANGED <<store, offered, used>>

(* Mutant: the previous session is left alone. *)
RotateNothing(a) ==
    /\ pc[a] = "rotate"
    /\ Step(a, "create", Empty)
    /\ UNCHANGED <<store, reply, redeemed, offered, used>>

(* revoke_session(previous_session_id) and session.clear(). *)
Rotate(a) ==
    /\ pc[a] = "rotate"
    /\ \/ /\ store' = Without(sess[a].sid)
          /\ Step(a, "create", Empty)
          /\ UNCHANGED <<reply, redeemed, offered, used>>
       \/ StoreRaises(a, Without(sess[a].sid))

(* The id of the new session goes into the dictionary.  UserResponse is    *)
(* built next and raises when the id_token has no email or no name: a 500  *)
(* without a cookie for a session that exists.                             *)
Create(a) ==
    LET cookie == [Empty EXCEPT !.sid = a] IN
    /\ pc[a] = "create"
    /\ \/ /\ store' = With(a)
          /\ \/ Step(a, "mirror", cookie)
             \/ Return(a, cookie, FALSE, "keep", "done")
          /\ UNCHANGED <<redeemed, offered, used>>
       \/ StoreRaises(a, With(a))

(* Mutant: the session's token is not mirrored. *)
NotMirrored(a) ==
    /\ pc[a] = "mirror"
    /\ Return(a, sess[a], TRUE, "keep", "done")
    /\ UNCHANGED <<store, redeemed, offered, used>>

(* set_csrf_cookie with the session read back from the store.              *)
Mirror(a) ==
    /\ pc[a] = "mirror"
    /\ \/ /\ store' = AfterGet(a)
          /\ Return(a, sess[a], TRUE, IF Live(a) THEN a ELSE "keep", "done")
          /\ UNCHANGED <<redeemed, offered, used>>
       \/ StoreRaises(a, AfterGet(a))
-----------------------------------------------------------------------------
(* POST /api/logout: get_session; with a session the csrf token must       *)
(* match, without one the request goes on.                                 *)
Logout(l) ==
    /\ pc[l] = "new"
    /\ Sent(l, "check", jar)
    /\ UNCHANGED reply

CheckCsrf(l) ==
    LET sid == sess[l].sid IN
    /\ pc[l] = "check"
    /\ \/ /\ store' = AfterGet(sid)
          /\ IF Live(sid) /\ ~CsrfSafe(l, sid)
             THEN Return(l, sess[l], FALSE, "keep", "done")
             ELSE Step(l, "lookup", sess[l]) /\ UNCHANGED reply
          /\ UNCHANGED <<redeemed, offered, used>>
       \/ sid # None /\ StoreRaises(l, AfterGet(sid))

(* Mutant: the access token is not revoked. *)
LookupNoToken(l) ==
    /\ pc[l] = "lookup"
    /\ store' = AfterGet(sess[l].sid)
    /\ Step(l, "revoke", sess[l])
    /\ UNCHANGED <<reply, redeemed, offered, used>>

(* _perform_logout reads the session again for its access token. *)
Lookup(l) ==
    LET sid == sess[l].sid IN
    /\ pc[l] = "lookup"
    /\ \/ /\ store' = AfterGet(sid)
          /\ Step(l, IF Live(sid) THEN "revokeToken" ELSE "revoke", sess[l])
          /\ UNCHANGED <<reply, redeemed, offered, used>>
       \/ sid # None /\ StoreRaises(l, AfterGet(sid))

(* _revoke_token_at_auth0: whatever Auth0 answers, logout goes on. *)
RevokeToken(l) ==
    /\ pc[l] = "revokeToken"
    /\ offered' = offered \cup {sess[l].sid}
    /\ Step(l, "revoke", sess[l])
    /\ UNCHANGED <<store, reply, redeemed, used>>

(* revoke_session, session.clear() and clear_csrf_cookie. *)
Revoke(l) ==
    LET sid == sess[l].sid IN
    /\ pc[l] = "revoke"
    /\ \/ /\ store' = Without(sid)
          /\ Return(l, Empty, TRUE, "clear", "done")
          /\ UNCHANGED <<redeemed, offered, used>>
       \/ sid # None /\ StoreRaises(l, Without(sid))
-----------------------------------------------------------------------------
(* A request that needs a session. *)
Call(c) ==
    /\ pc[c] = "new"
    /\ Sent(c, "read", jar)
    /\ UNCHANGED reply

(* get_authenticated_session.  A GET is served with the user of the        *)
(* session; POST /api/graphql and /api/text-to-sql go on with its access   *)
(* token if the csrf token matches.                                        *)
ReadSession(c) ==
    LET sid == sess[c].sid IN
    /\ pc[c] = "read"
    /\ \/ /\ store' = AfterGet(sid)
          /\ \/ /\ used' = [used EXCEPT ![c] = IF Live(sid) THEN sid ELSE None]
                /\ Return(c, sess[c], FALSE, "keep", "done")
             \/ /\ IF Live(sid) /\ CsrfSafe(c, sid)
                   THEN Step(c, "forward", sess[c]) /\ UNCHANGED reply
                   ELSE Return(c, sess[c], FALSE, "keep", "done")
                /\ UNCHANGED used
          /\ UNCHANGED <<redeemed, offered>>
       \/ sid # None /\ StoreRaises(c, AfterGet(sid))

(* The query API is called with the token read before. *)
Forward(c) ==
    /\ pc[c] = "forward"
    /\ used' = [used EXCEPT ![c] = sess[c].sid]
    /\ Return(c, sess[c], FALSE, "keep", "done")
    /\ UNCHANGED <<store, redeemed, offered>>

Tick ==
    /\ now < MaxTime
    /\ now' = now + 1
    /\ UNCHANGED <<env, browser, store, redeemed, offered, request, used>>

Next ==
    \/ \E a \in Attempts :
          \/ Login(a) \/ Redirect(a) \/ Callback(a) \/ ExchangeFails(a)
          \/ ExchangeSucceeds(a) \/ Rotate(a) \/ Create(a) \/ Mirror(a)
    \/ \E l \in Logouts :
          Logout(l) \/ CheckCsrf(l) \/ Lookup(l) \/ RevokeToken(l) \/ Revoke(l)
    \/ \E c \in Calls : Call(c) \/ ReadSession(c) \/ Forward(c)
    \/ \E r \in Requests : Deliver(r) \/ Lose(r)
    \/ Tick

Spec == Init /\ [][Next]_vars
-----------------------------------------------------------------------------
(* The variables hold values of their types. *)
TypeOK ==
    /\ env \in Environments
    /\ now \in 0 .. MaxTime
    /\ jar \in Cookie /\ csrf \in Ids
    /\ store \in [Attempts -> 0 .. (MaxTime + SESSION_MAX_AGE)]
    /\ redeemed \subseteq Attempts /\ offered \subseteq Attempts
    /\ pc \in [Requests -> Stage]
    /\ sess \in [Requests -> Cookie]
    /\ echo \in [Requests \ Attempts -> Ids]
    /\ reply \in [Requests -> [set : BOOLEAN, token : Attempts \cup {"keep", "clear"},
                               then : Resting]]
    /\ sent \in [Requests -> Ids]
    /\ validAt \in [Calls -> SUBSET Attempts]
    /\ used \in [Calls -> Ids]

(* session_store.py: a session that was logged out, rotated away or had    *)
(* expired when a request was sent is never used for that request, whatever *)
(* cookie a late response has put back into the browser.                   *)
UsedSessionWasValid == \A c \in Calls : used[c] # None => used[c] \in validAt[c]

(* auth_routes.py, login and auth_callback: the verifier and the nonce of  *)
(* any copy of the dictionary belong to the same attempt, so the nonce     *)
(* check never refuses a login whose verifier Auth0 has accepted.          *)
VerifierAndNonceTogether ==
    \A cookie \in {jar} \cup {sess[r] : r \in Requests} : cookie.verifier = cookie.nonce

(* _perform_logout: a session is deleted by a logout only after its access *)
(* token was offered to Auth0 for revocation, also when two logouts, a     *)
(* login and the clock race.                                               *)
LogoutRevokesTokenFirst ==
    [][\A l \in Logouts :
          LET sid == sess[l].sid IN
          (pc[l] = "revoke" /\ pc'[l] # "revoke" /\ sid # None) =>
              (store[sid] > now /\ store'[sid] = 0 => sid \in offered)]_vars

(* A session in the store that is not the browser's and not about to be.   *)
Orphan(s) ==
    /\ store[s] > now
    /\ jar.sid # s
    /\ pc[s] # "mirror"
    /\ ~(pc[s] = "reply" /\ reply[s].set /\ sess[s].sid = s)

(* auth_callback and _perform_logout: "rotate any previously issued        *)
(* server-side session so a stale cookie cannot keep an orphaned session   *)
(* alive".  A session that is alive gets out of the browser's reach in     *)
(* three ways only: its callback raises once it has been created; a store  *)
(* call fails or the callback's response is lost; or, with racing tabs, a  *)
(* response arrives whose request was sent without this session.  No login *)
(* or logout loses the session it was sent with.                           *)
OrphansHaveACause ==
    [][\A s \in Attempts : ~Orphan(s) /\ Orphan(s)' =>
          \/ pc[s] = "create" /\ pc'[s] = "reply"
          \/ env.faults /\ pc[s] \in {"mirror", "reply"} /\ pc'[s] # pc[s]
          \/ env.tabs /\ \E r \in Requests :
                pc[r] = "reply" /\ pc'[r] # "reply" /\ sent[r] # s]_vars

(* csrf.py: "mirrors it in a csrf_token cookie".  With one request in      *)
(* flight at a time the csrf_token cookie is the token of the browser's    *)
(* session whenever that session is alive, even when store calls fail and  *)
(* responses get lost, so the SPA is never locked out of POST.             *)
CsrfMirrorsSession ==
    (~env.tabs /\ jar.sid # None) => (store[jar.sid] > now => csrf = jar.sid)

(* session_store.py, auth_routes.py: however the requests of one browser   *)
(* overlap, no dead session is used and no login mixes two attempts.       *)
LoginStateSound == TypeOK /\ UsedSessionWasValid /\ VerifierAndNonceTogether
=============================================================================
