-------------------------- MODULE SessionFlowProofs -------------------------
(***************************************************************************)
(* Proofs about SessionFlow for every set of login attempts, logouts and   *)
(* calls, every session lifetime and every environment.                    *)
(***************************************************************************)
EXTENDS SessionFlow, TLAPS

(* A logout that revokes an access token has the session it is from. *)
TokenHasSession == \A l \in Logouts : pc[l] = "revokeToken" => sess[l].sid # None

Typed == TypeOK /\ TokenHasSession

-----------------------------------------------------------------------------
(* Type correctness.                                                       *)

(* The shapes of a step of one request keep its types. *)
LEMMA StepTypes ==
    ASSUME TypeOK, NEW r \in Requests, NEW stage \in Stage, NEW cookie \in Cookie,
           Step(r, stage, cookie)
    PROVE  /\ pc' \in [Requests -> Stage] /\ sess' \in [Requests -> Cookie]
           /\ env' = env /\ now' = now /\ jar' = jar /\ csrf' = csrf
           /\ echo' = echo /\ reply' = reply /\ sent' = sent /\ validAt' = validAt
BY DEF TypeOK, Step, browser

(* A request that is sent carries the cookies of the browser.              *)
LEMMA SentTypes ==
    ASSUME TypeOK, NEW r \in Requests, NEW stage \in Stage, NEW cookie \in Cookie,
           Sent(r, stage, cookie), reply' \in [Requests -> [set : BOOLEAN,
               token : Attempts \cup {"keep", "clear"}, then : Resting]]
    PROVE  TypeOK'
<1>1. pc' \in [Requests -> Stage] /\ sess' \in [Requests -> Cookie]
  BY DEF TypeOK, Sent
<1>2. echo' \in [Requests \ Attempts -> Ids] /\ validAt' \in [Calls -> SUBSET Attempts]
      /\ sent' \in [Requests -> Ids]
  BY DEF TypeOK, Sent, Cookie
<1> QED BY <1>1, <1>2 DEF TypeOK, Sent, browser

(* A response keeps the types.                                             *)
LEMMA ReturnTypes ==
    ASSUME TypeOK, NEW r \in Requests, NEW cookie \in Cookie, NEW modified \in BOOLEAN,
           NEW token \in Attempts \cup {"keep", "clear"}, NEW then \in Resting,
           Return(r, cookie, modified, token, then)
    PROVE  /\ pc' \in [Requests -> Stage] /\ sess' \in [Requests -> Cookie]
           /\ reply' \in [Requests -> [set : BOOLEAN,
                             token : Attempts \cup {"keep", "clear"}, then : Resting]]
           /\ env' = env /\ now' = now /\ jar' = jar /\ csrf' = csrf
           /\ echo' = echo /\ sent' = sent /\ validAt' = validAt
BY DEF TypeOK, Return, browser, Stage

(* A store call that raises keeps the types.                               *)
LEMMA StoreRaisesTypes ==
    ASSUME TypeOK, NEW r \in Requests,
           NEW effect \in [Attempts -> 0 .. (MaxTime + SESSION_MAX_AGE)],
           StoreRaises(r, effect)
    PROVE  TypeOK'
<1>1. sess[r] \in Cookie
  BY DEF TypeOK
<1>2. Return(r, sess[r], FALSE, "keep", "done")
  BY DEF StoreRaises
<1>3. "done" \in Resting
  BY DEF Resting
<1> QED BY <1>1, <1>2, <1>3, ReturnTypes DEF TypeOK, StoreRaises

(* The values the store takes. *)
LEMMA StoreTypes ==
    ASSUME TypeOK, NEW s \in Ids
    PROVE  /\ Without(s) \in [Attempts -> 0 .. (MaxTime + SESSION_MAX_AGE)]
           /\ AfterGet(s) \in [Attempts -> 0 .. (MaxTime + SESSION_MAX_AGE)]
           /\ Live(s) \in BOOLEAN
           /\ Live(s) => s \in Attempts
BY SessionAssumption DEF TypeOK, With, Without, AfterGet, Live, Ids

(* A browser without cookies and an empty store.                           *)
LEMMA TypedInit == Init => Typed
BY SessionAssumption DEF Init, Typed, TypeOK, TokenHasSession, Empty, Cookie, Ids, NoReply,
    Resting, Stage, Requests

(* Every handler keeps the types.                                          *)
LEMMA TypedStep ==
    ASSUME Typed, [Next]_vars
    PROVE  Typed'
<1> USE DEF Typed
<1>1. Empty \in Cookie /\ jar \in Cookie /\ \A r \in Requests : sess[r] \in Cookie
  BY DEF TypeOK, Empty, Cookie, Ids
<1>2. \A s \in {"redirecting", "exchange", "rotate", "create", "mirror", "check", "lookup",
                "revokeToken", "revoke", "read", "forward", "reply"} : s \in Stage
  BY DEF Stage
<1>3. "new" \in Resting /\ "done" \in Resting /\ "atAuth0" \in Resting
  BY DEF Resting
<1>4. Attempts \subseteq Requests /\ Logouts \subseteq Requests /\ Calls \subseteq Requests
  BY DEF Requests
<1>5. ASSUME NEW a \in Attempts, Login(a) PROVE TypeOK'
  <2>1. [jar EXCEPT !.verifier = a, !.nonce = a] \in Cookie
    BY <1>1 DEF Cookie, Ids
  <2> QED BY <1>2, <1>4, <1>5, <2>1, SentTypes DEF Login, TypeOK
<1>6. ASSUME NEW a \in Attempts, Redirect(a) PROVE TypeOK'
  <2>1. [sess[a] EXCEPT !.states = @ \cup {a}] \in Cookie
    BY <1>1, <1>4 DEF Cookie, Ids
  <2> QED BY <1>1, <1>3, <1>4, <1>6, <2>1, ReturnTypes DEF Redirect, TypeOK
<1>7. ASSUME NEW a \in Attempts, Callback(a) PROVE TypeOK'
  <2>1. [jar EXCEPT !.states = @ \ {a}] \in Cookie
    BY <1>1 DEF Cookie, Ids
  <2>2. [NoReply EXCEPT !.then = "done"] \in
            [set : BOOLEAN, token : Attempts \cup {"keep", "clear"}, then : Resting]
    BY <1>3 DEF NoReply
  <2>3. CASE a \in jar.states
    BY <1>2, <1>4, <1>7, <2>1, <2>3, SentTypes DEF Callback, TypeOK
  <2>4. CASE a \notin jar.states
    <3>1. Sent(a, "reply", jar)
      BY <1>7, <2>4 DEF Callback
    <3>2. reply' \in [Requests -> [set : BOOLEAN,
              token : Attempts \cup {"keep", "clear"}, then : Resting]]
      BY <1>4, <1>7, <2>2, <2>4 DEF Callback, TypeOK
    <3> QED BY <1>1, <1>2, <1>4, <3>1, <3>2, SentTypes
  <2> QED BY <2>3, <2>4
<1>8. ASSUME NEW a \in Attempts, ExchangeFails(a) PROVE TypeOK'
  BY <1>1, <1>3, <1>4, <1>8, ReturnTypes DEF ExchangeFails, TypeOK
<1>9. ASSUME NEW a \in Attempts, ExchangeSucceeds(a) PROVE TypeOK'
  <2> DEFINE popped == [sess[a] EXCEPT !.verifier = None, !.nonce = None]
  <2>1. popped \in Cookie
    BY <1>1, <1>4 DEF Cookie, Ids
  <2> HIDE DEF popped
  <2>2. CASE Return(a, popped, TRUE, "keep", "done")
    BY <1>3, <1>4, <1>9, <2>1, <2>2, ReturnTypes DEF ExchangeSucceeds, TypeOK
  <2>3. CASE Step(a, "rotate", popped) /\ UNCHANGED reply
    BY <1>2, <1>4, <1>9, <2>1, <2>3, StepTypes DEF ExchangeSucceeds, TypeOK
  <2>4. CASE Step(a, "create", Empty) /\ UNCHANGED reply
    BY <1>1, <1>2, <1>4, <1>9, <2>4, StepTypes DEF ExchangeSucceeds, TypeOK
  <2> QED BY <1>9, <2>2, <2>3, <2>4 DEF ExchangeSucceeds, popped
<1>10. ASSUME NEW a \in Attempts, Rotate(a) PROVE TypeOK'
  <2>1. sess[a].sid \in Ids
    BY <1>1, <1>4 DEF Cookie
  <2> QED BY <1>1, <1>2, <1>4, <1>10, <2>1, StoreTypes, StoreRaisesTypes, StepTypes
          DEF Rotate, TypeOK
<1>11. ASSUME NEW a \in Attempts, Create(a) PROVE TypeOK'
  <2>1. [Empty EXCEPT !.sid = a] \in Cookie
    BY <1>1 DEF Cookie, Ids
  <2>2. [store EXCEPT ![a] = now + SESSION_MAX_AGE]
            \in [Attempts -> 0 .. (MaxTime + SESSION_MAX_AGE)]
    BY SessionAssumption DEF TypeOK
  <2>3. CASE StoreRaises(a, With(a))
    BY <1>4, <2>2, <2>3, StoreRaisesTypes DEF With
  <2>4. CASE store' = With(a) /\ Step(a, "mirror", [Empty EXCEPT !.sid = a])
             /\ UNCHANGED <<redeemed, offered, used>>
    BY <1>2, <1>4, <2>1, <2>2, <2>4, StepTypes DEF With, TypeOK
  <2>5. CASE store' = With(a) /\ Return(a, [Empty EXCEPT !.sid = a], FALSE, "keep", "done")
             /\ UNCHANGED <<redeemed, offered, used>>
    BY <1>3, <1>4, <2>1, <2>2, <2>5, ReturnTypes DEF With, TypeOK
  <2> QED BY <1>11, <2>3, <2>4, <2>5 DEF Create
<1>12. ASSUME NEW a \in Attempts, Mirror(a) PROVE TypeOK'
  <2>1. a \in Ids
    BY DEF Ids
  <2>2. (IF Live(a) THEN a ELSE "keep") \in Attempts \cup {"keep", "clear"}
    OBVIOUS
  <2> QED BY <1>1, <1>3, <1>4, <1>12, <2>1, <2>2, StoreTypes, StoreRaisesTypes, ReturnTypes
          DEF Mirror, TypeOK
<1>13. ASSUME NEW l \in Logouts, Logout(l) PROVE TypeOK'
  BY <1>1, <1>2, <1>4, <1>13, SentTypes DEF Logout, TypeOK
<1>14. ASSUME NEW l \in Logouts PROVE sess[l].sid \in Ids
  BY <1>1, <1>4 DEF Cookie
<1>15. ASSUME NEW l \in Logouts, CheckCsrf(l) PROVE TypeOK'
  <2>1. CASE StoreRaises(l, AfterGet(sess[l].sid))
    BY <1>4, <1>14, <2>1, StoreTypes, StoreRaisesTypes
  <2>2. CASE store' = AfterGet(sess[l].sid) /\ Return(l, sess[l], FALSE, "keep", "done")
             /\ UNCHANGED <<redeemed, offered, used>>
    BY <1>1, <1>3, <1>4, <1>14, <2>2, StoreTypes, ReturnTypes DEF TypeOK
  <2>3. CASE store' = AfterGet(sess[l].sid) /\ Step(l, "lookup", sess[l]) /\ UNCHANGED reply
             /\ UNCHANGED <<redeemed, offered, used>>
    BY <1>1, <1>2, <1>4, <1>14, <2>3, StoreTypes, StepTypes DEF TypeOK
  <2> QED BY <1>15, <2>1, <2>2, <2>3 DEF CheckCsrf
<1>16. ASSUME NEW l \in Logouts, Lookup(l) PROVE TypeOK'
  <2>1. CASE StoreRaises(l, AfterGet(sess[l].sid))
    BY <1>4, <1>14, <2>1, StoreTypes, StoreRaisesTypes
  <2>2. CASE store' = AfterGet(sess[l].sid)
             /\ Step(l, IF Live(sess[l].sid) THEN "revokeToken" ELSE "revoke", sess[l])
             /\ UNCHANGED <<reply, redeemed, offered, used>>
    BY <1>1, <1>2, <1>4, <1>14, <2>2, StoreTypes, StepTypes DEF TypeOK
  <2> QED BY <1>16, <2>1, <2>2 DEF Lookup
<1>17. ASSUME NEW l \in Logouts, RevokeToken(l) PROVE TypeOK'
  <2>1. sess[l].sid \in Attempts
    BY <1>14, <1>17 DEF RevokeToken, TokenHasSession, Ids
  <2> QED BY <1>1, <1>2, <1>4, <1>17, <2>1, StepTypes DEF RevokeToken, TypeOK
<1>18. ASSUME NEW l \in Logouts, Revoke(l) PROVE TypeOK'
  <2>1. CASE StoreRaises(l, Without(sess[l].sid))
    BY <1>4, <1>14, <2>1, StoreTypes, StoreRaisesTypes
  <2>2. CASE store' = Without(sess[l].sid) /\ Return(l, Empty, TRUE, "clear", "done")
             /\ UNCHANGED <<redeemed, offered, used>>
    BY <1>1, <1>3, <1>4, <1>14, <2>2, StoreTypes, ReturnTypes DEF TypeOK
  <2> QED BY <1>18, <2>1, <2>2 DEF Revoke
<1>19. ASSUME NEW c \in Calls, Call(c) PROVE TypeOK'
  BY <1>1, <1>2, <1>4, <1>19, SentTypes DEF Call, TypeOK
<1>20. ASSUME NEW c \in Calls, ReadSession(c) PROVE TypeOK'
  <2>1. sess[c].sid \in Ids /\ None \in Ids
    BY <1>1, <1>4 DEF Cookie, Ids
  <2>2. CASE StoreRaises(c, AfterGet(sess[c].sid))
    BY <1>4, <2>1, <2>2, StoreTypes, StoreRaisesTypes
  <2>3. CASE /\ store' = AfterGet(sess[c].sid) /\ Return(c, sess[c], FALSE, "keep", "done")
             /\ used' = [used EXCEPT ![c] = IF Live(sess[c].sid) THEN sess[c].sid ELSE None]
                 \/ UNCHANGED used
             /\ UNCHANGED <<redeemed, offered>>
    BY <1>1, <1>3, <1>4, <2>1, <2>3, StoreTypes, ReturnTypes DEF TypeOK
  <2>4. CASE /\ store' = AfterGet(sess[c].sid) /\ Step(c, "forward", sess[c])
             /\ UNCHANGED <<reply, redeemed, offered, used>>
    BY <1>1, <1>2, <1>4, <2>1, <2>4, StoreTypes, StepTypes DEF TypeOK
  <2> QED BY <1>20, <2>2, <2>3, <2>4 DEF ReadSession
<1>21. ASSUME NEW c \in Calls, Forward(c) PROVE TypeOK'
  <2>1. sess[c].sid \in Ids
    BY <1>1, <1>4 DEF Cookie
  <2> QED BY <1>1, <1>3, <1>4, <1>21, <2>1, ReturnTypes DEF Forward, TypeOK
<1>22. ASSUME NEW r \in Requests, Finished(r, reply[r].then) \/ Finished(r, "done"),
              jar' \in Cookie, csrf' \in Ids, UNCHANGED <<env, now, store, redeemed, offered>>
       PROVE  TypeOK'
  <2>1. reply[r].then \in Stage /\ "done" \in Stage
    BY DEF TypeOK, Stage, Resting
  <2>2. NoReply \in [set : BOOLEAN, token : Attempts \cup {"keep", "clear"}, then : Resting]
    BY <1>3 DEF NoReply
  <2>3. pc' \in [Requests -> Stage] /\ sess' \in [Requests -> Cookie]
    BY <1>1, <1>22, <2>1, SMTT(30) DEF Finished, TypeOK
  <2>4. reply' \in [Requests -> [set : BOOLEAN,
            token : Attempts \cup {"keep", "clear"}, then : Resting]]
    BY <1>22, <2>2 DEF Finished, TypeOK
  <2>5. echo' \in [Requests \ Attempts -> Ids] /\ validAt' \in [Calls -> SUBSET Attempts]
        /\ used' \in [Calls -> Ids] /\ sent' \in [Requests -> Ids]
    BY <1>22 DEF Finished, TypeOK, Ids
  <2> QED BY <1>22, <2>3, <2>4, <2>5 DEF TypeOK
<1>23. ASSUME NEW r \in Requests, Deliver(r) PROVE TypeOK'
  <2>1. jar' \in Cookie
    BY <1>1, <1>23 DEF Deliver
  <2>2. csrf' \in Ids
    BY <1>23 DEF Deliver, TypeOK, Ids
  <2> QED BY <1>22, <1>23, <2>1, <2>2 DEF Deliver
<1>24. ASSUME NEW r \in Requests, Lose(r) PROVE TypeOK'
  BY <1>1, <1>22, <1>24 DEF Lose, browser, TypeOK
<1>25. ASSUME Tick PROVE TypeOK'
  BY <1>25, SessionAssumption DEF Tick, TypeOK, browser, request
<1>26. ASSUME UNCHANGED vars PROVE TypeOK'
  BY <1>26 DEF vars, TypeOK
<1>27. TypeOK'
  BY <1>5, <1>6, <1>7, <1>8, <1>9, <1>10, <1>11, <1>12, <1>13, <1>15, <1>16, <1>17, <1>18,
     <1>19, <1>20, <1>21, <1>23, <1>24, <1>25, <1>26 DEF Next
<1>28. TokenHasSession'
  <2> SUFFICES ASSUME NEW l \in Logouts, pc'[l] = "revokeToken" PROVE sess'[l].sid # None
    BY DEF TokenHasSession
  <2>1. pc[l] = "revokeToken" => sess[l].sid # None
    BY DEF TokenHasSession
  <2>2. l \in Requests /\ l \notin Attempts /\ l \notin Calls
    BY SessionAssumption, <1>4
  <2>3. pc \in [Requests -> Stage] /\ sess \in [Requests -> Cookie] /\ reply[l].then # "revokeToken"
    BY <2>2 DEF TypeOK, Resting
  <2> HIDE DEF Typed
  <2>4. CASE \E a \in Attempts : Login(a) \/ Redirect(a) \/ Callback(a) \/ ExchangeFails(a)
                \/ ExchangeSucceeds(a) \/ Rotate(a) \/ Create(a) \/ Mirror(a)
    BY <2>1, <2>2, <2>3, <2>4 DEF Login, Redirect, Callback, ExchangeFails, ExchangeSucceeds,
       Rotate, Create, Mirror, Sent, Step, Return, StoreRaises
  <2>5. CASE \E k \in Logouts : Logout(k) \/ CheckCsrf(k) \/ Lookup(k) \/ RevokeToken(k)
                \/ Revoke(k)
    BY <1>4, <2>1, <2>2, <2>3, <2>5 DEF Logout, CheckCsrf, Lookup, RevokeToken, Revoke, Sent,
       Step, Return, StoreRaises, Live
  <2>6. CASE \E c \in Calls : Call(c) \/ ReadSession(c) \/ Forward(c)
    BY <2>1, <2>2, <2>3, <2>6 DEF Call, ReadSession, Forward, Sent, Step, Return, StoreRaises
  <2>7. CASE \E r \in Requests : Deliver(r) \/ Lose(r)
    BY <2>1, <2>2, <2>3, <2>7 DEF Deliver, Lose, Finished
  <2>8. CASE Tick \/ UNCHANGED vars
    BY <2>1, <2>8 DEF Tick, request, vars
  <2> QED BY <2>4, <2>5, <2>6, <2>7, <2>8 DEF Next
<1> QED BY <1>27, <1>28
-----------------------------------------------------------------------------
(* No dead session is used.                                                *)

(* A session somebody holds was created by a login that is past creating   *)
(* it, so it can only leave the store.                                     *)
Known(s) == s # None => s \in redeemed /\ pc[s] \notin {"rotate", "create"}

HeldSessionsKnown ==
    Known(jar.sid) /\ \A r \in Requests : Known(sess[r].sid) /\ Known(sent[r])

(* A login gets to create_session once, with a code Auth0 has exchanged,   *)
(* and holds no session before it has created its own.                     *)
CreatedOnce ==
    \A a \in Attempts :
        /\ pc[a] \in {"rotate", "create", "mirror"} => a \in redeemed
        /\ pc[a] = "create" => sess[a].sid = None
        /\ pc[a] = "mirror" => sess[a].sid = a

(* A call that finds its session alive found it alive when it was sent. *)
ReadSound ==
    \A c \in Calls :
        LET s == sess[c].sid IN
        /\ pc[c] = "read" /\ s # None => (store[s] > now => s \in validAt[c])
        /\ pc[c] = "forward" => s # None /\ s \in validAt[c]
        /\ pc[c] # "reply" => used[c] = None

UseInv ==
    /\ Typed /\ HeldSessionsKnown /\ CreatedOnce /\ ReadSound
    /\ UsedSessionWasValid /\ VerifierAndNonceTogether

(* The types of what one request holds. *)
LEMMA Shapes ==
    ASSUME TypeOK
    PROVE  /\ pc \in [Requests -> Stage] /\ sess \in [Requests -> Cookie]
           /\ store \in [Attempts -> Nat] /\ now \in Nat
           /\ jar \in Cookie /\ jar.sid \in Ids
           /\ \A r \in Requests : sess[r].sid \in Ids /\ reply[r].then \in Resting
           /\ Attempts \subseteq Requests /\ Logouts \subseteq Requests
           /\ Calls \subseteq Requests
BY SessionAssumption DEF TypeOK, Requests, Cookie

(* A session id is created by its own callback only, once.                 *)
LEMMA CreatedOnceStep ==
    ASSUME Typed, CreatedOnce, [Next]_vars
    PROVE  CreatedOnce'
<1> USE DEF CreatedOnce
<1>0. pc \in [Requests -> Stage] /\ sess \in [Requests -> Cookie]
      /\ Attempts \subseteq Requests /\ Logouts \subseteq Requests /\ Calls \subseteq Requests
      /\ \A r \in Requests : reply[r].then \in Resting
  BY Shapes DEF Typed
<1>1. CASE \E a \in Attempts : Login(a) \/ Redirect(a) \/ Callback(a) \/ ExchangeFails(a)
                \/ ExchangeSucceeds(a) \/ Rotate(a) \/ Create(a) \/ Mirror(a)
  BY SessionAssumption, <1>0, <1>1 DEF Login, Redirect, Callback, ExchangeFails, ExchangeSucceeds,
       Rotate, Create, Mirror, Sent, Step, Return, StoreRaises, browser, Empty, Resting
<1>2. CASE \E l \in Logouts : Logout(l) \/ CheckCsrf(l) \/ Lookup(l) \/ RevokeToken(l)
                \/ Revoke(l)
  BY SessionAssumption, <1>0, <1>2 DEF Logout, CheckCsrf, Lookup, RevokeToken, Revoke, Sent, Step, Return,
     StoreRaises, browser, Empty, Resting
<1>3. CASE \E c \in Calls : Call(c) \/ ReadSession(c) \/ Forward(c)
  BY SessionAssumption, <1>0, <1>3 DEF Call, ReadSession, Forward, Sent, Step, Return, StoreRaises, browser, Empty, Resting
<1>4. CASE \E r \in Requests : Deliver(r) \/ Lose(r)
  BY SessionAssumption, <1>0, <1>4 DEF Deliver, Lose, Finished, browser, Empty, Resting
<1>5. CASE Tick \/ UNCHANGED vars
  BY SessionAssumption, <1>0, <1>5 DEF Tick, browser, request, vars, Empty, Resting
<1> QED BY <1>1, <1>2, <1>3, <1>4, <1>5 DEF Next

(* A session that is past its creation stays so. *)
LEMMA KnownStays ==
    ASSUME Typed, CreatedOnce, [Next]_vars, NEW s \in Ids, Known(s)
    PROVE  Known(s)'
<1> USE DEF CreatedOnce, Known
<1>0. pc \in [Requests -> Stage]
      /\ Attempts \subseteq Requests /\ Logouts \subseteq Requests /\ Calls \subseteq Requests
      /\ \A r \in Requests : reply[r].then \in Resting
  BY Shapes DEF Typed
<1>1. CASE \E a \in Attempts : Login(a) \/ Redirect(a) \/ Callback(a) \/ ExchangeFails(a)
                \/ ExchangeSucceeds(a) \/ Rotate(a) \/ Create(a) \/ Mirror(a)
  BY SessionAssumption, <1>0, <1>1 DEF Login, Redirect, Callback, ExchangeFails, ExchangeSucceeds,
       Rotate, Create, Mirror, Sent, Step, Return, StoreRaises, browser, Resting, Ids
<1>2. CASE \E l \in Logouts : Logout(l) \/ CheckCsrf(l) \/ Lookup(l) \/ RevokeToken(l)
                \/ Revoke(l)
  BY SessionAssumption, <1>0, <1>2 DEF Logout, CheckCsrf, Lookup, RevokeToken, Revoke, Sent, Step, Return,
     StoreRaises, browser, Resting, Ids
<1>3. CASE \E c \in Calls : Call(c) \/ ReadSession(c) \/ Forward(c)
  BY SessionAssumption, <1>0, <1>3 DEF Call, ReadSession, Forward, Sent, Step, Return, StoreRaises, browser, Resting, Ids
<1>4. CASE \E r \in Requests : Deliver(r) \/ Lose(r)
  BY SessionAssumption, <1>0, <1>4 DEF Deliver, Lose, Finished, browser, Resting, Ids
<1>5. CASE Tick \/ UNCHANGED vars
  BY SessionAssumption, <1>0, <1>5 DEF Tick, browser, request, vars, Resting, Ids
<1> QED BY <1>1, <1>2, <1>3, <1>4, <1>5 DEF Next

(* What the handlers of a login change in the dictionary. *)
LEMMA CookieEdits ==
    ASSUME NEW c \in Cookie, NEW a
    PROVE  /\ LET d == [c EXCEPT !.verifier = a, !.nonce = a]
              IN  d.sid = c.sid /\ d.verifier = d.nonce
           /\ LET d == [c EXCEPT !.states = @ \cup {a}]
              IN  d.sid = c.sid /\ d.verifier = c.verifier /\ d.nonce = c.nonce
           /\ LET d == [c EXCEPT !.states = @ \ {a}]
              IN  d.sid = c.sid /\ d.verifier = c.verifier /\ d.nonce = c.nonce
           /\ LET d == [c EXCEPT !.verifier = None, !.nonce = None]
              IN  d.sid = c.sid /\ d.verifier = d.nonce
BY DEF Cookie

(* Which edits of a session dictionary leave its session id alone.         *)
LEMMA EditsKeepSession ==
    ASSUME TypeOK, NEW a \in Attempts
    PROVE  /\ [jar EXCEPT !.verifier = a, !.nonce = a].sid = jar.sid
           /\ [jar EXCEPT !.states = @ \ {a}].sid = jar.sid
           /\ [sess[a] EXCEPT !.states = @ \cup {a}].sid = sess[a].sid
           /\ [sess[a] EXCEPT !.verifier = None, !.nonce = None].sid = sess[a].sid
           /\ Empty.sid = None /\ [Empty EXCEPT !.sid = a].sid = a
<1>1. jar \in Cookie /\ sess[a] \in Cookie
  BY Shapes
<1> QED BY <1>1, CookieEdits DEF Empty

(* A request gets its session from the browser or creates it. *)
LEMMA SessionsComeFrom ==
    ASSUME Typed, [Next]_vars
    PROVE  /\ jar'.sid \in {jar.sid} \cup {sess[r].sid : r \in Requests}
           /\ \A r \in Requests :
                 \/ sess'[r].sid \in {sess[r].sid, jar.sid, None}
                 \/ /\ r \in Attempts /\ pc[r] = "create" /\ pc'[r] \in {"mirror", "reply"}
                    /\ sess'[r].sid = r
<1>0. jar \in Cookie /\ pc \in [Requests -> Stage] /\ sess \in [Requests -> Cookie]
      /\ Attempts \subseteq Requests /\ Logouts \subseteq Requests /\ Calls \subseteq Requests
  BY Shapes DEF Typed
<1>1. ASSUME NEW a \in Attempts
      PROVE  /\ [jar EXCEPT !.verifier = a, !.nonce = a].sid = jar.sid
             /\ [jar EXCEPT !.states = @ \ {a}].sid = jar.sid
             /\ [sess[a] EXCEPT !.states = @ \cup {a}].sid = sess[a].sid
             /\ [sess[a] EXCEPT !.verifier = None, !.nonce = None].sid = sess[a].sid
             /\ Empty.sid = None /\ [Empty EXCEPT !.sid = a].sid = a
  BY EditsKeepSession DEF Typed
<1>2. ASSUME NEW a \in Attempts, Login(a) \/ Redirect(a) \/ Callback(a) \/ ExchangeFails(a)
      PROVE  /\ jar' = jar
             /\ \A r \in Requests : sess'[r].sid \in {sess[r].sid, jar.sid}
  <2>1. CASE Login(a) \/ Callback(a)
    <3>1. PICK cookie : cookie.sid = jar.sid /\ sess' = [sess EXCEPT ![a] = cookie] /\ jar' = jar
      BY <1>1, <2>1 DEF Login, Callback, Sent, browser
    <3> QED BY <1>0, <3>1
  <2>2. CASE Redirect(a) \/ ExchangeFails(a)
    <3>1. /\ jar' = jar
          /\ \/ sess' = [sess EXCEPT ![a] = sess[a]]
             \/ sess' = [sess EXCEPT ![a] = [sess[a] EXCEPT !.states = @ \cup {a}]]
      BY <2>2 DEF Redirect, ExchangeFails, Return, browser
    <3>2. PICK cookie : cookie.sid = sess[a].sid /\ sess' = [sess EXCEPT ![a] = cookie]
      BY <1>1, <3>1
    <3> QED BY <1>0, <3>1, <3>2
  <2> QED BY <1>2, <2>1, <2>2
<1>3. ASSUME NEW a \in Attempts, ExchangeSucceeds(a) \/ Rotate(a) \/ Create(a) \/ Mirror(a)
      PROVE  /\ jar' = jar
             /\ \A r \in Requests :
                 \/ sess'[r].sid \in {sess[r].sid, None}
                 \/ /\ r = a /\ pc[a] = "create" /\ pc'[a] \in {"mirror", "reply"}
                    /\ sess'[a].sid = a
  <2> DEFINE Popped == [sess[a] EXCEPT !.verifier = None, !.nonce = None]
  <2> DEFINE Created ==
               /\ pc[a] = "create"
               /\ \E stage \in {"mirror", "reply"} : pc' = [pc EXCEPT ![a] = stage]
               /\ sess' = [sess EXCEPT ![a] = [Empty EXCEPT !.sid = a]]
  <2>1. jar' = jar /\ (Created \/ \E cookie \in {sess[a], Popped, Empty} :
                            sess' = [sess EXCEPT ![a] = cookie])
    <3>1. CASE ExchangeSucceeds(a)
      BY <3>1 DEF ExchangeSucceeds, Step, Return, browser
    <3>2. CASE Rotate(a)
      BY <3>2 DEF Rotate, Step, Return, StoreRaises, browser
    <3>3. CASE Create(a)
      BY <3>3 DEF Create, Step, Return, StoreRaises, browser
    <3>4. CASE Mirror(a)
      BY <3>4 DEF Mirror, Return, StoreRaises, browser
    <3> QED BY <1>3, <3>1, <3>2, <3>3, <3>4
  <2>2. CASE Created
    BY <1>0, <1>1, <2>1, <2>2
  <2>3. CASE \E cookie \in {sess[a], Popped, Empty} : sess' = [sess EXCEPT ![a] = cookie]
    <3>1. PICK cookie \in {sess[a], Popped, Empty} : sess' = [sess EXCEPT ![a] = cookie]
      BY <2>3
    <3>2. cookie.sid \in {sess[a].sid, None}
      BY <1>1, <3>1
    <3> HIDE DEF Popped
    <3> QED BY <1>0, <2>1, <3>1, <3>2
  <2> QED BY <2>1, <2>2, <2>3
<1>4. CASE \E l \in Logouts : Logout(l) \/ CheckCsrf(l) \/ Lookup(l) \/ RevokeToken(l)
                \/ Revoke(l)
  BY <1>0, <1>4 DEF Logout, CheckCsrf, Lookup, RevokeToken, Revoke, Sent, Step, Return,
     StoreRaises, browser, Empty
<1>5. CASE \E c \in Calls : Call(c) \/ ReadSession(c) \/ Forward(c)
  BY <1>0, <1>5 DEF Call, ReadSession, Forward, Sent, Step, Return, StoreRaises, browser
<1>6. CASE \E r \in Requests : Deliver(r) \/ Lose(r)
  BY <1>0, <1>6 DEF Deliver, Lose, Finished, browser, Empty
<1>7. CASE Tick \/ UNCHANGED vars
  BY <1>7 DEF Tick, browser, request, vars
<1> QED BY <1>2, <1>3, <1>4, <1>5, <1>6, <1>7 DEF Next

(* A request is sent with the session of the browser. *)
LEMMA SentFrom ==
    ASSUME Typed, [Next]_vars, NEW r \in Requests
    PROVE  sent'[r] \in {sent[r], jar.sid, None}
<1>1. sent \in [Requests -> Ids]
  BY DEF Typed, TypeOK
<1>2. \/ sent' = sent
      \/ \E q \in Requests : \E s \in {jar.sid, None} : sent' = [sent EXCEPT ![q] = s]
  BY DEF Next, vars, Tick, request, Login, Redirect, Callback, ExchangeFails, ExchangeSucceeds,
     Rotate, Create, Mirror, Logout, CheckCsrf, Lookup, RevokeToken, Revoke, Call, ReadSession,
     Forward, Deliver, Lose, Sent, StoreRaises, Step, Return, Finished, Requests
<1> QED BY <1>1, <1>2

(* A code stays exchanged.                                                 *)
LEMMA RedeemedGrows == [Next]_vars => redeemed \subseteq redeemed'
BY DEF Next, vars, Tick, Login, Redirect, Callback, ExchangeFails, ExchangeSucceeds, Rotate,
     Create, Mirror, Logout, CheckCsrf, Lookup, RevokeToken, Revoke, Call, ReadSession,
     Forward, Deliver, Lose, Sent, StoreRaises

(* A session id in a cookie, request or response was created before.       *)
LEMMA HeldSessionsKnownStep ==
    ASSUME Typed, CreatedOnce, HeldSessionsKnown, [Next]_vars
    PROVE  HeldSessionsKnown'
<1>1. jar.sid \in Ids /\ None \in Ids /\ \A r \in Requests : sess[r].sid \in Ids
  BY Shapes DEF Typed, Ids
<1>2. \A s \in Ids : Known(s) => Known(s)'
  BY KnownStays
<1>3. Known(None)
  BY DEF Known
<1>4. Known(jar.sid)'
  BY <1>1, <1>2, SessionsComeFrom DEF HeldSessionsKnown, Known
<1>5. ASSUME NEW r \in Requests PROVE Known(sess[r].sid)'
  <2>1. CASE sess'[r].sid \in {sess[r].sid, jar.sid, None}
    BY <1>1, <1>2, <1>3, <2>1 DEF HeldSessionsKnown, Known
  <2>2. CASE /\ r \in Attempts /\ pc[r] = "create" /\ pc'[r] \in {"mirror", "reply"}
             /\ sess'[r].sid = r
    <3>1. r \in redeemed /\ redeemed \subseteq redeemed'
      BY <2>2, RedeemedGrows DEF CreatedOnce
    <3> QED BY <2>2, <3>1 DEF Known
  <2> QED BY <2>1, <2>2, SessionsComeFrom
<1>6. ASSUME NEW r \in Requests PROVE Known(sent[r])'
  <2>1. sent[r] \in Ids
    BY DEF Typed, TypeOK
  <2>2. sent'[r] \in {sent[r], jar.sid, None}
    BY SentFrom
  <2> QED BY <1>1, <1>2, <1>3, <2>1, <2>2 DEF HeldSessionsKnown, Known
<1> QED BY <1>4, <1>5, <1>6 DEF HeldSessionsKnown

(* A session in the store after a step was there before it, or was created *)
(* by the step.                                                            *)
LEMMA StoreShrinks ==
    ASSUME Typed, [Next]_vars, NEW s \in Attempts, store'[s] > now'
    PROVE  store[s] > now \/ (pc[s] = "create" /\ pc'[s] # "create")
<1>0. /\ store \in [Attempts -> Nat] /\ now \in Nat /\ pc \in [Requests -> Stage]
      /\ \A r \in Requests : sess[r].sid \in Ids
      /\ Attempts \subseteq Requests /\ Logouts \subseteq Requests /\ Calls \subseteq Requests
  BY Shapes DEF Typed
<1>1. CASE \E a \in Attempts : Login(a) \/ Redirect(a) \/ Callback(a) \/ ExchangeFails(a)
                \/ ExchangeSucceeds(a) \/ Rotate(a) \/ Create(a) \/ Mirror(a)
  BY <1>0, <1>1 DEF Login, Redirect, Callback, ExchangeFails, ExchangeSucceeds,
       Rotate, Create, Mirror, Sent, Step, Return, StoreRaises, browser, With, Without, AfterGet, Live, Ids
<1>2. CASE \E l \in Logouts : Logout(l) \/ CheckCsrf(l) \/ Lookup(l) \/ RevokeToken(l)
                \/ Revoke(l)
  BY <1>0, <1>2 DEF Logout, CheckCsrf, Lookup, RevokeToken, Revoke, Sent, Step, Return,
     StoreRaises, browser, With, Without, AfterGet, Live, Ids
<1>3. CASE \E c \in Calls : Call(c) \/ ReadSession(c) \/ Forward(c)
  BY <1>0, <1>3 DEF Call, ReadSession, Forward, Sent, Step, Return, StoreRaises, browser, With, Without, AfterGet, Live, Ids
<1>4. CASE \E r \in Requests : Deliver(r) \/ Lose(r)
  BY <1>0, <1>4 DEF Deliver, Lose, Finished, browser, With, Without, AfterGet, Live, Ids
<1>5. CASE Tick \/ UNCHANGED vars
  BY <1>0, <1>5 DEF Tick, browser, request, vars, With, Without, AfterGet, Live, Ids
<1> QED BY <1>1, <1>2, <1>3, <1>4, <1>5 DEF Next

(* A request changes nothing of another one. *)
Acts(r) ==
    \/ /\ r \in Attempts
       /\ \/ Login(r) \/ Redirect(r) \/ Callback(r) \/ ExchangeFails(r)
          \/ ExchangeSucceeds(r) \/ Rotate(r) \/ Create(r) \/ Mirror(r)
    \/ r \in Logouts /\ (Logout(r) \/ CheckCsrf(r) \/ Lookup(r) \/ RevokeToken(r) \/ Revoke(r))
    \/ r \in Calls /\ (Call(r) \/ ReadSession(r) \/ Forward(r))
    \/ Deliver(r) \/ Lose(r)

Untouched(r) ==
    /\ pc'[r] = pc[r] /\ sess'[r] = sess[r] /\ reply'[r] = reply[r] /\ sent'[r] = sent[r]
    /\ r \in Calls => validAt'[r] = validAt[r] /\ used'[r] = used[r]

(* A step is one of a given request, or leaves the request alone.          *)
LEMMA Frame ==
    ASSUME Typed, [Next]_vars, NEW q \in Requests
    PROVE  Acts(q) \/ Untouched(q)
<1> USE DEF Untouched, Acts
<1>0. pc \in [Requests -> Stage] /\ sess \in [Requests -> Cookie] /\ DOMAIN reply = Requests
      /\ DOMAIN sent = Requests /\ DOMAIN used = Calls
      /\ Attempts \subseteq Requests /\ Logouts \subseteq Requests /\ Calls \subseteq Requests
  BY Shapes DEF Typed, TypeOK
<1>1. CASE \E a \in Attempts : Login(a) \/ Redirect(a) \/ Callback(a) \/ ExchangeFails(a)
                \/ ExchangeSucceeds(a) \/ Rotate(a) \/ Create(a) \/ Mirror(a)
  <2>0. PICK a \in Attempts : Login(a) \/ Redirect(a) \/ Callback(a) \/ ExchangeFails(a)
                \/ ExchangeSucceeds(a) \/ Rotate(a) \/ Create(a) \/ Mirror(a)
    BY <1>1
  <2>1. CASE Login(a)
    BY <1>0, <2>1 DEF Login, Sent, Step, Return, StoreRaises,
       browser
  <2>2. CASE Callback(a)
    BY <1>0, <2>2 DEF Callback, Sent, Step, Return, StoreRaises,
       browser
  <2>3. CASE Redirect(a) \/ ExchangeFails(a)
    BY <1>0, <2>3 DEF Redirect, ExchangeFails, Sent, Step, Return, StoreRaises,
       browser
  <2>4. CASE ExchangeSucceeds(a)
    BY <1>0, <2>4 DEF ExchangeSucceeds, Sent, Step, Return, StoreRaises,
       browser
  <2>5. CASE Rotate(a) \/ Create(a) \/ Mirror(a)
    BY <1>0, <2>5 DEF Rotate, Create, Mirror, Sent, Step, Return, StoreRaises,
       browser
  <2> QED BY <2>0, <2>1, <2>2, <2>3, <2>4, <2>5
<1>2. CASE \E l \in Logouts : Logout(l) \/ CheckCsrf(l) \/ Lookup(l) \/ RevokeToken(l)
                \/ Revoke(l)
  BY <1>0, <1>2 DEF Logout, CheckCsrf, Lookup, RevokeToken, Revoke, Sent, Step, Return,
     StoreRaises, browser
<1>3. CASE \E c \in Calls : Call(c) \/ ReadSession(c) \/ Forward(c)
  BY <1>0, <1>3 DEF Call, ReadSession, Forward, Sent, Step, Return, StoreRaises, browser
<1>4. CASE \E r \in Requests : Deliver(r) \/ Lose(r)
  BY <1>0, <1>4 DEF Deliver, Lose, Finished, browser
<1>5. CASE Tick \/ UNCHANGED vars
  BY <1>0, <1>5 DEF Tick, browser, request, vars
<1> QED BY <1>1, <1>2, <1>3, <1>4, <1>5 DEF Next

(* A request that passed the session check read a session that was valid.  *)
LEMMA ReadSoundStep ==
    ASSUME Typed, HeldSessionsKnown, ReadSound, [Next]_vars
    PROVE  ReadSound'
<1> SUFFICES ASSUME NEW c \in Calls
             PROVE  LET s == sess'[c].sid IN
                    /\ pc'[c] = "read" /\ s # None => (store'[s] > now' => s \in validAt'[c])
                    /\ pc'[c] = "forward" => s # None /\ s \in validAt'[c]
                    /\ pc'[c] # "reply" => used'[c] = None
  BY DEF ReadSound
<1>1. /\ pc \in [Requests -> Stage] /\ sess \in [Requests -> Cookie]
      /\ validAt \in [Calls -> SUBSET Attempts] /\ used \in [Calls -> Ids]
      /\ store \in [Attempts -> Nat] /\ now \in Nat /\ jar.sid \in Ids
      /\ sess[c].sid \in Ids /\ reply[c].then \in Resting /\ c \in Requests
      /\ c \notin Attempts /\ c \notin Logouts
  BY Shapes, SessionAssumption DEF Typed, TypeOK
<1>2. /\ pc[c] = "read" /\ sess[c].sid # None =>
             (store[sess[c].sid] > now => sess[c].sid \in validAt[c])
      /\ pc[c] = "forward" => sess[c].sid # None /\ sess[c].sid \in validAt[c]
      /\ pc[c] # "reply" => used[c] = None
  BY DEF ReadSound
<1>3. CASE Untouched(c)
  <2>1. sess[c].sid # None => (store'[sess[c].sid] > now' => store[sess[c].sid] > now)
    BY <1>1, StoreShrinks DEF HeldSessionsKnown, Known, Ids
  <2> QED BY <1>2, <1>3, <2>1 DEF Untouched
<1>4. CASE Call(c)
  BY <1>1, <1>2, <1>4 DEF Call, Sent, Ids
<1>5. CASE ReadSession(c)
  BY <1>1, <1>2, <1>5 DEF ReadSession, Step, Return, StoreRaises, Live
<1>6. CASE Forward(c)
  BY <1>1, <1>6 DEF Forward, Return
<1>7. CASE Deliver(c) \/ Lose(c)
  BY <1>1, <1>7 DEF Deliver, Lose, Finished, Resting
<1> QED BY <1>1, <1>3, <1>4, <1>5, <1>6, <1>7, Frame DEF Acts

(* The history of used sessions grows by valid ones only.                  *)
LEMMA UsedSessionWasValidStep ==
    ASSUME Typed, ReadSound, UsedSessionWasValid, [Next]_vars
    PROVE  UsedSessionWasValid'
<1> USE DEF ReadSound, UsedSessionWasValid
<1>0. validAt \in [Calls -> SUBSET Attempts] /\ used \in [Calls -> Ids]
  BY DEF Typed, TypeOK
<1>1. CASE \E a \in Attempts : Login(a) \/ Redirect(a) \/ Callback(a) \/ ExchangeFails(a)
                \/ ExchangeSucceeds(a) \/ Rotate(a) \/ Create(a) \/ Mirror(a)
  BY SessionAssumption, <1>0, <1>1 DEF Login, Redirect, Callback, ExchangeFails, ExchangeSucceeds,
       Rotate, Create, Mirror, Sent, Step, Return, StoreRaises, browser, Live, Ids
<1>2. CASE \E l \in Logouts : Logout(l) \/ CheckCsrf(l) \/ Lookup(l) \/ RevokeToken(l)
                \/ Revoke(l)
  BY SessionAssumption, <1>0, <1>2 DEF Logout, CheckCsrf, Lookup, RevokeToken, Revoke, Sent, Step, Return,
     StoreRaises, browser, Live, Ids
<1>3. CASE \E c \in Calls : Call(c) \/ ReadSession(c) \/ Forward(c)
  BY SessionAssumption, <1>0, <1>3 DEF Call, ReadSession, Forward, Sent, Step, Return, StoreRaises, browser, Live, Ids
<1>4. CASE \E r \in Requests : Deliver(r) \/ Lose(r)
  BY SessionAssumption, <1>0, <1>4 DEF Deliver, Lose, Finished, browser, Live, Ids
<1>5. CASE Tick \/ UNCHANGED vars
  BY SessionAssumption, <1>0, <1>5 DEF Tick, browser, request, vars, Live, Ids
<1> QED BY <1>1, <1>2, <1>3, <1>4, <1>5 DEF Next

(* A login writes verifier and nonce together, and every copy is of both.  *)
LEMMA VerifierAndNonceTogetherStep ==
    ASSUME Typed, VerifierAndNonceTogether, [Next]_vars
    PROVE  VerifierAndNonceTogether'
<1> USE DEF VerifierAndNonceTogether
<1>0. jar \in Cookie /\ pc \in [Requests -> Stage] /\ sess \in [Requests -> Cookie]
      /\ Attempts \subseteq Requests /\ Logouts \subseteq Requests /\ Calls \subseteq Requests
  BY Shapes DEF Typed
<1>1. CASE \E a \in Attempts : Login(a) \/ Redirect(a) \/ Callback(a) \/ ExchangeFails(a)
                \/ ExchangeSucceeds(a) \/ Rotate(a) \/ Create(a) \/ Mirror(a)
  <2>0. PICK a \in Attempts : Login(a) \/ Redirect(a) \/ Callback(a) \/ ExchangeFails(a)
                \/ ExchangeSucceeds(a) \/ Rotate(a) \/ Create(a) \/ Mirror(a)
    BY <1>1
  <2>1. /\ LET d == [jar EXCEPT !.verifier = a, !.nonce = a] IN d.verifier = d.nonce
        /\ LET d == [jar EXCEPT !.states = @ \ {a}] IN d.verifier = d.nonce
        /\ LET d == [sess[a] EXCEPT !.states = @ \cup {a}] IN d.verifier = d.nonce
        /\ LET d == [sess[a] EXCEPT !.verifier = None, !.nonce = None] IN d.verifier = d.nonce
        /\ Empty.verifier = Empty.nonce /\ sess[a].verifier = sess[a].nonce
        /\ LET d == [Empty EXCEPT !.sid = a] IN d.verifier = d.nonce
    BY <1>0, CookieEdits DEF Empty
  <2>2. PICK cookie : cookie.verifier = cookie.nonce /\ sess' = [sess EXCEPT ![a] = cookie]
                      /\ jar' = jar
    <3>0. CASE Login(a)
      BY <2>1, <3>0 DEF Login, Sent, browser
    <3>1. CASE Callback(a)
      <4>1. Sent(a, "exchange", [jar EXCEPT !.states = @ \ {a}]) \/ Sent(a, "reply", jar)
        BY <3>1 DEF Callback
      <4> QED BY <2>1, <4>1 DEF Sent, browser
    <3>2. CASE Redirect(a)
      <4>1. \/ sess' = [sess EXCEPT ![a] = [sess[a] EXCEPT !.states = @ \cup {a}]]
            \/ sess' = [sess EXCEPT ![a] = sess[a]]
        BY <3>2 DEF Redirect, Return
      <4> QED BY <2>1, <3>2, <4>1 DEF Redirect, Return, browser
    <3>4. CASE ExchangeFails(a)
      BY <2>1, <3>4 DEF ExchangeFails, Return, browser
    <3>3. CASE ExchangeSucceeds(a) \/ Rotate(a) \/ Create(a) \/ Mirror(a)
      BY <1>0, <2>1, <3>3 DEF ExchangeSucceeds, Rotate, Create, Mirror, Step, Return,
         StoreRaises, browser
    <3> QED BY <2>0, <3>0, <3>1, <3>2, <3>3, <3>4
  <2> QED BY <1>0, <2>2
<1>2. CASE \E l \in Logouts : Logout(l) \/ CheckCsrf(l) \/ Lookup(l) \/ RevokeToken(l)
                \/ Revoke(l)
  BY <1>0, <1>2 DEF Logout, CheckCsrf, Lookup, RevokeToken, Revoke, Sent, Step, Return,
     StoreRaises, browser, Empty
<1>3. CASE \E c \in Calls : Call(c) \/ ReadSession(c) \/ Forward(c)
  BY <1>0, <1>3 DEF Call, ReadSession, Forward, Sent, Step, Return, StoreRaises, browser, Empty
<1>4. CASE \E r \in Requests : Deliver(r) \/ Lose(r)
  BY <1>0, <1>4 DEF Deliver, Lose, Finished, browser, Empty
<1>5. CASE Tick \/ UNCHANGED vars
  BY <1>0, <1>5 DEF Tick, browser, request, vars, Empty
<1> QED BY <1>1, <1>2, <1>3, <1>4, <1>5 DEF Next

(* No session exists and no request was sent.                              *)
LEMMA UseInvInit == Init => UseInv
BY TypedInit DEF Init, UseInv, Empty, HeldSessionsKnown, Known, CreatedOnce, ReadSound,
   UsedSessionWasValid, VerifierAndNonceTogether, Requests

(* The invariant behind the use of sessions is inductive.                  *)
LEMMA UseInvStep == UseInv /\ [Next]_vars => UseInv'
BY TypedStep, HeldSessionsKnownStep, CreatedOnceStep, ReadSoundStep, UsedSessionWasValidStep,
   VerifierAndNonceTogetherStep DEF UseInv

(* auth_routes.py, session_store.py, for any number of overlapping         *)
(* requests: a request is served only with a session that was valid when   *)
(* it was sent, and no copy of the dictionary mixes the verifier of one    *)
(* login attempt with the nonce of another.                                *)
THEOREM SessionsAreSound == Spec => []LoginStateSound
<1>1. UseInv => LoginStateSound
  BY DEF UseInv, LoginStateSound, Typed
<1> QED BY UseInvInit, UseInvStep, <1>1, PTL DEF Spec

-----------------------------------------------------------------------------
(* A logout offers the token of the session it deletes.                    *)

(* A logout that has not found its session alive does not find it alive    *)
(* later, and one that has found it alive offers the token first.          *)
RevokeSound ==
    \A l \in Logouts :
        LET s == sess[l].sid IN
        pc[l] = "revoke" /\ s # None => (store[s] > now => s \in offered)

(* A logout past the revocation offered the token of the session it        *)
(* deletes.                                                                *)
LEMMA RevokeSoundStep ==
    ASSUME UseInv, RevokeSound, [Next]_vars
    PROVE  RevokeSound'
<1> SUFFICES ASSUME NEW l \in Logouts, pc'[l] = "revoke", sess'[l].sid # None,
                    store'[sess'[l].sid] > now'
             PROVE  sess'[l].sid \in offered'
  BY DEF RevokeSound
<1>1. /\ pc \in [Requests -> Stage] /\ sess \in [Requests -> Cookie]
      /\ store \in [Attempts -> Nat] /\ now \in Nat
      /\ sess[l].sid \in Ids /\ reply[l].then \in Resting /\ l \in Requests
      /\ l \notin Attempts /\ l \notin Calls
  BY Shapes, SessionAssumption DEF UseInv, Typed, TypeOK
<1>2. Known(sess[l].sid)
  BY <1>1 DEF UseInv, HeldSessionsKnown
<1>3. sess[l].sid \in Attempts /\ sess'[l].sid = sess[l].sid => store[sess[l].sid] > now
  BY <1>2, StoreShrinks, SessionAssumption DEF UseInv, Known, Requests
<1>4. offered \subseteq offered'
  BY DEF Next, vars, Tick, Login, Redirect, Callback, ExchangeFails, ExchangeSucceeds, Rotate,
     Create, Mirror, Logout, CheckCsrf, Lookup, RevokeToken, Revoke, Call, ReadSession,
     Forward, Deliver, Lose, Sent, StoreRaises
<1>5. CASE Untouched(l)
  BY <1>1, <1>3, <1>4, <1>5 DEF Untouched, RevokeSound, Ids
<1>6. CASE Lookup(l)
  <2>1. ~Live(sess[l].sid) /\ sess'[l] = sess[l]
    BY <1>1, <1>6 DEF Lookup, Step, StoreRaises, Return
  <2> QED BY <1>1, <1>3, <2>1 DEF Live, Ids
<1>7. CASE RevokeToken(l)
  BY <1>1, <1>7 DEF RevokeToken, Step
<1>8. CASE Revoke(l) \/ Logout(l) \/ CheckCsrf(l)
  BY <1>1, <1>8 DEF Revoke, Logout, CheckCsrf, Sent, Step, StoreRaises, Return
<1>9. CASE Deliver(l) \/ Lose(l)
  BY <1>1, <1>9 DEF Deliver, Lose, Finished, Resting
<1>10. Acts(l) \/ Untouched(l)
  BY <1>1, Frame DEF UseInv
<1> QED BY <1>1, <1>5, <1>6, <1>7, <1>8, <1>9, <1>10 DEF Acts

(* _perform_logout, for any number of logouts, logins and calls: a logout  *)
(* deletes a session that is alive only after its access token was offered *)
(* to Auth0 for revocation.                                                *)
THEOREM TokenIsRevokedFirst == Spec => LogoutRevokesTokenFirst
<1> DEFINE RInv == UseInv /\ RevokeSound
<1>1. Init => RInv
  BY UseInvInit DEF Init, RevokeSound, Requests
<1>2. RInv /\ [Next]_vars => RInv'
  BY UseInvStep, RevokeSoundStep
<1>3. RInv => \A l \in Logouts :
          LET sid == sess[l].sid IN
          (pc[l] = "revoke" /\ pc'[l] # "revoke" /\ sid # None) =>
              (store[sid] > now /\ store'[sid] = 0 => sid \in offered)
  BY DEF RevokeSound
<1> QED BY <1>1, <1>2, <1>3, PTL DEF Spec, LogoutRevokesTokenFirst

-----------------------------------------------------------------------------
(* A browser that sends one request at a time.                             *)

OneInFlight ==
    ~env.tabs => \A q, r \in Requests :
        pc[q] \notin Resting /\ pc[r] \notin Resting => q = r

(* Until it creates a session or returns, a request works on the session   *)
(* of the browser's cookie.                                                *)
WorksOnBrowserSession ==
    ~env.tabs => \A r \in Requests :
        pc[r] \notin Resting \cup {"create", "mirror", "reply"} => sess[r].sid = jar.sid

(* The cookies the browser has once a response has arrived mirror each     *)
(* other, if the session is still alive then.                              *)
Delivered(r) ==
    LET s == IF reply[r].set THEN sess[r].sid ELSE jar.sid
        t == CASE reply[r].token = "keep" -> csrf
               [] reply[r].token = "clear" -> None
               [] OTHER -> reply[r].token
    IN  s # None => (store[s] > now => t = s)

DeliveredMirrors == ~env.tabs => \A r \in Requests : pc[r] = "reply" => Delivered(r)

CsrfInv ==
    UseInv /\ OneInFlight /\ WorksOnBrowserSession /\ DeliveredMirrors /\ CsrfMirrorsSession

(* A step is the clock's or of one request, and then, with one request in  *)
(* flight, all others are at rest.                                         *)
LEMMA Alone ==
    ASSUME Typed, OneInFlight, ~env.tabs, [Next]_vars
    PROVE  \/ Tick \/ UNCHANGED vars
           \/ \E r \in Requests : Acts(r) /\ \A q \in Requests \ {r} :
                 pc[q] \in Resting /\ pc'[q] = pc[q]
<1>0. pc \in [Requests -> Stage]
      /\ Attempts \subseteq Requests /\ Logouts \subseteq Requests /\ Calls \subseteq Requests
  BY Shapes DEF Typed
<1>1. ASSUME NEW r \in Requests, Acts(r) PROVE \A q \in Requests \ {r} : pc'[q] = pc[q]
  BY <1>0, <1>1 DEF Acts, Login, Redirect, Callback, ExchangeFails, ExchangeSucceeds, Rotate,
     Create, Mirror, Logout, CheckCsrf, Lookup, RevokeToken, Revoke, Call, ReadSession,
     Forward, Deliver, Lose, Sent, Step, Return, StoreRaises, Finished
<1>2. ASSUME NEW r \in Requests, Acts(r) PROVE \A q \in Requests \ {r} : pc[q] \in Resting
  <2>1. CASE pc[r] \notin Resting
    BY <2>1 DEF OneInFlight
  <2>2. CASE pc[r] \in Resting
    BY <1>2, <2>2 DEF Acts, Login, Redirect, Callback, ExchangeFails, ExchangeSucceeds, Rotate,
       Create, Mirror, Logout, CheckCsrf, Lookup, RevokeToken, Revoke, Call, ReadSession,
       Forward, Deliver, Lose, Sent, Resting
  <2> QED BY <2>1, <2>2
<1>3. \/ Tick \/ UNCHANGED vars
      \/ \E r \in Requests : Acts(r)
  BY <1>0 DEF Next, Acts
<1> QED BY <1>1, <1>2, <1>3

(* Browser and network behave alike throughout.                            *)
LEMMA EnvironmentStays == [Next]_vars => env' = env
BY DEF Next, vars, Tick, Login, Redirect, Callback, ExchangeFails, ExchangeSucceeds, Rotate,
     Create, Mirror, Logout, CheckCsrf, Lookup, RevokeToken, Revoke, Call, ReadSession,
     Forward, Deliver, Lose, Sent, Step, Return, StoreRaises

(* A browser with one tab sends when nothing is in flight.                 *)
LEMMA OneInFlightStep ==
    ASSUME Typed, OneInFlight, [Next]_vars
    PROVE  OneInFlight'
<1> SUFFICES ASSUME ~env.tabs PROVE OneInFlight'
  BY EnvironmentStays DEF OneInFlight
<1>2. CASE Tick \/ UNCHANGED vars
  BY <1>2 DEF Tick, vars, request, OneInFlight
<1>3. CASE \E r \in Requests : Acts(r) /\ \A q \in Requests \ {r} :
                 pc[q] \in Resting /\ pc'[q] = pc[q]
  BY <1>3 DEF OneInFlight
<1> QED BY <1>2, <1>3, Alone

(* What a handler that returns leaves behind. *)
LEMMA Returned ==
    ASSUME TypeOK, NEW r \in Requests, NEW cookie, NEW modified \in BOOLEAN, NEW token,
           NEW then, Return(r, cookie, modified, token, then)
    PROVE  /\ pc'[r] = "reply" /\ sess'[r] = cookie /\ reply'[r].token = token
           /\ reply'[r].set <=> modified /\ (cookie # Empty \/ sess[r] # Empty)
<1>1. pc \in [Requests -> Stage] /\ sess \in [Requests -> Cookie]
      /\ reply \in [Requests -> [set : BOOLEAN, token : Attempts \cup {"keep", "clear"},
                                 then : Resting]]
  BY DEF TypeOK
<1>2. reply'[r] = [set |-> modified /\ (cookie # Empty \/ sess[r] # Empty),
                   token |-> token, then |-> then]
  BY <1>1 DEF Return
<1> QED BY <1>1, <1>2 DEF Return

(* With one request at a time, the request works on the session of the     *)
(* browser and its response brings the matching csrf token.                *)
LEMMA CsrfInvStep ==
    ASSUME CsrfInv, ~env.tabs, [Next]_vars
    PROVE  WorksOnBrowserSession' /\ DeliveredMirrors' /\ CsrfMirrorsSession'
<1>0. TypeOK
  BY DEF CsrfInv, UseInv, Typed
<1>1. /\ pc \in [Requests -> Stage] /\ sess \in [Requests -> Cookie] /\ jar \in Cookie
      /\ reply \in [Requests -> [set : BOOLEAN, token : Attempts \cup {"keep", "clear"},
                                 then : Resting]]
      /\ store \in [Attempts -> Nat] /\ now \in Nat /\ jar.sid \in Ids
      /\ \A r \in Requests : sess[r].sid \in Ids /\ reply[r].then \in Resting
      /\ Attempts \subseteq Requests /\ Logouts \subseteq Requests /\ Calls \subseteq Requests
  BY Shapes DEF CsrfInv, UseInv, Typed, TypeOK
<1>2. ASSUME NEW s \in Ids, Known(s), s # None, store'[s] > now' PROVE store[s] > now
  BY <1>2, StoreShrinks DEF CsrfInv, UseInv, Known, Ids
<1>3. Known(jar.sid) /\ \A r \in Requests : Known(sess[r].sid)
  BY DEF CsrfInv, UseInv, HeldSessionsKnown
<1>8. ~env'.tabs
  BY EnvironmentStays
<1>4. jar.sid # None => (store[jar.sid] > now => csrf = jar.sid)
  BY DEF CsrfInv, CsrfMirrorsSession
<1>7. ASSUME NEW a \in Attempts
      PROVE  /\ [jar EXCEPT !.verifier = a, !.nonce = a].sid = jar.sid
             /\ [jar EXCEPT !.states = @ \ {a}].sid = jar.sid
             /\ [sess[a] EXCEPT !.states = @ \cup {a}].sid = sess[a].sid
             /\ [sess[a] EXCEPT !.verifier = None, !.nonce = None].sid = sess[a].sid
  BY EditsKeepSession DEF CsrfInv, UseInv, Typed
<1>5. CASE Tick \/ UNCHANGED vars
  BY <1>1, <1>5 DEF Tick, vars, request, browser, CsrfInv, WorksOnBrowserSession,
     DeliveredMirrors, Delivered, CsrfMirrorsSession, Ids
<1>6. CASE \E r \in Requests : Acts(r) /\ \A q \in Requests \ {r} :
                 pc[q] \in Resting /\ pc'[q] = pc[q]
  <2>1. PICK r \in Requests : Acts(r) /\ \A q \in Requests \ {r} :
                 pc[q] \in Resting /\ pc'[q] = pc[q]
    BY <1>6
  <2>2. pc[r] \notin Resting \cup {"create", "mirror", "reply"} => sess[r].sid = jar.sid
    BY DEF CsrfInv, WorksOnBrowserSession
  <2>3. CASE Deliver(r) \/ Lose(r)
    <3>1. \A q \in Requests : pc'[q] \in Resting
      BY <1>1, <2>1, <2>3 DEF Deliver, Lose, Finished, Resting
    <3>2. Delivered(r)
      BY <2>3 DEF CsrfInv, DeliveredMirrors, Deliver, Lose
    <3>3. CsrfMirrorsSession'
      BY <1>4, <2>3, <3>2 DEF Deliver, Lose, Delivered, CsrfMirrorsSession, browser
    <3> QED BY <3>1, <3>3 DEF WorksOnBrowserSession, DeliveredMirrors, Resting
  <2>4. CASE ~(Deliver(r) \/ Lose(r))
    <3>1. jar' = jar /\ csrf' = csrf
      BY <2>1, <2>4 DEF Acts, Login, Redirect, Callback, ExchangeFails, ExchangeSucceeds,
         Rotate, Create, Mirror, Logout, CheckCsrf, Lookup, RevokeToken, Revoke, Call,
         ReadSession, Forward, Sent, Step, Return, StoreRaises, browser
    <3>2. CsrfMirrorsSession'
      BY <1>1, <1>2, <1>3, <1>4, <3>1 DEF CsrfMirrorsSession
    <3>3. pc'[r] \notin Resting \cup {"create", "mirror", "reply"} => sess'[r].sid = jar.sid
      <4>1. CASE r \in Attempts /\ (Login(r) \/ Callback(r))
        <5>1. \/ sess' = [sess EXCEPT ![r] = [jar EXCEPT !.verifier = r, !.nonce = r]]
              \/ sess' = [sess EXCEPT ![r] = [jar EXCEPT !.states = @ \ {r}]]
              \/ sess' = [sess EXCEPT ![r] = jar]
          BY <4>1 DEF Login, Callback, Sent
        <5> QED BY <1>1, <1>7, <4>1, <5>1
      <4>2. CASE r \in Attempts /\ (Redirect(r) \/ ExchangeFails(r) \/ ExchangeSucceeds(r)
                                     \/ Rotate(r) \/ Create(r) \/ Mirror(r))
        BY <1>1, <1>7, <2>2, <4>2 DEF Redirect, ExchangeFails, ExchangeSucceeds, Rotate, Create,
           Mirror, Step, Return, StoreRaises, Resting
      <4>3. CASE r \in Logouts /\ (Logout(r) \/ CheckCsrf(r) \/ Lookup(r) \/ RevokeToken(r)
                                    \/ Revoke(r))
        BY <1>1, <2>2, <4>3 DEF Logout, CheckCsrf, Lookup, RevokeToken, Revoke, Sent, Step,
           Return, StoreRaises, Resting
      <4>4. CASE r \in Calls /\ (Call(r) \/ ReadSession(r) \/ Forward(r))
        BY <1>1, <2>2, <4>4 DEF Call, ReadSession, Forward, Sent, Step,
           Return, StoreRaises, Resting
      <4> QED BY <2>1, <2>4, <4>1, <4>2, <4>3, <4>4 DEF Acts
    <3>4. ASSUME pc'[r] = "reply" PROVE Delivered(r)'
      <4>1. ASSUME reply'[r].token = "keep", reply'[r].set => sess'[r].sid = jar.sid
            PROVE  Delivered(r)'
        BY <1>8, <3>1, <3>2, <4>1 DEF Delivered, CsrfMirrorsSession
      <4>2. ASSUME NEW cookie, NEW modified \in BOOLEAN, NEW then,
                   Return(r, cookie, modified, "keep", then),
                   modified => cookie.sid = jar.sid
            PROVE  Delivered(r)'
        BY <1>0, <4>1, <4>2, Returned
      <4>3. ASSUME NEW effect, StoreRaises(r, effect) PROVE Delivered(r)'
        BY <4>2, <4>3 DEF StoreRaises
      <4>4. CASE r \in Attempts /\ (Login(r) \/ Callback(r))
        BY <1>1, <3>4, <4>1, <4>4 DEF Login, Callback, Sent, NoReply
      <4>5. CASE r \in Attempts /\ Redirect(r)
        <5>1. sess[r].sid = jar.sid
          BY <2>2, <4>5 DEF Redirect, Resting
        <5> QED BY <1>7, <4>2, <4>5, <5>1 DEF Redirect
      <4>6. CASE r \in Attempts /\ (ExchangeFails(r) \/ ExchangeSucceeds(r))
        <5>1. sess[r].sid = jar.sid
          BY <2>2, <4>6 DEF ExchangeFails, ExchangeSucceeds, Resting
        <5>2. ExchangeFails(r) => Return(r, sess[r], TRUE, "keep", "done")
          BY DEF ExchangeFails
        <5>3. ExchangeSucceeds(r) =>
                Return(r, [sess[r] EXCEPT !.verifier = None, !.nonce = None], TRUE, "keep", "done")
          BY <1>1, <3>4 DEF ExchangeSucceeds, Step
        <5> QED BY <1>7, <4>2, <4>6, <5>1, <5>2, <5>3
      <4>7. CASE r \in Attempts /\ (Rotate(r) \/ Create(r))
        BY <1>1, <3>4, <4>2, <4>3, <4>7 DEF Rotate, Create, Step
      <4>8. CASE r \in Attempts /\ Mirror(r)
        <5>1. sess[r].sid = r
          BY <4>8 DEF CsrfInv, UseInv, CreatedOnce, Mirror
        <5>2. CASE /\ Return(r, sess[r], TRUE, IF Live(r) THEN r ELSE "keep", "done")
                   /\ store' = AfterGet(r)
          <6>0. r # None /\ sess[r] # Empty
            BY <5>1, SessionAssumption DEF Empty
          <6> DEFINE token == IF Live(r) THEN r ELSE "keep"
          <6> HIDE DEF token
          <6>1. sess'[r] = sess[r] /\ reply'[r].set /\ reply'[r].token = token
            <7>1. Return(r, sess[r], TRUE, token, "done")
              BY <5>2 DEF token
            <7> QED BY <1>0, <6>0, <7>1, Returned
          <6>2. now' = now
            BY <5>2 DEF Return
          <6>3. store'[r] > now' => Live(r)
            BY <1>1, <4>8, <5>2, <6>0, <6>2 DEF AfterGet, Without, Live
          <6> QED BY <4>8, <5>1, <6>1, <6>3, SessionAssumption DEF Delivered, token
        <5> QED BY <4>3, <4>8, <5>2 DEF Mirror
      <4>9. CASE r \in Logouts /\ Revoke(r)
        <5>1. sess[r].sid = jar.sid
          BY <2>2, <4>9 DEF Revoke, Resting
        <5>2. CASE Return(r, Empty, TRUE, "clear", "done")
          <6>1. sess'[r] = Empty /\ reply'[r].token = "clear" /\ (~reply'[r].set => sess[r] = Empty)
            BY <1>0, <5>2, Returned
          <6> QED BY <3>1, <5>1, <6>1 DEF Delivered, Empty
        <5> QED BY <4>3, <4>9, <5>2 DEF Revoke
      <4>10. CASE r \in Logouts /\ (Logout(r) \/ CheckCsrf(r) \/ Lookup(r) \/ RevokeToken(r))
        BY <1>1, <3>4, <4>2, <4>3, <4>10 DEF Logout, CheckCsrf, Lookup, RevokeToken, Sent, Step
      <4>11. CASE r \in Calls /\ (Call(r) \/ ReadSession(r) \/ Forward(r))
        BY <1>1, <3>4, <4>2, <4>3, <4>11 DEF Call, ReadSession, Forward, Sent, Step
      <4> QED BY <2>1, <2>4, <4>4, <4>5, <4>6, <4>7, <4>8, <4>9, <4>10, <4>11 DEF Acts
    <3> QED BY <2>1, <3>1, <3>2, <3>3, <3>4 DEF WorksOnBrowserSession, DeliveredMirrors, Resting
  <2> QED BY <2>3, <2>4
<1> QED BY <1>5, <1>6, Alone DEF CsrfInv, UseInv

(* The invariant behind the csrf cookie is inductive.                      *)
LEMMA CsrfInvInductive == CsrfInv /\ [Next]_vars => CsrfInv'
<1> SUFFICES ASSUME CsrfInv, [Next]_vars PROVE CsrfInv'
  OBVIOUS
<1>1. UseInv' /\ OneInFlight'
  BY UseInvStep, OneInFlightStep DEF CsrfInv, UseInv
<1>2. CASE ~env.tabs
  BY <1>1, <1>2, CsrfInvStep DEF CsrfInv
<1>3. CASE env.tabs
  BY <1>1, <1>3, EnvironmentStays DEF CsrfInv, WorksOnBrowserSession, DeliveredMirrors,
     CsrfMirrorsSession
<1> QED BY <1>2, <1>3

(* Neither cookie is set.                                                  *)
LEMMA CsrfInvInit == Init => CsrfInv
BY UseInvInit DEF Init, CsrfInv, OneInFlight, WorksOnBrowserSession, DeliveredMirrors,
   CsrfMirrorsSession, Empty, Resting

(* csrf.py: for a browser that sends one request at a time the csrf_token  *)
(* cookie is the token of its session while that session is alive, however *)
(* store calls fail and responses get lost.                                *)
THEOREM CsrfCookieMirrors == Spec => []CsrfMirrorsSession
<1>1. CsrfInv => CsrfMirrorsSession
  BY DEF CsrfInv
<1> QED BY CsrfInvInit, CsrfInvInductive, <1>1, PTL DEF Spec

-----------------------------------------------------------------------------
(* Sessions out of the browser's reach.                                    *)

(* A request keeps the session it was sent with, or that session is dead.  *)
SentKept ==
    \A r \in Requests : pc[r] \notin Resting /\ sent[r] # None =>
        sess[r].sid = sent[r] \/ store[sent[r]] <= now

(* With one request at a time the browser's session is the one the request *)
(* in flight was sent with.                                                *)
SentIsBrowsers == ~env.tabs => \A r \in Requests : pc[r] \notin Resting => sent[r] = jar.sid

ReachInv == UseInv /\ OneInFlight /\ SentKept /\ SentIsBrowsers

(* A login or logout lets go of its session only by deleting it.           *)
LEMMA SentKeptStep ==
    ASSUME UseInv, SentKept, [Next]_vars
    PROVE  SentKept'
<1>0. Typed /\ TypeOK
  BY DEF UseInv, Typed
<1>1. /\ pc \in [Requests -> Stage] /\ sess \in [Requests -> Cookie] /\ jar \in Cookie
      /\ sent \in [Requests -> Ids]
      /\ store \in [Attempts -> Nat] /\ now \in Nat
      /\ \A r \in Requests : reply[r].then \in Resting
      /\ Attempts \subseteq Requests /\ Logouts \subseteq Requests /\ Calls \subseteq Requests
  BY <1>0, Shapes DEF TypeOK
<1>2. store' \in [Attempts -> Nat] /\ now' \in Nat /\ sent' \in [Requests -> Ids]
  BY <1>0, TypedStep, SessionAssumption DEF Typed, TypeOK
<1> SUFFICES ASSUME NEW r \in Requests, pc'[r] \notin Resting, sent'[r] # None,
                    store'[sent'[r]] > now'
             PROVE  sess'[r].sid = sent'[r]
  BY <1>2, SMTT(30) DEF SentKept, Ids
<1>3. ASSUME sent'[r] = sent[r] PROVE store[sent[r]] > now /\ sent[r] \in Attempts
  <2>1. Known(sent[r]) /\ sent[r] \in Attempts
    BY <1>1, <1>3 DEF UseInv, HeldSessionsKnown, Ids
  <2> QED BY <1>0, <1>3, <2>1, StoreShrinks DEF Known
<1>4. ASSUME sent'[r] = sent[r], pc[r] \notin Resting PROVE sess[r].sid = sent[r]
  <2>1. store[sent[r]] > now /\ sent[r] \in Attempts
    BY <1>3, <1>4
  <2>2. ~(store[sent[r]] <= now)
    BY <1>1, <2>1
  <2> QED BY <1>4, <2>2 DEF SentKept
<1>5. CASE Untouched(r)
  BY <1>4, <1>5 DEF Untouched
<1>6. CASE r \in Attempts /\ (Login(r) \/ Callback(r))
  <2>1. PICK cookie : cookie.sid = jar.sid /\ sess' = [sess EXCEPT ![r] = cookie]
                      /\ sent' = [sent EXCEPT ![r] = jar.sid]
    BY <1>0, <1>6, EditsKeepSession DEF Login, Callback, Sent
  <2> QED BY <1>1, <2>1
<1>7. CASE (r \in Logouts /\ Logout(r)) \/ (r \in Calls /\ Call(r))
  BY <1>1, <1>7 DEF Logout, Call, Sent
<1>8. CASE Deliver(r) \/ Lose(r)
  BY <1>1, <1>8 DEF Deliver, Lose, Finished, Resting
<1>9. ASSUME NEW effect, StoreRaises(r, effect), pc[r] \notin Resting
      PROVE  sess'[r].sid = sent'[r]
  BY <1>1, <1>4, <1>9 DEF StoreRaises, Return
<1>10. CASE r \in Attempts /\ (Redirect(r) \/ ExchangeFails(r) \/ ExchangeSucceeds(r))
  <2>1. sent'[r] = sent[r] /\ pc[r] \notin Resting
    BY <1>10 DEF Redirect, ExchangeFails, ExchangeSucceeds, Step, Return, Resting
  <2>2. sess[r].sid = sent[r] /\ sess[r].sid # None
    BY <1>4, <2>1
  <2>3. /\ [sess[r] EXCEPT !.states = @ \cup {r}].sid = sess[r].sid
        /\ [sess[r] EXCEPT !.verifier = None, !.nonce = None].sid = sess[r].sid
    BY <1>0, <1>10, EditsKeepSession
  <2>4. PICK cookie : cookie.sid = sess[r].sid /\ sess' = [sess EXCEPT ![r] = cookie]
    <3>1. CASE Redirect(r) \/ ExchangeFails(r)
      BY <2>3, <3>1 DEF Redirect, ExchangeFails, Return
    <3>2. CASE ExchangeSucceeds(r)
      BY <2>2, <2>3, <3>2 DEF ExchangeSucceeds, Return, Step
    <3> QED BY <1>10, <3>1, <3>2
  <2> QED BY <1>1, <2>1, <2>2, <2>4
<1>11. CASE r \in Attempts /\ Rotate(r)
  <2>1. sent'[r] = sent[r] /\ pc[r] \notin Resting
    BY <1>11 DEF Rotate, StoreRaises, Step, Return, Resting
  <2>2. store' # Without(sess[r].sid)
    BY <1>1, <1>2, <1>3, <1>4, <2>1 DEF Without
  <2> QED BY <1>9, <1>11, <2>1, <2>2 DEF Rotate
<1>12. CASE r \in Attempts /\ Create(r)
  <2>1. sent'[r] = sent[r] /\ pc[r] \notin Resting /\ sess[r].sid = None
    BY <1>12 DEF Create, StoreRaises, Step, Return, Resting, UseInv, CreatedOnce
  <2> QED BY <1>4, <2>1
<1>13. CASE r \in Attempts /\ Mirror(r)
  BY <1>1, <1>4, <1>13 DEF Mirror, StoreRaises, Return, Resting
<1>14. CASE r \in Logouts /\ (CheckCsrf(r) \/ Lookup(r) \/ RevokeToken(r))
  BY <1>1, <1>4, <1>14 DEF CheckCsrf, Lookup, RevokeToken, StoreRaises, Step, Return, Resting
<1>15. CASE r \in Logouts /\ Revoke(r)
  <2>1. sent'[r] = sent[r] /\ pc[r] \notin Resting
    BY <1>15 DEF Revoke, StoreRaises, Return, Resting
  <2>2. store' # Without(sess[r].sid)
    BY <1>1, <1>2, <1>3, <1>4, <2>1 DEF Without
  <2> QED BY <1>9, <1>15, <2>1, <2>2 DEF Revoke
<1>16. CASE r \in Calls /\ (ReadSession(r) \/ Forward(r))
  BY <1>1, <1>4, <1>16 DEF ReadSession, Forward, StoreRaises, Step, Return, Resting
<1>17. Acts(r) \/ Untouched(r)
  BY <1>0, Frame
<1> QED BY <1>5, <1>6, <1>7, <1>8, <1>10, <1>11, <1>12, <1>13, <1>14, <1>15, <1>16, <1>17
        DEF Acts

(* The cookie changes only when nothing is in flight any more.             *)
LEMMA SentIsBrowsersStep ==
    ASSUME Typed, OneInFlight, SentIsBrowsers, [Next]_vars
    PROVE  SentIsBrowsers'
<1> SUFFICES ASSUME ~env.tabs PROVE SentIsBrowsers'
  BY EnvironmentStays DEF SentIsBrowsers
<1>1. /\ pc \in [Requests -> Stage] /\ sent \in [Requests -> Ids]
      /\ \A r \in Requests : reply[r].then \in Resting
  BY Shapes DEF Typed, TypeOK
<1>2. CASE Tick \/ UNCHANGED vars
  BY <1>2 DEF Tick, vars, request, browser, SentIsBrowsers
<1>3. CASE \E r \in Requests : Acts(r) /\ \A q \in Requests \ {r} :
                 pc[q] \in Resting /\ pc'[q] = pc[q]
  <2>1. PICK r \in Requests : Acts(r) /\ \A q \in Requests \ {r} :
                 pc[q] \in Resting /\ pc'[q] = pc[q]
    BY <1>3
  <2>2. CASE Deliver(r) \/ Lose(r)
    <3>1. \A q \in Requests : pc'[q] \in Resting
      BY <1>1, <2>1, <2>2 DEF Deliver, Lose, Finished, Resting
    <3> QED BY <3>1 DEF SentIsBrowsers
  <2>3. CASE ~(Deliver(r) \/ Lose(r))
    <3>1. jar' = jar
      BY <2>1, <2>3 DEF Acts, Login, Redirect, Callback, ExchangeFails, ExchangeSucceeds,
         Rotate, Create, Mirror, Logout, CheckCsrf, Lookup, RevokeToken, Revoke, Call,
         ReadSession, Forward, Sent, Step, Return, StoreRaises, browser
    <3>2. \/ sent' = [sent EXCEPT ![r] = jar.sid]
          \/ sent' = sent /\ pc[r] \notin Resting
      BY <2>1, <2>3 DEF Acts, Login, Redirect, Callback, ExchangeFails, ExchangeSucceeds,
         Rotate, Create, Mirror, Logout, CheckCsrf, Lookup, RevokeToken, Revoke, Call,
         ReadSession, Forward, Sent, Step, Return, StoreRaises, Resting
    <3> QED BY <1>1, <2>1, <3>1, <3>2 DEF SentIsBrowsers
  <2> QED BY <2>2, <2>3
<1> QED BY <1>2, <1>3, Alone

(* A step that puts a live session out of reach is one of the three.       *)
LEMMA OrphanStep ==
    ASSUME ReachInv, [Next]_vars, NEW s \in Attempts, ~Orphan(s), Orphan(s)'
    PROVE  \/ pc[s] = "create" /\ pc'[s] = "reply"
           \/ env.faults /\ pc[s] \in {"mirror", "reply"} /\ pc'[s] # pc[s]
           \/ env.tabs /\ \E r \in Requests :
                 pc[r] = "reply" /\ pc'[r] # "reply" /\ sent[r] # s
<1>0. Typed /\ TypeOK /\ UseInv
  BY DEF ReachInv, UseInv, Typed
<1>1. /\ pc \in [Requests -> Stage] /\ sess \in [Requests -> Cookie] /\ jar \in Cookie
      /\ store \in [Attempts -> Nat] /\ now \in Nat
      /\ \A r \in Requests : reply[r].then \in Resting
      /\ s \in Requests /\ s # None /\ s \notin Logouts /\ s \notin Calls
  BY <1>0, Shapes, SessionAssumption DEF Requests
<1>2. /\ store'[s] > now' /\ jar'.sid # s /\ pc'[s] # "mirror"
      /\ ~(pc'[s] = "reply" /\ reply'[s].set /\ sess'[s].sid = s)
  BY DEF Orphan
<1>3. Acts(s) \/ Untouched(s)
  BY <1>0, <1>1, Frame
<1>4. store[s] > now \/ (pc[s] = "create" /\ pc'[s] # "create")
  BY <1>0, <1>2, StoreShrinks
<1>5. CASE pc[s] = "create" /\ pc'[s] # "create"
  <2>1. Create(s)
    BY <1>1, <1>3, <1>5 DEF Acts, Untouched, Login, Redirect, Callback, ExchangeFails,
       ExchangeSucceeds, Rotate, Mirror, Deliver, Lose
  <2> QED BY <1>1, <1>2, <1>5, <2>1 DEF Create, Step, Return, StoreRaises
<1>6. CASE store[s] > now /\ jar.sid = s
  <2>1. PICK r \in Requests : Deliver(r) /\ sess[r].sid # s
    BY <1>1, <1>2, <1>6 DEF Next, vars, Tick, Login, Redirect, Callback, ExchangeFails,
       ExchangeSucceeds, Rotate, Create, Mirror, Logout, CheckCsrf, Lookup, RevokeToken,
       Revoke, Call, ReadSession, Forward, Deliver, Lose, Sent, Step, Return, StoreRaises,
       browser
  <2>2. pc[r] = "reply" /\ pc'[r] # "reply"
    BY <1>1, <2>1 DEF Deliver, Finished, Resting
  <2>3. ~(store[s] <= now)
    BY <1>1, <1>6
  <2>4. sent[r] # s
    BY <1>1, <2>1, <2>2, <2>3 DEF ReachInv, SentKept, Resting
  <2>5. env.tabs
    BY <1>6, <2>2, <2>4 DEF ReachInv, SentIsBrowsers, Resting
  <2> QED BY <2>2, <2>4, <2>5
<1>7. CASE pc[s] = "mirror"
  <2>1. Mirror(s) /\ sess[s].sid = s
    BY <1>0, <1>1, <1>2, <1>3, <1>7 DEF Acts, Untouched, Login, Redirect, Callback,
       ExchangeFails, ExchangeSucceeds, Rotate, Create, Deliver, Lose, UseInv, CreatedOnce
  <2>2. ~Return(s, sess[s], TRUE, IF Live(s) THEN s ELSE "keep", "done")
    <3> DEFINE token == IF Live(s) THEN s ELSE "keep"
    <3> HIDE DEF token
    <3>1. sess[s] # Empty
      BY <1>1, <2>1 DEF Empty
    <3>2. ~Return(s, sess[s], TRUE, token, "done")
      BY <1>0, <1>1, <1>2, <2>1, <3>1, Returned
    <3> QED BY <3>2 DEF token
  <2>3. StoreRaises(s, AfterGet(s))
    BY <2>1, <2>2 DEF Mirror
  <2> QED BY <1>1, <1>7, <2>3 DEF StoreRaises, Return
<1>8. CASE pc[s] = "reply" /\ reply[s].set /\ sess[s].sid = s
  <2>1. Deliver(s) \/ Lose(s)
    BY <1>1, <1>2, <1>3, <1>8 DEF Acts, Untouched, Login, Redirect, Callback, ExchangeFails,
       ExchangeSucceeds, Rotate, Create, Mirror
  <2>2. Lose(s)
    BY <1>2, <1>8, <2>1 DEF Deliver
  <2> QED BY <1>1, <1>8, <2>2 DEF Lose, Finished
<1>9. store[s] > now => \/ jar.sid = s \/ pc[s] = "mirror"
                        \/ pc[s] = "reply" /\ reply[s].set /\ sess[s].sid = s
  BY DEF Orphan
<1> QED BY <1>4, <1>5, <1>6, <1>7, <1>8, <1>9

(* auth_callback and _perform_logout, for any number of overlapping        *)
(* requests: a live session gets out of the browser's reach only when its  *)
(* callback raises after creating it, a store call fails or a response is  *)
(* lost, or, with racing tabs, a response arrives whose request was sent   *)
(* without the session.                                                    *)
THEOREM OrphansAreAccountedFor == Spec => OrphansHaveACause
<1>1. Init => ReachInv
  <2>1. Init => OneInFlight /\ SentKept /\ SentIsBrowsers
    BY DEF Init, OneInFlight, SentKept, SentIsBrowsers, Resting
  <2> QED BY <2>1, UseInvInit DEF ReachInv
<1>2. ReachInv /\ [Next]_vars => ReachInv'
  BY UseInvStep, OneInFlightStep, SentKeptStep, SentIsBrowsersStep DEF ReachInv, UseInv
<1>3. ReachInv /\ [Next]_vars => \A s \in Attempts : ~Orphan(s) /\ Orphan(s)' =>
          \/ pc[s] = "create" /\ pc'[s] = "reply"
          \/ env.faults /\ pc[s] \in {"mirror", "reply"} /\ pc'[s] # pc[s]
          \/ env.tabs /\ \E r \in Requests :
                pc[r] = "reply" /\ pc'[r] # "reply" /\ sent[r] # s
  BY OrphanStep
<1> QED BY <1>1, <1>2, <1>3, PTL DEF Spec, OrphansHaveACause
=============================================================================
