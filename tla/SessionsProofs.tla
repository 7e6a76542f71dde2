--------------------------- MODULE SessionsProofs ---------------------------
(***************************************************************************)
(* The properties of Sessions, for any browsers, users, secrets,           *)
(* environments, ages and calls: nobody acts on a cookie that was not      *)
(* given to that browser for it, sessions are logged, and signing out is   *)
(* complete.                                                               *)
(*                                                                         *)
(* The argument follows a cookie from the answer that gives it, to the     *)
(* browser, to the header of a later call: wherever it is, it is backed by *)
(* an identity given to that browser.                                      *)
(***************************************************************************)
EXTENDS Sessions, TLAPS

-----------------------------------------------------------------------------
(* The inductive invariant *)

\* What a browser holds was given to it.
BackedBy(given, b, v) ==
  /\ v \in Token => \E g \in given : /\ g.browser = b /\ g.actor = v.user
                                     /\ g.secret = v.secret /\ v.expires <= g.until
  /\ v \in Users => \E g \in given : g.browser = b /\ g.actor = v /\ g.secret = None
Backed(b, v) == BackedBy(grants, b, v)

JarsBacked ==
  \A b \in Browsers : \A n \in CookieNames :
    jar[b][n] # None => Backed(b, jar[b][n].value)

HeaderBacked(c) ==
  calls[c].at = "sent" =>
    \A n \in CookieNames : calls[c].cookies[n] # None =>
      Backed(calls[c].from, calls[c].cookies[n])

Addressed(c) ==
  calls[c].at \in {"sent", "verifying", "answered"} =>
    calls[c].from \in Browsers /\ calls[c].ask \in Asks

Verifying(c) ==
  calls[c].at = "verifying" =>
    /\ Readable(env) /\ conf.mode = "signed_cookie"
    /\ calls[c].ask.name = "login" /\ calls[c].found \in Account

AnswerBacked(c) ==
  calls[c].at = "answered" =>
    /\ calls[c].gives # None => /\ Backed(calls[c].from, calls[c].gives.value)
                                /\ GivesIdentity(calls[c].ask)
    /\ calls[c].boot \in 0..boots
    /\ calls[c].ask.name = "logout" /\ calls[c].boot = boots /\ Readable(env)
         => calls[c].clears = BothCookies

GrantLogged(g) ==
  /\ g.boot <= boots
  /\ g.boot = boots /\ g.secret # None =>
       \E e \in events : e.type = "login_success" /\ e.actor = g.actor

\* A browser that has signed out has no cookie coming.
NothingComing ==
  \A b \in Browsers : clean[b] # {} =>
    \A c \in InFlight : calls[c].from = b => ~GivesIdentity(calls[c].ask)

CallsBacked ==
  \A c \in Calls : HeaderBacked(c) /\ Addressed(c) /\ Verifying(c) /\ AnswerBacked(c)
GrantsLogged == \A g \in grants : GrantLogged(g)

IInv == TypeOK /\ JarsBacked /\ CallsBacked /\ GrantsLogged /\ NothingComing
          /\ SignOutIsComplete

LEMMA InitIInv == Init => IInv
<1> USE NamesAssumption, ChoicesAssumption, NumbersAssumption, ShapesAssumption
<1> SUFFICES ASSUME Init PROVE IInv OBVIOUS
<1>1. TypeOK BY DEF Init, TypeOK, Call, Idle, NoCookies
<1>2. JarsBacked BY DEF Init, JarsBacked, NoCookies
<1>3. CallsBacked
  BY DEF Init, CallsBacked, HeaderBacked, Addressed, Verifying, AnswerBacked, Idle
<1>4. GrantsLogged BY DEF Init, GrantsLogged
<1>5. NothingComing BY DEF Init, NothingComing
<1>6. SignOutIsComplete BY DEF Init, SignOutIsComplete
<1> QED BY <1>1, <1>2, <1>3, <1>4, <1>5, <1>6 DEF IInv

-----------------------------------------------------------------------------
(* Backing does not wear out *)

LEMMA BackedStays ==
  ASSUME NEW b, NEW v, Backed(b, v), grants \subseteq grants'
  PROVE  Backed(b, v)'
BY DEF Backed, BackedBy

-----------------------------------------------------------------------------
(* A call is answered *)

LEMMA AnswerKeeps ==
  ASSUME IInv, NEW c \in Calls, calls[c].at \in {"sent", "verifying"},
         NEW clears \in SUBSET CookieNames, NEW gives \in Gift \union {None},
         NEW actor \in Users \union {None}, Answer(c, clears, gives, actor),
         UNCHANGED <<server, clock, jar, clean>>,
         events \subseteq events', grants \subseteq grants',
         events' \subseteq Event,
         grants' \subseteq Grant,
         \A g \in grants' \ grants : GrantLogged(g)',
         gives # None => BackedBy(grants', calls[c].from, gives.value)
                           /\ GivesIdentity(calls[c].ask),
         calls[c].ask.name = "logout" /\ Readable(env) => clears = BothCookies
  PROVE  IInv'
<1> USE NamesAssumption, NumbersAssumption, ShapesAssumption
<1> USE DEF IInv, server
<1>0. /\ calls' = [calls EXCEPT ![c] =
            [calls[c] EXCEPT !.at = "answered", !.cookies = NoCookies, !.found = None,
                             !.clears = clears, !.gives = gives, !.as = actor,
                             !.boot = boots]]
      /\ DOMAIN calls = Calls /\ boots \in 0..MaxBoots
      /\ calls[c] \in Call
  BY DEF Answer, TypeOK
<1>1. TypeOK' BY <1>0 DEF TypeOK, Call, NoCookies
<1>2. JarsBacked' BY BackedStays DEF JarsBacked
<1>3. ASSUME NEW d \in Calls
      PROVE  (HeaderBacked(d) /\ Addressed(d) /\ Verifying(d) /\ AnswerBacked(d))'
  <2>1. CASE d = c
    <3>1. /\ calls'[d].at = "answered" /\ calls'[d].from = calls[d].from
          /\ calls'[d].ask = calls[d].ask /\ calls'[d].gives = gives
          /\ calls'[d].clears = clears /\ calls'[d].boot = boots
      BY <1>0, <2>1
    <3>2. AnswerBacked(d)'
      BY <1>0, <2>1, <3>1 DEF AnswerBacked, Backed, BothCookies, conf
    <3> QED BY <3>1, <3>2, <2>1 DEF HeaderBacked, Addressed, Verifying, CallsBacked
  <2>2. CASE d # c
    <3>1. calls'[d] = calls[d] BY <1>0, <2>2
    <3>2. HeaderBacked(d) /\ Addressed(d) /\ Verifying(d) /\ AnswerBacked(d)
      BY DEF CallsBacked
    <3>3. HeaderBacked(d)' BY <3>1, <3>2, BackedStays DEF HeaderBacked
    <3>4. Addressed(d)' /\ Verifying(d)' BY <3>1, <3>2 DEF Addressed, Verifying, conf
    <3>5. AnswerBacked(d)'
      BY <3>1, <3>2, BackedStays DEF AnswerBacked, BothCookies, conf
    <3> QED BY <3>3, <3>4, <3>5
  <2> QED BY <2>1, <2>2
<1>4. GrantsLogged' BY DEF GrantsLogged, GrantLogged
<1>5. NothingComing'
  <2>1. \A d \in InFlight' : d \in InFlight /\ calls'[d].from = calls[d].from
                             /\ calls'[d].ask = calls[d].ask
    BY <1>0 DEF InFlight
  <2> QED BY <2>1 DEF NothingComing
<1>6. SignOutIsComplete' BY DEF SignOutIsComplete
<1> QED BY <1>1, <1>2, <1>3, <1>4, <1>5, <1>6 DEF CallsBacked

\* An answer that gives nothing and grants nothing.
LEMMA PlainAnswerKeeps ==
  ASSUME IInv, NEW c \in Calls, calls[c].at \in {"sent", "verifying"},
         NEW clears \in SUBSET CookieNames, NEW actor \in Users \union {None},
         Answer(c, clears, None, actor),
         UNCHANGED <<server, clock, jar, grants, clean>>,
         events' = events \/
           \E type \in EventTypes, who \in Users \union {None} : Record(c, type, who),
         calls[c].ask.name = "logout" /\ Readable(env) => clears = BothCookies
  PROVE  IInv'
<1>1. events \subseteq events' BY DEF Record
<1>2. events' \subseteq Event
  BY DEF IInv, TypeOK, Event, Record
<1>3. grants' \subseteq Grant
  BY DEF IInv, TypeOK
<1> QED BY <1>1, <1>2, <1>3, AnswerKeeps

LEMMA ConfTypes ==
  ASSUME env \in Environments, Readable(env)
  PROVE  /\ conf.mode \in {"demo", "signed_cookie"}
         /\ conf.cookieName \in CookieNames
         /\ conf.maxAge \in Nat
         /\ conf.mode = "signed_cookie" => conf.secret \in StrongSecrets
BY NamesAssumption, ChoicesAssumption, NumbersAssumption
   DEF conf, ReadAuthConfig, Readable, Environment

LEMMA SessionActorTypes ==
  ASSUME TypeOK, Readable(env), NEW cookies \in [CookieNames -> Value \union {None}]
  PROVE  /\ SessionActor(cookies) \in Users \union {None}
         /\ ResolveActor(cookies) \in Users \union {None}
<1> USE NamesAssumption, ShapesAssumption
<1>1. /\ conf.mode \in {"demo", "signed_cookie"} /\ conf.cookieName \in CookieNames
  BY ConfTypes DEF TypeOK
<1>2. CASE Cause(cookies) # "OK" BY <1>2 DEF SessionActor, ResolveActor
<1>3. CASE Cause(cookies) = "OK" /\ conf.mode = "demo"
  BY <1>3 DEF SessionActor, ResolveActor, Cause, DemoCause
<1>4. CASE Cause(cookies) = "OK" /\ conf.mode = "signed_cookie"
  <2>1. TokenCause(cookies[conf.cookieName]) = "OK"
    BY <1>4 DEF Cause, SignedCause
  <2>2. cookies[conf.cookieName] \in Token BY <2>1 DEF TokenCause
  <2> QED BY <2>2, <1>4 DEF SessionActor, ResolveActor, Token
<1> QED BY <1>1, <1>2, <1>3, <1>4

LEMMA BothCookiesTypes ==
  ASSUME env \in Environments, Readable(env)
  PROVE  BothCookies \subseteq CookieNames
BY ConfTypes, NamesAssumption DEF BothCookies

-----------------------------------------------------------------------------
(* A login that waits, and the answers that give an identity *)

LEMMA LoginFoundKeeps == ASSUME IInv, NEW c \in Calls, LoginFound(c) PROVE IInv'
<1> USE NamesAssumption, NumbersAssumption, ShapesAssumption
<1> USE DEF IInv, server
<1> DEFINE account == users[calls[c].ask.user]
<1>0. /\ calls[c].at = "sent" /\ calls[c].ask.name = "login"
      /\ Readable(env) /\ conf.mode = "signed_cookie"
      /\ account # None
      /\ calls' = [calls EXCEPT ![c] = [calls[c] EXCEPT !.at = "verifying",
                                                        !.found = account]]
      /\ UNCHANGED <<env, boots, users, events, clock, jar, grants, clean>>
  BY DEF LoginFound, Serving, MayLogIn
<1>1. calls[c].ask \in Asks /\ calls[c].ask.user \in Users
  BY <1>0, ChoicesAssumption DEF CallsBacked, Addressed, AllAsks
<1>2. account \in Account BY <1>0, <1>1 DEF TypeOK
<1> HIDE DEF account
<1>3. TypeOK'
  <2>1. [calls[c] EXCEPT !.at = "verifying", !.found = account] \in Call
    <3>1. calls[c] \in Call BY DEF TypeOK
    <3> QED BY <1>2, <3>1 DEF Call
  <2> QED BY <1>0, <2>1 DEF TypeOK
<1>4. ASSUME NEW d \in Calls
      PROVE  (HeaderBacked(d) /\ Addressed(d) /\ Verifying(d) /\ AnswerBacked(d))'
  <2>1. HeaderBacked(d) /\ Addressed(d) /\ Verifying(d) /\ AnswerBacked(d)
    BY DEF CallsBacked
  <2>2. CASE d = c
    <3>1. /\ calls'[d].at = "verifying" /\ calls'[d].found = account
          /\ calls'[d].from = calls[d].from /\ calls'[d].ask = calls[d].ask
      BY <1>0, <2>2 DEF TypeOK
    <3> QED BY <3>1, <2>1, <2>2, <1>0, <1>2
            DEF HeaderBacked, Addressed, Verifying, AnswerBacked, conf
  <2>3. CASE d # c
    <3>1. calls'[d] = calls[d] BY <1>0, <2>3 DEF TypeOK
    <3> QED BY <3>1, <2>1, <1>0
            DEF HeaderBacked, Addressed, Verifying, AnswerBacked, Backed, conf, BothCookies
  <2> QED BY <2>2, <2>3
<1>5. JarsBacked' BY <1>0 DEF JarsBacked, Backed
<1>6. GrantsLogged' BY <1>0 DEF GrantsLogged, GrantLogged
<1>7. NothingComing'
  <2>1. \A d \in InFlight' : d \in InFlight /\ calls'[d].from = calls[d].from
                             /\ calls'[d].ask = calls[d].ask
    BY <1>0 DEF InFlight, TypeOK
  <2> QED BY <2>1, <1>0 DEF NothingComing
<1>8. SignOutIsComplete' BY <1>0 DEF SignOutIsComplete
<1> QED BY <1>3, <1>4, <1>5, <1>6, <1>7, <1>8 DEF CallsBacked

LEMMA LoginSucceedsKeeps == ASSUME IInv, NEW c \in Calls, LoginSucceeds(c) PROVE IInv'
<1> USE NamesAssumption, ChoicesAssumption, NumbersAssumption, ShapesAssumption
<1> DEFINE u == calls[c].ask.user
           b == calls[c].from
           until == clock + conf.maxAge
           token == [user |-> u, secret |-> conf.secret, expires |-> until]
           gift == [name |-> conf.cookieName, value |-> token, age |-> conf.maxAge]
           grant == [browser |-> b, actor |-> u, secret |-> conf.secret,
                     until |-> until, boot |-> boots]
           event == [call |-> c, type |-> "login_success", actor |-> u]
<1>1. TypeOK /\ Addressed(c) /\ Verifying(c) BY DEF IInv, CallsBacked
<1>2. /\ calls[c].at = "verifying" /\ events' = events \union {event}
      /\ Answer(c, {}, gift, None) /\ grants' = grants \union {grant}
      /\ UNCHANGED <<server, clock, jar, clean>>
  BY DEF LoginSucceeds, Record
<1>3. /\ Readable(env) /\ conf.mode = "signed_cookie" /\ calls[c].ask.name = "login"
      /\ b \in Browsers /\ calls[c].ask \in Asks
  BY <1>1, <1>2 DEF Verifying, Addressed
<1>4. u \in Users BY <1>3 DEF AllAsks
<1>5. /\ conf.cookieName \in CookieNames /\ conf.maxAge \in Nat
      /\ conf.secret \in StrongSecrets
  BY <1>1, <1>3, ConfTypes DEF TypeOK
<1>6. until \in Nat /\ clock \in Nat /\ boots \in 0..MaxBoots BY <1>1, <1>5 DEF TypeOK
<1> HIDE DEF u, b, until
<1>7. token \in Token BY <1>4, <1>5, <1>6 DEF Token
<1>8. gift \in Gift \union {None} /\ gift.value = token /\ gift # None
  BY <1>5, <1>7 DEF Gift, Value
<1>9. grants' \subseteq Grant
  BY <1>1, <1>2, <1>3, <1>4, <1>5, <1>6 DEF TypeOK, Grant
<1>10. events' \subseteq Event
  BY <1>1, <1>2, <1>4 DEF TypeOK, Event, EventTypes
<1>11. \A g \in grants' \ grants : GrantLogged(g)'
  <2>1. event \in events' /\ event.type = "login_success" /\ event.actor = grant.actor
    BY <1>2
  <2>2. boots' = boots /\ grant.boot = boots BY <1>2 DEF server
  <2>3. SUFFICES ASSUME NEW g \in grants' \ grants PROVE GrantLogged(g)' OBVIOUS
  <2>4. g = grant BY <1>2, <2>3
  <2> QED BY <1>6, <2>1, <2>2, <2>4 DEF GrantLogged
<1>12. BackedBy(grants', b, gift.value)
  <2>1. token \notin Users /\ grant \in grants' BY <1>2, <1>7
  <2> QED BY <2>1, <1>6, <1>8 DEF BackedBy
<1>13. GivesIdentity(calls[c].ask) /\ calls[c].ask.name # "logout"
  BY <1>3 DEF GivesIdentity
<1>14. events \subseteq events' /\ grants \subseteq grants' BY <1>2
<1> HIDE DEF gift
<1> QED BY <1>2, <1>8, <1>9, <1>10, <1>11, <1>12, <1>13, <1>14, AnswerKeeps DEF b

LEMMA DemoSwitchKeeps == ASSUME IInv, NEW c \in Calls, DemoSwitch(c) PROVE IInv'
<1> USE NamesAssumption, ChoicesAssumption, NumbersAssumption, ShapesAssumption
<1> DEFINE u == calls[c].ask.user
           b == calls[c].from
           gift == [name |-> DemoCookie, value |-> u, age |-> DemoMaxAge]
           grant == [browser |-> b, actor |-> u, secret |-> None,
                     until |-> clock + DemoMaxAge, boot |-> boots]
           event == [call |-> c, type |-> "demo_actor_switch", actor |-> u]
<1>1. TypeOK /\ Addressed(c) BY DEF IInv, CallsBacked
<1>2. /\ calls[c].at = "sent" /\ calls[c].ask.name = "demo_switch"
      /\ events' = events \union {event}
      /\ Answer(c, {}, gift, None) /\ grants' = grants \union {grant}
      /\ UNCHANGED <<server, clock, jar, clean>>
  BY DEF DemoSwitch, Serving, Record
<1>3. b \in Browsers /\ calls[c].ask \in Asks BY <1>1, <1>2 DEF Addressed
<1>4. u \in Users BY <1>2, <1>3 DEF AllAsks
<1>5. clock + DemoMaxAge \in Nat /\ boots \in 0..MaxBoots BY <1>1 DEF TypeOK
<1> HIDE DEF u, b
<1>6. gift \in Gift \union {None} /\ gift.value = u BY <1>4 DEF Gift, Value
<1>7. grants' \subseteq Grant
  BY <1>1, <1>2, <1>3, <1>4, <1>5 DEF TypeOK, Grant
<1>8. events' \subseteq Event
  BY <1>1, <1>2, <1>4 DEF TypeOK, Event, EventTypes
<1>9. \A g \in grants' \ grants : GrantLogged(g)'
  BY <1>2, <1>5 DEF GrantLogged, server
<1>10. BackedBy(grants', b, gift.value)
  <2>1. u \notin Token /\ grant \in grants' BY <1>2, <1>4
  <2> QED BY <2>1, <1>6 DEF BackedBy
<1>11. GivesIdentity(calls[c].ask) /\ calls[c].ask.name # "logout"
  BY <1>2 DEF GivesIdentity
<1>12. events \subseteq events' /\ grants \subseteq grants' BY <1>2
<1> HIDE DEF gift
<1> QED BY <1>2, <1>6, <1>7, <1>8, <1>9, <1>10, <1>11, <1>12, AnswerKeeps DEF b

\* One step per route.
LEMMA ServeKeeps == ASSUME IInv, NEW c \in Calls, Serve(c) PROVE IInv'
<1> USE NamesAssumption, ChoicesAssumption, NumbersAssumption, ShapesAssumption
<1> DEFINE u == calls[c].ask.user
<1>0. /\ TypeOK /\ env \in Environments /\ Addressed(c) /\ Verifying(c)
      /\ {} \in SUBSET CookieNames /\ None \in Users \union {None}
  BY DEF IInv, TypeOK, CallsBacked
<1>a. /\ calls[c].cookies \in [CookieNames -> Value \union {None}]
      /\ calls[c].at = "sent" =>
           calls[c].ask \in [name : {"logout", "session", "operate", "demo_reset"}]
             \union [name : {"login"}, user : Users, password : Passwords]
             \union [name : {"demo_switch"}, user : Users]
  BY <1>0 DEF TypeOK, Call, Addressed, AllAsks
<1>b. calls[c].at = "sent" /\ calls[c].ask.name \in {"login", "demo_switch"} => u \in Users
  BY <1>a
<1>1. CASE LoginRefused(c)
  <2>1. calls[c].ask.name # "logout" BY <1>1 DEF LoginRefused, Serving
  <2> QED BY <1>1, <2>1, <1>0, PlainAnswerKeeps DEF LoginRefused, Serving
<1>2. CASE LoginNotFound(c)
  <2>1. Record(c, "login_failed", IF users[u] = None THEN None ELSE u)
    BY <1>2 DEF LoginNotFound
  <2>2. u \in Users /\ calls[c].ask.name # "logout" BY <1>2, <1>b DEF LoginNotFound, Serving
  <2>3. \E type \in EventTypes, who \in Users \union {None} : Record(c, type, who)
    BY <2>1, <2>2 DEF EventTypes
  <2> QED BY <1>2, <2>2, <2>3, <1>0, PlainAnswerKeeps DEF LoginNotFound, Serving
<1>3. CASE LoginWrongPassword(c)
  <2>1. calls[c].ask.name = "login" /\ u \in Users /\ calls[c].at = "verifying"
    BY <1>3, <1>0 DEF LoginWrongPassword, Verifying, Addressed, AllAsks
  <2>2. \E type \in EventTypes, who \in Users \union {None} : Record(c, type, who)
    BY <1>3, <2>1 DEF LoginWrongPassword, EventTypes
  <2> QED BY <1>3, <2>1, <2>2, <1>0, PlainAnswerKeeps DEF LoginWrongPassword
<1>4. CASE Logout(c)
  <2>1. SessionActor(calls[c].cookies) \in Users \union {None}
    BY <1>4, <1>0, <1>a, SessionActorTypes DEF Logout
  <2>2. \E type \in EventTypes, who \in Users \union {None} : Record(c, type, who)
    BY <1>4, <2>1 DEF Logout, EventTypes
  <2>3. BothCookies \in SUBSET CookieNames BY <1>4, <1>0, BothCookiesTypes DEF Logout
  <2> QED BY <1>4, <2>2, <2>3, <1>0, PlainAnswerKeeps DEF Logout, Serving
<1>5. CASE SessionProbe(c)
  <2> DEFINE cause == Cause(calls[c].cookies)
  <2>1. BothCookies \in SUBSET CookieNames BY <1>5, <1>0, BothCookiesTypes DEF SessionProbe
  <2>2. calls[c].at = "sent" /\ calls[c].ask.name # "logout"
    BY <1>5 DEF SessionProbe, Serving
  <2>3. CASE cause \in {"OK", "NO_COOKIE"}
    BY <1>5, <2>2, <2>3, <1>0, PlainAnswerKeeps DEF SessionProbe
  <2>4. CASE cause \notin {"OK", "NO_COOKIE"}
    <3>1. EventTypeFromCause(cause) \in EventTypes
      BY DEF EventTypeFromCause, EventTypes
    <3>2. \E type \in EventTypes, who \in Users \union {None} : Record(c, type, who)
      BY <1>5, <2>4, <3>1 DEF SessionProbe
    <3> QED BY <1>5, <2>1, <2>2, <2>4, <3>2, <1>0, PlainAnswerKeeps DEF SessionProbe
  <2> QED BY <2>3, <2>4
<1>6. CASE Operate(c)
  <2> DEFINE actor == ResolveActor(calls[c].cookies)
  <2>1. actor \in Users \union {None} BY <1>6, <1>0, <1>a, SessionActorTypes DEF Operate
  <2>2. (IF actor = None THEN {DemoCookie} ELSE {}) \in SUBSET CookieNames OBVIOUS
  <2>3. calls[c].at = "sent" /\ calls[c].ask.name # "logout" BY <1>6 DEF Operate, Serving
  <2> HIDE DEF actor
  <2> QED BY <1>6, <2>1, <2>2, <2>3, PlainAnswerKeeps DEF Operate, actor
<1>7. CASE DemoForbidden(c)
  <2>1. calls[c].at = "sent" /\ calls[c].ask.name # "logout"
    BY <1>7 DEF DemoForbidden, Serving
  <2>2. \E type \in EventTypes, who \in Users \union {None} : Record(c, type, who)
    BY <1>7 DEF DemoForbidden, EventTypes
  <2> QED BY <1>7, <2>1, <2>2, <1>0, PlainAnswerKeeps DEF DemoForbidden
<1>8. CASE DemoReset(c)
  <2>1. calls[c].at = "sent" /\ calls[c].ask.name # "logout"
    BY <1>8 DEF DemoReset, Serving
  <2>2. {DemoCookie} \in SUBSET CookieNames OBVIOUS
  <2> QED BY <1>8, <2>1, <2>2, <1>0, PlainAnswerKeeps DEF DemoReset
<1>9. CASE Misconfigured(c)
  BY <1>9, <1>0, PlainAnswerKeeps DEF Misconfigured
<1>10. CASE LoginFound(c)
  BY <1>10, LoginFoundKeeps
<1>11. CASE LoginSucceeds(c)
  BY <1>11, LoginSucceedsKeeps
<1>12. CASE DemoSwitch(c)
  BY <1>12, DemoSwitchKeeps
<1> QED BY <1>1, <1>2, <1>3, <1>4, <1>5, <1>6, <1>7, <1>8, <1>9, <1>10, <1>11, <1>12
        DEF Serve

-----------------------------------------------------------------------------
(* The browsers, the clock, and the server's life *)

LEMMA SendKeeps ==
  ASSUME IInv, NEW c \in Calls, NEW b \in Browsers, NEW ask \in Asks, Send(c, b, ask)
  PROVE  IInv'
<1> USE NamesAssumption, NumbersAssumption, ShapesAssumption
<1> USE DEF IInv, server
<1> DEFINE call == [Idle EXCEPT !.at = "sent", !.from = b, !.ask = ask,
                                !.cookies = Header(b)]
<1>0. /\ calls[c].at = "idle" /\ calls' = [calls EXCEPT ![c] = call]
      /\ UNCHANGED <<env, boots, users, events, clock, jar, grants>>
      /\ clean' = IF GivesIdentity(ask) THEN [clean EXCEPT ![b] = {}] ELSE clean
  BY DEF Send
<1>1. Header(b) \in [CookieNames -> Value \union {None}]
  BY DEF Header, TypeOK, Cookie
<1>2. call \in Call BY <1>1 DEF Idle, Call
<1>3. /\ call.at = "sent" /\ call.from = b /\ call.ask = ask /\ call.cookies = Header(b)
  BY DEF Idle
<1> HIDE DEF call
<1>4. TypeOK' BY <1>0, <1>2 DEF TypeOK
<1>5. ASSUME NEW d \in Calls
      PROVE  (HeaderBacked(d) /\ Addressed(d) /\ Verifying(d) /\ AnswerBacked(d))'
  <2>1. CASE d = c
    <3>1. calls'[d] = call BY <1>0, <2>1 DEF TypeOK
    <3>2. \A n \in CookieNames : call.cookies[n] # None => Backed(b, call.cookies[n])
      BY <1>3 DEF JarsBacked, Header
    <3> QED BY <1>0, <1>3, <3>1, <3>2
            DEF HeaderBacked, Addressed, Verifying, AnswerBacked, Backed
  <2>2. CASE d # c
    <3>1. calls'[d] = calls[d] BY <1>0, <2>2 DEF TypeOK
    <3>2. HeaderBacked(d) /\ Addressed(d) /\ Verifying(d) /\ AnswerBacked(d)
      BY DEF CallsBacked
    <3> QED BY <3>1, <3>2, <1>0
            DEF HeaderBacked, Addressed, Verifying, AnswerBacked, Backed, conf, BothCookies
  <2> QED BY <2>1, <2>2
<1>6. JarsBacked' BY <1>0 DEF JarsBacked, Backed
<1>7. GrantsLogged' BY <1>0 DEF GrantsLogged, GrantLogged
<1>8. NothingComing'
  <2> SUFFICES ASSUME NEW a \in Browsers, clean'[a] # {}, NEW d \in InFlight',
                      calls'[d].from = a
               PROVE  ~GivesIdentity(calls'[d].ask)
    BY DEF NothingComing
  <2>1. clean[a] # {} /\ (a = b => ~GivesIdentity(ask)) BY <1>0 DEF TypeOK
  <2>2. CASE d = c BY <1>0, <1>3, <2>1, <2>2 DEF TypeOK
  <2>3. CASE d # c
    <3>1. d \in InFlight /\ calls'[d] = calls[d] BY <1>0, <2>3 DEF InFlight, TypeOK
    <3> QED BY <3>1, <2>1 DEF NothingComing
  <2> QED BY <2>2, <2>3
<1>9. SignOutIsComplete' BY <1>0 DEF SignOutIsComplete, TypeOK
<1> QED BY <1>4, <1>5, <1>6, <1>7, <1>8, <1>9 DEF CallsBacked

\* The user store alone changes.
LEMMA UsersChange ==
  ASSUME IInv, users' \in [Users -> Account \union {None}],
         UNCHANGED <<env, boots, events, clock, jar, calls, grants, clean>>
  PROVE  IInv'
<1> USE DEF IInv
<1>1. TypeOK' BY DEF TypeOK
<1>2. JarsBacked' BY DEF JarsBacked, Backed
<1>3. CallsBacked'
  BY DEF CallsBacked, HeaderBacked, Addressed, Verifying, AnswerBacked, Backed, conf,
         BothCookies
<1>4. GrantsLogged' BY DEF GrantsLogged, GrantLogged
<1>5. NothingComing' BY DEF NothingComing, InFlight
<1>6. SignOutIsComplete' BY DEF SignOutIsComplete
<1> QED BY <1>1, <1>2, <1>3, <1>4, <1>5, <1>6

LEMMA SeedUsersKeeps ==
  ASSUME IInv, NEW p \in SeedPasswords, SeedUsers(p) PROVE IInv'
<1>1. users' \in [Users -> Account \union {None}]
  BY ChoicesAssumption DEF SeedUsers, IInv, TypeOK, Account
<1> QED BY <1>1, UsersChange DEF SeedUsers

LEMMA SetDisabledKeeps ==
  ASSUME IInv, NEW u \in Managed, NEW flag \in BOOLEAN, SetDisabled(u, flag) PROVE IInv'
<1>1. users[u] \in Account BY ChoicesAssumption DEF SetDisabled, IInv, TypeOK
<1>2. [users[u] EXCEPT !.disabled = flag] \in Account BY <1>1 DEF Account
<1>3. users' \in [Users -> Account \union {None}]
  BY <1>2 DEF SetDisabled, IInv, TypeOK
<1> QED BY <1>3, UsersChange DEF SetDisabled

LEMMA TickKeeps == ASSUME IInv, Tick PROVE IInv'
<1> USE NumbersAssumption, ShapesAssumption
<1> USE DEF IInv, server
<1>0. /\ clock \in 0..MaxTime /\ clock' = clock + 1 /\ clock < MaxTime
      /\ jar' = [b \in Browsers |-> [n \in CookieNames |-> Kept(jar[b][n], clock')]]
      /\ UNCHANGED <<env, boots, users, events, calls, grants, clean>>
  BY DEF Tick, TypeOK
<1>1. \A b \in Browsers : \A n \in CookieNames : jar'[b][n] \in {jar[b][n], None}
  BY <1>0 DEF Kept
<1>2. jar' \in [Browsers -> [CookieNames -> Cookie \union {None}]]
  BY <1>0, <1>1 DEF TypeOK
<1>3. TypeOK' BY <1>0, <1>2 DEF TypeOK
<1>4. JarsBacked' BY <1>0, <1>1 DEF JarsBacked, Backed
<1>5. CallsBacked'
  BY <1>0 DEF CallsBacked, HeaderBacked, Addressed, Verifying, AnswerBacked, Backed,
              conf, BothCookies
<1>6. GrantsLogged' BY <1>0 DEF GrantsLogged, GrantLogged
<1>7. NothingComing' BY <1>0 DEF NothingComing, InFlight
<1>8. SignOutIsComplete' BY <1>0, <1>1 DEF SignOutIsComplete, TypeOK
<1> QED BY <1>3, <1>4, <1>5, <1>6, <1>7, <1>8

LEMMA ArriveKeeps == ASSUME IInv, NEW c \in Calls, Arrive(c) PROVE IInv'
<1> USE NamesAssumption, NumbersAssumption, ShapesAssumption
<1> USE DEF IInv, server
<1> DEFINE call == calls[c]
           b == calls[c].from
<1>0. /\ call.at = "answered"
      /\ calls' = [calls EXCEPT ![c] = Finished]
      /\ UNCHANGED <<env, boots, users, events, clock, grants>>
  BY DEF Arrive
<1>1. /\ b \in Browsers /\ call \in Call /\ call.ask \in Asks
      /\ call.gives # None => Backed(b, call.gives.value) /\ GivesIdentity(call.ask)
      /\ call.ask.name = "logout" /\ call.boot = boots /\ Readable(env)
           => call.clears = BothCookies
  BY <1>0 DEF CallsBacked, Addressed, AnswerBacked, TypeOK
<1>2. jar' = [jar EXCEPT ![b] = [n \in CookieNames |->
               IF call.gives # None /\ call.gives.name = n
               THEN [value |-> call.gives.value, dies |-> clock + call.gives.age]
               ELSE IF n \in call.clears THEN None ELSE jar[b][n]]]
  BY DEF Arrive
<1>3. \/ clean' = clean
      \/ /\ call.ask.name = "logout" /\ call.boot = boots /\ Readable(env)
         /\ \A d \in InFlight : calls[d].from = b => ~GivesIdentity(calls[d].ask)
         /\ clean' = [clean EXCEPT ![b] = {conf.cookieName, DemoCookie}]
  BY DEF Arrive
<1>4. call.gives \in Gift \union {None} BY <1>1 DEF Call
<1>5. call.gives # None =>
        [value |-> call.gives.value, dies |-> clock + call.gives.age] \in Cookie
  BY <1>4 DEF Gift, Cookie, TypeOK
<1>6. Finished \in Call /\ Finished.at = "done"
  BY DEF Finished, Idle, Call, NoCookies
<1> HIDE DEF call, b
<1>7. TypeOK'
  <2>1. jar' \in [Browsers -> [CookieNames -> Cookie \union {None}]]
    BY <1>1, <1>2, <1>5 DEF TypeOK
  <2>2. calls' \in [Calls -> Call] BY <1>0, <1>6 DEF TypeOK
  <2>3. clean' \in [Browsers -> SUBSET CookieNames]
    <3>1. Readable(env) => conf.cookieName \in CookieNames BY ConfTypes DEF TypeOK
    <3>2. clean \in [Browsers -> SUBSET CookieNames] BY DEF TypeOK
    <3>3. CASE clean' = clean BY <3>2, <3>3
    <3>4. CASE clean' # clean
      <4>1. {conf.cookieName, DemoCookie} \in SUBSET CookieNames BY <1>3, <3>1, <3>4
      <4>2. clean' = [clean EXCEPT ![b] = {conf.cookieName, DemoCookie}] BY <1>3, <3>4
      <4> QED BY <1>1, <3>2, <4>1, <4>2
    <3> QED BY <3>3, <3>4
  <2> QED BY <1>0, <2>1, <2>2, <2>3 DEF TypeOK
<1>8. JarsBacked'
  <2> SUFFICES ASSUME NEW a \in Browsers, NEW n \in CookieNames, jar'[a][n] # None
               PROVE  BackedBy(grants', a, jar'[a][n].value)
    BY DEF JarsBacked, Backed
  <2>1. CASE a = b /\ call.gives # None /\ call.gives.name = n
    <3>1. jar'[a][n].value = call.gives.value BY <1>1, <1>2, <2>1 DEF TypeOK
    <3> QED BY <1>0, <1>1, <2>1, <3>1 DEF Backed
  <2>2. CASE ~(a = b /\ call.gives # None /\ call.gives.name = n)
    <3>1. jar'[a][n] = jar[a][n] BY <1>1, <1>2, <2>2 DEF TypeOK
    <3> QED BY <1>0, <3>1 DEF JarsBacked, Backed
  <2> QED BY <2>1, <2>2
<1>9. CallsBacked'
  <2> SUFFICES ASSUME NEW d \in Calls
               PROVE  (HeaderBacked(d) /\ Addressed(d) /\ Verifying(d) /\ AnswerBacked(d))'
    BY DEF CallsBacked
  <2>1. CASE d = c
    <3>1. calls'[d].at = "done" BY <1>0, <1>6, <2>1 DEF TypeOK
    <3> QED BY <3>1 DEF HeaderBacked, Addressed, Verifying, AnswerBacked
  <2>2. CASE d # c
    <3>1. calls'[d] = calls[d] BY <1>0, <2>2 DEF TypeOK
    <3>2. HeaderBacked(d) /\ Addressed(d) /\ Verifying(d) /\ AnswerBacked(d)
      BY DEF CallsBacked
    <3> QED BY <3>1, <3>2, <1>0
            DEF HeaderBacked, Addressed, Verifying, AnswerBacked, Backed, conf, BothCookies
  <2> QED BY <2>1, <2>2
<1>10. GrantsLogged' BY <1>0 DEF GrantsLogged, GrantLogged
<1>11. \A d \in InFlight' : d \in InFlight /\ calls'[d] = calls[d]
  BY <1>0, <1>6 DEF InFlight, TypeOK
<1>12. NothingComing'
  <2> SUFFICES ASSUME NEW a \in Browsers, clean'[a] # {}, NEW d \in InFlight',
                      calls'[d].from = a
               PROVE  ~GivesIdentity(calls'[d].ask)
    BY DEF NothingComing
  <2>1. CASE clean' = clean BY <1>11, <2>1 DEF NothingComing
  <2>2. CASE clean' # clean /\ a = b BY <1>3, <1>11, <2>2
  <2>3. CASE clean' # clean /\ a # b
    <3>1. clean'[a] = clean[a] BY <1>3, <2>3 DEF TypeOK
    <3> QED BY <3>1, <1>11 DEF NothingComing
  <2> QED BY <2>1, <2>2, <2>3
<1>13. SignOutIsComplete'
  <2> SUFFICES ASSUME NEW a \in Browsers, NEW n \in clean'[a] PROVE jar'[a][n] = None
    BY DEF SignOutIsComplete
  <2>1. n \in CookieNames BY <1>7 DEF TypeOK
  <2>2. CASE n \in clean[a]
    <3>1. jar[a][n] = None BY <2>2 DEF SignOutIsComplete
    <3>2. c \in InFlight BY <1>0 DEF InFlight, call
    <3>3. a = b => call.gives = None
      BY <1>1, <2>2, <3>2 DEF NothingComing, call, b
    <3> QED BY <1>1, <1>2, <2>1, <3>1, <3>3 DEF TypeOK
  <2>3. CASE n \notin clean[a]
    <3>1. /\ a = b /\ call.ask.name = "logout" /\ call.boot = boots /\ Readable(env)
          /\ n \in {conf.cookieName, DemoCookie}
      BY <1>3, <2>3 DEF TypeOK
    <3>2. n \in call.clears BY <1>1, <3>1 DEF BothCookies
    <3>3. call.gives = None BY <1>1, <3>1 DEF GivesIdentity
    <3> QED BY <1>1, <1>2, <2>1, <3>1, <3>2, <3>3 DEF TypeOK
  <2> QED BY <2>2, <2>3
<1> QED BY <1>7, <1>8, <1>9, <1>10, <1>12, <1>13

LEMMA RestartKeeps == ASSUME IInv, NEW e \in Environments, Restart(e) PROVE IInv'
<1> USE NumbersAssumption, ShapesAssumption, NamesAssumption
<1> USE DEF IInv
<1>0. /\ boots \in 0..MaxBoots /\ boots < MaxBoots /\ boots' = boots + 1 /\ env' = e
      /\ users' = [u \in Users |-> None] /\ events' = {}
      /\ calls' = [c \in Calls |-> IF calls[c].at \in {"sent", "verifying"}
                                   THEN Finished ELSE calls[c]]
      /\ UNCHANGED <<clock, jar, grants, clean>>
  BY DEF Restart, TypeOK
<1>1. Finished \in Call /\ Finished.at = "done"
  BY DEF Finished, Idle, Call, NoCookies
<1>2. \A c \in Calls :
        \/ calls'[c].at = "done"
        \/ calls'[c] = calls[c] /\ calls[c].at \notin {"sent", "verifying"}
  BY <1>0, <1>1
<1>3. TypeOK'
  <2>1. calls' \in [Calls -> Call] BY <1>0, <1>1 DEF TypeOK
  <2> QED BY <1>0, <2>1 DEF TypeOK
<1>4. JarsBacked' BY <1>0 DEF JarsBacked, Backed
<1>5. CallsBacked'
  <2> SUFFICES ASSUME NEW d \in Calls
               PROVE  (HeaderBacked(d) /\ Addressed(d) /\ Verifying(d) /\ AnswerBacked(d))'
    BY DEF CallsBacked
  <2>1. CASE calls'[d].at = "done"
    BY <2>1 DEF HeaderBacked, Addressed, Verifying, AnswerBacked
  <2>2. CASE calls'[d].at # "done"
    <3>1. calls'[d] = calls[d] /\ calls[d].at \notin {"sent", "verifying"}
      BY <1>2, <2>2
    <3>2. Addressed(d) /\ AnswerBacked(d) BY DEF CallsBacked
    <3>3. AnswerBacked(d)'
      BY <1>0, <3>1, <3>2 DEF AnswerBacked, Backed
    <3> QED BY <3>1, <3>2, <3>3 DEF HeaderBacked, Addressed, Verifying
  <2> QED BY <2>1, <2>2
<1>6. GrantsLogged' BY <1>0 DEF GrantsLogged, GrantLogged, TypeOK, Grant
<1>7. NothingComing'
  <2>1. \A d \in InFlight' : d \in InFlight /\ calls'[d] = calls[d]
    BY <1>2 DEF InFlight
  <2> QED BY <2>1, <1>0 DEF NothingComing
<1>8. SignOutIsComplete' BY <1>0 DEF SignOutIsComplete
<1> QED BY <1>3, <1>4, <1>5, <1>6, <1>7, <1>8

LEMMA NextKeeps == IInv /\ [Next]_vars => IInv'
<1> SUFFICES ASSUME IInv, [Next]_vars PROVE IInv' OBVIOUS
<1>1. ASSUME NEW c \in Calls, NEW b \in Browsers, NEW ask \in Asks, Send(c, b, ask)
      PROVE  IInv'
  BY <1>1, SendKeeps
<1>2. ASSUME NEW c \in Calls, Serve(c) \/ Arrive(c) PROVE IInv'
  BY <1>2, ServeKeeps, ArriveKeeps
<1>3. ASSUME NEW p \in SeedPasswords, SeedUsers(p) PROVE IInv' BY <1>3, SeedUsersKeeps
<1>4. ASSUME NEW u \in Managed, NEW flag \in BOOLEAN, SetDisabled(u, flag) PROVE IInv'
  BY <1>4, SetDisabledKeeps
<1>5. ASSUME NEW e \in Environments, Restart(e) PROVE IInv' BY <1>5, RestartKeeps
<1>6. CASE Tick BY <1>6, TickKeeps
<1>7. CASE UNCHANGED vars
  <2>1. users' = users /\ UNCHANGED <<env, boots, events, clock, jar, calls, grants, clean>>
    BY <1>7 DEF vars
  <2> QED BY <2>1, UsersChange DEF IInv, TypeOK
<1> QED BY <1>1, <1>2, <1>3, <1>4, <1>5, <1>6, <1>7 DEF Next

-----------------------------------------------------------------------------
(* The step that acts *)

\* Only the operations route acts as anyone.
LEMMA ActIsOperate ==
  ASSUME IInv, [Next]_vars, NEW c \in Calls, Acts(c) PROVE Operate(c)
<1> USE ShapesAssumption DEF Acts, Serving
<1>0. TypeOK BY DEF IInv
<1>1. calls[c].at = "sent" /\ calls[c].ask.name = "operate" /\ calls'[c] # calls[c]
  OBVIOUS
<1>2. \/ \E d \in Calls, b \in Browsers, ask \in Asks : Send(d, b, ask)
      \/ \E d \in Calls : Serve(d) \/ Arrive(d)
      \/ \E e \in Environments : Restart(e)
  <2>1. calls' # calls BY <1>1
  <2>2. Next BY <2>1 DEF vars
  <2>3. ~Tick /\ (\A p : ~SeedUsers(p)) /\ (\A u, flag : ~SetDisabled(u, flag))
    BY <2>1 DEF Tick, SeedUsers, SetDisabled
  <2> QED BY <2>2, <2>3 DEF Next
<1>3. ASSUME NEW d \in Calls, NEW b \in Browsers, NEW ask \in Asks, Send(d, b, ask)
      PROVE  FALSE
  BY <1>0, <1>1, <1>3 DEF Send, TypeOK, Idle
<1>4. ASSUME NEW d \in Calls, Arrive(d) PROVE FALSE
  BY <1>0, <1>1, <1>4 DEF Arrive, TypeOK, Finished, Idle
<1>5. ASSUME NEW e \in Environments, Restart(e) PROVE FALSE
  BY <1>1, <1>5 DEF Restart, Finished, Idle
<1>6. ASSUME NEW d \in Calls, Serve(d) PROVE Operate(c)
  <2>1. d = c
    <3> SUFFICES ASSUME d # c PROVE calls'[c] = calls[c] BY <1>1
    <3>1. LoginFound(d) \/ \E clears, gives, actor : Answer(d, clears, gives, actor)
      BY <1>6 DEF Serve, LoginRefused, LoginNotFound, LoginWrongPassword, LoginSucceeds,
                  Logout, SessionProbe, Operate, DemoForbidden, DemoSwitch, DemoReset,
                  Misconfigured
    <3> QED BY <1>0, <3>1 DEF TypeOK, LoginFound, Answer
  <2>2. ~Misconfigured(c)
    <3> SUFFICES ASSUME Misconfigured(c) PROVE calls'[c].as = None OBVIOUS
    <3> QED BY <1>0 DEF Misconfigured, Answer, TypeOK, Call
  <2> QED BY <1>1, <1>6, <2>1, <2>2
          DEF Serve, LoginRefused, LoginNotFound, LoginFound, LoginWrongPassword,
              LoginSucceeds, Logout, SessionProbe, DemoForbidden, DemoSwitch, DemoReset
<1> QED BY <1>2, <1>3, <1>4, <1>5, <1>6

\* What the operations route acts on.
LEMMA OperateActs ==
  ASSUME IInv, NEW c \in Calls, Operate(c), Acts(c)
  PROVE  /\ calls'[c].as = ResolveActor(calls[c].cookies)
         /\ ResolveActor(calls[c].cookies) # None
         /\ Readable(env) /\ TypeOK /\ HeaderBacked(c) /\ Addressed(c)
         /\ calls[c].at = "sent" /\ calls[c].from \in Browsers
         /\ calls[c].cookies \in [CookieNames -> Value \union {None}]
         /\ conf.mode \in {"demo", "signed_cookie"} /\ conf.cookieName \in CookieNames
         /\ conf.mode = "signed_cookie" => conf.secret \in StrongSecrets
<1>1. TypeOK /\ HeaderBacked(c) /\ Addressed(c) /\ Readable(env) /\ calls[c].at = "sent"
  BY DEF IInv, CallsBacked, Operate, Serving
<1>2. calls'[c].as = ResolveActor(calls[c].cookies)
  BY <1>1 DEF Operate, Answer, TypeOK, Call
<1>3. calls[c].from \in Browsers /\ calls[c].cookies \in [CookieNames -> Value \union {None}]
  BY <1>1 DEF Addressed, TypeOK, Call
<1>4. env \in Environments BY <1>1 DEF TypeOK
<1> QED BY <1>1, <1>2, <1>3, <1>4, ConfTypes DEF Acts

\* In signed mode it acts on a token that passed every check.
LEMMA SignedActs ==
  ASSUME IInv, NEW c \in Calls, Operate(c), Acts(c), conf.mode = "signed_cookie"
  PROVE  /\ users[calls'[c].as] # None /\ ~users[calls'[c].as].disabled
         /\ Signed(c) # {}
<1> DEFINE t == calls[c].cookies[conf.cookieName]
<1>1. Cause(calls[c].cookies) = "OK" /\ calls'[c].as = t.user
  BY OperateActs DEF ResolveActor, SessionActor
<1>2. SignedCause(t) = "OK" BY <1>1 DEF Cause
<1>3. /\ t # None /\ TokenCause(t) = "OK"
      /\ users[t.user] # None /\ ~users[t.user].disabled
  BY <1>2 DEF SignedCause
<1>4. t \in Token /\ t.secret = conf.secret /\ ~(t.expires <= clock)
  BY <1>3 DEF TokenCause
<1>5. Backed(calls[c].from, t) BY <1>3, OperateActs DEF HeaderBacked
<1>6. PICK g \in grants : /\ g.browser = calls[c].from /\ g.actor = t.user
                          /\ g.secret = t.secret /\ t.expires <= g.until
  BY <1>4, <1>5 DEF Backed, BackedBy
<1>7. clock \in Nat /\ t.expires \in Nat /\ g.until \in Nat
  BY <1>4, OperateActs, NumbersAssumption DEF TypeOK, Grant, Token
<1>8. clock < g.until BY <1>4, <1>6, <1>7
<1> HIDE DEF t
<1> QED BY <1>1, <1>3, <1>4, <1>6, <1>8 DEF Signed

LEMMA DemoActs ==
  ASSUME IInv, NEW c \in Calls, Operate(c), Acts(c), conf.mode # "signed_cookie"
  PROVE  IF calls[c].cookies[DemoCookie] = None THEN calls'[c].as = DefaultActor
         ELSE Chosen(c) # {}
<1> DEFINE id == calls[c].cookies[DemoCookie]
<1>1. conf.mode = "demo" BY OperateActs
<1>2. CASE id = None
  BY <1>1, <1>2, OperateActs DEF ResolveActor, Cause, DemoCause
<1>3. CASE id # None
  <2>1. Cause(calls[c].cookies) # "NO_COOKIE" BY <1>1, <1>3 DEF Cause, DemoCause
  <2>2. Cause(calls[c].cookies) = "OK" /\ calls'[c].as = id
    BY <1>1, <2>1, OperateActs DEF ResolveActor, SessionActor
  <2>3. id \in Users BY <1>1, <2>2 DEF Cause, DemoCause
  <2>4. Backed(calls[c].from, id)
    BY <1>3, OperateActs, NamesAssumption DEF HeaderBacked
  <2>5. \E g \in grants : g.browser = calls[c].from /\ g.actor = id /\ g.secret = None
    BY <2>3, <2>4 DEF Backed, BackedBy
  <2> QED BY <1>3, <2>2, <2>5 DEF Chosen
<1> QED BY <1>2, <1>3

LEMMA StepActsAsGranted ==
  ASSUME IInv, [Next]_vars, NEW c \in Calls, Acts(c)
  PROVE  IF conf.mode = "signed_cookie" THEN Signed(c) # {}
         ELSE IF calls[c].cookies[DemoCookie] = None THEN calls'[c].as = DefaultActor
         ELSE Chosen(c) # {}
BY ActIsOperate, SignedActs, DemoActs

LEMMA StepIsLogged ==
  ASSUME IInv, [Next]_vars, NEW c \in Calls, Acts(c), conf.mode = "signed_cookie"
  PROVE  \/ \E g \in Signed(c) : g.boot < boots
         \/ \E e \in events : e.type = "login_success" /\ e.actor = calls'[c].as
<1>1. Operate(c) BY ActIsOperate
<1>2. PICK g \in Signed(c) : TRUE BY <1>1, SignedActs
<1>3. g \in grants /\ g.actor = calls'[c].as /\ g.secret \in StrongSecrets
  BY <1>1, <1>2, OperateActs DEF Signed
<1>4. GrantLogged(g) BY <1>3 DEF IInv, GrantsLogged
<1>5. g.secret # None BY <1>3, ChoicesAssumption, ShapesAssumption
<1>6. g.boot \in Nat /\ boots \in Nat
  BY <1>3, NumbersAssumption DEF IInv, TypeOK, Grant
<1> QED BY <1>2, <1>3, <1>4, <1>5, <1>6 DEF GrantLogged

-----------------------------------------------------------------------------
(* The theorems *)

\* The inductive invariant holds in every behaviour of the sessions.
THEOREM SessionsInvariant == Spec => []IInv
BY InitIInv, NextKeeps, PTL DEF Spec

\* The variables of Sessions keep their types: in particular no session is ever
\* signed with a secret that readAuthConfig calls weak.
THEOREM SessionTypes == Spec => []TypeOK
<1>1. IInv => TypeOK BY DEF IInv
<1> QED BY <1>1, SessionsInvariant, PTL

\* Whatever browsers, users, secrets, ages and restarts there are, an operation
\* runs as an actor only on a cookie given to that browser for it, still in force.
THEOREM NobodyActsUngranted == Spec => ActsOnlyAsGranted
<1>1. IInv /\ [Next]_vars =>
        [\A c \in Calls : Acts(c) =>
           IF conf.mode = "signed_cookie" THEN Signed(c) # {}
           ELSE IF calls[c].cookies[DemoCookie] = None THEN calls'[c].as = DefaultActor
           ELSE Chosen(c) # {}]_vars
  BY StepActsAsGranted
<1> QED BY <1>1, SessionsInvariant, PTL DEF Spec, ActsOnlyAsGranted

\* Every session acted on has its login in the event log of the server that
\* verified it, for as long as that log exists.
THEOREM SessionsInLog == Spec => SessionsAreLogged
<1>1. IInv /\ [Next]_vars =>
        [\A c \in Calls : Acts(c) /\ conf.mode = "signed_cookie" =>
           \/ \E g \in Signed(c) : g.boot < boots
           \/ \E e \in events : e.type = "login_success" /\ e.actor = calls'[c].as]_vars
  BY StepIsLogged
<1> QED BY <1>1, SessionsInvariant, PTL DEF Spec, SessionsAreLogged

\* A browser that has signed out holds no session until it asks for one, whatever
\* the order in which answers reach it and whatever the server is restarted as.
THEOREM SignedOutIsOut == Spec => []SignOutIsComplete
<1>1. IInv => SignOutIsComplete BY DEF IInv
<1> QED BY <1>1, SessionsInvariant, PTL
=============================================================================
