------------------------------ MODULE Sessions -----------------------------
(***************************************************************************)
(* Who a request acts as: packages/web/lib/auth and the routes under       *)
(* packages/web/app/api/auth, with the part of the operations route that   *)
(* resolves the actor.                                                     *)
(*                                                                         *)
(* A browser sends a call with the cookies it holds then; the server       *)
(* serves it later, perhaps in another configuration; the answer, with its *)
(* Set-Cookie headers, arrives later still, in any order or never.  A      *)
(* login waits for the password hash between its read of the user and its  *)
(* token.  A restart brings a new environment and loses the users, the     *)
(* event log and the calls being served; the browsers keep their cookies.  *)
(*                                                                         *)
(* A browser carries what the server gave it and nothing else.  SEED_USERS *)
(* and DEMO_ACTOR_REGISTRY have the same ids, here Users.                  *)
(***************************************************************************)
EXTENDS Naturals, FiniteSets

CONSTANTS
  Browsers, Users, Passwords,
  SeedPasswords,  \* those the seed route may be given
  Managed,        \* users somebody may disable and enable
  DefaultActor,   \* DEFAULT_DEMO_ACTOR_ID
  Secrets,        \* values of AUTH_SESSION_SECRET
  StrongSecrets,  \* those of at least 32 characters
  Environments,   \* environments the server is started in
  CookieNames,    \* values of AUTH_COOKIE_NAME, its default and DemoCookie
  Calls,          \* calls the browsers may make, each once
  Asks,           \* what they ask for (see AllAsks)
  None,           \* no cookie, no user, nobody
  DefaultMaxAge,  \* cookie age when the environment names none
  MinMaxAge,      \* the least age the environment may name
  DemoMaxAge,     \* DEMO_SESSION_COOKIE_MAX_AGE_SECONDS
  MaxInFlight,    \* bound: calls not finished at once
  MaxTime,        \* bound: the clock
  MaxBoots        \* bound: restarts

DemoCookie == "contractops_demo_actor"
DefaultCookie == "contractops_session"

Environment ==
  [mode : {"demo", "signed_cookie", "unknown"}, production : BOOLEAN,
   allowDemo : BOOLEAN, secret : Secrets \union {None},
   demo : {"unset", "on", "off"}, cookieName : CookieNames \union {None},
   maxAge : Nat \union {None}, seed : BOOLEAN]

AllAsks ==
  [name : {"logout", "session", "operate", "demo_reset"}]
    \union [name : {"login"}, user : Users, password : Passwords]
    \union [name : {"demo_switch"}, user : Users]

ASSUME NamesAssumption ==
  /\ {DemoCookie, DefaultCookie} \subseteq CookieNames
  /\ DefaultActor \in Users
ASSUME ChoicesAssumption ==
  /\ Environments \subseteq Environment
  /\ Asks \subseteq AllAsks
  /\ StrongSecrets \subseteq Secrets
  /\ SeedPasswords \subseteq Passwords /\ Managed \subseteq Users
ASSUME NumbersAssumption ==
  {DefaultMaxAge, MinMaxAge, DemoMaxAge, MaxInFlight, MaxTime, MaxBoots} \subseteq Nat

VARIABLES
  env,    \* the environment of the running server
  boots,  \* how often it was started again
  users,  \* the user store: each user's record, or None
  events, \* the auth event log, as [call, type, actor]
  clock,
  jar,    \* the cookies of each browser, with the time each dies
  calls,  \* each call: where it is, what it carries, what it was answered
  grants, \* history: identities given, to which browser, until when
  clean   \* history: cookie names a browser has signed out of
server == <<env, boots, users>>
vars == <<env, boots, users, events, clock, jar, calls, grants, clean>>

Token == [user : Users, secret : Secrets, expires : Nat]
Value == Users \union Token
Cookie == [value : Value, dies : Nat]
Account == [password : Passwords, disabled : BOOLEAN]
Gift == [name : CookieNames, value : Value, age : Nat]

\* A token is told from an actor id by its shape, and None from any datum.
ASSUME ShapesAssumption ==
  /\ \A u \in Users : u \notin Token
  /\ None \notin Nat \union Browsers \union Users \union Secrets \union CookieNames
  /\ None \notin Asks \union Token \union Cookie \union Account \union Gift

NoCookies == [n \in CookieNames |-> None]

EventTypes == {"login_success", "login_failed", "logout", "session_invalid",
               "session_expired", "session_tampered", "demo_actor_switch",
               "demo_auth_forbidden"}

-----------------------------------------------------------------------------
(* Configuration *)

\* Mutant: a short secret is as good as a long one.
ReadableAnySecret(e) ==
  /\ e.mode \in {"demo", "signed_cookie"}
  /\ e.mode = "demo" /\ e.production => e.allowDemo
  /\ e.mode = "signed_cookie" => e.secret # None
\* False when readAuthConfig throws: an unknown mode, demo mode in production,
\* a missing or a short secret.  Every route that needs it then fails.
Readable(e) ==
  /\ e.mode \in {"demo", "signed_cookie"}
  /\ e.mode = "demo" /\ e.production => e.allowDemo
  /\ e.mode = "signed_cookie" => e.secret \in StrongSecrets

ReadAuthConfig(e) ==
  [mode |-> e.mode,
   demoEnabled |-> e.demo = "on" \/ (e.demo = "unset" /\ e.mode = "demo"),
   secret |-> e.secret,
   cookieName |-> IF e.cookieName = None THEN DefaultCookie ELSE e.cookieName,
   maxAge |-> IF e.maxAge # None /\ e.maxAge >= MinMaxAge THEN e.maxAge
              ELSE DefaultMaxAge]

conf == ReadAuthConfig(env)

-----------------------------------------------------------------------------
(* The session a set of cookies stands for *)

\* verifySessionToken, in the order of its checks: "OK" or the error's code.
\* Mutant: a token is good in the second it expires.
TokenCauseLate(t) ==
  IF t \notin Token THEN "INVALID_TOKEN_SHAPE"
  ELSE IF t.secret # conf.secret THEN "INVALID_SIGNATURE"
  ELSE IF t.expires < clock THEN "EXPIRED" ELSE "OK"
TokenCause(t) ==
  IF t \notin Token THEN "INVALID_TOKEN_SHAPE"
  ELSE IF t.secret # conf.secret THEN "INVALID_SIGNATURE"
  ELSE IF t.expires <= clock THEN "EXPIRED" ELSE "OK"

\* SignedCookieAuthProvider.resolveSession.
SignedCause(t) ==
  IF t = None THEN "NO_COOKIE"
  ELSE IF TokenCause(t) # "OK" THEN TokenCause(t)
  ELSE IF users[t.user] = None THEN "UNKNOWN_USER"
  ELSE IF users[t.user].disabled THEN "DISABLED_USER" ELSE "OK"

\* DemoSessionAuthProvider.resolveSession.
DemoCause(id) ==
  IF id = None THEN "NO_COOKIE"
  ELSE IF id \notin Users THEN "UNKNOWN_ACTOR_COOKIE" ELSE "OK"

\* The provider of the current mode: what becomes of a request's cookies, and
\* the actor resolveActor returns for them; None when it throws.
Cause(cookies) == IF conf.mode = "demo" THEN DemoCause(cookies[DemoCookie])
                  ELSE SignedCause(cookies[conf.cookieName])
SessionActor(cookies) ==
  IF Cause(cookies) # "OK" THEN None
  ELSE IF conf.mode = "demo" THEN cookies[DemoCookie]
  ELSE cookies[conf.cookieName].user
ResolveActor(cookies) ==
  IF conf.mode = "demo" /\ Cause(cookies) = "NO_COOKIE" THEN DefaultActor
  ELSE SessionActor(cookies)

\* eventTypeFromCause.
EventTypeFromCause(cause) ==
  CASE cause = "EXPIRED" -> "session_expired"
    [] cause = "INVALID_SIGNATURE" -> "session_tampered"
    [] OTHER -> "session_invalid"

-----------------------------------------------------------------------------
(* Calls *)

\* A call on its way: the browser, what it asks, the cookies it carries, the
\* account a login has found, and the answer: the cookies it clears, the one it
\* gives, the actor it acted as, and when the server that gave it was started.
Idle == [at |-> "idle", from |-> None, ask |-> None, cookies |-> NoCookies,
         found |-> None, clears |-> {}, gives |-> None, as |-> None, boot |-> None]
Finished == [Idle EXCEPT !.at = "done"]
InFlight == {c \in Calls : calls[c].at \notin {"idle", "done"}}
Serving(c, name) == calls[c].at = "sent" /\ calls[c].ask.name = name

\* Calls whose answer may give a cookie.
GivesIdentity(ask) == ask.name \in {"login", "demo_switch"}

Header(b) == [n \in CookieNames |-> IF jar[b][n] = None THEN None ELSE jar[b][n].value]

Send(c, b, ask) ==
  /\ calls[c].at = "idle"
  /\ Cardinality(InFlight) < MaxInFlight
  /\ calls' = [calls EXCEPT ![c] = [Idle EXCEPT !.at = "sent", !.from = b, !.ask = ask,
                                                !.cookies = Header(b)]]
  /\ clean' = IF GivesIdentity(ask) THEN [clean EXCEPT ![b] = {}] ELSE clean
  /\ UNCHANGED <<server, events, clock, jar, grants>>

\* The server answers c: clears some cookies, may give one, acts as someone.
Answer(c, clears, gives, actor) ==
  calls' = [calls EXCEPT ![c].at = "answered", ![c].cookies = NoCookies,
                         ![c].found = None, ![c].clears = clears,
                         ![c].gives = gives, ![c].as = actor, ![c].boot = boots]

\* recordAuthEvent.
Record(c, type, actor) ==
  events' = events \union {[call |-> c, type |-> type, actor |-> actor]}

\* What logout and an invalid session clear, in either mode.
\* Mutant: each mode clears its own cookie.
BothCookiesOwn ==
  {IF conf.mode = "demo" THEN DemoCookie ELSE conf.cookieName}
BothCookies == {conf.cookieName, DemoCookie}

-----------------------------------------------------------------------------
(* POST /api/auth/login *)

MayLogIn(u) == users[u] # None /\ ~users[u].disabled

LoginRefused(c) ==
  /\ Serving(c, "login") /\ Readable(env) /\ conf.mode # "signed_cookie"
  /\ Answer(c, {}, None, None)
  /\ UNCHANGED <<server, events, clock, jar, grants, clean>>

LoginNotFound(c) ==
  /\ Serving(c, "login") /\ Readable(env) /\ conf.mode = "signed_cookie"
  /\ LET u == calls[c].ask.user IN
     /\ ~MayLogIn(u)
     /\ Record(c, "login_failed", IF users[u] = None THEN None ELSE u)
  /\ Answer(c, {}, None, None)
  /\ UNCHANGED <<server, clock, jar, grants, clean>>

\* The route holds the user it read while the hash of the password is computed.
LoginFound(c) ==
  /\ Serving(c, "login") /\ Readable(env) /\ conf.mode = "signed_cookie"
  /\ LET u == calls[c].ask.user IN
     /\ MayLogIn(u)
     /\ calls' = [calls EXCEPT ![c].at = "verifying", ![c].found = users[u]]
  /\ UNCHANGED <<server, events, clock, jar, grants, clean>>

LoginWrongPassword(c) ==
  /\ calls[c].at = "verifying"
  /\ calls[c].found.password # calls[c].ask.password
  /\ Record(c, "login_failed", calls[c].ask.user)
  /\ Answer(c, {}, None, None)
  /\ UNCHANGED <<server, clock, jar, grants, clean>>

\* Mutant: the token is given, and its event left out.
LoginSucceedsUnlogged(c) ==
  LET u == calls[c].ask.user
      until == clock + conf.maxAge
      token == [user |-> u, secret |-> conf.secret, expires |-> until]
  IN
  /\ calls[c].at = "verifying"
  /\ calls[c].found.password = calls[c].ask.password
  /\ Answer(c, {}, [name |-> conf.cookieName, value |-> token, age |-> conf.maxAge], None)
  /\ grants' = grants \union {[browser |-> calls[c].from, actor |-> u,
                               secret |-> conf.secret, until |-> until, boot |-> boots]}
  /\ UNCHANGED <<server, events, clock, jar, clean>>
LoginSucceeds(c) ==
  LET u == calls[c].ask.user
      until == clock + conf.maxAge
      token == [user |-> u, secret |-> conf.secret, expires |-> until]
  IN
  /\ calls[c].at = "verifying"
  /\ calls[c].found.password = calls[c].ask.password
  /\ Record(c, "login_success", u)
  /\ Answer(c, {}, [name |-> conf.cookieName, value |-> token, age |-> conf.maxAge], None)
  /\ grants' = grants \union {[browser |-> calls[c].from, actor |-> u,
                               secret |-> conf.secret, until |-> until, boot |-> boots]}
  /\ UNCHANGED <<server, clock, jar, clean>>

-----------------------------------------------------------------------------
(* The other routes *)

\* POST /api/auth/logout
Logout(c) ==
  /\ Serving(c, "logout") /\ Readable(env)
  /\ Record(c, "logout", SessionActor(calls[c].cookies))
  /\ Answer(c, BothCookies, None, None)
  /\ UNCHANGED <<server, clock, jar, grants, clean>>

\* GET /api/auth/session
SessionProbe(c) ==
  /\ Serving(c, "session") /\ Readable(env)
  /\ LET cause == Cause(calls[c].cookies) IN
     IF cause \in {"OK", "NO_COOKIE"}
     THEN /\ Answer(c, {}, None, None)
          /\ UNCHANGED events
     ELSE /\ Record(c, EventTypeFromCause(cause), None)
          /\ Answer(c, BothCookies, None, None)
  /\ UNCHANGED <<server, clock, jar, grants, clean>>

\* POST /api/projects/[id]/operations, as far as the actor; a 401 of this route
\* clears the demo cookie in either mode, and leaves no event.
Operate(c) ==
  /\ Serving(c, "operate") /\ Readable(env)
  /\ LET actor == ResolveActor(calls[c].cookies) IN
     Answer(c, IF actor = None THEN {DemoCookie} ELSE {}, None, actor)
  /\ UNCHANGED <<server, events, clock, jar, grants, clean>>

\* POST and DELETE /api/auth/demo/actor
DemoForbidden(c) ==
  /\ Serving(c, "demo_switch") \/ Serving(c, "demo_reset")
  /\ Readable(env) /\ ~conf.demoEnabled
  /\ Record(c, "demo_auth_forbidden", None)
  /\ Answer(c, {}, None, None)
  /\ UNCHANGED <<server, clock, jar, grants, clean>>

DemoSwitch(c) ==
  LET u == calls[c].ask.user IN
  /\ Serving(c, "demo_switch") /\ Readable(env) /\ conf.demoEnabled
  /\ Record(c, "demo_actor_switch", u)
  /\ Answer(c, {}, [name |-> DemoCookie, value |-> u, age |-> DemoMaxAge], None)
  /\ grants' = grants \union {[browser |-> calls[c].from, actor |-> u,
                               secret |-> None, until |-> clock + DemoMaxAge,
                               boot |-> boots]}
  /\ UNCHANGED <<server, clock, jar, clean>>

DemoReset(c) ==
  /\ Serving(c, "demo_reset") /\ Readable(env) /\ conf.demoEnabled
  /\ Answer(c, {DemoCookie}, None, None)
  /\ UNCHANGED <<server, events, clock, jar, grants, clean>>

\* readAuthConfig throws in every route: no event, no cookie.
Misconfigured(c) ==
  /\ calls[c].at = "sent" /\ ~Readable(env)
  /\ Answer(c, {}, None, None)
  /\ UNCHANGED <<server, events, clock, jar, grants, clean>>

\* POST /api/auth/dev/seed: an existing user keeps its password.
SeedUsers(p) ==
  /\ env.seed
  /\ users' = [u \in Users |-> IF users[u] # None THEN users[u]
                               ELSE [password |-> p, disabled |-> FALSE]]
  /\ UNCHANGED <<env, boots, events, clock, jar, calls, grants, clean>>

\* UserStore.setDisabled
SetDisabled(u, flag) ==
  /\ users[u] # None
  /\ users' = [users EXCEPT ![u].disabled = flag]
  /\ UNCHANGED <<env, boots, events, clock, jar, calls, grants, clean>>

-----------------------------------------------------------------------------
(* The network, the clock, and the server's life *)

\* The browser applies the Set-Cookie headers of an answer.  After a logout it
\* is signed out of both names, unless an answer that gives a cookie is yet to
\* come, or the server has been started again since.
Arrive(c) ==
  LET call == calls[c]
      b == call.from
      Pending(d) == calls[d].from = b /\ GivesIdentity(calls[d].ask)
  IN
  /\ call.at = "answered"
  /\ jar' = [jar EXCEPT ![b] = [n \in CookieNames |->
               IF call.gives # None /\ call.gives.name = n
               THEN [value |-> call.gives.value, dies |-> clock + call.gives.age]
               ELSE IF n \in call.clears THEN None ELSE jar[b][n]]]
  /\ clean' = IF /\ call.ask.name = "logout" /\ call.boot = boots /\ Readable(env)
                 /\ ~\E d \in InFlight : Pending(d)
              THEN [clean EXCEPT ![b] = {conf.cookieName, DemoCookie}] ELSE clean
  /\ calls' = [calls EXCEPT ![c] = Finished]
  /\ UNCHANGED <<server, events, clock, grants>>

\* Browsers drop a cookie when its age is over.
Kept(cookie, now) == IF cookie # None /\ cookie.dies > now THEN cookie ELSE None

Tick ==
  /\ clock < MaxTime
  /\ clock' = clock + 1
  /\ jar' = [b \in Browsers |-> [n \in CookieNames |-> Kept(jar[b][n], clock')]]
  /\ UNCHANGED <<server, events, calls, grants, clean>>

\* The user store and the event store are memory; answers already sent arrive.
Restart(e) ==
  /\ boots < MaxBoots
  /\ boots' = boots + 1
  /\ env' = e
  /\ users' = [u \in Users |-> None]
  /\ events' = {}
  /\ calls' = [c \in Calls |-> IF calls[c].at \in {"sent", "verifying"}
                               THEN Finished ELSE calls[c]]
  /\ UNCHANGED <<clock, jar, grants, clean>>

Init ==
  /\ env \in Environments
  /\ boots = 0 /\ clock = 0
  /\ users = [u \in Users |-> None]
  /\ events = {} /\ grants = {}
  /\ jar = [b \in Browsers |-> NoCookies]
  /\ calls = [c \in Calls |-> Idle]
  /\ clean = [b \in Browsers |-> {}]

Serve(c) ==
  \/ LoginRefused(c) \/ LoginNotFound(c) \/ LoginFound(c)
  \/ LoginWrongPassword(c) \/ LoginSucceeds(c)
  \/ Logout(c) \/ SessionProbe(c) \/ Operate(c)
  \/ DemoForbidden(c) \/ DemoSwitch(c) \/ DemoReset(c) \/ Misconfigured(c)

Next ==
  \/ \E c \in Calls, b \in Browsers, ask \in Asks : Send(c, b, ask)
  \/ \E c \in Calls : Serve(c) \/ Arrive(c)
  \/ \E p \in SeedPasswords : SeedUsers(p)
  \/ \E u \in Managed, flag \in BOOLEAN : SetDisabled(u, flag)
  \/ \E e \in Environments : Restart(e)
  \/ Tick

Spec == Init /\ [][Next]_vars

-----------------------------------------------------------------------------
(* Properties *)

Call ==
  [at : {"idle", "sent", "verifying", "answered", "done"},
   from : Browsers \union {None}, ask : Asks \union {None},
   cookies : [CookieNames -> Value \union {None}], found : Account \union {None},
   clears : SUBSET CookieNames, gives : Gift \union {None},
   as : Users \union {None}, boot : 0..MaxBoots \union {None}]
Event == [call : Calls, type : EventTypes, actor : Users \union {None}]
Grant == [browser : Browsers, actor : Users, secret : StrongSecrets \union {None},
          until : Nat, boot : 0..MaxBoots]

\* Types of the variables.
TypeOK ==
  /\ env \in Environments /\ boots \in 0..MaxBoots /\ clock \in 0..MaxTime
  /\ users \in [Users -> Account \union {None}]
  /\ events \subseteq Event
  /\ jar \in [Browsers -> [CookieNames -> Cookie \union {None}]]
  /\ calls \in [Calls -> Call]
  /\ grants \subseteq Grant
  /\ clean \in [Browsers -> SUBSET CookieNames]

\* The step serves an operation of call c, and runs it as someone.
Acts(c) == Serving(c, "operate") /\ calls'[c].at = "answered" /\ calls'[c].as # None

\* Identities given to the browser of call c that match what it acts as now.
Signed(c) == {g \in grants : /\ g.browser = calls[c].from /\ g.actor = calls'[c].as
                             /\ g.secret = conf.secret /\ clock < g.until}
Chosen(c) == {g \in grants : /\ g.browser = calls[c].from /\ g.actor = calls'[c].as
                             /\ g.secret = None}

\* Nobody acts on a cookie of the wrong kind, age, secret or browser.  In
\* signed mode an operation runs as an actor whose password was verified for
\* that browser, under the secret in force, within the age that login was given;
\* in demo mode as the actor chosen in that browser, or as the default one, but
\* never as the default one because a cookie was bad.  This through restarts in
\* other modes, with other secrets, ages and cookie names.
ActsOnlyAsGranted ==
  [][\A c \in Calls : Acts(c) =>
       IF conf.mode = "signed_cookie" THEN Signed(c) # {}
       ELSE IF calls[c].cookies[DemoCookie] = None THEN calls'[c].as = DefaultActor
       ELSE Chosen(c) # {}]_vars

\* Who acts in signed mode has a login_success event in the log, unless the
\* login was verified by a server that has stopped since, whose log is lost.
SessionsAreLogged ==
  [][\A c \in Calls : Acts(c) /\ conf.mode = "signed_cookie" =>
       \/ \E g \in Signed(c) : g.boot < boots
       \/ \E e \in events : e.type = "login_success" /\ e.actor = calls'[c].as]_vars

\* The comment in the logout route: both cookies are cleared regardless of mode,
\* as a cross-mode redeploy could leave a stale one.  A browser that has signed
\* out holds neither, whatever answers come late and whatever the server is
\* restarted as, until it asks for an identity again.
SignOutIsComplete == \A b \in Browsers : \A n \in clean[b] : jar[b][n] = None
=============================================================================
