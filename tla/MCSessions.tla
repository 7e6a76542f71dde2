---------------------------- MODULE MCSessions -----------------------------
(* Constant values for the runs of Sessions. *)
EXTENDS Sessions, TLC

CONSTANTS kim, choi, s1, s2, short

Signing(secret) ==
  [mode |-> "signed_cookie", production |-> TRUE, allowDemo |-> FALSE,
   secret |-> secret, demo |-> "unset", cookieName |-> None, maxAge |-> None,
   seed |-> TRUE]
Demo == [Signing(None) EXCEPT !.mode = "demo", !.production = FALSE]

\* Signed mode with two secrets; with longer sessions, the demo route open and
\* the demo cookie's own name; the demo mode; and one that is refused.
MCEnvironments ==
  {Signing(s1), Signing(s2), Signing(short), Demo,
   [Signing(s1) EXCEPT !.demo = "on", !.cookieName = DemoCookie, !.maxAge = 2]}

Ask(name) == [name |-> name]
Login(u, p) == [name |-> "login", user |-> u, password |-> p]
Switch(u) == [name |-> "demo_switch", user |-> u]
MCAsks == {Ask("logout"), Ask("session"), Ask("operate"), Ask("demo_reset"),
           Login(choi, "right"), Login(choi, "wrong"), Switch(choi)}

Interchangeable == Permutations(Browsers) \union Permutations(Calls)
=============================================================================
