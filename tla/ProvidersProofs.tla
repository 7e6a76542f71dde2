-------------------------- MODULE ProvidersProofs --------------------------
(***************************************************************************)
(* What holds of every agent call, in whatever environment the server is   *)
(* started and started again: Providers, proved.                           *)
(***************************************************************************)
EXTENDS Providers, TLAPS

\* What is asked of a provider has been let through for its role; a corrected
\* call and an ended one say how they came about.
CallIsSound(role, call, e) ==
  /\ call.provider \in Real =>
       /\ Gates(call.provider, e) /\ role \in DOMAIN Wired
       /\ role = "deal_memo_drafter" \/ role \in e.REAL_LLM_ROLE_ALLOWLIST
  /\ call.at = "corrected" => call.provider \in Real /\ call.first \in Invalid

CallsAreSound == \A role \in Roles : CallIsSound(role, calls[role], env)

Inv == TypeOK /\ CallsAreSound /\ KeptRunsAreTrue

LEMMA RolesOfOperation ==
  ASSUME NEW o \in Operations
  PROVE  /\ RolesOf(o) \subseteq Roles
         /\ o # "run_mock_reviews" => RolesOf(o) = {o} /\ o \in Roles
         /\ o = "run_mock_reviews" => RolesOf(o) = Reviewers
BY DEF Operations, RolesOf, Roles, Reviewers

\* A provider by name is the one asked for, let through by its gates, or none.
LEMMA SelectedByName ==
  ASSUME NEW e \in Environment, NEW name \in Real
  PROVE  LET choice == selectProviderByName(name, readEnvConfig(e)) IN
         /\ choice \in {"mock", "refused", name}
         /\ choice = name => Gates(name, e)
BY DEF selectProviderByName, readEnvConfig, Gates, Real

\* Neither route ever hands its caller to the mock, and what it asks was let
\* through: the hard gate of deal-memo/route.ts and counterparty-reviewer/route.ts.
THEOREM RoutesAreReal ==
  ASSUME NEW e \in Environment,
         NEW choice \in {DealMemoRoute(readEnvConfig(e)), CounterpartyRoute(readEnvConfig(e))}
  PROVE  choice # "refused" => choice \in Real /\ Gates(choice, e)
<1>1. \A name \in Real : /\ name # "mock"
                         /\ readEnvConfig(e).real =>
                              selectProviderByName(name, readEnvConfig(e)) # "mock"
  BY DEF Real, selectProviderByName
<1> QED BY <1>1, SelectedByName DEF DealMemoRoute, CounterpartyRoute, selectProvider, Real

LEMMA ResolvedIsSound ==
  ASSUME NEW e \in Environment, NEW role \in Roles
  PROVE  LET choice == resolveProvider(role, readEnvConfig(e)) IN
         /\ choice \in Real \union {"mock"}
         /\ choice \in Real =>
              /\ Gates(choice, e) /\ role \in DOMAIN Wired
              /\ role = "deal_memo_drafter" \/ role \in e.REAL_LLM_ROLE_ALLOWLIST
<1>1. CASE MayBeReal(role, readEnvConfig(e))
  <2>1. Wired[role] \in Real BY <1>1 DEF MayBeReal, Wired, Real
  <2>2. role = "deal_memo_drafter" \/ role \in e.REAL_LLM_ROLE_ALLOWLIST
    BY <1>1 DEF MayBeReal, readEnvConfig
  <2>3. role \in DOMAIN Wired BY <1>1 DEF MayBeReal
  <2> QED BY <2>1, <2>2, <2>3, SelectedByName DEF resolveProvider, Real
<1>2. CASE ~MayBeReal(role, readEnvConfig(e)) BY <1>2 DEF resolveProvider, Real
<1> QED BY <1>1, <1>2

LEMMA IdleIsSound ==
  ASSUME NEW e, NEW role \in Roles
  PROVE  Idle \in Call /\ CallIsSound(role, Idle, e)
BY DEF Idle, Call, CallIsSound, Real, Replies

LEMMA StartKeeps ==
  ASSUME Inv, NEW o \in Operations, Start(o)
  PROVE  Inv'
<1> DEFINE fresh(role) ==
      [at |-> "asked", provider |-> resolveProvider(role, readEnvConfig(env)),
       first |-> "none", output |-> FALSE]
<1>1. ASSUME NEW role \in Roles
      PROVE  calls'[role] \in Call /\ CallIsSound(role, calls'[role], env)
  <2>1. fresh(role) \in Call /\ CallIsSound(role, fresh(role), env)
    BY ResolvedIsSound DEF Inv, TypeOK, Call, CallIsSound
  <2>2. calls'[role] = fresh(role) \/ calls'[role] = Idle BY DEF Start
  <2> QED BY <2>1, <2>2, IdleIsSound
<1>2. calls' \in [Roles -> Call] BY <1>1 DEF Start
<1>3. env' = env /\ runs' = runs /\ op' = o BY DEF Start
<1> QED BY <1>1, <1>2, <1>3 DEF Inv, TypeOK, CallsAreSound, KeptRunsAreTrue

LEMMA ReplyKeeps ==
  ASSUME Inv, NEW role \in Roles, NEW reply \in Replies,
         FirstReply(role, reply) \/ SecondReply(role, reply)
  PROVE  Inv'
<1>1. /\ calls \in [Roles -> Call] /\ calls[role] \in Call
      /\ CallIsSound(role, calls[role], env)
  BY DEF Inv, TypeOK, CallsAreSound
<1>2. env' = env /\ runs' = runs /\ op' = op BY DEF FirstReply, SecondReply
<1>3. PICK call : calls' = [calls EXCEPT ![role] = call] /\ call \in Call
                  /\ CallIsSound(role, call, env)
  <2>1. CASE FirstReply(role, reply)
    <3> DEFINE call == [at |-> IF reply \in Invalid /\ calls[role].provider \in Real
                               THEN "corrected" ELSE "ended",
                        provider |-> calls[role].provider, first |-> reply,
                        output |-> (reply = "valid")]
    <3>1. calls' = [calls EXCEPT ![role] = call] BY <2>1 DEF FirstReply
    <3>2. call \in Call BY <1>1 DEF Call
    <3>3. CallIsSound(role, call, env) BY <1>1 DEF CallIsSound
    <3> QED BY <3>1, <3>2, <3>3
  <2>2. CASE SecondReply(role, reply)
    <3> DEFINE call == [calls[role] EXCEPT !.at = "ended", !.output = (reply = "valid")]
    <3>1. calls' = [calls EXCEPT ![role] = call] BY <1>1, <2>2 DEF SecondReply, Call
    <3>2. call \in Call BY <1>1 DEF Call
    <3>3. CallIsSound(role, call, env) BY <1>1 DEF CallIsSound, Call
    <3> QED BY <3>1, <3>2, <3>3
  <2> QED BY <2>1, <2>2
<1>4. calls' \in [Roles -> Call] /\ CallsAreSound'
  BY <1>1, <1>2, <1>3 DEF CallsAreSound, Inv
<1> QED BY <1>2, <1>4 DEF Inv, TypeOK, KeptRunsAreTrue

LEMMA FinishKeeps ==
  ASSUME Inv, Finish
  PROVE  Inv'
<1>1. /\ env' = env /\ op' = "none" /\ calls' = [role \in Roles |-> Idle]
      /\ op \in Operations /\ calls \in [Roles -> Call]
  BY DEF Finish, Over, AllEnded, Inv, TypeOK
<1>2. \A role \in RolesOf(op) : role \in Roles BY <1>1, RolesOfOperation
<1>3. ASSUME NEW role \in RolesOf(op)
      PROVE  /\ AgentRun(role) \in Run
             /\ AgentRun(role).status = "completed" <=> AgentRun(role).output
             /\ AgentRun(role).status = "failed" => role \in Reviewers
             /\ AgentRun(role).mode = "real" =>
                  AgentRun(role).provider_id \in Real /\ role \in DOMAIN Wired
             /\ AgentRun(role).role = role
  <2>1. role \in Roles /\ calls[role] \in Call /\ CallIsSound(role, calls[role], env)
    BY <1>1, <1>2, <1>3 DEF Inv, CallsAreSound
  <2>2. ~calls[role].output => role \in Reviewers
    BY <1>1, <1>3, RolesOfOperation DEF Finish
  <2> QED BY <2>1, <2>2 DEF AgentRun, Run, Call, CallIsSound
<1>4. runs' = runs \union {AgentRun(role) : role \in RolesOf(op)} BY DEF Finish
<1>5. runs' \in SUBSET Run /\ KeptRunsAreTrue'
  BY <1>3, <1>4 DEF Inv, TypeOK, KeptRunsAreTrue
<1>6. calls' \in [Roles -> Call] /\ CallsAreSound'
  BY <1>1, IdleIsSound DEF CallsAreSound
<1> QED BY <1>1, <1>5, <1>6 DEF Inv, TypeOK

LEMMA InvHolds == Spec => []Inv
<1>1. Init => Inv
  BY IdleIsSound DEF Init, Inv, TypeOK, CallsAreSound, KeptRunsAreTrue
<1>2. Inv /\ [Next]_vars => Inv'
  <2> SUFFICES ASSUME Inv, [Next]_vars PROVE Inv' OBVIOUS
  <2>1. ASSUME NEW o \in Operations, Start(o) PROVE Inv' BY <2>1, StartKeeps
  <2>2. ASSUME NEW role \in Roles, NEW reply \in Replies,
               FirstReply(role, reply) \/ SecondReply(role, reply)
        PROVE  Inv'
    BY <2>2, ReplyKeeps
  <2>3. CASE Finish BY <2>3, FinishKeeps
  <2>4. CASE Fail \/ Restart
    <3>1. /\ env' \in Environment /\ op' = "none" /\ runs' = runs
          /\ calls' = [role \in Roles |-> Idle]
      BY <2>4 DEF Fail, Over, Restart, Inv, TypeOK
    <3> QED BY <3>1, IdleIsSound DEF Inv, TypeOK, CallsAreSound, KeptRunsAreTrue
  <2>5. CASE UNCHANGED vars
    BY <2>5 DEF vars, Inv, TypeOK, CallsAreSound, KeptRunsAreTrue
  <2> QED BY <2>1, <2>2, <2>3, <2>4, <2>5 DEF Next
<1> QED BY <1>1, <1>2, PTL DEF Spec

\* No agent of an operation talks to a provider that its environment does not let
\* through, for its role, whatever is misconfigured and however often the server
\* is started again (tryReal and selectProviderByName).
THEOREM RealNeedsItsGates == Spec => []RealIsGated
<1>1. Inv => RealIsGated BY DEF Inv, CallsAreSound, CallIsSound, RealIsGated
<1> QED BY <1>1, InvHolds, PTL

\* A provider is corrected once at most, and only after an answer that was there.
THEOREM CorrectedOnce == Spec => []OneCorrection
<1>1. Inv => OneCorrection BY DEF Inv, CallsAreSound, CallIsSound, OneCorrection
<1> QED BY <1>1, InvHolds, PTL

\* What the project keeps of its agents is true, and only a review keeps failures.
THEOREM RunsStayTrue == Spec => []KeptRunsAreTrue
<1>1. Inv => KeptRunsAreTrue BY DEF Inv
<1> QED BY <1>1, InvHolds, PTL
=============================================================================
