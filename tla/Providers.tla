----------------------------- MODULE Providers -----------------------------
(***************************************************************************)
(* The agents of one server: which provider a role's agent talks to, how   *)
(* often it is asked, and which AgentRuns an operation keeps.  An          *)
(* operation reads the environment when it starts, asks all its agents at  *)
(* once (three for a review, one otherwise) and ends when every one of     *)
(* them has answered.  A prompt, an answer and its text are abstracted to  *)
(* whether the answer is valid, parses but has the wrong shape, does not   *)
(* parse, or never comes because the call itself fails.                    *)
(***************************************************************************)

VARIABLES env,    \* the environment the process was started with
          op,     \* the operation under way, "none" between two
          calls,  \* the agent call of each role
          runs    \* the AgentRuns the stored project has, whatever their order

vars == <<env, op, calls, runs>>

Real == {"openai", "anthropic"}
Reviewers == {"counterparty_reviewer", "source_consistency_reviewer", "legal_style_reviewer"}
Roles == Reviewers \union
  {"deal_memo_drafter", "drafting_plan_drafter", "contract_drafter", "revision_agent",
   "review_synthesizer", "final_qa_assistant"}

\* The operations that call agents, and the roles of each.
Operations == {"run_mock_reviews"} \union (Roles \ Reviewers)
RolesOf(o) == IF o = "run_mock_reviews" THEN Reviewers ELSE {o}

-----------------------------------------------------------------------------
(* The choice of a provider *)

\* What a process may find in its environment: a switch is absent, one of the
\* spellings of true or of false, or something else; an allowlist may name
\* anything; a key is absent, blank or there.
Environment ==
  [USE_REAL_LLM : {"absent", "true", "false", "other"},
   LLM_PROVIDER_ALLOWLIST : SUBSET (Real \union {"other"}),
   REAL_LLM_ROLE_ALLOWLIST : SUBSET (Roles \union {"other"}),
   keys : [Real -> {"absent", "blank", "set"}]]

\* Anything but a spelling of true leaves the switch off, and a blank key is none.
readEnvConfig(e) ==
  [real      |-> e.USE_REAL_LLM = "true",
   providers |-> e.LLM_PROVIDER_ALLOWLIST,
   roles     |-> e.REAL_LLM_ROLE_ALLOWLIST,
   keys      |-> {name \in Real : e.keys[name] = "set"}]

\* "refused" stands for ProviderRealModeNotConfiguredError.
selectProviderByName(name, config) ==
  IF ~config.real THEN "mock"
  ELSE IF name \in config.providers /\ name \in config.keys THEN name
  ELSE "refused"

selectProvider(config) ==
  IF ~config.real THEN "mock"
  ELSE IF "openai" \in config.providers THEN selectProviderByName("openai", config)
  ELSE IF "anthropic" \in config.providers THEN selectProviderByName("anthropic", config)
  ELSE "refused"

\* The provider a role was wired to; a role that is not here is mock-only.
Wired == [role \in {"deal_memo_drafter", "contract_drafter", "revision_agent"} \union Reviewers |->
            IF role = "counterparty_reviewer" THEN "anthropic" ELSE "openai"]

MayBeReal(role, config) ==
  /\ config.real
  /\ role \in DOMAIN Wired
  /\ Wired[role] \in config.providers
  /\ role = "deal_memo_drafter" \/ role \in config.roles

\* What is refused, and what may not be real, is the mock's.
resolveProvider(role, config) ==
  IF MayBeReal(role, config) /\ selectProviderByName(Wired[role], config) # "refused"
  THEN selectProviderByName(Wired[role], config)
  ELSE "mock"

\* The two routes under /api/agent answer 503 instead of asking the mock.
DealMemoRoute(config) ==
  IF config.real THEN selectProvider(config) ELSE "refused"
CounterpartyRoute(config) ==
  IF config.real THEN selectProviderByName("anthropic", config) ELSE "refused"

-----------------------------------------------------------------------------
(* Agent calls *)

Replies == {"valid", "wrong_shape", "not_json", "call_failed"}
Invalid == {"wrong_shape", "not_json"}

\* A call that is not under way, or has ended with its answer kept aside.
Idle == [at |-> "idle", provider |-> "mock", first |-> "none", output |-> FALSE]
Call == [at : {"idle", "asked", "corrected", "ended"}, provider : Real \union {"mock"},
         first : Replies \union {"none"}, output : BOOLEAN]
Run == [role : Roles, provider_id : Real \union {"mock"}, mode : {"real", "mock"},
        status : {"completed", "failed"}, output : BOOLEAN]

Init ==
  /\ env \in Environment
  /\ op = "none"
  /\ calls = [role \in Roles |-> Idle]
  /\ runs = {}

\* The operation builds its context and asks every agent it needs.
Start(o) ==
  /\ op = "none"
  /\ op' = o
  /\ calls' = [role \in Roles |->
       IF role \in RolesOf(o)
       THEN [at |-> "asked", provider |-> resolveProvider(role, readEnvConfig(env)),
             first |-> "none", output |-> FALSE]
       ELSE Idle]
  /\ UNCHANGED <<env, runs>>

\* The mock answers by itself, well or badly, but its call does not fail.
CanReply(role, reply) == calls[role].provider = "mock" => reply # "call_failed"

\* The first answer: a real provider that answered badly is asked once more with
\* the correction; every other answer ends the call.
FirstReply(role, reply) ==
  /\ calls[role].at = "asked" /\ CanReply(role, reply)
  /\ calls' = [calls EXCEPT ![role] =
       [at       |-> IF reply \in Invalid /\ @.provider \in Real THEN "corrected" ELSE "ended",
        provider |-> @.provider, first |-> reply, output |-> (reply = "valid")]]
  /\ UNCHANGED <<env, op, runs>>

\* The answer to the correction ends the call, whatever it is.
SecondReply(role, reply) ==
  /\ calls[role].at = "corrected" /\ CanReply(role, reply)
  /\ calls' = [calls EXCEPT ![role].at = "ended", ![role].output = (reply = "valid")]
  /\ UNCHANGED <<env, op, runs>>

\* The run that runAgent records of a call, however it ended.
AgentRun(role) ==
  [role |-> role, provider_id |-> calls[role].provider,
   mode |-> IF calls[role].provider \in Real THEN "real" ELSE "mock",
   status |-> IF calls[role].output THEN "completed" ELSE "failed",
   output |-> calls[role].output]

AllEnded == op # "none" /\ \A role \in RolesOf(op) : calls[role].at = "ended"

Over == op' = "none" /\ calls' = [role \in Roles |-> Idle] /\ UNCHANGED env

\* A review keeps the runs of all three reviewers, the failed ones included; any
\* other operation is carried through only on an output.
Finish ==
  /\ AllEnded
  /\ op # "run_mock_reviews" => \A role \in RolesOf(op) : calls[role].output
  /\ runs' = runs \union {AgentRun(role) : role \in RolesOf(op)}
  /\ Over

\* The operation throws, for want of an output, for what it makes of one (a
\* synthesis that dropped a pending card), or because its result is not stored:
\* the runs are lost with the rest of it.
Fail == AllEnded /\ Over /\ UNCHANGED runs

\* The server stops, and starts again with whatever environment it is given.
Restart ==
  /\ env' \in Environment
  /\ op' = "none" /\ calls' = [role \in Roles |-> Idle]
  /\ UNCHANGED runs

Next ==
  \/ \E o \in Operations : Start(o)
  \/ \E role \in Roles, reply \in Replies : FirstReply(role, reply) \/ SecondReply(role, reply)
  \/ Finish \/ Fail \/ Restart

Spec == Init /\ [][Next]_vars

-----------------------------------------------------------------------------
(* What has to hold *)

TypeOK ==
  /\ env \in Environment
  /\ op \in Operations \union {"none"}
  /\ calls \in [Roles -> Call]
  /\ runs \in SUBSET Run

\* The gates of real mode, as the deployment reads them: the switch is on, the
\* provider is on the allowlist and has a key.
Gates(name, e) ==
  /\ e.USE_REAL_LLM = "true"
  /\ name \in e.LLM_PROVIDER_ALLOWLIST
  /\ e.keys[name] = "set"

\* No agent of an operation talks to a real provider that is not let through, or,
\* the memo's drafter aside, for a role that is not (server-aggregate-context.ts).
RealIsGated ==
  \A role \in Roles :
    calls[role].provider \in Real =>
      /\ Gates(calls[role].provider, env)
      /\ role = "deal_memo_drafter" \/ role \in env.REAL_LLM_ROLE_ALLOWLIST

\* A provider is asked a second time only when it is real and its first answer
\* was there and was bad: never after a call that failed, which may have cost.
OneCorrection ==
  \A role \in Roles :
    calls[role].at = "corrected" =>
      calls[role].provider \in Real /\ calls[role].first \in Invalid

\* A project keeps failed runs of reviewers only, and a run that says completed
\* is one that had an output; its mode is the one of the provider it names.
KeptRunsAreTrue ==
  \A run \in runs :
    /\ run.status = "completed" <=> run.output
    /\ run.status = "failed" => run.role \in Reviewers
    /\ run.mode = "real" => run.provider_id \in Real /\ run.role \in DOMAIN Wired
=============================================================================
