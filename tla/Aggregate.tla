----------------------------- MODULE Aggregate ------------------------------
(***************************************************************************)
(* The workflow core, packages/core/src/aggregate.ts with the entity       *)
(* helpers it calls.  Every agg* operation of the code is a pure function  *)
(* from a ProjectState to a new ProjectState and a list of audit rows, or  *)
(* an exception that leaves no trace.  Here an operation X is a pair of    *)
(* operators on a ProjectState record p: the guard CanX, true when the     *)
(* code neither throws nor fails its agent call, and the result X.  The    *)
(* rows it emits are counted by audit event (see Emit).                    *)
(*                                                                         *)
(* Data is abstract: texts, answers, contract types and ids are members of *)
(* small sets.  A contract version is the set of Issue Cards whose         *)
(* revision sections createRevisionVersion appends to it; the body an      *)
(* agent writes is not modelled.                                           *)
(***************************************************************************)
EXTENDS Statuses, Sequences, FiniteSets

CONSTANTS
  Actors, Lawyers,            \* users; those whose role is human_lawyer
  Docs, Texts,                \* source documents and the bodies typed in them
  ContractTypes,              \* what a lawyer may confirm
  Playbooks, CustomPlaybooks, \* playbooks on disk; those marked is_custom_marker
  PlaybookType,               \* contract_type of each playbook
  Questions, RequiredQuestions,
  QuestionsOf,                \* required_intake_questions of each playbook
  Answers,                    \* values an intake answer may have
  Cards, CriticalCards,       \* issue cards; those of severity critical
  VersionIds,                 \* ids a contract version may be given
  None                        \* null

ASSUME ActorsAssumption == Lawyers \subseteq Actors /\ None \notin Actors
ASSUME DataAssumption ==
  /\ None \notin Texts \union ContractTypes \union Playbooks
                 \union Answers \union VersionIds
  /\ CustomPlaybooks \subseteq Playbooks
  /\ PlaybookType \in [Playbooks -> ContractTypes]
  /\ RequiredQuestions \subseteq Questions
  /\ QuestionsOf \in [Playbooks -> SUBSET Questions]
ASSUME CardsAssumption == IsFiniteSet(Cards) /\ CriticalCards \subseteq Cards

\* human_decision of a card.  "absent" is a card no reviewer has raised yet.
Outcomes  == {"accepted", "partially_accepted", "rejected", "deferred"}
Decisions == Outcomes \union {"pending", "absent"}

ReviewerRoles == {"counterparty_reviewer", "source_consistency_reviewer",
                  "legal_style_reviewer"}
AgentRoles == ReviewerRoles \union
  {"deal_memo_drafter", "drafting_plan_drafter", "contract_drafter",
   "revision_agent", "final_qa_assistant", "review_synthesizer"}

ExportTypes == {"clean_docx", "commentary_docx", "negotiation_matrix",
                "cover_email"}

AuditEvents ==
  {"project_created", "source_uploaded", "source_pack_locked",
   "contract_type_confirmed", "playbook_confirmed", "deal_memo_approved",
   "drafting_plan_approved", "draft_created", "issue_card_decided",
   "revision_generated", "deterministic_qa_run", "final_approved", "exported",
   "draft_iteration_created", "draft_iteration_synthesized",
   "review_issues_batch_accepted", "draft_iteration_stopped"}

AnswerSheet == [Questions -> Answers \union {None}]
Blank == [q \in Questions |-> None]

Approver == Lawyers \union {None}
Memo == [state : {"none", "drafted", "approved"}, basis : AnswerSheet,
         approvedBy : Approver]
Plan == [state : {"none", "drafted", "approved"}, custom : BOOLEAN,
         approvedBy : Approver]
Version == [id : VersionIds, applied : SUBSET Cards, final : BOOLEAN,
            approvedBy : Approver]
Entry == [issue : Cards, previous : Decisions, new : Outcomes, actor : Lawyers]
Export == [version : VersionIds, type : ExportTypes, marked : BOOLEAN]
Iteration == [number : Nat \ {0}, base : VersionIds \union {None},
              reviewed : SUBSET Cards,
              state : {"planned", "drafted", "synthesized", "stopped"},
              reviewerRuns : Nat]

\* The ProjectState blob.  memo.basis is the answer sheet the memo was drafted
\* from; applied is the applied_version of each card.
ProjectState ==
  [status : Status, locked : BOOLEAN, docs : SUBSET Docs,
   contents : [Docs -> Texts \union {None}],
   ctype : ContractTypes \union {None}, playbook : Playbooks \union {None},
   questions : SUBSET Questions, answers : AnswerSheet,
   memo : Memo, plan : Plan, versions : Seq(Version),
   decision : [Cards -> Decisions], applied : [Cards -> VersionIds \union {None}],
   history : Seq(Entry), runs : [AgentRoles -> Nat], qaRuns : Nat,
   exports : Seq(Export), iterations : Seq(Iteration)]

\* aggCreateProject: emptyProjectState with status created.
EmptyProject ==
  [status |-> "created", locked |-> FALSE, docs |-> {},
   contents |-> [d \in Docs |-> None], ctype |-> None, playbook |-> None,
   questions |-> {}, answers |-> Blank,
   memo |-> [state |-> "none", basis |-> Blank, approvedBy |-> None],
   plan |-> [state |-> "none", custom |-> FALSE, approvedBy |-> None],
   versions |-> << >>, decision |-> [c \in Cards |-> "absent"],
   applied |-> [c \in Cards |-> None], history |-> << >>,
   runs |-> [r \in AgentRoles |-> 0], qaRuns |-> 0,
   exports |-> << >>, iterations |-> << >>]

\* The rows an operation adds to the audit log, counted by event.
Emit(audit, event) == [audit EXCEPT ![event] = @ + 1]

Latest(p) == p.versions[Len(p.versions)]
Raised(p) == {c \in Cards : p.decision[c] # "absent"}
Pending(p) == {c \in Cards : p.decision[c] = "pending"}
Accepted(p) ==
  {c \in Cards : p.decision[c] \in {"accepted", "partially_accepted"}}
UsedIds(p) == {p.versions[i].id : i \in 1..Len(p.versions)}
RanAgent(p, role) == [p.runs EXCEPT ![role] = @ + 1]

-----------------------------------------------------------------------------
(* Sources *)

CanAddSource(p, d) ==
  /\ p.status \in {"created", "sources_uploaded"}
  /\ ~p.locked
  /\ d \notin p.docs
AddSource(p, d) ==
  [p EXCEPT !.status = Advance(@, "sources_uploaded"), !.docs = @ \union {d}]

CanAddSourceContent(p, d) ==
  AtLeast(p.status, "sources_uploaded") /\ d \in p.docs
AddSourceContent(p, d, t) == [p EXCEPT !.contents[d] = t]

CanLockSourcePack(p) == p.status = "sources_uploaded"
LockSourcePack(p) ==
  [p EXCEPT !.status = Advance(@, "source_pack_locked"), !.locked = TRUE]

-----------------------------------------------------------------------------
(* Contract type and playbook *)

CanClassifyAndConfirm(p, a) ==
  p.status \in {"source_pack_locked", "type_suggested"} /\ a \in Lawyers
ClassifyAndConfirm(p, t) ==
  [p EXCEPT !.status = Advance(Advance(@, "type_suggested"), "type_confirmed"),
            !.ctype = t]

\* A playbook of the confirmed type, else one marked custom; the order in which
\* find meets the files is the file system's.
\* Mutant: no fallback to the custom playbook.
CandidatesNoFallback(t) == {b \in Playbooks \ CustomPlaybooks : PlaybookType[b] = t}
Candidates(t) ==
  LET direct == {b \in Playbooks \ CustomPlaybooks : PlaybookType[b] = t}
  IN  IF direct # {} THEN direct ELSE CustomPlaybooks

CanSelectPlaybook(p, b) ==
  /\ p.status = "type_confirmed"
  /\ p.ctype # None
  /\ b \in Candidates(p.ctype)
\* Mutant: the second withStatus is forgotten.
SelectPlaybookHalfway(p, b) ==
  [p EXCEPT !.status = Advance(@, "playbook_selected"),
            !.playbook = b, !.questions = QuestionsOf[b]]
SelectPlaybook(p, b) ==
  [p EXCEPT !.status = Advance(Advance(@, "playbook_selected"), "intake_in_progress"),
            !.playbook = b, !.questions = QuestionsOf[b]]

-----------------------------------------------------------------------------
(* Intake, Deal Memo, Drafting Plan *)

\* Mutants: the answers stay open after the memo is approved; they close when
\* it is drafted.
CanAnswerIntakeLate(p, q) ==
  /\ p.status \in {"intake_in_progress", "deal_memo_drafted", "deal_memo_approved"}
  /\ q \in p.questions
CanAnswerIntakeEarly(p, q) == p.status = "intake_in_progress" /\ q \in p.questions
CanAnswerIntake(p, q) ==
  /\ p.status \in {"intake_in_progress", "deal_memo_drafted"}
  /\ q \in p.questions
AnswerIntake(p, q, v) == [p EXCEPT !.answers[q] = v]

CanDraftDealMemo(p) == p.status = "intake_in_progress" /\ p.playbook # None
DraftDealMemo(p) ==
  [p EXCEPT !.status = Advance(@, "deal_memo_drafted"),
            !.memo = [state |-> "drafted", basis |-> p.answers, approvedBy |-> None],
            !.runs = RanAgent(p, "deal_memo_drafter")]

\* validateRequiredIntakeAnswers: the required questions without an answer.
MissingAnswers(p) ==
  {q \in p.questions \intersect RequiredQuestions : p.answers[q] = None}

\* Mutants: anyone approves; the required answers are not checked.
CanApproveDealMemoByAnyone(p, a) ==
  p.status = "deal_memo_drafted" /\ p.memo.state # "none" /\ MissingAnswers(p) = {}
CanApproveDealMemoUnanswered(p, a) ==
  p.status = "deal_memo_drafted" /\ p.memo.state # "none" /\ a \in Lawyers
CanApproveDealMemo(p, a) ==
  /\ p.status = "deal_memo_drafted"
  /\ p.memo.state # "none"
  /\ a \in Lawyers
  /\ MissingAnswers(p) = {}
ApproveDealMemo(p, a) ==
  [p EXCEPT !.status = Advance(@, "deal_memo_approved"),
            !.memo.state = "approved", !.memo.approvedBy = a]

CanDraftDraftingPlan(p) == p.status = "deal_memo_approved" /\ p.playbook # None
DraftDraftingPlan(p) ==
  [p EXCEPT !.status = Advance(@, "drafting_plan_drafted"),
            !.plan = [state |-> "drafted", custom |-> p.playbook \in CustomPlaybooks,
                      approvedBy |-> None],
            !.runs = RanAgent(p, "drafting_plan_drafter")]

CanApproveDraftingPlan(p, a) ==
  /\ p.status = "drafting_plan_drafted"
  /\ p.plan.state # "none"
  /\ a \in Lawyers
  /\ p.memo.state = "approved"
ApproveDraftingPlan(p, a) ==
  [p EXCEPT !.status = Advance(@, "drafting_plan_approved"),
            !.plan.state = "approved", !.plan.approvedBy = a]

-----------------------------------------------------------------------------
(* Drafting, review and decision *)

Draft(id, applied) ==
  [id |-> id, applied |-> applied, final |-> FALSE, approvedBy |-> None]

CanCreateV0(p) ==
  /\ p.status = "drafting_plan_approved"
  /\ p.playbook # None
  /\ p.memo.state = "approved"
  /\ p.plan.state = "approved"
CreateV0(p, id) ==
  [p EXCEPT !.status = Advance(@, "draft_v0_created"),
            !.versions = Append(@, Draft(id, {})),
            !.runs = RanAgent(p, "contract_drafter")]

\* createIssueCards: new cards start pending, with applied_version unset.
Raise(p, new) ==
  [c \in Cards |-> IF c \in new THEN "pending" ELSE p.decision[c]]

\* A reviewer whose agent fails contributes no finding; its run is recorded.
CanRunReviews(p) ==
  /\ p.status \in {"draft_v0_created", "reviews_in_progress", "issues_open"}
  /\ p.playbook # None
  /\ p.versions # << >>
RunReviews(p, new) ==
  [p EXCEPT !.status = Advance(Advance(@, "reviews_in_progress"), "issues_open"),
            !.decision = Raise(p, new),
            !.runs = [r \in AgentRoles |->
                        IF r \in ReviewerRoles THEN p.runs[r] + 1 ELSE p.runs[r]]]

\* noted: the request carries a non-blank partial_note.
CanDecideIssue(p, c, d, a, noted) ==
  /\ AtLeast(p.status, "issues_open")
  /\ p.decision[c] # "absent"
  /\ a \in Lawyers
  /\ d = "partially_accepted" => noted
\* Mutants: the entry says pending whatever the card said; a second decision
\* overwrites the entry of the first.
DecideIssueFromPending(p, c, d, a) ==
  [p EXCEPT !.decision[c] = d,
            !.history = Append(@, [issue |-> c, previous |-> "pending",
                                   new |-> d, actor |-> a])]
DecideIssueInPlace(p, c, d, a) ==
  LET entry == [issue |-> c, previous |-> p.decision[c], new |-> d, actor |-> a]
      old == {i \in 1..Len(p.history) : p.history[i].issue = c} IN
  [p EXCEPT !.decision[c] = d,
            !.history = IF old = {} THEN Append(@, entry)
                        ELSE [i \in 1..Len(@) |-> IF i \in old THEN entry ELSE @[i]]]
DecideIssue(p, c, d, a) ==
  [p EXCEPT !.decision[c] = d,
            !.history = Append(@, [issue |-> c, previous |-> p.decision[c],
                                   new |-> d, actor |-> a])]

CanCreateRevision(p) ==
  /\ AtLeast(p.status, "issues_open")
  /\ p.versions # << >>
  /\ p.playbook # None
  /\ p.memo.state = "approved"
  /\ p.plan.state = "approved"
  /\ CanAdvance(p.status, "revised")
\* Mutant: a card that already has an applied_version keeps it.
CreateRevisionKeepApplied(p, id) ==
  [p EXCEPT !.status = Advance(@, "revised"),
            !.versions = Append(@, Draft(id, Accepted(p))),
            !.applied = [c \in Cards |-> IF c \in Accepted(p) /\ p.applied[c] = None
                                         THEN id ELSE p.applied[c]],
            !.runs = RanAgent(p, "revision_agent")]
CreateRevision(p, id) ==
  [p EXCEPT !.status = Advance(@, "revised"),
            !.versions = Append(@, Draft(id, Accepted(p))),
            !.applied = [c \in Cards |-> IF c \in Accepted(p) THEN id ELSE p.applied[c]],
            !.runs = RanAgent(p, "revision_agent")]

-----------------------------------------------------------------------------
(* Final QA, final approval, export *)

CanRunDeterministicQA(p) ==
  AtLeast(p.status, "draft_v0_created") /\ p.versions # << >>
RunDeterministicQA(p, found) ==
  [p EXCEPT !.status = Advance(Advance(@, "reviews_in_progress"), "issues_open"),
            !.decision = Raise(p, found),
            !.qaRuns = @ + 1]

\* Mutant: the stage is only bounded below.
CanRunFinalQAAnyTime(p) ==
  AtLeast(p.status, "issues_open") /\ p.playbook # None /\ CanRunDeterministicQA(p)
CanRunFinalQA(p) ==
  /\ p.status \in {"revised", "issues_open"}
  /\ p.playbook # None
  /\ CanRunDeterministicQA(p)
RunFinalQA(p, found, suggested) ==
  LET det == RunDeterministicQA(p, found)
  IN  [det EXCEPT !.decision = Raise(det, suggested),
                  !.runs = RanAgent(det, "final_qa_assistant")]

\* Mutant: pending cards are not checked.
CanApproveFinalPending(p, a) ==
  p.status = "revised" /\ p.versions # << >> /\ a \in Lawyers
CanApproveFinal(p, a) ==
  /\ p.status \in {"revised", "draft_v0_created"}
  /\ p.versions # << >>
  /\ Pending(p) = {}
  /\ a \in Lawyers
  /\ CanAdvance(p.status, "final_approved")
ApproveFinal(p, a) ==
  [p EXCEPT !.status = Advance(@, "final_approved"),
            !.versions[Len(p.versions)] = [@ EXCEPT !.final = TRUE, !.approvedBy = a]]

\* contract_versions.find((v) => v.final): the first final version.
FirstFinal(p) ==
  CHOOSE i \in 1..Len(p.versions) :
    p.versions[i].final /\ \A j \in 1..(i - 1) : ~p.versions[j].final

\* marked: the content holds one of COMMENTARY_MARKERS.
CanCreateExport(p, type, marked) ==
  /\ AtLeast(p.status, "final_approved")
  /\ \E i \in 1..Len(p.versions) : p.versions[i].final
  /\ ~(type = "clean_docx" /\ marked)
\* Mutant: the latest version is exported.
CreateExportLatest(p, type, marked) ==
  [p EXCEPT !.status = Advance(@, "exported"),
            !.exports = Append(@, [version |-> Latest(p).id, type |-> type,
                                   marked |-> marked])]
CreateExport(p, type, marked) ==
  [p EXCEPT !.status = Advance(@, "exported"),
            !.exports = Append(@, [version |-> p.versions[FirstFinal(p)].id,
                                   type |-> type, marked |-> marked])]

-----------------------------------------------------------------------------
(* The drafting loop *)

IterationNumbers(p) == {p.iterations[i].number : i \in 1..Len(p.iterations)}
\* Mutant: an iteration that was stopped gives its number back.
NextIterationNumberLive(p) ==
  1 + Cardinality({i \in 1..Len(p.iterations) : p.iterations[i].state # "stopped"})
NextIterationNumber(p) ==
  IF p.iterations = << >> THEN 1
  ELSE 1 + CHOOSE n \in IterationNumbers(p) : \A m \in IterationNumbers(p) : m <= n

CanCreateDraftIteration(a) == a \in Lawyers
CreateDraftIteration(p) ==
  [p EXCEPT !.iterations = Append(@,
     [number |-> NextIterationNumber(p),
      base |-> IF p.versions = << >> THEN None ELSE Latest(p).id,
      reviewed |-> {},
      state |-> IF p.versions = << >> THEN "planned" ELSE "drafted",
      reviewerRuns |-> 0])]

\* countNewReviewerRuns: every reviewer run of the project, old ones included.
ReviewerRuns(p) == p.runs["counterparty_reviewer"]
                   + p.runs["source_consistency_reviewer"]
                   + p.runs["legal_style_reviewer"]

\* covered: the ids the synthesizer's answer names as its sources.
CanSynthesizeReviews(p, i, a, covered) ==
  /\ a \in Lawyers
  /\ p.playbook # None
  /\ p.iterations[i].state # "stopped"
  /\ p.versions # << >>
  /\ Pending(p) \subseteq covered
SynthesizeReviews(p, i) ==
  [p EXCEPT !.runs = RanAgent(p, "review_synthesizer"),
            !.iterations[i] = [p.iterations[i] EXCEPT
                                 !.reviewed = Pending(p), !.state = "synthesized",
                                 !.reviewerRuns = @ + ReviewerRuns(p)]]

\* The pending cards of a batch in the order the request lists them.
Orders(S) ==
  {f \in [1..Cardinality(S) -> S] : \A i, j \in DOMAIN f : f[i] = f[j] => i = j}

\* Mutant: critical cards are let through.
CanBatchAcceptCritical(p, ids, a) ==
  /\ a \in Lawyers
  /\ ids # {}
  /\ ids \subseteq Raised(p)
  /\ ids \intersect Pending(p) # {} => AtLeast(p.status, "issues_open")
CanBatchAccept(p, ids, a) ==
  /\ a \in Lawyers
  /\ ids # {}
  /\ ids \subseteq Raised(p)
  /\ ids \intersect CriticalCards \intersect Pending(p) = {}
  /\ ids \intersect Pending(p) # {} => AtLeast(p.status, "issues_open")
BatchAccept(p, order, a) ==
  [p EXCEPT !.decision = [c \in Cards |-> IF \E i \in DOMAIN order : order[i] = c
                                          THEN "accepted" ELSE p.decision[c]],
            !.history = @ \o [i \in DOMAIN order |->
                                [issue |-> order[i], previous |-> "pending",
                                 new |-> "accepted", actor |-> a]]]

CanStopDraftLoop(p, i, a) == a \in Lawyers /\ p.iterations[i].state # "stopped"
StopDraftLoop(p, i) == [p EXCEPT !.iterations[i].state = "stopped"]
=============================================================================
