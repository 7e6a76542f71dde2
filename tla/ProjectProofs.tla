---------------------------- MODULE ProjectProofs ----------------------------
(***************************************************************************)
(* What the operations of Aggregate keep of one project record, for any    *)
(* actors, documents, playbooks and cards: its type, the soundness of      *)
(* ProjectSoundness, and the numbering of its iterations.  WorkflowProofs  *)
(* uses it for requests one after another, StoreProofs for requests that   *)
(* overlap.                                                                *)
(*                                                                         *)
(* The parts hold together: the types need the uniqueness of the final     *)
(* version (create_export looks it up) and the numbering of iterations;    *)
(* that v0 is never the final version needs the stages; and the stages     *)
(* need the types.                                                         *)
(***************************************************************************)
EXTENDS ProjectSoundness, TLAPS, FiniteSetTheorems, SequenceTheorems

-----------------------------------------------------------------------------
(* Types: every operation takes a ProjectState to a ProjectState *)

\* The stages are statuses, and withStatus returns one.
LEMMA StatusType ==
  /\ {"created", "sources_uploaded", "source_pack_locked",
      "type_suggested", "type_confirmed", "playbook_selected",
      "intake_in_progress", "deal_memo_drafted", "deal_memo_approved",
      "drafting_plan_drafted", "drafting_plan_approved",
      "draft_v0_created", "reviews_in_progress", "issues_open",
      "revised", "final_approved", "exported"} \subseteq Status
  /\ \A s, t \in Status : Advance(s, t) \in Status
BY DEF Advance, Status

\* Recording an agent run keeps the counts natural numbers.
LEMMA RunsType ==
  ASSUME NEW p \in ProjectState, NEW r \in AgentRoles
  PROVE  RanAgent(p, r) \in [AgentRoles -> Nat]
BY DEF ProjectState, RanAgent

LEMMA RolesAreAgents ==
  ReviewerRoles \union {"deal_memo_drafter", "drafting_plan_drafter",
    "contract_drafter", "revision_agent", "final_qa_assistant",
    "review_synthesizer"} = AgentRoles
BY DEF AgentRoles

\* createIssueCards leaves every card with a decision.
LEMMA RaiseType ==
  ASSUME NEW p \in ProjectState, NEW S
  PROVE  Raise(p, S) \in [Cards -> Decisions]
BY DEF ProjectState, Raise, Decisions

LEMMA EmptyProjectType == EmptyProject \in ProjectState
<1>1. Blank \in AnswerSheet BY DEF Blank, AnswerSheet
<1>2. [state |-> "none", basis |-> Blank, approvedBy |-> None] \in Memo
  BY <1>1 DEF Memo, Approver
<1>3. [state |-> "none", custom |-> FALSE, approvedBy |-> None] \in Plan
  BY DEF Plan, Approver
<1>4. [c \in Cards |-> "absent"] \in [Cards -> Decisions] BY DEF Decisions
<1> QED BY <1>1, <1>2, <1>3, <1>4, StatusType DEF EmptyProject, ProjectState

LEMMA AddSourceType ==
  ASSUME NEW p \in ProjectState, NEW d \in Docs
  PROVE  AddSource(p, d) \in ProjectState
BY StatusType DEF AddSource, ProjectState

LEMMA AddSourceContentType ==
  ASSUME NEW p \in ProjectState, NEW d \in Docs, NEW t \in Texts
  PROVE  AddSourceContent(p, d, t) \in ProjectState
BY DEF AddSourceContent, ProjectState

LEMMA LockSourcePackType ==
  ASSUME NEW p \in ProjectState
  PROVE  LockSourcePack(p) \in ProjectState
BY StatusType DEF LockSourcePack, ProjectState

LEMMA ClassifyAndConfirmType ==
  ASSUME NEW p \in ProjectState, NEW t \in ContractTypes
  PROVE  ClassifyAndConfirm(p, t) \in ProjectState
BY StatusType DEF ClassifyAndConfirm, ProjectState

LEMMA SelectPlaybookType ==
  ASSUME NEW p \in ProjectState, NEW b \in Playbooks
  PROVE  SelectPlaybook(p, b) \in ProjectState
BY StatusType, DataAssumption DEF SelectPlaybook, ProjectState

LEMMA AnswerIntakeType ==
  ASSUME NEW p \in ProjectState, NEW q \in Questions, NEW v \in Answers
  PROVE  AnswerIntake(p, q, v) \in ProjectState
BY DEF AnswerIntake, ProjectState, AnswerSheet

LEMMA DraftDealMemoType ==
  ASSUME NEW p \in ProjectState
  PROVE  DraftDealMemo(p) \in ProjectState
<1> DEFINE memo == [state |-> "drafted", basis |-> p.answers, approvedBy |-> None]
           runs == RanAgent(p, "deal_memo_drafter")
           status == Advance(p.status, "deal_memo_drafted")
<1>1. memo \in Memo BY DEF Memo, Approver, ProjectState
<1>2. runs \in [AgentRoles -> Nat] BY RunsType, RolesAreAgents
<1>3. DraftDealMemo(p) = [p EXCEPT !.status = status,
                                   !.memo = memo, !.runs = runs]
  BY DEF DraftDealMemo
<1>5. status \in Status BY StatusType DEF ProjectState
<1> HIDE DEF memo, runs, status
<1> QED BY <1>1, <1>2, <1>3, <1>5 DEF ProjectState

LEMMA ApproveDealMemoType ==
  ASSUME NEW p \in ProjectState, NEW a \in Lawyers
  PROVE  ApproveDealMemo(p, a) \in ProjectState
<1> DEFINE memo == [p.memo EXCEPT !.state = "approved", !.approvedBy = a]
           status == Advance(p.status, "deal_memo_approved")
<1>1. memo \in Memo BY DEF Memo, Approver, ProjectState
<1>2. ApproveDealMemo(p, a) = [p EXCEPT !.status = status,
                                        !.memo = memo]
  BY DEF ApproveDealMemo, ProjectState, Memo
<1>5. status \in Status BY StatusType DEF ProjectState
<1> HIDE DEF memo, status
<1> QED BY <1>1, <1>2, <1>5 DEF ProjectState

LEMMA DraftDraftingPlanType ==
  ASSUME NEW p \in ProjectState
  PROVE  DraftDraftingPlan(p) \in ProjectState
<1> DEFINE plan == [state |-> "drafted", custom |-> p.playbook \in CustomPlaybooks,
                    approvedBy |-> None]
           runs == RanAgent(p, "drafting_plan_drafter")
           status == Advance(p.status, "drafting_plan_drafted")
<1>1. plan \in Plan BY DEF Plan, Approver
<1>2. runs \in [AgentRoles -> Nat] BY RunsType, RolesAreAgents
<1>3. DraftDraftingPlan(p) =
        [p EXCEPT !.status = status,
                  !.plan = plan, !.runs = runs]
  BY DEF DraftDraftingPlan
<1>5. status \in Status BY StatusType DEF ProjectState
<1> HIDE DEF plan, runs, status
<1> QED BY <1>1, <1>2, <1>3, <1>5 DEF ProjectState

LEMMA ApproveDraftingPlanType ==
  ASSUME NEW p \in ProjectState, NEW a \in Lawyers
  PROVE  ApproveDraftingPlan(p, a) \in ProjectState
<1> DEFINE plan == [p.plan EXCEPT !.state = "approved", !.approvedBy = a]
           status == Advance(p.status, "drafting_plan_approved")
<1>1. plan \in Plan BY DEF Plan, Approver, ProjectState
<1>2. ApproveDraftingPlan(p, a) =
        [p EXCEPT !.status = status, !.plan = plan]
  BY DEF ApproveDraftingPlan, ProjectState, Plan
<1>5. status \in Status BY StatusType DEF ProjectState
<1> HIDE DEF plan, status
<1> QED BY <1>1, <1>2, <1>5 DEF ProjectState

\* createDraftVersion and createRevisionVersion make a version.
LEMMA DraftType ==
  ASSUME NEW id \in VersionIds, NEW S \in SUBSET Cards
  PROVE  Draft(id, S) \in Version
BY DEF Draft, Version, Approver

LEMMA CreateV0Type ==
  ASSUME NEW p \in ProjectState, NEW id \in VersionIds
  PROVE  CreateV0(p, id) \in ProjectState
<1> DEFINE versions == Append(p.versions, Draft(id, {}))
           runs == RanAgent(p, "contract_drafter")
           status == Advance(p.status, "draft_v0_created")
<1>1. Draft(id, {}) \in Version BY DraftType
<1>2. versions \in Seq(Version) BY <1>1 DEF ProjectState
<1>3. runs \in [AgentRoles -> Nat] BY RunsType, RolesAreAgents
<1>4. CreateV0(p, id) = [p EXCEPT !.status = status,
                                  !.versions = versions, !.runs = runs]
  BY DEF CreateV0
<1>5. status \in Status BY StatusType DEF ProjectState
<1> HIDE DEF versions, runs, status
<1> QED BY <1>2, <1>3, <1>4, <1>5 DEF ProjectState

LEMMA RunReviewsType ==
  ASSUME NEW p \in ProjectState, NEW S
  PROVE  RunReviews(p, S) \in ProjectState
<1> DEFINE decision == Raise(p, S)
           runs == [r \in AgentRoles |->
                      IF r \in ReviewerRoles THEN p.runs[r] + 1 ELSE p.runs[r]]
           status == Advance(Advance(p.status, "reviews_in_progress"), "issues_open")
<1>1. decision \in [Cards -> Decisions] BY RaiseType
<1>2. runs \in [AgentRoles -> Nat] BY DEF ProjectState
<1>3. status \in Status BY StatusType DEF ProjectState
<1>4. RunReviews(p, S) = [p EXCEPT !.status = status, !.decision = decision, !.runs = runs]
  BY DEF RunReviews
<1> HIDE DEF decision, runs, status
<1> QED BY <1>1, <1>2, <1>3, <1>4 DEF ProjectState

LEMMA DecideIssueType ==
  ASSUME NEW p \in ProjectState, NEW c \in Cards, NEW d \in Outcomes, NEW a \in Lawyers
  PROVE  DecideIssue(p, c, d, a) \in ProjectState
<1> DEFINE entry == [issue |-> c, previous |-> p.decision[c], new |-> d, actor |-> a]
           history == Append(p.history, entry)
           decision == [p.decision EXCEPT ![c] = d]
<1>1. entry \in Entry BY DEF Entry, ProjectState
<1>2. history \in Seq(Entry) BY <1>1 DEF ProjectState
<1>3. decision \in [Cards -> Decisions] BY DEF ProjectState, Decisions
<1>4. DecideIssue(p, c, d, a) = [p EXCEPT !.decision = decision, !.history = history]
  BY DEF DecideIssue, ProjectState
<1> HIDE DEF entry, history, decision
<1> QED BY <1>2, <1>3, <1>4 DEF ProjectState

LEMMA CreateRevisionType ==
  ASSUME NEW p \in ProjectState, NEW id \in VersionIds
  PROVE  CreateRevision(p, id) \in ProjectState
<1> DEFINE versions == Append(p.versions, Draft(id, Accepted(p)))
           runs == RanAgent(p, "revision_agent")
           applied == [c \in Cards |-> IF c \in Accepted(p) THEN id ELSE p.applied[c]]
           status == Advance(p.status, "revised")
<1>1. Draft(id, Accepted(p)) \in Version BY DraftType DEF Accepted
<1>2. versions \in Seq(Version) BY <1>1 DEF ProjectState
<1>3. runs \in [AgentRoles -> Nat] BY RunsType, RolesAreAgents
<1>4. applied \in [Cards -> VersionIds \union {None}] BY DEF ProjectState
<1>5. status \in Status BY StatusType DEF ProjectState
<1>6. CreateRevision(p, id) = [p EXCEPT !.status = status, !.versions = versions,
                                        !.applied = applied, !.runs = runs]
  BY DEF CreateRevision
<1> HIDE DEF versions, runs, applied, status
<1> QED BY <1>2, <1>3, <1>4, <1>5, <1>6 DEF ProjectState

LEMMA RunDeterministicQAType ==
  ASSUME NEW p \in ProjectState, NEW S
  PROVE  RunDeterministicQA(p, S) \in ProjectState
<1> DEFINE decision == Raise(p, S)
           qaRuns == p.qaRuns + 1
           status == Advance(Advance(p.status, "reviews_in_progress"), "issues_open")
<1>1. decision \in [Cards -> Decisions] BY RaiseType
<1>2. status \in Status BY StatusType DEF ProjectState
<1>3. qaRuns \in Nat BY DEF ProjectState
<1>4. RunDeterministicQA(p, S) =
        [p EXCEPT !.status = status, !.decision = decision, !.qaRuns = qaRuns]
  BY DEF RunDeterministicQA
<1> HIDE DEF decision, qaRuns, status
<1> QED BY <1>1, <1>2, <1>3, <1>4 DEF ProjectState

LEMMA RunFinalQAType ==
  ASSUME NEW p \in ProjectState, NEW S, NEW T
  PROVE  RunFinalQA(p, S, T) \in ProjectState
<1> DEFINE det == RunDeterministicQA(p, S)
           decision == Raise(det, T)
           runs == RanAgent(det, "final_qa_assistant")
<1>1. det \in ProjectState BY RunDeterministicQAType
<1> HIDE DEF det
<1>2. decision \in [Cards -> Decisions] BY <1>1, RaiseType
<1>3. runs \in [AgentRoles -> Nat] BY <1>1, RunsType, RolesAreAgents
<1>4. RunFinalQA(p, S, T) = [det EXCEPT !.decision = decision, !.runs = runs]
  BY DEF RunFinalQA, det
<1> HIDE DEF decision, runs
<1> QED BY <1>1, <1>2, <1>3, <1>4 DEF ProjectState

LEMMA ApproveFinalType ==
  ASSUME NEW p \in ProjectState, NEW a \in Lawyers, p.versions # << >>
  PROVE  ApproveFinal(p, a) \in ProjectState
<1> DEFINE n == Len(p.versions)
           last == [p.versions[n] EXCEPT !.final = TRUE, !.approvedBy = a]
           versions == [p.versions EXCEPT ![n] = last]
           status == Advance(p.status, "final_approved")
<1>1. p.versions \in Seq(Version) /\ n \in 1..Len(p.versions) BY DEF ProjectState
<1>2. p.versions[n] \in Version BY <1>1
<1>3. last \in Version BY <1>2 DEF Version, Approver
<1>4. ApproveFinal(p, a) = [p EXCEPT !.status = status, !.versions = versions]
  BY <1>1 DEF ApproveFinal, ProjectState
<1> HIDE DEF n, last
<1>5. versions \in Seq(Version) BY <1>1, <1>3, ExceptSeq
<1>6. status \in Status BY StatusType DEF ProjectState
<1> HIDE DEF versions, status
<1> QED BY <1>4, <1>5, <1>6 DEF ProjectState

\* What create_export picks is the first final version.
LEMMA FirstFinalIsFinal ==
  ASSUME NEW p \in ProjectState, Finals(p) # {}, \A i, j \in Finals(p) : i = j
  PROVE  FirstFinal(p) \in Finals(p)
<1>1. PICK i \in 1..Len(p.versions) : p.versions[i].final BY DEF Finals
<1>2. \A j \in 1..(i - 1) : ~p.versions[j].final
  <2> SUFFICES ASSUME NEW j \in 1..(i - 1), p.versions[j].final PROVE FALSE
    OBVIOUS
  <2>1. Len(p.versions) \in Nat BY DEF ProjectState
  <2>2. j \in 1..Len(p.versions) BY <1>1, <2>1
  <2>3. i \in Finals(p) /\ j \in Finals(p) BY <1>1, <2>2 DEF Finals
  <2> QED BY <2>3, <1>1
<1> QED BY <1>1, <1>2 DEF FirstFinal, Finals

LEMMA CreateExportType ==
  ASSUME NEW p \in ProjectState, NEW type \in ExportTypes, NEW marked \in BOOLEAN,
         FirstFinal(p) \in Finals(p)
  PROVE  CreateExport(p, type, marked) \in ProjectState
<1> DEFINE file == [version |-> p.versions[FirstFinal(p)].id, type |-> type,
                    marked |-> marked]
           exports == Append(p.exports, file)
           status == Advance(p.status, "exported")
<1>1. p.versions[FirstFinal(p)] \in Version BY DEF Finals, ProjectState
<1>2. file \in Export BY <1>1 DEF Export, Version
<1>3. exports \in Seq(Export) BY <1>2 DEF ProjectState
<1>4. status \in Status BY StatusType DEF ProjectState
<1>5. CreateExport(p, type, marked) = [p EXCEPT !.status = status, !.exports = exports]
  BY DEF CreateExport
<1> HIDE DEF file, exports, status
<1> QED BY <1>3, <1>4, <1>5 DEF ProjectState

\* Iterations 1, 2, ...: the new one gets the next number.
LEMMA NextNumber ==
  ASSUME NEW p \in ProjectState,
         \A i \in 1..Len(p.iterations) : p.iterations[i].number = i
  PROVE  NextIterationNumber(p) = Len(p.iterations) + 1
<1> DEFINE n == Len(p.iterations)
<1>1. n \in Nat BY DEF ProjectState
<1>2. CASE p.iterations = << >> BY <1>2 DEF NextIterationNumber
<1>3. CASE p.iterations # << >>
  <2>1. n \in 1..n BY <1>1, <1>3 DEF ProjectState
  <2>2. IterationNumbers(p) = 1..n BY DEF IterationNumbers
  <2>3. n \in IterationNumbers(p) /\ \A m \in IterationNumbers(p) : m <= n
    BY <1>1, <2>1, <2>2
  <2>4. \A k \in IterationNumbers(p) :
          (\A m \in IterationNumbers(p) : m <= k) => k = n
    BY <1>1, <2>1, <2>2
  <2> DEFINE greatest == CHOOSE k \in IterationNumbers(p) :
                           \A m \in IterationNumbers(p) : m <= k
  <2>5. greatest = n BY <2>3, <2>4
  <2>6. NextIterationNumber(p) = 1 + greatest
    BY <1>3, Zenon DEF NextIterationNumber
  <2> HIDE DEF greatest, n
  <2>7. NextIterationNumber(p) = n + 1 BY <1>1, <2>5, <2>6
  <2> QED BY <2>7 DEF n
<1> QED BY <1>2, <1>3

LEMMA CreateDraftIterationType ==
  ASSUME NEW p \in ProjectState, NextIterationNumber(p) \in Nat \ {0}
  PROVE  CreateDraftIteration(p) \in ProjectState
<1> DEFINE base == IF p.versions = << >> THEN None ELSE Latest(p).id
           state == IF p.versions = << >> THEN "planned" ELSE "drafted"
           it == [number |-> NextIterationNumber(p), base |-> base, reviewed |-> {},
                  state |-> state, reviewerRuns |-> 0]
           iterations == Append(p.iterations, it)
<1>1. base \in VersionIds \union {None}
  <2>1. CASE p.versions = << >> BY <2>1
  <2>2. CASE p.versions # << >>
    <3>1. Len(p.versions) \in 1..Len(p.versions) BY <2>2 DEF ProjectState
    <3>2. Latest(p) \in Version BY <3>1 DEF ProjectState, Latest
    <3> QED BY <2>2, <3>2 DEF Version
  <2> QED BY <2>1, <2>2
<1>2. state \in {"planned", "drafted", "synthesized", "stopped"} OBVIOUS
<1>3. CreateDraftIteration(p) = [p EXCEPT !.iterations = iterations]
  BY DEF CreateDraftIteration
<1> HIDE DEF base, state
<1>4. it \in Iteration BY <1>1, <1>2 DEF Iteration
<1> HIDE DEF it
<1>5. iterations \in Seq(Iteration) BY <1>4 DEF ProjectState
<1> HIDE DEF iterations
<1> QED BY <1>3, <1>5 DEF ProjectState

LEMMA SynthesizeReviewsType ==
  ASSUME NEW p \in ProjectState, NEW i \in 1..Len(p.iterations)
  PROVE  SynthesizeReviews(p, i) \in ProjectState
<1> DEFINE it == [p.iterations[i] EXCEPT !.reviewed = Pending(p), !.state = "synthesized",
                                         !.reviewerRuns = @ + ReviewerRuns(p)]
           iterations == [p.iterations EXCEPT ![i] = it]
           runs == RanAgent(p, "review_synthesizer")
<1>1. p.iterations \in Seq(Iteration) /\ p.iterations[i] \in Iteration
  BY DEF ProjectState
<1>2. ReviewerRuns(p) \in Nat
  BY RolesAreAgents DEF ReviewerRuns, ProjectState, ReviewerRoles
<1>3. it \in Iteration
  <2>1. p.iterations[i].reviewerRuns + ReviewerRuns(p) \in Nat
    BY <1>1, <1>2 DEF Iteration
  <2>2. Pending(p) \in SUBSET Cards BY DEF Pending
  <2> QED BY <1>1, <2>1, <2>2 DEF Iteration
<1>4. SynthesizeReviews(p, i) = [p EXCEPT !.runs = runs, !.iterations = iterations]
  BY DEF SynthesizeReviews, ProjectState
<1>5. runs \in [AgentRoles -> Nat] BY RunsType, RolesAreAgents
<1> HIDE DEF it, runs
<1>6. iterations \in Seq(Iteration) BY <1>1, <1>3, ExceptSeq
<1> HIDE DEF iterations
<1> QED BY <1>4, <1>5, <1>6 DEF ProjectState

LEMMA StopDraftLoopType ==
  ASSUME NEW p \in ProjectState, NEW i \in 1..Len(p.iterations)
  PROVE  StopDraftLoop(p, i) \in ProjectState
<1> DEFINE it == [p.iterations[i] EXCEPT !.state = "stopped"]
           iterations == [p.iterations EXCEPT ![i] = it]
<1>1. p.iterations \in Seq(Iteration) /\ p.iterations[i] \in Iteration
  BY DEF ProjectState
<1>2. it \in Iteration BY <1>1 DEF Iteration
<1>3. StopDraftLoop(p, i) = [p EXCEPT !.iterations = iterations]
  BY DEF StopDraftLoop, ProjectState
<1> HIDE DEF it
<1>4. iterations \in Seq(Iteration) BY <1>1, <1>2, ExceptSeq
<1> HIDE DEF iterations
<1> QED BY <1>3, <1>4 DEF ProjectState

\* An order lists the cards of a finite set.
LEMMA OrderType ==
  ASSUME NEW S \in SUBSET Cards, NEW order \in Orders(S)
  PROVE  /\ Cardinality(S) \in Nat
         /\ order \in Seq(S)
         /\ Len(order) = Cardinality(S)
         /\ DOMAIN order = 1..Cardinality(S)
<1>1. Cardinality(S) \in Nat BY CardsAssumption, FS_Subset, FS_CardinalityType
<1>2. order \in [1..Cardinality(S) -> S] BY DEF Orders
<1> QED BY <1>1, <1>2

LEMMA BatchAcceptType ==
  ASSUME NEW p \in ProjectState, NEW S \in SUBSET Cards, NEW order \in Orders(S),
         NEW a \in Lawyers
  PROVE  BatchAccept(p, order, a) \in ProjectState
<1> DEFINE decision == [c \in Cards |-> IF \E i \in DOMAIN order : order[i] = c
                                        THEN "accepted" ELSE p.decision[c]]
           entries == [i \in DOMAIN order |->
                         [issue |-> order[i], previous |-> "pending",
                          new |-> "accepted", actor |-> a]]
           history == p.history \o entries
<1>1. decision \in [Cards -> Decisions] BY DEF ProjectState, Decisions, Outcomes
<1>2. \A i \in DOMAIN order : entries[i] \in Entry
  BY OrderType DEF Entry, Decisions, Outcomes
<1>3. entries \in Seq(Entry)
  <2> HIDE DEF entries
  <2>1. DOMAIN entries = 1..Cardinality(S) BY OrderType DEF entries
  <2>2. entries \in [1..Cardinality(S) -> Entry] BY <1>2, <2>1, OrderType DEF entries
  <2> QED BY <2>2, OrderType
<1>4. BatchAccept(p, order, a) = [p EXCEPT !.decision = decision, !.history = history]
  BY DEF BatchAccept
<1> HIDE DEF decision, entries
<1>5. history \in Seq(Entry) BY <1>3 DEF ProjectState
<1> HIDE DEF history
<1> QED BY <1>1, <1>4, <1>5 DEF ProjectState

-----------------------------------------------------------------------------
(* Good projects *)

Numbered(p) == \A i \in 1..Len(p.iterations) : p.iterations[i].number = i

\* The inductive invariant, of a project record.
Good(p) == p \in ProjectState /\ Agrees(p) /\ Settled(p) /\ Numbered(p)

-----------------------------------------------------------------------------
(* Ranks *)

LEMMA RankOf ==
  /\ Rank["created"] = 1 /\ Rank["sources_uploaded"] = 2
  /\ Rank["source_pack_locked"] = 3 /\ Rank["type_suggested"] = 4
  /\ Rank["type_confirmed"] = 5 /\ Rank["playbook_selected"] = 6
  /\ Rank["intake_in_progress"] = 7 /\ Rank["deal_memo_drafted"] = 8
  /\ Rank["deal_memo_approved"] = 9 /\ Rank["drafting_plan_drafted"] = 10
  /\ Rank["drafting_plan_approved"] = 11 /\ Rank["draft_v0_created"] = 12
  /\ Rank["reviews_in_progress"] = 13 /\ Rank["issues_open"] = 14
  /\ Rank["revised"] = 15 /\ Rank["final_approved"] = 16 /\ Rank["exported"] = 17
BY DEF Rank

\* The stages at or past issues_open.
LEMMA LateStages ==
  \A s \in Status : AtLeast(s, "issues_open") =>
    s \in {"issues_open", "revised", "final_approved", "exported"}
BY RankOf DEF Status, AtLeast

LEMMA FinalStages ==
  \A s \in Status : AtLeast(s, "final_approved") => s \in {"final_approved", "exported"}
BY RankOf DEF Status, AtLeast

\* withStatus, at the stages the operations apply it to.
LEMMA AdvanceOnce ==
  /\ Advance("created", "sources_uploaded") = "sources_uploaded"
  /\ Advance("sources_uploaded", "sources_uploaded") = "sources_uploaded"
  /\ Advance("source_pack_locked", "type_suggested") = "type_suggested"
  /\ Advance("type_suggested", "type_confirmed") = "type_confirmed"
  /\ Advance("type_confirmed", "playbook_selected") = "playbook_selected"
  /\ Advance("playbook_selected", "intake_in_progress") = "intake_in_progress"
  /\ Advance("draft_v0_created", "reviews_in_progress") = "reviews_in_progress"
  /\ Advance("reviews_in_progress", "issues_open") = "issues_open"
BY RankOf DEF Advance, AtLeast

LEMMA AdvanceLate ==
  \A s \in {"issues_open", "revised", "final_approved", "exported"} :
    /\ Advance(s, "reviews_in_progress") = s
    /\ Advance(s, "issues_open") = s
    /\ Advance(s, "revised") = IF s = "issues_open" THEN "revised" ELSE s
BY RankOf DEF Advance, AtLeast

-----------------------------------------------------------------------------
(* What a project keeps when an operation leaves its fields alone *)

LEMMA AgreesKept ==
  ASSUME NEW p \in ProjectState, NEW q \in ProjectState, Agrees(p),
         q.status = p.status, q.docs = p.docs, q.locked = p.locked,
         q.ctype = p.ctype, q.playbook = p.playbook, q.memo = p.memo,
         q.plan = p.plan, q.versions = p.versions
  PROVE  Agrees(q)
BY DEF Agrees

LEMMA SettledKept ==
  ASSUME NEW p \in ProjectState, NEW q \in ProjectState, Settled(p),
         q.versions = p.versions,
         AtLeast(q.status, "final_approved") <=> AtLeast(p.status, "final_approved"),
         Finals(p) = {} \/ Pending(q) \subseteq Pending(p)
  PROVE  Settled(q)
<1>1. Finals(q) = Finals(p) BY DEF Finals
<1>2. Finals(q) # {} => Pending(q) = {} BY <1>1 DEF Settled
<1> QED BY <1>1, <1>2 DEF Settled

\* A version that is not final settles nothing.
LEMMA SettledAppend ==
  ASSUME NEW p \in ProjectState, NEW q \in ProjectState, Settled(p),
         NEW v \in Version, ~v.final, q.versions = Append(p.versions, v),
         AtLeast(q.status, "final_approved") <=> AtLeast(p.status, "final_approved"),
         q.decision = p.decision
  PROVE  Settled(q)
<1>1. /\ p.versions \in Seq(Version)
      /\ Len(q.versions) = Len(p.versions) + 1
      /\ \A i \in 1..Len(p.versions) : q.versions[i] = p.versions[i]
      /\ q.versions[Len(p.versions) + 1] = v
  BY DEF ProjectState
<1>2. Finals(q) = Finals(p)
  <2>1. Len(p.versions) \in Nat BY <1>1
  <2> QED BY <1>1, <2>1 DEF Finals
<1>3. \A i \in Finals(p) : q.versions[i] = p.versions[i] BY <1>1 DEF Finals
<1>4. Pending(q) = Pending(p) BY DEF Pending
<1> QED BY <1>2, <1>3, <1>4 DEF Settled

\* Before final approval there is no final version.
LEMMA NotYetFinal ==
  ASSUME NEW p \in ProjectState, Settled(p), ~AtLeast(p.status, "final_approved")
  PROVE  Finals(p) = {}
BY DEF Settled

\* An operation that advances the stage, short of final approval, and leaves
\* versions and decisions alone.
LEMMA SettledBefore ==
  ASSUME NEW p \in ProjectState, NEW q \in ProjectState, Settled(p),
         q.versions = p.versions,
         ~AtLeast(p.status, "final_approved"), ~AtLeast(q.status, "final_approved")
  PROVE  Settled(q)
BY SettledKept, NotYetFinal

LEMMA NumberedKept ==
  ASSUME NEW p, NEW q, Numbered(p), q.iterations = p.iterations
  PROVE  Numbered(q)
BY DEF Numbered

-----------------------------------------------------------------------------
(* The operations, each from the stage it is refused outside of *)

LEMMA AddSourceGood ==
  ASSUME NEW p, Good(p), NEW d \in Docs,
         CanAddSource(p, d)
  PROVE  Good(AddSource(p, d))
<1> DEFINE q == AddSource(p, d)
<1>1. p \in ProjectState /\ q \in ProjectState BY AddSourceType DEF Good
<1>2. p.status \in {"created", "sources_uploaded"}
  BY DEF CanAddSource, Good, Agrees
<1>3. q.status = "sources_uploaded"
  BY <1>1, <1>2, AdvanceOnce DEF AddSource, ProjectState
<1>4. q.docs # {}
  BY <1>1 DEF AddSource, ProjectState
<1>5. /\ q.locked = p.locked /\ q.ctype = p.ctype /\ q.playbook = p.playbook /\ q.memo = p.memo
      /\ q.plan = p.plan /\ q.versions = p.versions /\ q.iterations = p.iterations /\ q.decision = p.decision
  BY <1>1 DEF AddSource, ProjectState
<1> HIDE DEF q
<1>6. Agrees(q) BY <1>1, <1>2, <1>3, <1>4, <1>5, RankOf DEF Agrees, AtLeast, Good
<1>7. Settled(q) BY <1>1, <1>2, <1>3, <1>5, SettledBefore, RankOf DEF AtLeast, Good
<1>8. Numbered(q) BY <1>5, NumberedKept DEF Good
<1> QED BY <1>1, <1>6, <1>7, <1>8 DEF Good, q

LEMMA LockSourcePackGood ==
  ASSUME NEW p, Good(p),
         CanLockSourcePack(p)
  PROVE  Good(LockSourcePack(p))
<1> DEFINE q == LockSourcePack(p)
<1>1. p \in ProjectState /\ q \in ProjectState BY LockSourcePackType DEF Good
<1>2. p.status = "sources_uploaded"
  BY DEF CanLockSourcePack, Good, Agrees
<1>3. q.status = "source_pack_locked"
  BY <1>1, <1>2, RankOf DEF LockSourcePack, ProjectState, AtLeast, Advance
<1>4. q.locked = TRUE
  BY <1>1 DEF LockSourcePack, ProjectState
<1>5. /\ q.docs = p.docs /\ q.ctype = p.ctype /\ q.playbook = p.playbook /\ q.memo = p.memo
      /\ q.plan = p.plan /\ q.versions = p.versions /\ q.iterations = p.iterations /\ q.decision = p.decision
  BY <1>1 DEF LockSourcePack, ProjectState
<1> HIDE DEF q
<1>6. Agrees(q) BY <1>1, <1>2, <1>3, <1>4, <1>5, RankOf DEF Agrees, AtLeast, Good
<1>7. Settled(q) BY <1>1, <1>2, <1>3, <1>5, SettledBefore, RankOf DEF AtLeast, Good
<1>8. Numbered(q) BY <1>5, NumberedKept DEF Good
<1> QED BY <1>1, <1>6, <1>7, <1>8 DEF Good, q

LEMMA ClassifyAndConfirmGood ==
  ASSUME NEW p, Good(p), NEW a \in Actors, NEW t \in ContractTypes,
         CanClassifyAndConfirm(p, a)
  PROVE  Good(ClassifyAndConfirm(p, t))
<1> DEFINE q == ClassifyAndConfirm(p, t)
<1>1. p \in ProjectState /\ q \in ProjectState BY ClassifyAndConfirmType DEF Good
<1>2. p.status = "source_pack_locked"
  BY DEF CanClassifyAndConfirm, Good, Agrees
<1>3. q.status = "type_confirmed"
  BY <1>1, <1>2, AdvanceOnce DEF ClassifyAndConfirm, ProjectState
<1>4. q.ctype # None
  BY <1>1, DataAssumption DEF ClassifyAndConfirm, ProjectState
<1>5. /\ q.docs = p.docs /\ q.locked = p.locked /\ q.playbook = p.playbook /\ q.memo = p.memo
      /\ q.plan = p.plan /\ q.versions = p.versions /\ q.iterations = p.iterations /\ q.decision = p.decision
  BY <1>1 DEF ClassifyAndConfirm, ProjectState
<1> HIDE DEF q
<1>6. Agrees(q) BY <1>1, <1>2, <1>3, <1>4, <1>5, RankOf DEF Agrees, AtLeast, Good
<1>7. Settled(q) BY <1>1, <1>2, <1>3, <1>5, SettledBefore, RankOf DEF AtLeast, Good
<1>8. Numbered(q) BY <1>5, NumberedKept DEF Good
<1> QED BY <1>1, <1>6, <1>7, <1>8 DEF Good, q

LEMMA SelectPlaybookGood ==
  ASSUME NEW p, Good(p), NEW b \in Playbooks,
         CanSelectPlaybook(p, b)
  PROVE  Good(SelectPlaybook(p, b))
<1> DEFINE q == SelectPlaybook(p, b)
<1>1. p \in ProjectState /\ q \in ProjectState BY SelectPlaybookType DEF Good
<1>2. p.status = "type_confirmed"
  BY DEF CanSelectPlaybook, Good, Agrees
<1>3. q.status = "intake_in_progress"
  BY <1>1, <1>2, AdvanceOnce DEF SelectPlaybook, ProjectState
<1>4. q.playbook # None
  BY <1>1, DataAssumption DEF SelectPlaybook, ProjectState
<1>5. /\ q.docs = p.docs /\ q.locked = p.locked /\ q.ctype = p.ctype /\ q.memo = p.memo
      /\ q.plan = p.plan /\ q.versions = p.versions /\ q.iterations = p.iterations /\ q.decision = p.decision
  BY <1>1 DEF SelectPlaybook, ProjectState
<1> HIDE DEF q
<1>6. Agrees(q) BY <1>1, <1>2, <1>3, <1>4, <1>5, RankOf DEF Agrees, AtLeast, Good
<1>7. Settled(q) BY <1>1, <1>2, <1>3, <1>5, SettledBefore, RankOf DEF AtLeast, Good
<1>8. Numbered(q) BY <1>5, NumberedKept DEF Good
<1> QED BY <1>1, <1>6, <1>7, <1>8 DEF Good, q

LEMMA DraftDealMemoGood ==
  ASSUME NEW p, Good(p),
         CanDraftDealMemo(p)
  PROVE  Good(DraftDealMemo(p))
<1> DEFINE q == DraftDealMemo(p)
<1>1. p \in ProjectState /\ q \in ProjectState BY DraftDealMemoType DEF Good
<1>2. p.status = "intake_in_progress"
  BY DEF CanDraftDealMemo, Good, Agrees
<1>3. q.status = "deal_memo_drafted"
  BY <1>1, <1>2, RankOf DEF DraftDealMemo, ProjectState, AtLeast, Advance
<1>4. q.memo.state = "drafted"
  BY <1>1 DEF DraftDealMemo, ProjectState
<1>5. /\ q.docs = p.docs /\ q.locked = p.locked /\ q.ctype = p.ctype /\ q.playbook = p.playbook
      /\ q.plan = p.plan /\ q.versions = p.versions /\ q.iterations = p.iterations /\ q.decision = p.decision
  BY <1>1 DEF DraftDealMemo, ProjectState
<1> HIDE DEF q
<1>6. Agrees(q) BY <1>1, <1>2, <1>3, <1>4, <1>5, RankOf DEF Agrees, AtLeast, Good
<1>7. Settled(q) BY <1>1, <1>2, <1>3, <1>5, SettledBefore, RankOf DEF AtLeast, Good
<1>8. Numbered(q) BY <1>5, NumberedKept DEF Good
<1> QED BY <1>1, <1>6, <1>7, <1>8 DEF Good, q

LEMMA ApproveDealMemoGood ==
  ASSUME NEW p, Good(p), NEW a \in Lawyers,
         CanApproveDealMemo(p, a)
  PROVE  Good(ApproveDealMemo(p, a))
<1> DEFINE q == ApproveDealMemo(p, a)
<1>1. p \in ProjectState /\ q \in ProjectState BY ApproveDealMemoType DEF Good
<1>2. p.status = "deal_memo_drafted"
  BY DEF CanApproveDealMemo, Good, Agrees
<1>3. q.status = "deal_memo_approved"
  BY <1>1, <1>2, RankOf DEF ApproveDealMemo, ProjectState, AtLeast, Advance
<1>4. q.memo.state = "approved"
  BY <1>1 DEF ApproveDealMemo, Memo, ProjectState
<1>5. /\ q.docs = p.docs /\ q.locked = p.locked /\ q.ctype = p.ctype /\ q.playbook = p.playbook
      /\ q.plan = p.plan /\ q.versions = p.versions /\ q.iterations = p.iterations /\ q.decision = p.decision
  BY <1>1 DEF ApproveDealMemo, ProjectState
<1> HIDE DEF q
<1>6. Agrees(q) BY <1>1, <1>2, <1>3, <1>4, <1>5, RankOf DEF Agrees, AtLeast, Good
<1>7. Settled(q) BY <1>1, <1>2, <1>3, <1>5, SettledBefore, RankOf DEF AtLeast, Good
<1>8. Numbered(q) BY <1>5, NumberedKept DEF Good
<1> QED BY <1>1, <1>6, <1>7, <1>8 DEF Good, q

LEMMA DraftDraftingPlanGood ==
  ASSUME NEW p, Good(p),
         CanDraftDraftingPlan(p)
  PROVE  Good(DraftDraftingPlan(p))
<1> DEFINE q == DraftDraftingPlan(p)
<1>1. p \in ProjectState /\ q \in ProjectState BY DraftDraftingPlanType DEF Good
<1>2. p.status = "deal_memo_approved"
  BY DEF CanDraftDraftingPlan, Good, Agrees
<1>3. q.status = "drafting_plan_drafted"
  BY <1>1, <1>2, RankOf DEF DraftDraftingPlan, ProjectState, AtLeast, Advance
<1>4. q.plan.state = "drafted"
  BY <1>1 DEF DraftDraftingPlan, ProjectState
<1>5. /\ q.docs = p.docs /\ q.locked = p.locked /\ q.ctype = p.ctype /\ q.playbook = p.playbook
      /\ q.memo = p.memo /\ q.versions = p.versions /\ q.iterations = p.iterations /\ q.decision = p.decision
  BY <1>1 DEF DraftDraftingPlan, ProjectState
<1> HIDE DEF q
<1>6. Agrees(q) BY <1>1, <1>2, <1>3, <1>4, <1>5, RankOf DEF Agrees, AtLeast, Good
<1>7. Settled(q) BY <1>1, <1>2, <1>3, <1>5, SettledBefore, RankOf DEF AtLeast, Good
<1>8. Numbered(q) BY <1>5, NumberedKept DEF Good
<1> QED BY <1>1, <1>6, <1>7, <1>8 DEF Good, q

LEMMA ApproveDraftingPlanGood ==
  ASSUME NEW p, Good(p), NEW a \in Lawyers,
         CanApproveDraftingPlan(p, a)
  PROVE  Good(ApproveDraftingPlan(p, a))
<1> DEFINE q == ApproveDraftingPlan(p, a)
<1>1. p \in ProjectState /\ q \in ProjectState BY ApproveDraftingPlanType DEF Good
<1>2. p.status = "drafting_plan_drafted"
  BY DEF CanApproveDraftingPlan, Good, Agrees
<1>3. q.status = "drafting_plan_approved"
  BY <1>1, <1>2, RankOf DEF ApproveDraftingPlan, ProjectState, AtLeast, Advance
<1>4. q.plan.state = "approved"
  BY <1>1 DEF ApproveDraftingPlan, Plan, ProjectState
<1>5. /\ q.docs = p.docs /\ q.locked = p.locked /\ q.ctype = p.ctype /\ q.playbook = p.playbook
      /\ q.memo = p.memo /\ q.versions = p.versions /\ q.iterations = p.iterations /\ q.decision = p.decision
  BY <1>1 DEF ApproveDraftingPlan, ProjectState
<1> HIDE DEF q
<1>6. Agrees(q) BY <1>1, <1>2, <1>3, <1>4, <1>5, RankOf DEF Agrees, AtLeast, Good
<1>7. Settled(q) BY <1>1, <1>2, <1>3, <1>5, SettledBefore, RankOf DEF AtLeast, Good
<1>8. Numbered(q) BY <1>5, NumberedKept DEF Good
<1> QED BY <1>1, <1>6, <1>7, <1>8 DEF Good, q

LEMMA AddSourceContentGood ==
  ASSUME NEW p, Good(p), NEW d \in Docs, NEW t \in Texts
  PROVE  Good(AddSourceContent(p, d, t))
<1> DEFINE q == AddSourceContent(p, d, t)
<1>1. p \in ProjectState /\ q \in ProjectState BY AddSourceContentType DEF Good
<1>2. /\ q.status = p.status /\ q.docs = p.docs /\ q.locked = p.locked /\ q.ctype = p.ctype
      /\ q.playbook = p.playbook /\ q.memo = p.memo /\ q.plan = p.plan /\ q.versions = p.versions
      /\ q.iterations = p.iterations /\ q.decision = p.decision
  BY <1>1 DEF AddSourceContent, ProjectState
<1> HIDE DEF q
<1>3. Agrees(q) BY <1>1, <1>2, AgreesKept DEF Good
<1>4. Settled(q) BY <1>1, <1>2, SettledKept DEF Good, Pending
<1>5. Numbered(q) BY <1>2, NumberedKept DEF Good
<1> QED BY <1>1, <1>3, <1>4, <1>5 DEF Good, q

LEMMA AnswerIntakeGood ==
  ASSUME NEW p, Good(p), NEW w \in Questions, NEW v \in Answers
  PROVE  Good(AnswerIntake(p, w, v))
<1> DEFINE q == AnswerIntake(p, w, v)
<1>1. p \in ProjectState /\ q \in ProjectState BY AnswerIntakeType DEF Good
<1>2. /\ q.status = p.status /\ q.docs = p.docs /\ q.locked = p.locked /\ q.ctype = p.ctype
      /\ q.playbook = p.playbook /\ q.memo = p.memo /\ q.plan = p.plan /\ q.versions = p.versions
      /\ q.iterations = p.iterations /\ q.decision = p.decision
  BY <1>1 DEF AnswerIntake, ProjectState
<1> HIDE DEF q
<1>3. Agrees(q) BY <1>1, <1>2, AgreesKept DEF Good
<1>4. Settled(q) BY <1>1, <1>2, SettledKept DEF Good, Pending
<1>5. Numbered(q) BY <1>2, NumberedKept DEF Good
<1> QED BY <1>1, <1>3, <1>4, <1>5 DEF Good, q

-----------------------------------------------------------------------------
(* Drafting, review, decision, approval, export *)

LEMMA CreateV0Good ==
  ASSUME NEW p, Good(p), NEW id \in VersionIds, CanCreateV0(p)
  PROVE  Good(CreateV0(p, id))
<1> DEFINE q == CreateV0(p, id)
<1>1. p \in ProjectState /\ q \in ProjectState BY CreateV0Type DEF Good
<1>2. p.status = "drafting_plan_approved" BY DEF CanCreateV0
<1>3. q.status = "draft_v0_created"
  BY <1>1, <1>2, RankOf DEF CreateV0, ProjectState, AtLeast, Advance
<1>4. /\ q.docs = p.docs /\ q.locked = p.locked /\ q.ctype = p.ctype
      /\ q.playbook = p.playbook /\ q.memo = p.memo /\ q.plan = p.plan
      /\ q.iterations = p.iterations /\ q.decision = p.decision
      /\ q.versions = Append(p.versions, Draft(id, {}))
  BY <1>1 DEF CreateV0, ProjectState
<1> HIDE DEF q
<1>5. ~(Len(p.versions) > 0) BY <1>2, RankOf DEF Good, Agrees, AtLeast
<1>6. Len(q.versions) = 1 BY <1>1, <1>4, <1>5 DEF ProjectState
<1>7. Agrees(q)
  <2>1. Len(q.versions) > 0 /\ ~(Len(q.versions) > 1) BY <1>6
  <2> QED BY <1>1, <1>2, <1>3, <1>4, <2>1, RankOf DEF Agrees, AtLeast, Good
<1>8. Settled(q)
  <2>1. Draft(id, {}) \in Version /\ ~Draft(id, {}).final BY DraftType DEF Draft
  <2>2. ~AtLeast(p.status, "final_approved") /\ ~AtLeast(q.status, "final_approved")
    BY <1>2, <1>3, RankOf DEF AtLeast
  <2> QED BY <1>1, <1>4, <2>1, <2>2, SettledAppend DEF Good
<1>9. Numbered(q) BY <1>4, NumberedKept DEF Good
<1> QED BY <1>1, <1>7, <1>8, <1>9 DEF Good, q

LEMMA RunReviewsGood ==
  ASSUME NEW p, Good(p), NEW S, CanRunReviews(p)
  PROVE  Good(RunReviews(p, S))
<1> DEFINE q == RunReviews(p, S)
<1>1. p \in ProjectState /\ q \in ProjectState BY RunReviewsType DEF Good
<1>2. p.status \in {"draft_v0_created", "issues_open"}
  BY DEF CanRunReviews, Good, Agrees
<1>3. q.status = "issues_open"
  BY <1>1, <1>2, AdvanceOnce, AdvanceLate DEF RunReviews, ProjectState
<1>4. /\ q.docs = p.docs /\ q.locked = p.locked /\ q.ctype = p.ctype
      /\ q.playbook = p.playbook /\ q.memo = p.memo /\ q.plan = p.plan
      /\ q.iterations = p.iterations /\ q.versions = p.versions
  BY <1>1 DEF RunReviews, ProjectState
<1> HIDE DEF q
<1>5. Agrees(q) BY <1>1, <1>2, <1>3, <1>4, RankOf DEF Agrees, AtLeast, Good
<1>6. Settled(q)
  <2>1. ~AtLeast(p.status, "final_approved") /\ ~AtLeast(q.status, "final_approved")
    BY <1>2, <1>3, RankOf DEF AtLeast
  <2> QED BY <1>1, <1>4, <2>1, SettledBefore DEF Good
<1>7. Numbered(q) BY <1>4, NumberedKept DEF Good
<1> QED BY <1>1, <1>5, <1>6, <1>7 DEF Good, q

\* A decision leaves no new card pending, so it may follow final approval.
LEMMA DecideIssueGood ==
  ASSUME NEW p, Good(p), NEW c \in Cards, NEW d \in Outcomes, NEW a \in Lawyers
  PROVE  Good(DecideIssue(p, c, d, a))
<1> DEFINE q == DecideIssue(p, c, d, a)
<1>1. p \in ProjectState /\ q \in ProjectState BY DecideIssueType DEF Good
<1>2. /\ q.status = p.status /\ q.docs = p.docs /\ q.locked = p.locked
      /\ q.ctype = p.ctype /\ q.playbook = p.playbook /\ q.memo = p.memo
      /\ q.plan = p.plan /\ q.versions = p.versions /\ q.iterations = p.iterations
  BY <1>1 DEF DecideIssue, ProjectState
<1>3. Pending(q) \subseteq Pending(p)
  BY <1>1 DEF DecideIssue, ProjectState, Pending, Outcomes
<1> HIDE DEF q
<1>4. Agrees(q) BY <1>1, <1>2, AgreesKept DEF Good
<1>5. Settled(q) BY <1>1, <1>2, <1>3, SettledKept DEF Good
<1>6. Numbered(q) BY <1>2, NumberedKept DEF Good
<1> QED BY <1>1, <1>4, <1>5, <1>6 DEF Good, q

LEMMA BatchAcceptGood ==
  ASSUME NEW p, Good(p), NEW S \in SUBSET Cards, NEW order \in Orders(S),
         NEW a \in Lawyers
  PROVE  Good(BatchAccept(p, order, a))
<1> DEFINE q == BatchAccept(p, order, a)
<1>1. p \in ProjectState /\ q \in ProjectState BY BatchAcceptType DEF Good
<1>2. /\ q.status = p.status /\ q.docs = p.docs /\ q.locked = p.locked
      /\ q.ctype = p.ctype /\ q.playbook = p.playbook /\ q.memo = p.memo
      /\ q.plan = p.plan /\ q.versions = p.versions /\ q.iterations = p.iterations
  BY <1>1 DEF BatchAccept, ProjectState
<1>3. Pending(q) \subseteq Pending(p)
  BY <1>1 DEF BatchAccept, ProjectState, Pending
<1> HIDE DEF q
<1>4. Agrees(q) BY <1>1, <1>2, AgreesKept DEF Good
<1>5. Settled(q) BY <1>1, <1>2, <1>3, SettledKept DEF Good
<1>6. Numbered(q) BY <1>2, NumberedKept DEF Good
<1> QED BY <1>1, <1>4, <1>5, <1>6 DEF Good, q

\* A revision after final approval is a version beside the final one.
LEMMA CreateRevisionGood ==
  ASSUME NEW p, Good(p), NEW id \in VersionIds, CanCreateRevision(p)
  PROVE  Good(CreateRevision(p, id))
<1> DEFINE q == CreateRevision(p, id)
           v == Draft(id, Accepted(p))
<1>1. p \in ProjectState /\ q \in ProjectState BY CreateRevisionType DEF Good
<1>2. p.status \in {"issues_open", "revised", "final_approved", "exported"}
  BY <1>1, LateStages DEF CanCreateRevision, ProjectState
<1>3. q.status = IF p.status = "issues_open" THEN "revised" ELSE p.status
  BY <1>1, <1>2, AdvanceLate DEF CreateRevision, ProjectState
<1>4. /\ q.docs = p.docs /\ q.locked = p.locked /\ q.ctype = p.ctype
      /\ q.playbook = p.playbook /\ q.memo = p.memo /\ q.plan = p.plan
      /\ q.iterations = p.iterations /\ q.decision = p.decision
      /\ q.versions = Append(p.versions, v)
  BY <1>1 DEF CreateRevision, ProjectState
<1>5. v \in Version /\ ~v.final BY DraftType DEF Draft, Accepted
<1> HIDE DEF q, v
<1>6. Len(q.versions) > 1
  BY <1>1, <1>4, <1>5 DEF CanCreateRevision, ProjectState
<1>7. Agrees(q)
  <2>1. CASE p.status = "issues_open"
    <3>1. Len(p.versions) > 0 BY <2>1, RankOf DEF Good, Agrees, AtLeast
    <3>2. q.status = "revised" BY <1>3, <2>1
    <3>3. Len(q.versions) > 0 BY <1>1, <1>6 DEF ProjectState
    <3>4. /\ q.docs = p.docs /\ q.locked = p.locked /\ q.ctype = p.ctype
          /\ q.playbook = p.playbook /\ q.memo = p.memo /\ q.plan = p.plan
      BY <1>4
    <3> QED BY <1>1, <2>1, <3>2, <3>3, <3>4, <1>6, RankOf DEF Good, Agrees, AtLeast
  <2>2. CASE p.status # "issues_open"
    <3>1. q.status = p.status BY <1>3, <2>2
    <3>2. Len(p.versions) > 0 /\ Len(p.versions) > 1
      BY <1>2, <2>2, RankOf DEF Good, Agrees, AtLeast
    <3>3. Len(q.versions) > 0 BY <1>1, <1>6 DEF ProjectState
    <3>4. /\ q.docs = p.docs /\ q.locked = p.locked /\ q.ctype = p.ctype
          /\ q.playbook = p.playbook /\ q.memo = p.memo /\ q.plan = p.plan
      BY <1>4
    <3> QED BY <1>1, <1>6, <3>1, <3>2, <3>3, <3>4 DEF Good, Agrees
  <2> QED BY <2>1, <2>2
<1>8. Settled(q)
  <2>1. AtLeast(q.status, "final_approved") <=> AtLeast(p.status, "final_approved")
    BY <1>2, <1>3, RankOf DEF AtLeast
  <2> QED BY <1>1, <1>4, <1>5, <2>1, SettledAppend DEF Good
<1>9. Numbered(q) BY <1>4, NumberedKept DEF Good
<1> QED BY <1>1, <1>7, <1>8, <1>9 DEF Good, q

\* A QA pass may raise cards, so it must come before final approval.
LEMMA RunFinalQAGood ==
  ASSUME NEW p, Good(p), NEW S, NEW T, CanRunFinalQA(p)
  PROVE  Good(RunFinalQA(p, S, T))
<1> DEFINE det == RunDeterministicQA(p, S)
           q == RunFinalQA(p, S, T)
<1>1. p \in ProjectState /\ det \in ProjectState /\ q \in ProjectState
  BY RunDeterministicQAType, RunFinalQAType DEF Good
<1>2. p.status \in {"revised", "issues_open"} BY DEF CanRunFinalQA
<1>3. det.status = p.status
  BY <1>1, <1>2, AdvanceLate DEF RunDeterministicQA, ProjectState
<1>4. /\ det.docs = p.docs /\ det.locked = p.locked /\ det.ctype = p.ctype
      /\ det.playbook = p.playbook /\ det.memo = p.memo /\ det.plan = p.plan
      /\ det.iterations = p.iterations /\ det.versions = p.versions
  BY <1>1 DEF RunDeterministicQA, ProjectState
<1>5. q = [det EXCEPT !.decision = Raise(det, T),
                      !.runs = RanAgent(det, "final_qa_assistant")]
  BY DEF RunFinalQA
<1> HIDE DEF det, q
<1>6. /\ q.status = p.status /\ q.docs = p.docs /\ q.locked = p.locked
      /\ q.ctype = p.ctype /\ q.playbook = p.playbook /\ q.memo = p.memo
      /\ q.plan = p.plan /\ q.versions = p.versions /\ q.iterations = p.iterations
  BY <1>1, <1>3, <1>4, <1>5 DEF ProjectState
<1>7. Agrees(q) BY <1>1, <1>6, AgreesKept DEF Good
<1>8. Settled(q)
  <2>1. ~AtLeast(p.status, "final_approved") /\ ~AtLeast(q.status, "final_approved")
    BY <1>2, <1>6, RankOf DEF AtLeast
  <2> QED BY <1>1, <1>6, <2>1, SettledBefore DEF Good
<1>9. Numbered(q) BY <1>6, NumberedKept DEF Good
<1> QED BY <1>1, <1>7, <1>8, <1>9 DEF Good, q

\* Only the latest version becomes final, nothing is pending then, and it is a
\* revision: the stage is revised, so there are two versions at least.
LEMMA ApproveFinalGood ==
  ASSUME NEW p, Good(p), NEW a \in Lawyers, CanApproveFinal(p, a)
  PROVE  Good(ApproveFinal(p, a))
<1> DEFINE q == ApproveFinal(p, a)
           n == Len(p.versions)
           last == [p.versions[n] EXCEPT !.final = TRUE, !.approvedBy = a]
<1>1. p \in ProjectState /\ q \in ProjectState /\ p.versions # << >>
  BY ApproveFinalType DEF Good, CanApproveFinal
<1>2. p.status = "revised"
  BY RankOf DEF CanApproveFinal, CanAdvance, AtLeast, Edges
<1>3. q.status = "final_approved"
  BY <1>1, <1>2, RankOf DEF ApproveFinal, ProjectState, AtLeast, Advance
<1>4. /\ q.docs = p.docs /\ q.locked = p.locked /\ q.ctype = p.ctype
      /\ q.playbook = p.playbook /\ q.memo = p.memo /\ q.plan = p.plan
      /\ q.iterations = p.iterations /\ q.decision = p.decision
      /\ q.versions = [p.versions EXCEPT ![n] = last]
  BY <1>1 DEF ApproveFinal, ProjectState
<1>5. p.versions \in Seq(Version) /\ n \in 1..n /\ p.versions[n] \in Version
  BY <1>1 DEF ProjectState
<1>6. last \in Version /\ last.final /\ last.approvedBy = a
  BY <1>5 DEF Version, Approver
<1>7. n > 1 BY <1>2, RankOf DEF Good, Agrees, AtLeast
<1> HIDE DEF q, last
<1>8. /\ Len(q.versions) = n
      /\ \A i \in 1..n : q.versions[i] = IF i = n THEN last ELSE p.versions[i]
  BY <1>4, <1>5, <1>6, ExceptSeq
<1>9. Agrees(q)
  <2>1. Len(q.versions) > 0 /\ Len(q.versions) > 1 BY <1>5, <1>7, <1>8
  <2> QED BY <1>1, <1>2, <1>3, <1>4, <2>1, RankOf DEF Good, Agrees, AtLeast
<1>10. Settled(q)
  <2>1. Finals(p) = {} BY <1>1, <1>2, NotYetFinal, RankOf DEF Good, AtLeast
  <2>2. Finals(q) = {n} BY <1>5, <1>6, <1>8, <2>1 DEF Finals
  <2>3. q.versions[n].approvedBy = a BY <1>5, <1>6, <1>8
  <2>4. Pending(q) = {} BY <1>4 DEF CanApproveFinal, Pending
  <2>5. AtLeast(q.status, "final_approved") BY <1>3, RankOf DEF AtLeast
  <2> QED BY <1>7, <2>2, <2>3, <2>4, <2>5 DEF Settled
<1>11. Numbered(q) BY <1>4, NumberedKept DEF Good
<1> QED BY <1>1, <1>9, <1>10, <1>11 DEF Good, q

LEMMA CreateExportGood ==
  ASSUME NEW p, Good(p), NEW type \in ExportTypes, NEW marked \in BOOLEAN,
         CanCreateExport(p, type, marked)
  PROVE  Good(CreateExport(p, type, marked))
<1> DEFINE q == CreateExport(p, type, marked)
<1>1. p \in ProjectState BY DEF Good
<1>2. Finals(p) # {} BY DEF CanCreateExport, Finals
<1>3. FirstFinal(p) \in Finals(p) BY <1>1, <1>2, FirstFinalIsFinal DEF Good, Settled
<1>4. q \in ProjectState BY <1>1, <1>3, CreateExportType
<1>5. p.status \in {"final_approved", "exported"}
  BY <1>1, FinalStages DEF CanCreateExport, ProjectState
<1>6. q.status = "exported"
  BY <1>1, <1>5, RankOf DEF CreateExport, ProjectState, AtLeast, Advance
<1>7. /\ q.docs = p.docs /\ q.locked = p.locked /\ q.ctype = p.ctype
      /\ q.playbook = p.playbook /\ q.memo = p.memo /\ q.plan = p.plan
      /\ q.iterations = p.iterations /\ q.decision = p.decision
      /\ q.versions = p.versions
  BY <1>1 DEF CreateExport, ProjectState
<1> HIDE DEF q
<1>8. Agrees(q) BY <1>1, <1>4, <1>5, <1>6, <1>7, RankOf DEF Good, Agrees, AtLeast
<1>9. Settled(q)
  <2>1. AtLeast(q.status, "final_approved") <=> AtLeast(p.status, "final_approved")
    BY <1>5, <1>6, RankOf DEF AtLeast
  <2>2. Pending(q) = Pending(p) BY <1>7 DEF Pending
  <2> QED BY <1>1, <1>4, <1>7, <2>1, <2>2, SettledKept DEF Good
<1>10. Numbered(q) BY <1>7, NumberedKept DEF Good
<1> QED BY <1>4, <1>8, <1>9, <1>10 DEF Good, q

-----------------------------------------------------------------------------
(* The drafting loop *)

\* What an operation leaves that touches nothing but iterations and runs.
LEMMA LoopKept ==
  ASSUME NEW p, NEW q \in ProjectState, Good(p),
         q.status = p.status, q.docs = p.docs, q.locked = p.locked,
         q.ctype = p.ctype, q.playbook = p.playbook, q.memo = p.memo,
         q.plan = p.plan, q.versions = p.versions, q.decision = p.decision,
         Numbered(q)
  PROVE  Good(q)
<1>1. p \in ProjectState BY DEF Good
<1>2. Agrees(q) BY <1>1, AgreesKept DEF Good
<1>3. Pending(q) \subseteq Pending(p) BY DEF Pending
<1>4. Settled(q) BY <1>1, <1>3, SettledKept DEF Good
<1> QED BY <1>2, <1>4 DEF Good

LEMMA CreateDraftIterationGood ==
  ASSUME NEW p, Good(p)
  PROVE  Good(CreateDraftIteration(p))
<1> DEFINE q == CreateDraftIteration(p)
           n == Len(p.iterations)
           it == [number |-> NextIterationNumber(p),
                  base |-> IF p.versions = << >> THEN None ELSE Latest(p).id,
                  reviewed |-> {},
                  state |-> IF p.versions = << >> THEN "planned" ELSE "drafted",
                  reviewerRuns |-> 0]
<1>1. p \in ProjectState /\ p.iterations \in Seq(Iteration) /\ n \in Nat
  BY DEF Good, ProjectState
<1>2. NextIterationNumber(p) = n + 1 BY <1>1, NextNumber DEF Good, Numbered
<1>3. q \in ProjectState BY <1>1, <1>2, CreateDraftIterationType
<1>4. q.iterations = Append(p.iterations, it)
  BY <1>1 DEF CreateDraftIteration, ProjectState
<1>5. /\ q.status = p.status /\ q.docs = p.docs /\ q.locked = p.locked
      /\ q.ctype = p.ctype /\ q.playbook = p.playbook /\ q.memo = p.memo
      /\ q.plan = p.plan /\ q.versions = p.versions /\ q.decision = p.decision
  BY <1>1 DEF CreateDraftIteration, ProjectState
<1>6. it.number = n + 1 BY <1>2
<1> HIDE DEF q, it
<1>7. Numbered(q)
  <2>1. Len(q.iterations) = n + 1 BY <1>1, <1>4
  <2>2. \A i \in 1..n : q.iterations[i] = p.iterations[i] BY <1>1, <1>4
  <2>3. q.iterations[n + 1] = it BY <1>1, <1>4
  <2>4. \A i \in 1..n : q.iterations[i].number = i BY <2>2 DEF Good, Numbered
  <2> QED BY <1>1, <1>6, <2>1, <2>3, <2>4 DEF Numbered
<1> QED BY <1>3, <1>5, <1>7, LoopKept DEF q

\* Replacing an iteration by one of the same number.
LEMMA NumberedReplace ==
  ASSUME NEW p \in ProjectState, NEW q, Numbered(p),
         NEW i \in 1..Len(p.iterations), NEW it \in Iteration,
         it.number = p.iterations[i].number,
         q.iterations = [p.iterations EXCEPT ![i] = it]
  PROVE  Numbered(q)
<1>1. p.iterations \in Seq(Iteration) BY DEF ProjectState
<1>2. /\ Len(q.iterations) = Len(p.iterations)
      /\ \A j \in 1..Len(p.iterations) :
           q.iterations[j] = IF j = i THEN it ELSE p.iterations[j]
  BY <1>1, ExceptSeq
<1> QED BY <1>2 DEF Numbered

LEMMA SynthesizeReviewsGood ==
  ASSUME NEW p, Good(p), NEW i \in 1..Len(p.iterations)
  PROVE  Good(SynthesizeReviews(p, i))
<1> DEFINE q == SynthesizeReviews(p, i)
           it == [p.iterations[i] EXCEPT !.reviewed = Pending(p), !.state = "synthesized",
                                         !.reviewerRuns = @ + ReviewerRuns(p)]
<1>1. p \in ProjectState /\ q \in ProjectState BY SynthesizeReviewsType DEF Good
<1>2. q.iterations = [p.iterations EXCEPT ![i] = it]
  BY <1>1 DEF SynthesizeReviews, ProjectState
<1>3. p.iterations[i] \in Iteration BY <1>1 DEF ProjectState
<1>4. /\ q.status = p.status /\ q.docs = p.docs /\ q.locked = p.locked
      /\ q.ctype = p.ctype /\ q.playbook = p.playbook /\ q.memo = p.memo
      /\ q.plan = p.plan /\ q.versions = p.versions /\ q.decision = p.decision
  BY <1>1 DEF SynthesizeReviews, ProjectState
<1>5. it.number = p.iterations[i].number BY <1>3 DEF Iteration
<1>6. it \in Iteration
  <2>1. q.iterations \in Seq(Iteration) BY <1>1 DEF ProjectState
  <2>2. p.iterations \in Seq(Iteration) BY <1>1 DEF ProjectState
  <2> HIDE DEF q, it
  <2>3. Len(q.iterations) = Len(p.iterations) /\ q.iterations[i] = it
    BY <1>2, <2>1, <2>2
  <2> QED BY <2>1, <2>3
<1> HIDE DEF q, it
<1>7. Numbered(q) BY <1>1, <1>2, <1>5, <1>6, NumberedReplace DEF Good
<1> QED BY <1>1, <1>4, <1>7, LoopKept DEF q

LEMMA StopDraftLoopGood ==
  ASSUME NEW p, Good(p), NEW i \in 1..Len(p.iterations)
  PROVE  Good(StopDraftLoop(p, i))
<1> DEFINE q == StopDraftLoop(p, i)
           it == [p.iterations[i] EXCEPT !.state = "stopped"]
<1>1. p \in ProjectState /\ q \in ProjectState BY StopDraftLoopType DEF Good
<1>2. p.iterations[i] \in Iteration BY <1>1 DEF ProjectState
<1>3. q.iterations = [p.iterations EXCEPT ![i] = it]
  BY <1>1 DEF StopDraftLoop, ProjectState
<1>4. /\ q.status = p.status /\ q.docs = p.docs /\ q.locked = p.locked
      /\ q.ctype = p.ctype /\ q.playbook = p.playbook /\ q.memo = p.memo
      /\ q.plan = p.plan /\ q.versions = p.versions /\ q.decision = p.decision
  BY <1>1 DEF StopDraftLoop, ProjectState
<1>5. it \in Iteration /\ it.number = p.iterations[i].number BY <1>2 DEF Iteration
<1> HIDE DEF q, it
<1>6. Numbered(q) BY <1>1, <1>3, <1>5, NumberedReplace DEF Good
<1> QED BY <1>1, <1>4, <1>6, LoopKept DEF q

-----------------------------------------------------------------------------
(* The decision history *)

LEMMA SameExtends ==
  ASSUME NEW S, NEW s \in Seq(S)
  PROVE  Extends(s, s)
BY DEF Extends

LEMMA AppendExtends ==
  ASSUME NEW S, NEW s \in Seq(S), NEW x \in S
  PROVE  /\ Extends(Append(s, x), s) /\ Len(Append(s, x)) = Len(s) + 1
         /\ \A i \in 1..Len(s) : Append(s, x)[i] = s[i]
BY DEF Extends

LEMMA ConcatExtends ==
  ASSUME NEW S, NEW s \in Seq(S), NEW t \in Seq(S)
  PROVE  Extends(s \o t, s)
BY DEF Extends

\* The entries of a batch accept.
LEMMA EntriesType ==
  ASSUME NEW S \in SUBSET Cards, NEW order \in Orders(S), NEW a \in Lawyers
  PROVE  [i \in DOMAIN order |-> [issue |-> order[i], previous |-> "pending",
                                  new |-> "accepted", actor |-> a]] \in Seq(Entry)
<1> DEFINE entries == [i \in DOMAIN order |->
                         [issue |-> order[i], previous |-> "pending",
                          new |-> "accepted", actor |-> a]]
<1>1. \A i \in DOMAIN order : entries[i] \in Entry
  BY OrderType DEF Entry, Decisions, Outcomes
<1>2. entries \in [1..Cardinality(S) -> Entry] BY <1>1, OrderType
<1> QED BY <1>2, OrderType

\* An operation that writes no entry may raise cards, and decides none.
LEMMA ExplainedKept ==
  ASSUME NEW p, NEW q, Explained(p), q.history = p.history,
         \A c \in Cards :
           \/ q.decision[c] = p.decision[c]
           \/ /\ p.decision[c] \notin Outcomes
              /\ q.decision[c] \notin Outcomes
  PROVE  Explained(q)
BY DEF Explained, LastEntry

\* A card is decided exactly when the history has an entry for it.
LEMMA DecidedHasEntry ==
  ASSUME NEW p, Explained(p), NEW c \in Cards
  PROVE  p.decision[c] \in Outcomes <=>
           \E i \in 1..Len(p.history) : p.history[i].issue = c
BY DEF Explained, LastEntry

\* Entries that extend the history, each of another card, and each starting from
\* the decision its card had: a decision is one such entry, a batch accept many.
LEMMA EntriesAdded ==
  ASSUME NEW p, NEW q, Good(p), Explained(p), NEW n \in Nat,
         Len(q.history) = Len(p.history) + n,
         \A i \in 1..Len(p.history) : q.history[i] = p.history[i],
         \A i \in 1..n :
           /\ q.history[Len(p.history) + i].issue \in Cards
           /\ q.history[Len(p.history) + i].previous
                = p.decision[q.history[Len(p.history) + i].issue]
           /\ q.history[Len(p.history) + i].previous # "absent"
           /\ q.history[Len(p.history) + i].new
                = q.decision[q.history[Len(p.history) + i].issue]
           /\ q.history[Len(p.history) + i].new \in Outcomes
           /\ \A j \in 1..n :
                q.history[Len(p.history) + j].issue = q.history[Len(p.history) + i].issue
                  => j = i,
         \A c \in Cards :
           (\A i \in 1..n : q.history[Len(p.history) + i].issue # c)
             => q.decision[c] = p.decision[c]
  PROVE  Explained(q)
<1> DEFINE h == p.history
           g == q.history
           m == Len(p.history)
<1>1. /\ m \in Nat /\ Len(g) = m + n /\ p \in ProjectState
      /\ p.decision \in [Cards -> Decisions]
      /\ \A i \in 1..m : g[i] = h[i] /\ h[i].issue \in Cards
  <2>1. /\ h \in Seq(Entry) /\ p \in ProjectState
        /\ p.decision \in [Cards -> Decisions]
    BY DEF Good, ProjectState
  <2>2. m \in Nat /\ \A i \in 1..m : h[i] \in Entry BY <2>1
  <2>3. \A i \in 1..m : h[i].issue \in Cards BY <2>2 DEF Entry
  <2>4. Len(g) = m + n /\ \A i \in 1..m : g[i] = h[i] OBVIOUS
  <2> QED BY <2>1, <2>2, <2>3, <2>4
<1>2. ASSUME NEW c \in Cards
      PROVE  IF q.decision[c] \in Outcomes
             THEN \E i \in 1..Len(g) : LastEntry(g, i, Len(g), c) /\ g[i].new = q.decision[c]
             ELSE \A i \in 1..Len(g) : g[i].issue # c
  <2>1. CASE \E i \in 1..n : g[m + i].issue = c
    <3>1. PICK i \in 1..n : g[m + i].issue = c BY <2>1
    <3>2. g[m + i].new = q.decision[c] /\ q.decision[c] \in Outcomes BY <3>1
    <3>3. \A j \in (m + i + 1)..(m + n) : g[j].issue # c
      <4> SUFFICES ASSUME NEW j \in (m + i + 1)..(m + n), g[j].issue = c PROVE FALSE
        OBVIOUS
      <4>1. j - m \in 1..n /\ m + (j - m) = j /\ j - m # i BY <1>1
      <4> QED BY <3>1, <4>1
    <3>4. m + i \in 1..(m + n) BY <1>1
    <3> QED BY <1>1, <3>1, <3>2, <3>3, <3>4 DEF LastEntry
  <2>2. CASE \A i \in 1..n : g[m + i].issue # c
    <3>1. q.decision[c] = p.decision[c] BY <2>2
    <3>2. \A j \in (m + 1)..(m + n) : g[j].issue # c
      <4> SUFFICES ASSUME NEW j \in (m + 1)..(m + n) PROVE g[j].issue # c OBVIOUS
      <4>1. j - m \in 1..n /\ m + (j - m) = j BY <1>1
      <4> QED BY <2>2, <4>1
    <3>3. \A j \in 1..(m + n) : j \in 1..m \/ j \in (m + 1)..(m + n) BY <1>1
    <3>4. CASE p.decision[c] \in Outcomes
      <4>1. PICK i \in 1..m : LastEntry(h, i, m, c) /\ h[i].new = p.decision[c]
        BY <3>4 DEF Explained
      <4>2. \A j \in (i + 1)..(m + n) : g[j].issue # c
        <5> SUFFICES ASSUME NEW j \in (i + 1)..(m + n) PROVE g[j].issue # c OBVIOUS
        <5>1. j \in (i + 1)..m \/ j \in (m + 1)..(m + n) BY <1>1
        <5>2. CASE j \in (i + 1)..m
          <6>1. j \in 1..m BY <1>1, <5>2
          <6> QED BY <1>1, <4>1, <5>2, <6>1 DEF LastEntry
        <5> QED BY <3>2, <5>1, <5>2
      <4>3. i \in 1..(m + n) BY <1>1
      <4> QED BY <1>1, <3>1, <3>4, <4>1, <4>2, <4>3 DEF LastEntry
    <3>5. CASE p.decision[c] \notin Outcomes
      <4>1. \A i \in 1..m : h[i].issue # c BY <3>5 DEF Explained
      <4> QED BY <1>1, <3>1, <3>2, <3>3, <3>5, <4>1
    <3> QED BY <3>4, <3>5
  <2> QED BY <2>1, <2>2
<1>3. ASSUME NEW i \in 1..Len(g)
      PROVE  IF \E j \in 1..(i - 1) : g[j].issue = g[i].issue
             THEN \A j \in 1..(i - 1) :
                    LastEntry(g, j, i - 1, g[i].issue) => g[i].previous = g[j].new
             ELSE g[i].previous = "pending"
  <2>1. CASE i \in 1..m
    <3>1. \A j \in 1..(i - 1) : j \in 1..m /\ g[j] = h[j] BY <1>1, <2>1
    <3>2. g[i] = h[i] BY <1>1, <2>1
    <3>3. \A j \in 1..(i - 1) : \A c \in Cards :
            LastEntry(g, j, i - 1, c) <=> LastEntry(h, j, i - 1, c)
      <4> SUFFICES ASSUME NEW j \in 1..(i - 1), NEW c \in Cards
                   PROVE  LastEntry(g, j, i - 1, c) <=> LastEntry(h, j, i - 1, c)
        OBVIOUS
      <4>1. \A k \in (j + 1)..(i - 1) : k \in 1..(i - 1) BY <1>1
      <4> QED BY <3>1, <4>1 DEF LastEntry
    <3>4. h[i].issue \in Cards BY <1>1, <2>1
    <3>5. IF \E j \in 1..(i - 1) : h[j].issue = h[i].issue
          THEN \A j \in 1..(i - 1) :
                 LastEntry(h, j, i - 1, h[i].issue) => h[i].previous = h[j].new
          ELSE h[i].previous = "pending"
      BY <2>1 DEF Explained
    <3> HIDE DEF g, h
    <3> QED BY <3>1, <3>2, <3>3, <3>4, <3>5
  <2>2. CASE i \in (m + 1)..(m + n)
    <3> DEFINE k == i - m
               c == g[i].issue
    <3>1. k \in 1..n /\ m + k = i BY <1>1, <2>2
    <3>2. /\ c \in Cards /\ g[i].previous = p.decision[c] /\ g[i].previous # "absent"
          /\ \A j \in 1..n : g[m + j].issue = c => j = k
      BY <3>1
    <3>3. \A j \in (m + 1)..(i - 1) : g[j].issue # c
      <4> SUFFICES ASSUME NEW j \in (m + 1)..(i - 1), g[j].issue = c PROVE FALSE OBVIOUS
      <4>1. j - m \in 1..n /\ m + (j - m) = j /\ j - m # k BY <1>1, <3>1
      <4> QED BY <3>2, <4>1
    <3> HIDE DEF k, c
    <3>4. \A j \in 1..(i - 1) : j \in 1..m \/ j \in (m + 1)..(i - 1) BY <1>1, <2>2
    <3>5. CASE p.decision[c] \in Outcomes
      <4>1. PICK l \in 1..m : LastEntry(h, l, m, c) /\ h[l].new = p.decision[c]
        BY <3>2, <3>5 DEF Explained
      <4>2. l \in 1..(i - 1) /\ g[l].issue = c BY <1>1, <2>2, <4>1 DEF LastEntry
      <4>3. ASSUME NEW j \in 1..(i - 1), LastEntry(g, j, i - 1, c)
            PROVE  g[i].previous = g[j].new
        <5>1. g[j].issue = c /\ j \in 1..m BY <3>3, <3>4, <4>3 DEF LastEntry
        <5>2. ~(j < l)
          <6> SUFFICES ASSUME j < l PROVE FALSE OBVIOUS
          <6>1. l \in (j + 1)..(i - 1) BY <4>2
          <6> QED BY <4>2, <4>3, <6>1 DEF LastEntry
        <5>3. ~(l < j)
          <6> SUFFICES ASSUME l < j PROVE FALSE OBVIOUS
          <6>1. j \in (l + 1)..m /\ h[j].issue = c BY <1>1, <5>1
          <6> QED BY <4>1, <6>1 DEF LastEntry
        <5>4. j = l BY <1>1, <5>1, <5>2, <5>3
        <5> QED BY <1>1, <3>2, <4>1, <5>4
      <4> QED BY <4>2, <4>3 DEF c
    <3>6. CASE p.decision[c] \notin Outcomes
      <4>1. \A j \in 1..m : h[j].issue # c BY <3>2, <3>6 DEF Explained
      <4>2. \A j \in 1..(i - 1) : g[j].issue # c BY <1>1, <3>3, <3>4, <4>1
      <4>3. p.decision[c] = "pending" BY <1>1, <3>2, <3>6 DEF Decisions
      <4> QED BY <3>2, <4>2, <4>3 DEF c
    <3> QED BY <3>5, <3>6
  <2> QED BY <1>1, <2>1, <2>2
<1> QED BY <1>2, <1>3 DEF Explained

LEMMA EntriesExplain ==
  ASSUME NEW p, NEW q, Good(p), Explained(p), NEW t \in Seq(Entry),
         q.history = p.history \o t,
         \A i \in 1..Len(t) : /\ t[i].previous = p.decision[t[i].issue]
                              /\ t[i].previous # "absent"
                              /\ t[i].new = q.decision[t[i].issue]
                              /\ t[i].new \in Outcomes,
         \A i \in 1..Len(t) : \A j \in 1..Len(t) : t[j].issue = t[i].issue => j = i,
         \A c \in Cards :
           (\A i \in 1..Len(t) : t[i].issue # c) => q.decision[c] = p.decision[c]
  PROVE  Explained(q)
<1> DEFINE m == Len(p.history)
           n == Len(t)
<1>1. p.history \in Seq(Entry) BY DEF Good, ProjectState
<1>2. m \in Nat /\ n \in Nat /\ Len(q.history) = m + n BY <1>1
<1>3. \A i \in 1..m : q.history[i] = p.history[i] BY <1>1
<1>4. ASSUME NEW i \in 1..n PROVE q.history[m + i] = t[i] BY <1>1
<1>5. ASSUME NEW i \in 1..n PROVE t[i].issue \in Cards
  <2>1. t[i] \in Entry OBVIOUS
  <2> QED BY <2>1 DEF Entry
<1>6. ASSUME NEW i \in 1..n
      PROVE  /\ t[i].previous = p.decision[t[i].issue]
             /\ t[i].previous # "absent"
             /\ t[i].new = q.decision[t[i].issue]
             /\ t[i].new \in Outcomes
  OBVIOUS
<1>7. ASSUME NEW i \in 1..n, NEW j \in 1..n, t[j].issue = t[i].issue PROVE j = i
  BY <1>7
<1>8. ASSUME NEW c \in Cards, \A i \in 1..n : t[i].issue # c
      PROVE  q.decision[c] = p.decision[c]
  BY <1>8
<1>9. Good(p) /\ Explained(p) OBVIOUS
<1> SUFFICES ASSUME Good(p), Explained(p), n \in Nat PROVE Explained(q) BY <1>2, <1>9
<1> HIDE DEF n
<1>10. ASSUME NEW i \in 1..n
       PROVE  /\ q.history[m + i].issue \in Cards
              /\ q.history[m + i].previous = p.decision[q.history[m + i].issue]
              /\ q.history[m + i].previous # "absent"
              /\ q.history[m + i].new = q.decision[q.history[m + i].issue]
              /\ q.history[m + i].new \in Outcomes
              /\ \A j \in 1..n : q.history[m + j].issue = q.history[m + i].issue => j = i
  <2> DEFINE x == q.history[m + i]
  <2>1. x = t[i] BY <1>4
  <2>2. ASSUME NEW j \in 1..n, q.history[m + j].issue = x.issue PROVE j = i
    <3> DEFINE y == q.history[m + j]
    <3>1. y = t[j] /\ y.issue = x.issue BY <1>4, <2>2
    <3> HIDE DEF x, y
    <3>2. t[j].issue = t[i].issue BY <2>1, <3>1
    <3> QED BY <3>2, <1>7
  <2>3. \A j \in 1..n : q.history[m + j].issue = x.issue => j = i BY <2>2
  <2> HIDE DEF x
  <2>4. /\ x.issue \in Cards /\ x.previous = p.decision[x.issue]
        /\ x.previous # "absent" /\ x.new = q.decision[x.issue] /\ x.new \in Outcomes
    BY <1>5, <1>6, <2>1
  <2> QED BY <2>3, <2>4 DEF x
<1>11. ASSUME NEW c \in Cards, \A i \in 1..n : q.history[m + i].issue # c
       PROVE  q.decision[c] = p.decision[c]
  <2>1. ASSUME NEW i \in 1..n PROVE t[i].issue # c
    <3>1. q.history[m + i].issue # c BY <1>11
    <3>2. q.history[m + i] = t[i] BY <1>4
    <3> QED BY <3>1, <3>2
  <2> QED BY <1>8, <2>1
<1>12. \A i \in 1..n :
         /\ q.history[m + i].issue \in Cards
         /\ q.history[m + i].previous = p.decision[q.history[m + i].issue]
         /\ q.history[m + i].previous # "absent"
         /\ q.history[m + i].new = q.decision[q.history[m + i].issue]
         /\ q.history[m + i].new \in Outcomes
         /\ \A j \in 1..n : q.history[m + j].issue = q.history[m + i].issue => j = i
  BY <1>10
<1>13. \A c \in Cards :
         (\A i \in 1..n : q.history[m + i].issue # c) => q.decision[c] = p.decision[c]
  BY <1>11
<1>14. n \in Nat /\ Len(q.history) = m + n /\ Good(p) /\ Explained(p)
  BY <1>2
<1> QED BY ONLY <1>3, <1>12, <1>13, <1>14, EntriesAdded

LEMMA DecideIssueExplained ==
  ASSUME NEW p, Good(p), Explained(p), NEW c \in Cards, NEW d \in Outcomes,
         NEW a \in Lawyers, p.decision[c] # "absent"
  PROVE  Explained(DecideIssue(p, c, d, a))
<1> DEFINE q == DecideIssue(p, c, d, a)
           entry == [issue |-> c, previous |-> p.decision[c], new |-> d, actor |-> a]
           entries == <<entry>>
<1>1. /\ p \in ProjectState /\ p.history \in Seq(Entry)
      /\ p.decision \in [Cards -> Decisions]
  BY DEF Good, ProjectState
<1>2. entry \in Entry BY <1>1, ActorsAssumption DEF Entry, Decisions
<1>3. /\ q.history = Append(p.history, entry)
      /\ q.decision = [p.decision EXCEPT ![c] = d]
  BY <1>1 DEF DecideIssue, ProjectState
<1>4. q.decision[c] = d /\ \A x \in Cards : x # c => q.decision[x] = p.decision[x]
  BY <1>1, <1>3
<1>5. entry.issue = c /\ entry.previous = p.decision[c] /\ entry.new = d OBVIOUS
<1> HIDE DEF entry, q
<1>6. q.history = p.history \o entries BY <1>1, <1>2, <1>3
<1>7. entries \in Seq(Entry) /\ Len(entries) = 1 /\ entries[1] = entry BY <1>2
<1> HIDE DEF entries
<1>8. \A i \in 1..Len(entries) : i = 1 /\ entries[i] = entry BY <1>7
<1>9. \A x \in Cards : (\A i \in 1..Len(entries) : entries[i].issue # x)
                          => q.decision[x] = p.decision[x]
  BY <1>4, <1>5, <1>7
<1>10. \A i \in 1..Len(entries) :
         /\ entries[i].previous = p.decision[entries[i].issue]
         /\ entries[i].previous # "absent"
         /\ entries[i].new = q.decision[entries[i].issue]
         /\ entries[i].new \in Outcomes
  BY <1>4, <1>5, <1>8
<1>11. \A i \in 1..Len(entries) : \A j \in 1..Len(entries) :
         entries[j].issue = entries[i].issue => j = i
  BY <1>8
<1>12. Explained(q) BY <1>6, <1>7, <1>9, <1>10, <1>11, EntriesExplain
<1> QED BY <1>12 DEF q

\* What a batch accept makes of a project: the entries it adds, and the decisions.
BatchEntries(order, a) ==
  [i \in DOMAIN order |-> [issue |-> order[i], previous |-> "pending",
                           new |-> "accepted", actor |-> a]]

LEMMA BatchAcceptAdds ==
  ASSUME NEW p \in ProjectState, NEW S \in SUBSET Cards, NEW order \in Orders(S),
         NEW a \in Lawyers
  PROVE  /\ BatchEntries(order, a) \in Seq(Entry)
         /\ Len(BatchEntries(order, a)) = Cardinality(S) /\ Cardinality(S) \in Nat
         /\ DOMAIN order = 1..Cardinality(S)
         /\ \A i \in 1..Cardinality(S) : order[i] \in S
         /\ \A i \in 1..Cardinality(S) :
              /\ BatchEntries(order, a)[i].issue = order[i]
              /\ BatchEntries(order, a)[i].previous = "pending"
              /\ BatchEntries(order, a)[i].new = "accepted"
         /\ BatchAccept(p, order, a).history = p.history \o BatchEntries(order, a)
         /\ \A i \in 1..Cardinality(S) :
              BatchAccept(p, order, a).decision[order[i]] = "accepted"
         /\ \A c \in Cards :
              (\A i \in 1..Cardinality(S) : order[i] # c)
                => BatchAccept(p, order, a).decision[c] = p.decision[c]
<1> DEFINE n == Cardinality(S)
           decision == [c \in Cards |-> IF \E i \in DOMAIN order : order[i] = c
                                        THEN "accepted" ELSE p.decision[c]]
           entries == BatchEntries(order, a)
<1>1. n \in Nat /\ DOMAIN order = 1..n /\ \A i \in 1..n : order[i] \in S
  <2>1. n \in Nat /\ order \in Seq(S) /\ DOMAIN order = 1..n BY OrderType
  <2> QED BY <2>1
<1>2. entries \in Seq(Entry) BY EntriesType DEF BatchEntries
<1>3. DOMAIN entries = 1..n BY <1>1 DEF BatchEntries
<1>4. Len(entries) = n BY <1>1, <1>2, <1>3
<1>5. \A i \in 1..n : /\ entries[i].issue = order[i]
                      /\ entries[i].previous = "pending" /\ entries[i].new = "accepted"
  BY <1>1 DEF BatchEntries
<1>6. BatchAccept(p, order, a) = [p EXCEPT !.decision = decision, !.history = p.history \o entries]
  BY DEF BatchAccept, BatchEntries
<1>7. /\ \A i \in 1..n : decision[order[i]] = "accepted"
      /\ \A c \in Cards : (\A i \in 1..n : order[i] # c) => decision[c] = p.decision[c]
  BY <1>1
<1> HIDE DEF entries, decision
<1>8. /\ BatchAccept(p, order, a).decision = decision
      /\ BatchAccept(p, order, a).history = p.history \o entries
  BY <1>6 DEF ProjectState
<1> HIDE DEF n
<1>9. /\ entries \in Seq(Entry) /\ Len(entries) = n /\ n \in Nat
      /\ DOMAIN order = 1..n /\ \A i \in 1..n : order[i] \in S
  BY <1>1, <1>2, <1>4
<1>10. /\ \A i \in 1..n : BatchAccept(p, order, a).decision[order[i]] = "accepted"
       /\ \A c \in Cards : (\A i \in 1..n : order[i] # c)
                             => BatchAccept(p, order, a).decision[c] = p.decision[c]
  BY <1>7, <1>8
<1> QED BY <1>5, <1>8, <1>9, <1>10 DEF entries, n

LEMMA BatchAcceptExplained ==
  ASSUME NEW p, Good(p), Explained(p), NEW S \in SUBSET Pending(p), NEW order \in Orders(S),
         NEW a \in Lawyers
  PROVE  Explained(BatchAccept(p, order, a))
<1> DEFINE q == BatchAccept(p, order, a)
           entries == BatchEntries(order, a)
           n == Cardinality(S)
<1>1. p \in ProjectState /\ S \in SUBSET Cards BY DEF Good, Pending
<1>2. /\ entries \in Seq(Entry) /\ Len(entries) = n /\ DOMAIN order = 1..n
      /\ \A i \in 1..n : order[i] \in S
      /\ \A i \in 1..n : /\ entries[i].issue = order[i]
                          /\ entries[i].previous = "pending" /\ entries[i].new = "accepted"
      /\ q.history = p.history \o entries
      /\ \A i \in 1..n : q.decision[order[i]] = "accepted"
      /\ \A c \in Cards : (\A i \in 1..n : order[i] # c) => q.decision[c] = p.decision[c]
  BY <1>1, BatchAcceptAdds
<1>3. \A i \in 1..n : \A j \in 1..n : order[i] = order[j] => i = j BY <1>2 DEF Orders
<1>4. \A i \in 1..n : order[i] \in Cards /\ p.decision[order[i]] = "pending"
  BY <1>2 DEF Pending
<1> HIDE DEF q, n, entries
<1>5. \A i \in 1..Len(entries) :
        /\ entries[i].previous = p.decision[entries[i].issue]
        /\ entries[i].previous # "absent"
        /\ entries[i].new = q.decision[entries[i].issue]
        /\ entries[i].new \in Outcomes
  BY <1>2, <1>4 DEF Outcomes
<1>6. \A i \in 1..Len(entries) : \A j \in 1..Len(entries) :
        entries[j].issue = entries[i].issue => j = i
  BY <1>2, <1>3
<1>7. \A c \in Cards :
        (\A i \in 1..Len(entries) : entries[i].issue # c) => q.decision[c] = p.decision[c]
  BY <1>2
<1>8. entries \in Seq(Entry) /\ q.history = p.history \o entries BY <1>2
<1>9. Explained(q) BY <1>5, <1>6, <1>7, <1>8, EntriesExplain
<1> QED BY <1>9 DEF q

\* New cards are pending: nothing is decided by raising them.
LEMMA RaiseExplained ==
  ASSUME NEW p, NEW q, Explained(p), q.history = p.history,
         NEW S \in SUBSET {c \in Cards : p.decision[c] = "absent"},
         \A c \in Cards : q.decision[c] = IF c \in S THEN "pending" ELSE p.decision[c]
  PROVE  Explained(q)
<1>1. "absent" \notin Outcomes /\ "pending" \notin Outcomes BY DEF Outcomes
<1>2. \A c \in S : p.decision[c] = "absent" OBVIOUS
<1> QED BY <1>1, <1>2, ExplainedKept

-----------------------------------------------------------------------------
(* The versions that carry a card *)

\* An operation that neither makes a version nor applies a card.
LEMMA AppliedKept ==
  ASSUME NEW p, NEW q, Good(p), Good(q), AppliedTracks(p), Extends(q.history, p.history),
         q.applied = p.applied, Len(q.versions) = Len(p.versions),
         \A i \in 1..Len(p.versions) : /\ q.versions[i].id = p.versions[i].id
                                       /\ q.versions[i].applied = p.versions[i].applied
  PROVE  AppliedTracks(q)
<1>1. /\ Len(p.versions) \in Nat /\ Len(p.history) \in Nat
      /\ Len(q.history) \in Nat
  BY DEF Good, ProjectState
<1>2. \A i \in 1..Len(p.versions) : /\ q.versions[i].id = p.versions[i].id
                                    /\ q.versions[i].applied = p.versions[i].applied
  OBVIOUS
<1>3. \A k \in 1..Len(p.history) :
        k \in 1..Len(q.history) /\ q.history[k] = p.history[k]
  BY <1>1 DEF Extends
<1>4. ASSUME NEW c \in Cards, q.applied[c] = None, NEW i \in 1..Len(q.versions)
      PROVE  c \notin q.versions[i].applied
  BY <1>2, <1>4 DEF AppliedTracks
<1>5. ASSUME NEW c \in Cards, q.applied[c] # None
      PROVE  /\ \E i \in 1..Len(q.versions) :
                  /\ q.versions[i].id = q.applied[c]
                  /\ c \in q.versions[i].applied
                  /\ \A j \in (i + 1)..Len(q.versions) : c \notin q.versions[j].applied
             /\ \E k \in 1..Len(q.history) :
                  /\ q.history[k].issue = c
                  /\ q.history[k].new \in {"accepted", "partially_accepted"}
  <2>1. PICK i \in 1..Len(p.versions) :
          /\ p.versions[i].id = p.applied[c]
          /\ c \in p.versions[i].applied
          /\ \A j \in (i + 1)..Len(p.versions) : c \notin p.versions[j].applied
    BY <1>5 DEF AppliedTracks
  <2>2. \A j \in (i + 1)..Len(p.versions) : j \in 1..Len(p.versions) BY <1>1
  <2>3. PICK k \in 1..Len(p.history) :
          /\ p.history[k].issue = c
          /\ p.history[k].new \in {"accepted", "partially_accepted"}
    BY <1>5 DEF AppliedTracks
  <2>4. /\ i \in 1..Len(q.versions)
        /\ q.versions[i].id = q.applied[c]
        /\ c \in q.versions[i].applied
    BY <1>2, <2>1
  <2>5. \A j \in (i + 1)..Len(q.versions) : c \notin q.versions[j].applied
    BY <1>2, <2>1, <2>2
  <2>6. /\ k \in 1..Len(q.history)
        /\ q.history[k].issue = c
        /\ q.history[k].new \in {"accepted", "partially_accepted"}
    BY <1>3, <2>3
  <2> QED BY <2>4, <2>5, <2>6
<1> QED BY <1>4, <1>5 DEF AppliedTracks

\* A new version that carries the cards of S, which some entry of the history
\* accepted, becomes the applied version of each of them.
LEMMA AppliedAppend ==
  ASSUME NEW p, NEW q, Good(p), Good(q), AppliedTracks(p), NEW id \in VersionIds,
         NEW S \in SUBSET Cards, q.versions = Append(p.versions, Draft(id, S)),
         q.history = p.history,
         \A c \in Cards : q.applied[c] = IF c \in S THEN id ELSE p.applied[c],
         \A c \in S : \E k \in 1..Len(p.history) :
           /\ p.history[k].issue = c
           /\ p.history[k].new \in {"accepted", "partially_accepted"}
  PROVE  AppliedTracks(q)
<1> DEFINE v == p.versions
           w == q.versions
           n == Len(p.versions)
<1>1. /\ n \in Nat /\ Len(w) = n + 1 /\ w[n + 1] = Draft(id, S)
      /\ \A i \in 1..n : w[i] = v[i]
  <2>1. v \in Seq(Version) /\ Draft(id, S) \in Version
    BY DraftType DEF Good, ProjectState
  <2> QED BY <2>1
<1>2. w[n + 1].id = id /\ w[n + 1].applied = S /\ id # None
  BY <1>1, DataAssumption DEF Draft
<1>3. \A i \in 1..(n + 1) : i \in 1..n \/ i = n + 1 BY <1>1
<1> HIDE DEF v, w, n
<1>4. ASSUME NEW c \in Cards, q.applied[c] = None, NEW i \in 1..Len(w)
      PROVE  c \notin w[i].applied
  <2>1. c \notin S /\ p.applied[c] = None BY <1>2, <1>4
  <2>2. \A j \in 1..n : c \notin v[j].applied BY <2>1 DEF AppliedTracks, v, n
  <2> QED BY <1>1, <1>2, <1>3, <2>1, <2>2
<1>5. ASSUME NEW c \in Cards, q.applied[c] # None
      PROVE  /\ \E i \in 1..Len(w) :
                  /\ w[i].id = q.applied[c]
                  /\ c \in w[i].applied
                  /\ \A j \in (i + 1)..Len(w) : c \notin w[j].applied
             /\ \E k \in 1..Len(q.history) :
                  /\ q.history[k].issue = c
                  /\ q.history[k].new \in {"accepted", "partially_accepted"}
  <2>1. CASE c \in S
    <3>1. n + 1 \in 1..Len(w) /\ \A j \in ((n + 1) + 1)..Len(w) : FALSE BY <1>1
    <3>2. q.applied[c] = id BY <2>1
    <3> QED BY <1>2, <2>1, <3>1, <3>2
  <2>2. CASE c \notin S
    <3>1. q.applied[c] = p.applied[c] BY <2>2
    <3>2. PICK i \in 1..n : /\ v[i].id = p.applied[c]
                            /\ c \in v[i].applied
                            /\ \A j \in (i + 1)..n : c \notin v[j].applied
      BY <1>5, <3>1 DEF AppliedTracks, v, n
    <3>3. \A j \in (i + 1)..(n + 1) : (j \in (i + 1)..n /\ j \in 1..n) \/ j = n + 1
      BY <1>1, <3>2
    <3>4. \A j \in (i + 1)..(n + 1) : c \notin w[j].applied
      BY <1>1, <1>2, <2>2, <3>2, <3>3
    <3>5. i \in 1..(n + 1) BY <1>1, <3>2
    <3>6. \E k \in 1..Len(p.history) :
            /\ p.history[k].issue = c
            /\ p.history[k].new \in {"accepted", "partially_accepted"}
      BY <1>5, <3>1 DEF AppliedTracks
    <3> QED BY <1>1, <3>1, <3>2, <3>4, <3>5, <3>6
  <2> QED BY <2>1, <2>2
<1> QED BY <1>4, <1>5 DEF AppliedTracks, w

-----------------------------------------------------------------------------
(* Sound projects *)

Sound(p) == Good(p) /\ Explained(p) /\ AppliedTracks(p)

\* An operation that decides no card and makes no version.
LEMMA SoundKept ==
  ASSUME NEW p, NEW q, Sound(p), Good(q), q.history = p.history, q.decision = p.decision,
         q.applied = p.applied, q.versions = p.versions
  PROVE  Sound(q)
<1>1. Explained(q) BY ExplainedKept DEF Sound
<1>2. Extends(q.history, p.history)
  <2>1. p.history \in Seq(Entry) BY DEF Sound, Good, ProjectState
  <2> QED BY <2>1, SameExtends
<1>3. AppliedTracks(q) BY <1>2, AppliedKept DEF Sound
<1> QED BY <1>1, <1>3 DEF Sound

LEMMA EmptyProjectSound == Sound(EmptyProject)
<1>1. EmptyProject \in ProjectState BY EmptyProjectType
<1>2. Agrees(EmptyProject) BY RankOf DEF Agrees, AtLeast, EmptyProject
<1>3. Settled(EmptyProject) BY RankOf DEF Settled, AtLeast, EmptyProject, Finals
<1>4. Numbered(EmptyProject) BY DEF Numbered, EmptyProject
<1>5. Explained(EmptyProject) BY DEF EmptyProject, Explained, Outcomes
<1>6. AppliedTracks(EmptyProject) BY DEF EmptyProject, AppliedTracks
<1> QED BY <1>1, <1>2, <1>3, <1>4, <1>5, <1>6 DEF Sound, Good

LEMMA CreateV0Sound ==
  ASSUME NEW p, Sound(p), NEW id \in VersionIds, CanCreateV0(p)
  PROVE  Sound(CreateV0(p, id))
<1> DEFINE q == CreateV0(p, id)
<1>1. p \in ProjectState /\ Good(q) BY CreateV0Good DEF Sound, Good
<1>2. /\ q.versions = Append(p.versions, Draft(id, {})) /\ q.history = p.history
      /\ q.applied = p.applied /\ q.decision = p.decision
  BY <1>1 DEF CreateV0, ProjectState
<1> HIDE DEF q
<1>3. Explained(q) BY <1>2, ExplainedKept DEF Sound
<1>4. AppliedTracks(q) BY <1>1, <1>2, AppliedAppend DEF Sound
<1> QED BY <1>1, <1>3, <1>4 DEF Sound, q

LEMMA RunReviewsSound ==
  ASSUME NEW p, Sound(p), NEW S \in SUBSET (Cards \ Raised(p)), CanRunReviews(p)
  PROVE  Sound(RunReviews(p, S))
<1> DEFINE q == RunReviews(p, S)
<1>1. p \in ProjectState /\ Good(q) /\ p.history \in Seq(Entry)
  BY RunReviewsGood DEF Sound, Good, ProjectState
<1>2. /\ q.versions = p.versions /\ q.history = p.history /\ q.applied = p.applied
      /\ \A c \in Cards : q.decision[c] = IF c \in S THEN "pending" ELSE p.decision[c]
  BY <1>1 DEF RunReviews, Raise, ProjectState
<1>3. S \in SUBSET {c \in Cards : p.decision[c] = "absent"} BY DEF Raised
<1> HIDE DEF q
<1>4. Explained(q) BY <1>2, <1>3, RaiseExplained DEF Sound
<1>5. AppliedTracks(q) BY <1>1, <1>2, SameExtends, AppliedKept DEF Sound
<1> QED BY <1>1, <1>4, <1>5 DEF Sound, q

LEMMA RunFinalQASound ==
  ASSUME NEW p, Sound(p), NEW S \in SUBSET (Cards \ Raised(p)),
         NEW T \in SUBSET (Cards \ Raised(p)), CanRunFinalQA(p)
  PROVE  Sound(RunFinalQA(p, S, T))
<1> DEFINE det == RunDeterministicQA(p, S)
           q == RunFinalQA(p, S, T)
<1>1. p \in ProjectState /\ Good(q) /\ p.history \in Seq(Entry) /\ det \in ProjectState
  BY RunFinalQAGood, RunDeterministicQAType DEF Sound, Good, ProjectState
<1>2. /\ det.versions = p.versions /\ det.history = p.history /\ det.applied = p.applied
      /\ \A c \in Cards : det.decision[c] = IF c \in S THEN "pending" ELSE p.decision[c]
  BY <1>1 DEF RunDeterministicQA, Raise, ProjectState
<1>3. q = [det EXCEPT !.decision = Raise(det, T), !.runs = RanAgent(det, "final_qa_assistant")]
  BY DEF RunFinalQA
<1> HIDE DEF det
<1>4. /\ q.versions = p.versions /\ q.history = p.history /\ q.applied = p.applied
      /\ \A c \in Cards : q.decision[c] = IF c \in T THEN "pending" ELSE det.decision[c]
  BY <1>1, <1>2, <1>3 DEF Raise, ProjectState
<1>5. \A c \in Cards :
        q.decision[c] = IF c \in S \union T THEN "pending" ELSE p.decision[c]
  BY <1>2, <1>4
<1>6. S \union T \in SUBSET {c \in Cards : p.decision[c] = "absent"} BY DEF Raised
<1> HIDE DEF q
<1>7. Explained(q) BY <1>4, <1>5, <1>6, RaiseExplained DEF Sound
<1>8. AppliedTracks(q) BY <1>1, <1>4, SameExtends, AppliedKept DEF Sound
<1> QED BY <1>1, <1>7, <1>8 DEF Sound, q

LEMMA DecideIssueSound ==
  ASSUME NEW p, Sound(p), NEW c \in Cards, NEW d \in Outcomes, NEW a \in Lawyers,
         p.decision[c] # "absent"
  PROVE  Sound(DecideIssue(p, c, d, a))
<1> DEFINE q == DecideIssue(p, c, d, a)
           entry == [issue |-> c, previous |-> p.decision[c], new |-> d, actor |-> a]
<1>1. p \in ProjectState /\ Good(q) /\ p.history \in Seq(Entry) /\ entry \in Entry
  BY DecideIssueGood DEF Sound, Good, ProjectState, Entry
<1>2. Explained(q) BY DecideIssueExplained DEF Sound
<1>3. /\ q.versions = p.versions /\ q.applied = p.applied
      /\ q.history = Append(p.history, entry)
  BY <1>1 DEF DecideIssue, ProjectState
<1> HIDE DEF q, entry
<1>4. Extends(q.history, p.history) BY <1>1, <1>3, AppendExtends
<1>5. AppliedTracks(q) BY <1>1, <1>3, <1>4, AppliedKept DEF Sound
<1> QED BY <1>1, <1>2, <1>5 DEF Sound, q

LEMMA BatchAcceptSound ==
  ASSUME NEW p, Sound(p), NEW S \in SUBSET Pending(p), NEW order \in Orders(S),
         NEW a \in Lawyers
  PROVE  Sound(BatchAccept(p, order, a))
<1> DEFINE q == BatchAccept(p, order, a)
<1>1. p \in ProjectState /\ S \in SUBSET Cards BY DEF Sound, Good, Pending
<1>2. Good(q) BY <1>1, BatchAcceptGood DEF Sound
<1>3. Explained(q) BY BatchAcceptExplained DEF Sound
<1>4. q.versions = p.versions /\ q.applied = p.applied
  BY <1>1 DEF BatchAccept, ProjectState
<1>5. Extends(q.history, p.history)
  <2>1. /\ p.history \in Seq(Entry) /\ BatchEntries(order, a) \in Seq(Entry)
        /\ q.history = p.history \o BatchEntries(order, a)
    <3>1. p.history \in Seq(Entry) BY <1>1 DEF ProjectState
    <3> QED BY <1>1, <3>1, BatchAcceptAdds
  <2> HIDE DEF q
  <2> QED BY <2>1, ConcatExtends
<1> HIDE DEF q
<1>6. AppliedTracks(q) BY <1>2, <1>4, <1>5, AppliedKept DEF Sound
<1> QED BY <1>2, <1>3, <1>6 DEF Sound, q

LEMMA CreateRevisionSound ==
  ASSUME NEW p, Sound(p), NEW id \in VersionIds, CanCreateRevision(p)
  PROVE  Sound(CreateRevision(p, id))
<1> DEFINE q == CreateRevision(p, id)
           S == Accepted(p)
<1>1. p \in ProjectState /\ Good(q) BY CreateRevisionGood DEF Sound, Good
<1>2. /\ q.versions = Append(p.versions, Draft(id, S)) /\ q.history = p.history
      /\ q.applied = [c \in Cards |-> IF c \in S THEN id ELSE p.applied[c]]
      /\ q.decision = p.decision
  BY <1>1 DEF CreateRevision, ProjectState
<1>3. ASSUME NEW c \in S
      PROVE  \E k \in 1..Len(p.history) :
               /\ p.history[k].issue = c
               /\ p.history[k].new \in {"accepted", "partially_accepted"}
  <2>1. c \in Cards /\ p.decision[c] \in {"accepted", "partially_accepted"} BY DEF Accepted
  <2>2. p.decision[c] \in Outcomes BY <2>1 DEF Outcomes
  <2>3. PICK k \in 1..Len(p.history) :
          LastEntry(p.history, k, Len(p.history), c) /\ p.history[k].new = p.decision[c]
    BY <2>1, <2>2 DEF Sound, Explained
  <2> QED BY <2>1, <2>3 DEF LastEntry
<1>4. S \in SUBSET Cards BY DEF Accepted
<1> HIDE DEF q, S
<1>5. Explained(q) BY <1>2, ExplainedKept DEF Sound
<1>6. AppliedTracks(q) BY <1>1, <1>2, <1>3, <1>4, AppliedAppend DEF Sound
<1> QED BY <1>1, <1>5, <1>6 DEF Sound, q

LEMMA ApproveFinalSound ==
  ASSUME NEW p, Sound(p), NEW a \in Lawyers, CanApproveFinal(p, a)
  PROVE  Sound(ApproveFinal(p, a))
<1> DEFINE q == ApproveFinal(p, a)
           n == Len(p.versions)
           last == [p.versions[n] EXCEPT !.final = TRUE, !.approvedBy = a]
<1>1. /\ p \in ProjectState /\ Good(q) /\ p.history \in Seq(Entry)
      /\ p.versions \in Seq(Version) /\ p.versions # << >>
  BY ApproveFinalGood DEF Sound, Good, ProjectState, CanApproveFinal
<1>2. n \in 1..n /\ p.versions[n] \in Version BY <1>1
<1>3. /\ last \in Version /\ last.id = p.versions[n].id
      /\ last.applied = p.versions[n].applied
  BY <1>2 DEF Version, Approver
<1>4. /\ q.versions = [p.versions EXCEPT ![n] = last] /\ q.history = p.history
      /\ q.applied = p.applied /\ q.decision = p.decision
  BY <1>1 DEF ApproveFinal, ProjectState
<1> HIDE DEF q, last
<1>5. /\ Len(q.versions) = n
      /\ \A i \in 1..n : q.versions[i] = IF i = n THEN last ELSE p.versions[i]
  BY <1>1, <1>2, <1>3, <1>4, ExceptSeq
<1>6. Explained(q) BY <1>4, ExplainedKept DEF Sound
<1>7. AppliedTracks(q) BY <1>1, <1>3, <1>4, <1>5, SameExtends, AppliedKept DEF Sound
<1> QED BY <1>1, <1>6, <1>7 DEF Sound, q
=============================================================================
