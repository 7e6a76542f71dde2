SPECIFICATION DiligentSpec
CONSTANTS
  Actors = {kim, choi}
  Lawyers = {kim}
  Docs = {d1, d2}
  Texts = {t1}
  ContractTypes = {"nda", "lease", "custom"}
  Playbooks = {"nda_playbook", "custom_playbook"}
  CustomPlaybooks = {"custom_playbook"}
  PlaybookType <- MCPlaybookType
  Questions = {q1, q2}
  RequiredQuestions = {q1}
  QuestionsOf <- MCQuestionsOf
  Answers = {yes}
  Cards = {c1}
  CriticalCards = {}
  VersionIds = {v0, v1}
  None = None
  MaxHistory = 2
  MaxReviewRuns = 1
  MaxQaRuns = 1
  MaxExports = 1
  MaxIterations = 0
  MaxSyntheses = 0
  MaxBatches = 0
CHECK_DEADLOCK FALSE
INVARIANT TypeOK
INVARIANT StatusAgrees
INVARIANT ApprovalChain
PROPERTY ApprovedInputsFrozen
PROPERTY EveryProjectCanBeDelivered
INVARIANT EnabledControlsWork
INVARIANT EveryStepIsOffered
INVARIANT SuggestionLeadsOn
