SPECIFICATION Spec
CONSTANTS
  Actors = {kim, choi}
  Lawyers = {kim}
  Docs = {d1}
  Texts = {}
  ContractTypes = {"nda"}
  Playbooks = {"nda_playbook"}
  CustomPlaybooks = {}
  PlaybookType <- MCPlaybookType
  Questions = {}
  RequiredQuestions = {}
  QuestionsOf <- MCQuestionsOf
  Answers = {}
  Cards = {c1, c2}
  CriticalCards = {}
  VersionIds = {v0, v1, v2}
  None = None
  MaxHistory = 3
  MaxReviewRuns = 2
  MaxQaRuns = 1
  MaxExports = 1
  MaxIterations = 0
  MaxSyntheses = 0
  MaxBatches = 0
CHECK_DEADLOCK FALSE
INVARIANT RejectedHasNoAppliedVersion
