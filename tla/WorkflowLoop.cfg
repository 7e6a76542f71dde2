SPECIFICATION Spec
CONSTANTS
  Actors = {kim, choi}
  Lawyers = {kim}
  Docs = {d1}
  Texts = {}
  ContractTypes = {"nda"}
  Playbooks = {"nda_playbook"}
  CustomPlaybooks = {}
  PlaybookType <- MCPlaybookType
  Questions = {}
  RequiredQuestions = {}
  QuestionsOf <- MCQuestionsOf
  Answers = {}
  Cards = {c1, c2, c3}
  CriticalCards = {c3}
  VersionIds = {v0}
  None = None
  MaxHistory = 3
  MaxReviewRuns = 1
  MaxQaRuns = 0
  MaxExports = 0
  MaxIterations = 2
  MaxSyntheses = 1
  MaxBatches = 1
SYMMETRY MCSymmetry
CHECK_DEADLOCK FALSE
INVARIANT LoopIsNumbered
PROPERTY BatchAcceptsOnlyOrdinaryPending
