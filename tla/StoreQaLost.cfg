SPECIFICATION Spec
CONSTANTS
  r1 = r1
  r2 = r2
  r3 = r3
  kim = kim
  lee = lee
  choi = choi
  park = park
  yun = yun
  c1 = c1
  Actors = {kim, lee, park, yun, choi}
  Lawyers = {kim, lee, park, yun}
  Docs = {"d1"}
  Texts = {}
  ContractTypes = {"nda"}
  Playbooks = {"nda_playbook"}
  CustomPlaybooks = {}
  PlaybookType <- MCPlaybookType
  Questions = {}
  RequiredQuestions = {}
  QuestionsOf <- MCQuestionsOf
  Answers = {}
  Cards = {c1, r1, r2}
  CriticalCards = {}
  FirstCards = {c1}
  VersionIds = {v0, v1, r1, r2, r3}
  None = None
  Requests = {r1, r2, r3}
  ActorOf <- MCActorOf
  Operations <- MCOperations
  InitialMembers <- MCMembers
  FirstDraft = v0
  FirstRevision = v1
  MaxInFlight = 1
  MaxFaults = 1
CHECK_DEADLOCK FALSE
INVARIANT DeterministicQaSurvivesFailure
