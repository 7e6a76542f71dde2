----------------------------- MODULE MCWorkflow -----------------------------
(* Constant values for the runs of Workflow. *)
EXTENDS Pages, TLC

\* An NDA playbook and the custom one.  A contract of type "lease" has no
\* playbook of its own.
MCPlaybookType == [b \in Playbooks |-> IF b = "nda_playbook" THEN "nda" ELSE "custom"]
MCQuestionsOf ==
  [b \in Playbooks |-> IF b = "nda_playbook" THEN Questions ELSE RequiredQuestions]

\* Ordinary cards are interchangeable, critical ones are, and so are ids: no
\* definition compares them or chooses among them.
MCSymmetry == Permutations(Cards \ CriticalCards) \union Permutations(CriticalCards)
              \union Permutations(VersionIds)
=============================================================================
