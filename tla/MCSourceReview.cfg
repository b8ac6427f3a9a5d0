\* Two candidates whose feed addresses are aliases; five events.
SPECIFICATION Spec
CONSTANTS
  Candidate = {c1, c2}
  Aliases = TRUE
  None = None
  Same <- MCSame
  Policy <- MCPolicy
  MaxAttempts = 2
  MaxEvents = 5
  MaxPicks = 1
SYMMETRY MCSymmetry
INVARIANTS OnlyNewestActive HumanDecisionStands AdmissionExplained RetriedOnce
PROPERTIES AnswersAreFinal
