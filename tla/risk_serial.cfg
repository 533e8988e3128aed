SPECIFICATION Spec
CONSTANTS
  u1 = u1
  u2 = u2
  a1 = a1
  a2 = a2
  c1 = c1
  Users = {u1}
  Role <- OneRole
  Assessments = {a1, a2}
  Controls = {c1}
  Inherent = 82
  Legacy = 680
  InitialExternal = 48
  DispositionInputs = {"Satisfied"}
  Severities = {"Critical"}
  Conditions = {"UNRESOLVED_CRITICAL_FINDING"}
  Deployable = {}
  MaxReviews = 2
  MaxEvents = 1
  MaxRedeploys = 0
INVARIANTS
  RatingFollowsScore
PROPERTIES
  ActivationAppliesToReviewedScore
  ActivationTakesEffect
  CaseOpenedOnCurrentState
