SPECIFICATION Spec
CONSTANTS
  u1 = u1
  u2 = u2
  a1 = a1
  a2 = a2
  c1 = c1
  Users = {u1, u2}
  Role <- TwoRoles
  Assessments = {a1}
  Controls = {c1}
  Inherent = 82
  Legacy = 680
  InitialExternal = 48
  DispositionInputs = {"Satisfied"}
  Severities = {"High"}
  Conditions = {}
  Deployable = {}
  MaxReviews = 1
  MaxEvents = 1
  MaxRedeploys = 0
PROPERTY ActivationAppliesToReviewedScore
