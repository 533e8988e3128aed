SPECIFICATION Spec
CONSTANTS
  u1 = u1
  u2 = u2
  c1 = c1
  c2 = c2
  Users = {u1, u2}
  Role <- Analysts
  Controls = {c1, c2}
  ExpiryWindow = 0
  Library <- BothDocuments
  Confirmations <- SomeAnswers
  Choices = {"Satisfied"}
  Legacy <- OldDecision
  InitialEvidence <- ReportOnly
  MaxEvidence = 2
  MaxRows = 3
  MaxDay = 2
SYMMETRY Symmetry
INVARIANTS
  RecommendationIsProven
  UnsupportedIsNotDecided
  BasisIsCoherent
