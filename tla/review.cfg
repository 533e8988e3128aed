SPECIFICATION Spec
CONSTANTS
  t1 = t1
  t2 = t2
  Tabs = {t1, t2}
  Role = "Analyst"
  Vendor <- Exposed
  EventIds = {1, 10}
  Recorded <- Changes
  Actions = {"Targeted Review", "Full Reassessment"}
  Adjusted <- Narrow
  Library <- Documents1
  ExpiryWindow = 0
  MaxAssessments = 2
  MaxEvidence = 2
  MaxPackages = 2
  MaxDay = 1
CONSTRAINT Slices
SYMMETRY Symmetry
INVARIANTS
  InReviewHasAssessment
  AskedTwiceOnlyByOverlap
PROPERTIES
  ClosedWhenSatisfied
  CurrentEvidenceStays
