SPECIFICATION Spec
CONSTANTS
  u1 = u1
  u2 = u2
  report = report
  other = other
  None = None
  Users = {u1, u2}
  Role <- Managers
  Requirements = {"SOC 2 Type II", "AI governance"}
  EngagementEvidence = {"AI governance"}
  Files = {report, other}
  FileName <- OneName
  Exceptions <- Found
  Scores = {40, 75}
  AssessmentStatuses = {"Completed"}
  FindingStatuses = {"Open", "In Remediation", "Closed"}
  NewSeverities = {"High"}
  Escalations = {"Escalated"}
  Decisions = {"Approved", "Deferred"}
  Targets = {"", "2026-10-15"}
  Window = 1
  MaxAssessments = 1
  MaxEvidence = 2
  MaxFindings = 2
  MaxApprovals = 1
  MaxClock = 2
CONSTRAINT Slices
SYMMETRY Symmetry
INVARIANTS
  TypeOK
  RegistrationIsWhole
  AnalysisOfThisFile
PROPERTIES
  GateSeesStandingBlockers
  OverrideWasShown
  ChangesAreAudited
