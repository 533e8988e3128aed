SPECIFICATION Spec
CONSTANTS
  Nil = Nil
  None = None
  Families = {"Privileged MFA", "Transport encryption (TLS)", "Vulnerability remediation", "Disaster-recovery testing"}
  Reviewer <- ReviewerOf
  Cases = {"strong", "bypass", "conflict", "tls-strong", "tls-exception", "tls-reported", "vm-present", "dr-exercise", "dr-lapsed"}
  FamilyOf <- FamilyOfCase
  Versions = {1, 2}
  Package <- Packages
  FactIds = {1, 2, 3}
  Signals = {"inventory", "exemption"}
  Requirements = {"ENC-01", "BCP-01"}
  Rationales = {"why"}
  MaxActions = 1
  Files <- FilesAtHand
  Readable <- TextFiles
  Declarations = {"tls test", "context only", "no scope"}
  Refused = {"no scope"}
  RoutedTo <- Routes
  Evaluated = {"ENC-01", "BCP-01"}
  Suggested <- FirstOffered
  Stated <- FromSource
  MAX_FILES = 2
  SCENARIOS <- ScenarioList
  RISK_PROFILES <- ProfileList
  RowOf <- Rows
CONSTRAINT Slices
INVARIANT NothingPendingBehindReport
