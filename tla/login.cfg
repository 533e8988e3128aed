SPECIFICATION Spec
CONSTANTS
    t1 = t1
    t2 = t2
    s1 = s1
    s2 = s2
    s3 = s3
    ann = ann
    c1 = c1
    c2 = c2
    Absent = Absent
    Threads <- TwoThreads
    States = {s1, s2, s3}
    Subjects = {ann}
    Codes = {c1, c2}
    Deployments <- TwoDeployments
SYMMETRY Symmetry
INVARIANTS
    OneSessionPerSignIn
    SubjectOfThisSignIn
    VerifiedInTime
    HonestTokenAccepted
PROPERTY NoStaleToken
CONSTRAINT Slices
