SPECIFICATION FairSpec
CONSTANTS
    r1 = r1
    r2 = r2
    w1 = w1
    m1 = m1
    m2 = m2
    g1 = g1
    g2 = g2
    e1 = e1
    e2 = e2
    v1 = v1
    v2 = v2
    orgA = orgA
    orgB = orgB
    ann = ann
    Absent = Absent
    Readers = {r1, r2}
    Writers = {w1}
    Members = {m1, m2}
    Grants = {g1, g2}
    Engagements = {e1, e2}
    Vendors = {v1, v2}
    Orgs = {orgA, orgB}
    Subjects = {ann}
    Self = ann
    Times <- ClockTimes
    SessionEnd = 2
    Minute = 1
    MaxWrites = 1
    Dialects = {"postgresql", "sqlite"}
    InitialMembers <- OneMember
    InitialGrants <- OneGrant
    InitialEngagements <- TwoEngagements
    InitialVendors <- TwoVendors
    MemberRows <- SomeMembers
    GrantRows <- SomeGrants
INVARIANTS
    TypeOK
    HeldUntilIssued
    MetadataShortLived
PROPERTIES
    Implements
    EveryReadEnds
    GuardIsGranted
CONSTRAINT Slices
CHECK_DEADLOCK FALSE
