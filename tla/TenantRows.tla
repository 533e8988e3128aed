----------------------------- MODULE TenantRows -----------------------------
(***************************************************************************)
(* The rows an authorized read depends on, and what they entitle one        *)
(* identity to: memberships, grants, engagements and vendors (db.py, the    *)
(* queries of tenant_read_scope.py and session_identity_source.py).         *)
(*                                                                         *)
(* A window is its end; every window has begun.  Assessments and evidence   *)
(* hang on an engagement and its vendor by the same joins and locks and are *)
(* not kept apart from them.                                                *)
(***************************************************************************)
EXTENDS Integers, FiniteSets, Functions, Authz

CONSTANTS Members, Grants, Engagements, Vendors,   \* primary keys
          Orgs, Subjects,
          Self,       \* the identity whose reads are modelled
          Times,      \* readings of the clock
          Absent      \* no such row; also the organization of a legacy vendor

Statuses    == {"active", "revoked"}
MemberTable == [subject : Subjects, org : Orgs, role : Roles, status : Statuses,
                until : Times]
GrantTable  == [member : Members, engagement : Engagements, status : Statuses,
                until : Times]

ASSUME AbsentAssumption ==
    Absent \notin MemberTable /\ Absent \notin GrantTable /\ Absent \notin Orgs
ASSUME SelfAssumption == Self \in Subjects
ASSUME TimesAssumption == Times \subseteq Int

current(row, now) == row.status = "active" /\ now < row.until

\* Reads ask for vendor.read, evidence.read or both; no role has just one.
permitted(role) == can(role, "vendor.read") /\ can(role, "evidence.read")

rows_of(members) == {m \in Members : members[m] # Absent /\ members[m].subject = Self}
current_members(members, now) == {m \in rows_of(members) : current(members[m], now)}

grants_of(grants, m) == {g \in Grants : grants[g] # Absent /\ grants[g].member = m}

entitled(grants, m, now) ==
    {grants[g].engagement : g \in {h \in grants_of(grants, m) : current(grants[h], now)}}

\* UNIQUE (organization, issuer, subject) and UNIQUE (membership, engagement).
unique_members(members) ==
    \A m, n \in Members : m # n /\ members[m] # Absent /\ members[n] # Absent =>
        <<members[m].org, members[m].subject>> # <<members[n].org, members[n].subject>>
unique_grants(grants) ==
    \A g, h \in Grants : g # h /\ grants[g] # Absent /\ grants[h] # Absent =>
        <<grants[g].member, grants[g].engagement>> # <<grants[h].member, grants[h].engagement>>

\* Which rows a read of these engagements returns.
projection(org, wanted, engagements, vendors) ==
    {<<e, engagements[e]>> : e \in {f \in wanted : vendors[engagements[f]] = org}}

\* What the identity may see: it has one current membership, a role that may
\* read, and a current grant on the engagement.
visible(members, grants, engagements, vendors, now) ==
    UNION {projection(members[m].org, entitled(grants, m, now), engagements, vendors) :
             m \in {n \in current_members(members, now) :
                      /\ current_members(members, now) = {n}
                      /\ permitted(members[n].role)}}
=============================================================================
