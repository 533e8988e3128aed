---------------------------- MODULE MCTenantRead ----------------------------
(* A small instance of TenantRead for TLC. *)
EXTENDS TenantRead, TLC

CONSTANTS r1, r2, w1, m1, m2, g1, g2, e1, e2, v1, v2, orgA, orgB, ann

member(org, role, status, until) ==
    [subject |-> ann, org |-> org, role |-> role, status |-> status, until |-> until]
grant(e, status, until) ==
    [member |-> m1, engagement |-> e, status |-> status, until |-> until]

ClockTimes == 0..2

\* ann is a viewer of orgA with a grant on e1 until the clock is at 2; the vendor
\* of e1 is in her organization, or another one's.
OneMember      == m1 :> member(orgA, "Viewer", "active", 2) @@ m2 :> Absent
OneGrant       == g1 :> grant(e1, "active", 2) @@ g2 :> Absent
TwoEngagements == e1 :> v1 @@ e2 :> v2
TwoVendors     == {v1 :> orgA @@ v2 :> orgB, v1 :> orgB @@ v2 :> orgA}

\* Revoked, another role, a shorter window; or a member of the other organization.
SomeMembers == {member(orgA, "Viewer", "revoked", 2), member(orgA, "Analyst", "active", 2),
                member(orgB, "Viewer", "active", 2)}
SomeGrants  == {grant(e1, "revoked", 2), grant(e1, "active", 1), grant(e2, "active", 2)}

\* Two readers at once are of interest to the writer they keep waiting: explored
\* with scoped reads of a session that lasts, at one clock reading, on PostgreSQL.
Slices ==
    \A r, q \in Readers : r # q /\ call[r] # Idle /\ call[q] # Idle =>
        /\ dialect = "postgresql" /\ clock = 0 /\ live
        /\ ask_of(call[r]).phase # "idle" /\ ask_of(call[q]).phase # "idle"
=============================================================================
