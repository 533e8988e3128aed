---------------------------- MODULE ReadContract ----------------------------
(***************************************************************************)
(* What TenantReadService promises (docs/M4C2B_Tenant_Read_Boundary.md): a  *)
(* read returns what the identity could see at one moment after it was      *)
(* asked, with a session that was valid at a moment after it was asked, or  *)
(* nothing.  Rows, the session and the clock change as they like.           *)
(***************************************************************************)
EXTENDS TenantRows

CONSTANTS Readers, SessionEnd

VARIABLES clock, live, members, grants, engagements, vendors,
          asks       \* per reader, how far its read is

world == <<clock, live, members, grants, engagements, vendors>>

Rows == Engagements \X Vendors
Asks == [phase : {"idle", "asked", "vouched"}] \cup [phase : {"decided"}, rows : SUBSET Rows]

Init ==
    /\ clock \in Times /\ live \in BOOLEAN
    /\ members \in [Members -> MemberTable \cup {Absent}]
    /\ grants \in [Grants -> GrantTable \cup {Absent}]
    /\ engagements \in [Engagements -> Vendors]
    /\ vendors \in [Vendors -> Orgs \cup {Absent}]
    /\ asks = [r \in Readers |-> [phase |-> "idle"]]

goes(r, a) == asks' = [asks EXCEPT ![r] = a]

Ask(r) ==
    asks[r].phase = "idle" /\ goes(r, [phase |-> "asked"]) /\ UNCHANGED world

Vouch(r) ==
    /\ asks[r].phase = "asked"
    /\ live /\ clock < SessionEnd
    /\ goes(r, [phase |-> "vouched"])
    /\ UNCHANGED world

Decide(r) ==
    /\ asks[r].phase = "vouched"
    /\ goes(r, [phase |-> "decided",
                rows |-> visible(members, grants, engagements, vendors, clock)])
    /\ UNCHANGED world

\* The rows are returned, or the read is refused.
End(r) ==
    asks[r].phase # "idle" /\ goes(r, [phase |-> "idle"]) /\ UNCHANGED world

\* An ended session does not come back and the clock does not step back.
Change ==
    /\ clock' >= clock
    /\ live' => live
    /\ UNCHANGED asks

Next == Change \/ \E r \in Readers : Ask(r) \/ Vouch(r) \/ Decide(r) \/ End(r)

Spec == Init /\ [][Next]_<<world, asks>>
=============================================================================
