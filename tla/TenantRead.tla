----------------------------- MODULE TenantRead -----------------------------
(***************************************************************************)
(* Tenant-scoped reads (TenantReadService) and the evidence preflight       *)
(* (DatabaseEvidenceAccessAuthority), both on SessionIdentitySource, under   *)
(* the membership identity guard; with the transactions that change the     *)
(* rows meanwhile, on PostgreSQL (READ COMMITTED) or SQLite.                *)
(*                                                                         *)
(* One action is a statement of a transaction, a look-up in the session     *)
(* store, or a clock reading, with the checks that follow it.  A statement  *)
(* FOR UPDATE takes all its row locks at once, or waits, or times out.  A   *)
(* writer is one statement of somebody's SQL: it locks its row and the rows *)
(* it comes to refer to, the trigger locks the identities of a membership,  *)
(* and it commits.                                                         *)
(***************************************************************************)
EXTENDS TenantRows

CONSTANTS Readers, Writers,
          Dialects,      \* subset of {"postgresql", "sqlite"}
          SessionEnd,    \* expires_at of the session
          Minute,        \* how long the preflight's metadata may live
          MaxWrites,     \* bound: no statement begins after so many writes
          InitialMembers, InitialGrants, InitialEngagements, InitialVendors,
          MemberRows, GrantRows   \* the rows somebody may write

ASSUME TransactionsAssumption == Readers \cap Writers = {}
ASSUME ClockAssumption == SessionEnd \in Int /\ Minute \in Nat /\ 0 \in Times
ASSUME InitialAssumption ==
    /\ InitialMembers \in [Members -> MemberTable \cup {Absent}]
    /\ InitialGrants \in [Grants -> GrantTable \cup {Absent}]
    /\ InitialEngagements \in [Engagements -> Vendors]
    /\ InitialVendors \subseteq [Vendors -> Orgs \cup {Absent}]
    /\ unique_members(InitialMembers) /\ unique_grants(InitialGrants)
    /\ MemberRows \subseteq MemberTable /\ GrantRows \subseteq GrantTable

VARIABLES
    dialect, clock,
    live,          \* is the session in the session store?
    members, grants, engagements, vendors,   \* committed rows
    held,          \* per transaction, the locks it holds
    call,          \* per reader and writer, the step it is at
    issued,        \* metadata the preflight has issued
    writes,        \* committed writes (for the bound)
    last_entitled  \* per engagement, when it was last entitled (history)

tables  == <<members, grants, engagements, vendors>>
session == <<dialect, clock, live>>
vars == <<session, tables, held, call, issued, writes, last_entitled>>

Transactions == Readers \cup Writers
Idle == [step |-> "idle"]

-----------------------------------------------------------------------------
(* Locks *)

Lock(table, id) == <<table, id, "row">>
Key(table, id)  == <<table, id, "key">>  \* for a row that refers to this one
Guard    == Lock("identity", Self)
Database == Lock("database", Absent)     \* SQLite's one writer

Ids ==
    [member |-> Members, grant |-> Grants, engagement |-> Engagements, vendor |-> Vendors,
     organization |-> Orgs]
Locks ==
    {Database} \cup {Lock("identity", s) : s \in Subjects}
    \cup UNION {UNION {{Lock(t, i), Key(t, i)} : i \in Ids[t]} : t \in DOMAIN Ids}

\* Readers share an identity's lock and writers the key of a row they refer to
\* (FOR KEY SHARE); every other lock has one holder.
shares(t, u, l) ==
    \/ l = Guard /\ t \in Readers /\ u \in Readers
    \/ l[3] = "key" /\ t \in Writers /\ u \in Writers
free(t, wanted) ==
    \A u \in Transactions \ {t} : \A l \in wanted \cap held[u] : shares(t, u, l)

\* The rows a statement locks, keys included; SQLite's transaction holds its
\* database already.
for_update(wanted) ==
    IF dialect = "sqlite" THEN {} ELSE wanted \cup {Key(l[1], l[2]) : l \in wanted}

goes(t, c) == call' = [call EXCEPT ![t] = c]
take(t, wanted, c) ==
    goes(t, c) /\ held' = [held EXCEPT ![t] = @ \cup wanted]

\* Mutant: a read that is denied keeps what it has locked.
ends_locked(t) == goes(t, Idle) /\ UNCHANGED held

\* The transaction, if one was begun, ends and its locks are released.
ends(t) == goes(t, Idle) /\ held' = [held EXCEPT ![t] = {}]

\* A check that fails denies the whole read, which rolls back.
proceeds(t, check, c) ==
    \/ check /\ goes(t, c) /\ UNCHANGED held
    \/ ~check /\ ends(t)

at(t, step) == call[t].step = step

-----------------------------------------------------------------------------
(* Both services: a call, then SessionIdentitySource.authenticated_identity *)

identify(use) == [step |-> "authenticate", use |-> use]

scoped_read(r) ==
    /\ call[r] = Idle
    /\ goes(r, identify([for |-> "scope"]))
    /\ UNCHANGED <<session, tables, held, issued, writes>>

preflight_evidence_read(r, e) ==
    /\ call[r] = Idle
    /\ goes(r, identify([for |-> "preflight", engagement |-> e, now |-> clock]))
    /\ UNCHANGED <<session, tables, held, issued, writes>>

\* SessionManager.authenticate(handle).
authenticated == live /\ clock < SessionEnd

authenticate(r) ==
    /\ at(r, "authenticate")
    /\ proceeds(r, authenticated,
                [step |-> "memberships", use |-> call[r].use, now |-> clock])
    /\ UNCHANGED <<session, tables, issued, writes>>

find_memberships(r) ==
    /\ at(r, "memberships")
    /\ goes(r, [step |-> "reauthenticate", use |-> call[r].use,
                found |-> {members[m] : m \in current_members(members, call[r].now)}])
    /\ UNCHANGED <<session, tables, held, issued, writes>>

\* Mutant: the session is not looked up again after the query.
identified_once(found) == \E row \in found : found = {row} /\ clock < row.until

identified(found) ==
    /\ authenticated
    /\ \E row \in found : found = {row} /\ clock < row.until

\* What the caller does with the identity it asked for.
continues(use, org) ==
    CASE use.for = "scope"     -> [step |-> "begin", org |-> org]
      [] use.for = "validate"  -> [step |-> "validate", scope |-> use.scope, rows |-> use.rows]
      [] use.for = "preflight" -> [step |-> "member", org |-> org,
                                   engagement |-> use.engagement, now |-> use.now]
      [] use.for = "authorize" -> [step |-> "join", org |-> org, role |-> use.role,
                                   engagement |-> use.engagement, now |-> use.now]

\* A second identity has to be the first one.
same_identity(use, org) ==
    /\ use.for = "validate"  => org = use.scope.org
    /\ use.for = "authorize" => org = use.org

reauthenticate(r) ==
    /\ at(r, "reauthenticate")
    /\ LET c   == call[r]
           org == (CHOOSE row \in c.found : TRUE).org
       IN  IF identified(c.found) /\ same_identity(c.use, org)
           THEN goes(r, continues(c.use, org)) /\ UNCHANGED held
           ELSE ends(r)
    /\ UNCHANGED <<session, tables, issued, writes>>

-----------------------------------------------------------------------------
(* TenantReadService._authorized_transaction *)

authority(m) ==
    <<Restrict(members, rows_of(members)), Restrict(grants, grants_of(grants, m))>>

linked(org, links) == {links[e] : e \in {f \in DOMAIN links : vendors[links[f]] = org}}
relationships(org, wanted) ==
    <<Restrict(engagements, wanted), linked(org, Restrict(engagements, wanted))>>

trigger_locks(c) ==
    IF dialect = "sqlite" \/ c.table # "member" THEN {}
    ELSE {Lock("identity", c.row.subject)}
           \cup {Lock("identity", members[m].subject) :
                   m \in {n \in Members : n = c.id /\ members[n] # Absent}}

\* Mutant: readers pass a writer that waits.
guard_free_now(r) == free(r, {Guard})

\* A shared request queues behind an exclusive one that waits.
guard_free(r) ==
    /\ free(r, {Guard})
    /\ \A w \in Writers : ~(at(w, "trigger") /\ Guard \in trigger_locks(call[w]))

\* Mutant: the guard is not taken.
begin_unguarded(r) ==
    /\ at(r, "begin")
    /\ goes(r, [step |-> "members", org |-> call[r].org])
    /\ UNCHANGED <<session, tables, held, issued, writes>>

\* BEGIN IMMEDIATE, or the shared lock of acquire_membership_identity_guard.
begin(r) ==
    /\ at(r, "begin")
    /\ IF dialect = "sqlite" THEN free(r, {Database}) ELSE guard_free(r)
    /\ take(r, IF dialect = "sqlite" THEN {Database} ELSE {Guard},
            [step |-> "members", org |-> call[r].org])
    /\ UNCHANGED <<session, tables, issued, writes>>

\* _scope(lock=True): the identity's memberships, then the member's grants.
lock_members(r) ==
    /\ at(r, "members")
    /\ LET wanted == for_update({Lock("member", m) : m \in rows_of(members)})
           org    == call[r].org
       IN  /\ free(r, wanted)
           /\ \/ \E m \in current_members(members, clock) :
                   /\ current_members(members, clock) = {m}
                   /\ members[m].org = org /\ permitted(members[m].role)
                   /\ take(r, wanted, [step |-> "grants", org |-> org, member |-> m])
              \/ /\ \A m \in current_members(members, clock) :
                      \/ current_members(members, clock) # {m}
                      \/ members[m].org # org \/ ~permitted(members[m].role)
                 /\ ends(r)
    /\ UNCHANGED <<session, tables, issued, writes>>

lock_grants(r) ==
    /\ at(r, "grants")
    /\ LET m      == call[r].member
           wanted == for_update({Lock("grant", g) : g \in grants_of(grants, m)})
           ids    == entitled(grants, m, clock)
       IN  /\ free(r, wanted)
           /\ IF current(members[m], clock) /\ clock < SessionEnd /\ ids # {}
              THEN take(r, wanted,
                        [step |-> "organization",
                         scope |-> [org |-> call[r].org, member |-> m,
                                    engagement_ids |-> ids, authority |-> authority(m)]])
              ELSE ends(r)
    /\ UNCHANGED <<session, tables, issued, writes>>

\* Mutant: the organization is read without a lock.
read_organization(r) ==
    /\ at(r, "organization")
    /\ goes(r, [step |-> "engagements", scope |-> call[r].scope])
    /\ UNCHANGED <<session, tables, held, issued, writes>>

\* _relationships(lock=True): the organization, then engagements before the vendors
\* derived from them.
lock_organization(r) ==
    /\ at(r, "organization")
    /\ LET wanted == for_update({Lock("organization", call[r].scope.org)})
       IN  /\ free(r, wanted)
           /\ take(r, wanted, [step |-> "engagements", scope |-> call[r].scope])
    /\ UNCHANGED <<session, tables, issued, writes>>

lock_engagements(r) ==
    /\ at(r, "engagements")
    /\ LET ids    == call[r].scope.engagement_ids
           wanted == for_update({Lock("engagement", e) : e \in ids})
       IN  /\ free(r, wanted)
           /\ take(r, wanted, [step |-> "vendors", scope |-> call[r].scope,
                               links |-> Restrict(engagements, ids)])
    /\ UNCHANGED <<session, tables, issued, writes>>

lock_vendors(r) ==
    /\ at(r, "vendors")
    /\ LET s       == call[r].scope
           parents == linked(s.org, Restrict(engagements, s.engagement_ids))
           wanted  == for_update({Lock("vendor", v) : v \in parents})
       IN  /\ free(r, wanted)
           /\ take(r, wanted,
                   [step |-> "project",
                    scope |-> [org |-> s.org, member |-> s.member, authority |-> s.authority,
                               engagement_ids |-> s.engagement_ids,
                               relationships |-> <<call[r].links, parents>>]])
    /\ UNCHANGED <<session, tables, issued, writes>>

projected(c) == projection(c.scope.org, c.scope.engagement_ids, engagements, vendors)

project(r) ==
    /\ at(r, "project")
    /\ goes(r, [step |-> "compare", scope |-> call[r].scope, rows |-> projected(call[r])])
    /\ UNCHANGED <<session, tables, held, issued, writes>>

\* visible_counts counts once and compares nothing.
count(r) ==
    /\ at(r, "project")
    /\ LET c == call[r]
       IN  goes(r, identify([for |-> "validate", scope |-> c.scope, rows |-> projected(c)]))
    /\ UNCHANGED <<session, tables, held, issued, writes>>

compare(r) ==
    /\ at(r, "compare")
    /\ LET c == call[r]
       IN  proceeds(r, projected(c) = c.rows,
                    identify([for |-> "validate", scope |-> c.scope, rows |-> c.rows]))
    /\ UNCHANGED <<session, tables, issued, writes>>

-----------------------------------------------------------------------------
(* TenantReadService._finish_authorized, and the commit *)

\* The final _scope and _relationships, without locks.
same_scope(s) ==
    /\ current_members(members, clock) = {s.member}
    /\ members[s.member].org = s.org /\ permitted(members[s.member].role)
    /\ clock < SessionEnd
    /\ entitled(grants, s.member, clock) = s.engagement_ids
    /\ authority(s.member) = s.authority
    /\ relationships(s.org, s.engagement_ids) = s.relationships

validate(r) ==
    /\ at(r, "validate")
    /\ proceeds(r, same_scope(call[r].scope),
                [step |-> "issue", scope |-> call[r].scope, rows |-> call[r].rows])
    /\ UNCHANGED <<session, tables, issued, writes>>

\* The windows of the rows read, by a clock reading after all I/O.
windows_current(s) ==
    LET ms == s.authority[1]
        gs == s.authority[2]
    IN  /\ clock < SessionEnd
        /\ {m \in DOMAIN ms : current(ms[m], clock)} = {s.member}
        /\ {gs[g].engagement : g \in {h \in DOMAIN gs : current(gs[h], clock)}}
             = s.engagement_ids

issue(r) ==
    /\ at(r, "issue")
    /\ proceeds(r, windows_current(call[r].scope),
                [step |-> "commit", scope |-> call[r].scope, rows |-> call[r].rows,
                 decided |-> clock])
    /\ UNCHANGED <<session, tables, issued, writes>>

\* The rows are returned.
commit(r) ==
    /\ at(r, "commit")
    /\ ends(r)
    /\ UNCHANGED <<session, tables, issued, writes>>

\* What a waiting reader waits for.
waits_for(r) ==
    LET c == call[r]
    IN  CASE c.step = "members" -> {Lock("member", m) : m \in rows_of(members)}
          [] c.step = "grants"  -> {Lock("grant", g) : g \in grants_of(grants, c.member)}
          [] c.step = "organization" -> {Lock("organization", c.scope.org)}
          [] c.step = "engagements" -> {Lock("engagement", e) : e \in c.scope.engagement_ids}
          [] c.step = "vendors" ->
               {Lock("vendor", v) : v \in linked(c.scope.org, c.links)}
          [] OTHER -> {}

waits(r) ==
    IF at(r, "begin")
    THEN ~(IF dialect = "sqlite" THEN free(r, {Database}) ELSE guard_free(r))
    ELSE ~free(r, for_update(waits_for(r)))

\* Mutant: a reader waits as long as it takes.
never_times_out(r) == FALSE /\ UNCHANGED vars

\* lock_timeout, or SQLite's busy timeout: the read is denied.
lock_timeout(r) ==
    /\ call[r] # Idle
    /\ waits(r)
    /\ ends(r)
    /\ UNCHANGED <<session, tables, issued, writes>>

\* Any other exception denies as well: an outage, a deadlock's victim.
fail(r) ==
    /\ call[r] # Idle
    /\ ends(r)
    /\ UNCHANGED <<session, tables, issued, writes>>

-----------------------------------------------------------------------------
(* preflight_evidence_read over DatabaseEvidenceAccessAuthority *)

\* authenticated_identity: the role is the membership's.  The clock was read
\* before the session was looked up.
find_role(r) ==
    /\ at(r, "member")
    /\ LET c    == call[r]
           mine == {m \in rows_of(members) : members[m].org = c.org}
       IN  \/ \E m \in mine :
                 /\ current(members[m], c.now)
                 /\ permitted(members[m].role) /\ clock < SessionEnd
                 /\ goes(r, identify([for |-> "authorize", org |-> c.org,
                                      role |-> members[m].role,
                                      engagement |-> c.engagement, now |-> clock]))
                 /\ UNCHANGED held
           \/ /\ \A m \in mine : \/ ~current(members[m], c.now)
                                 \/ ~permitted(members[m].role) \/ clock >= SessionEnd
              /\ ends(r)
    /\ UNCHANGED <<session, tables, issued, writes>>

earliest(times) == CHOOSE t \in times : \A u \in times : t <= u

\* Mutant: the metadata lives as long as the rows it was read from.
expiry_of_rows(member, grant, now) == earliest({SessionEnd, member.until, grant.until})

expiry(member, grant, now) ==
    earliest({SessionEnd, member.until, grant.until, now + Minute})

\* authorize_evidence_read, after its identity: one row joins them all.
authorizing(c) ==
    {p \in Members \X Grants :
        LET member == members[p[1]]
            grant  == grants[p[2]]
        IN  /\ member # Absent /\ grant # Absent
            /\ member.subject = Self /\ member.org = c.org /\ member.role = c.role
            /\ permitted(member.role)
            /\ grant.member = p[1] /\ grant.engagement = c.engagement
            /\ vendors[engagements[c.engagement]] = c.org
            /\ current(member, c.now) /\ current(grant, c.now)}

join(r) ==
    /\ at(r, "join")
    /\ LET c == call[r]
       IN  \/ \E p \in authorizing(c) :
                 /\ goes(r, [step |-> "metadata", engagement |-> c.engagement,
                             expires |-> expiry(members[p[1]], grants[p[2]], c.now)])
                 /\ UNCHANGED held
           \/ authorizing(c) = {} /\ ends(r)
    /\ UNCHANGED <<session, tables, issued, writes>>

issue_metadata(r) ==
    /\ at(r, "metadata")
    /\ ends(r)
    /\ issued' = IF clock < SessionEnd /\ clock < call[r].expires
                 THEN issued \cup {[engagement |-> call[r].engagement,
                                    expires |-> call[r].expires]}
                 ELSE issued
    /\ UNCHANGED <<session, tables, writes>>

-----------------------------------------------------------------------------
(* Writers: one statement on one row *)

Statements ==
    [table : {"member"}, id : Members, row : MemberRows]
    \cup [table : {"grant"}, id : Grants, row : GrantRows]
    \cup [table : {"engagement"}, id : Engagements, row : Vendors]
    \cup [table : {"vendor"}, id : Vendors, row : Orgs \cup {Absent}]

stored(table, id) ==
    CASE table = "member"     -> members[id]
      [] table = "grant"      -> grants[id]
      [] table = "engagement" -> engagements[id]
      [] table = "vendor"     -> vendors[id]

\* The rows a row refers to; a membership or a grant need not be there yet.
parents(table, row) ==
    CASE table = "member" /\ row # Absent -> {Key("organization", row.org)}
      [] table = "grant" /\ row # Absent  ->
           {Key("member", row.member), Key("engagement", row.engagement)}
      [] table = "engagement"             -> {Key("vendor", row)}
      [] table = "vendor" /\ row # Absent -> {Key("organization", row)}
      [] OTHER                            -> {}

\* A row that exists is locked, and the parents it newly refers to.
row_locks(c) ==
    LET old    == stored(c.table, c.id)
        exists == c.table \in {"engagement", "vendor"} \/ old # Absent
    IN  (IF exists THEN {Lock(c.table, c.id)} ELSE {})
          \cup (parents(c.table, c.row) \ parents(c.table, old))

statement(w, c) ==
    /\ call[w] = Idle /\ writes < MaxWrites
    /\ goes(w, [step |-> "row", table |-> c.table, id |-> c.id, row |-> c.row])
    /\ UNCHANGED <<session, tables, held, issued, writes>>

lock_row(w) ==
    /\ at(w, "row")
    /\ LET c      == call[w]
           wanted == IF dialect = "sqlite" THEN {Database} ELSE row_locks(c)
       IN  free(w, wanted) /\ take(w, wanted, [c EXCEPT !.step = "trigger"])
    /\ UNCHANGED <<session, tables, issued, writes>>

\* guard_membership_identity_predicate: the exclusive locks of both identities.
trigger(w) ==
    /\ at(w, "trigger")
    /\ LET wanted == trigger_locks(call[w])
       IN  free(w, wanted) /\ take(w, wanted, [call[w] EXCEPT !.step = "write"])
    /\ UNCHANGED <<session, tables, issued, writes>>

\* A row that somebody else has inserted meanwhile is a duplicate.
write(w) ==
    /\ at(w, "write")
    /\ dialect = "sqlite" \/ row_locks(call[w]) \subseteq held[w]
    /\ LET c == call[w]
       IN  /\ members' = IF c.table = "member" THEN [members EXCEPT ![c.id] = c.row] ELSE members
           /\ grants' = IF c.table = "grant" THEN [grants EXCEPT ![c.id] = c.row] ELSE grants
           /\ engagements' = IF c.table = "engagement"
                             THEN [engagements EXCEPT ![c.id] = c.row] ELSE engagements
           /\ vendors' = IF c.table = "vendor" THEN [vendors EXCEPT ![c.id] = c.row] ELSE vendors
    /\ unique_members(members') /\ unique_grants(grants')
    /\ writes' = writes + 1
    /\ ends(w)
    /\ UNCHANGED <<session, issued>>

roll_back(w) ==
    /\ call[w] # Idle
    /\ ends(w)
    /\ UNCHANGED <<session, tables, issued, writes>>

-----------------------------------------------------------------------------
tick ==
    /\ clock + 1 \in Times
    /\ clock' = clock + 1
    /\ UNCHANGED <<dialect, live, tables, held, call, issued, writes>>

\* Logout, revocation, idle expiry, rotation of the handle, restart.
end_session ==
    /\ live
    /\ live' = FALSE
    /\ UNCHANGED <<dialect, clock, tables, held, call, issued, writes>>

\* Who may read the evidence of an engagement, of the rows as they are.
may_read_evidence(e) ==
    \E m \in current_members(members, clock) :
        /\ permitted(members[m].role)
        /\ e \in entitled(grants, m, clock)
        /\ vendors[engagements[e]] = members[m].org

Init ==
    /\ dialect \in Dialects
    /\ clock = 0 /\ live = TRUE
    /\ members = InitialMembers /\ grants = InitialGrants
    /\ engagements = InitialEngagements /\ vendors \in InitialVendors
    /\ held = [t \in Transactions |-> {}]
    /\ call = [t \in Transactions |-> Idle]
    /\ issued = {}
    /\ writes = 0
    /\ last_entitled = [e \in Engagements |-> IF may_read_evidence(e) THEN 0 ELSE -Minute]

\* A reader's own steps, one after the other, once it was called.
runs(r) ==
    \/ authenticate(r) \/ find_memberships(r) \/ reauthenticate(r)
    \/ begin(r) \/ lock_members(r) \/ lock_grants(r) \/ lock_organization(r)
    \/ lock_engagements(r) \/ lock_vendors(r) \/ project(r) \/ compare(r) \/ count(r)
    \/ validate(r) \/ issue(r) \/ commit(r) \/ lock_timeout(r)
    \/ find_role(r) \/ join(r) \/ issue_metadata(r)

Step ==
    \/ \E r \in Readers :
         \/ scoped_read(r) \/ \E e \in Engagements : preflight_evidence_read(r, e)
         \/ runs(r) \/ fail(r)
    \/ \E w \in Writers :
         \/ \E c \in Statements : statement(w, c)
         \/ lock_row(w) \/ trigger(w) \/ write(w) \/ roll_back(w)
    \/ tick \/ end_session

noted == last_entitled' = [e \in Engagements |->
                             IF may_read_evidence(e)' THEN clock' ELSE last_entitled[e]]

Next == Step /\ noted

Spec == Init /\ [][Next]_vars

\* A call that was begun goes on, whatever its callers and the writers do; and
\* a statement that waits for an identity gets its lock in its turn.
Fairness ==
    /\ \A r \in Readers : WF_vars(runs(r) /\ noted)
    /\ \A w \in Writers : WF_vars(trigger(w) /\ noted)

FairSpec == Spec /\ Fairness

-----------------------------------------------------------------------------
(* Properties *)

Snapshots(K, T) == UNION {[S -> T] : S \in SUBSET K}
Scopes ==
    [org : Orgs, member : Members, engagement_ids : SUBSET Engagements,
     authority : Snapshots(Members, MemberTable) \X Snapshots(Grants, GrantTable)]
RelatedScopes ==
    [org : Orgs, member : Members, engagement_ids : SUBSET Engagements,
     authority : Snapshots(Members, MemberTable) \X Snapshots(Grants, GrantTable),
     relationships : Snapshots(Engagements, Vendors) \X SUBSET Vendors]
Projections == SUBSET (Engagements \X Vendors)
Expiries == {t \in Int : t <= SessionEnd}

Uses ==
    [for : {"scope"}]
    \cup [for : {"validate"}, scope : RelatedScopes, rows : Projections]
    \cup [for : {"preflight"}, engagement : Engagements, now : Times]
    \cup [for : {"authorize"}, org : Orgs, role : Roles, engagement : Engagements, now : Times]
ReadCalls ==
    {Idle} \cup [step : {"authenticate"}, use : Uses]
    \cup [step : {"memberships"}, use : Uses, now : Times]
    \cup [step : {"reauthenticate"}, use : Uses, found : SUBSET MemberTable]
    \cup [step : {"begin", "members"}, org : Orgs]
    \cup [step : {"grants"}, org : Orgs, member : Members]
    \cup [step : {"organization", "engagements"}, scope : Scopes]
    \cup [step : {"vendors"}, scope : Scopes, links : Snapshots(Engagements, Vendors)]
    \cup [step : {"project"}, scope : RelatedScopes]
    \cup [step : {"compare", "validate", "issue"}, scope : RelatedScopes, rows : Projections]
    \cup [step : {"commit"}, scope : RelatedScopes, rows : Projections, decided : Times]
    \cup [step : {"member"}, org : Orgs, engagement : Engagements, now : Times]
    \cup [step : {"join"}, org : Orgs, role : Roles, engagement : Engagements, now : Times]
    \cup [step : {"metadata"}, engagement : Engagements, expires : Expiries]
WriteCalls ==
    {Idle} \cup {[step |-> p, table |-> c.table, id |-> c.id, row |-> c.row] :
                    p \in {"row", "trigger", "write"}, c \in Statements}

\* Besides types: who is idle holds no lock, and no metadata outlives its session.
TypeOK ==
    /\ dialect \in Dialects /\ clock \in Times /\ live \in BOOLEAN
    /\ members \in [Members -> MemberTable \cup {Absent}] /\ unique_members(members)
    /\ grants \in [Grants -> GrantTable \cup {Absent}] /\ unique_grants(grants)
    /\ engagements \in [Engagements -> Vendors]
    /\ vendors \in [Vendors -> Orgs \cup {Absent}]
    /\ held \in [Transactions -> SUBSET Locks]
    /\ \A t \in Transactions : call[t] = Idle => held[t] = {}
    /\ DOMAIN call = Transactions
    /\ \A r \in Readers : call[r] \in ReadCalls
    /\ \A w \in Writers : call[w] \in WriteCalls
    /\ \A i \in issued : i.engagement \in Engagements /\ i.expires <= SessionEnd
    /\ writes \in Nat
    /\ DOMAIN last_entitled = Engagements

\* What the contract sees of a reader.
ask_of(c) ==
    CASE c.step = "commit" -> [phase |-> "decided", rows |-> c.rows]
      [] c.step \in {"validate", "issue"} -> [phase |-> "vouched"]
      [] c.step \in {"authenticate", "memberships", "reauthenticate"} ->
           [phase |-> IF c.use.for \in {"scope", "validate"} THEN "asked" ELSE "idle"]
      [] c.step \in {"begin", "members", "grants", "organization", "engagements", "vendors",
                      "project", "compare"} ->
           [phase |-> "asked"]
      [] OTHER -> [phase |-> "idle"]

Contract == INSTANCE ReadContract WITH asks <- [r \in Readers |-> ask_of(call[r])]

\* A scoped read returns what the identity could see at one moment after the
\* call, its session valid after the call too, or nothing: whatever is revoked,
\* moved or ends between the statements of tenant_read_scope.py.
Implements == Contract!Spec

\* Between the last check and the commit the locks and the guard hold the rows
\* that authorize what is returned, those of a second membership included, and
\* nothing comes into the organization (_authorized_transaction, _relationships,
\* membership_identity_guard.py).
HeldUntilIssued ==
    \A r \in Readers :
        at(r, "commit") =>
            call[r].rows = visible(members, grants, engagements, vendors, call[r].decided)

\* The preflight's metadata outlives what it was issued on by a minute at most,
\* though it is read without locks (authorize_evidence_read).
MetadataShortLived ==
    \A i \in issued : clock < i.expires => clock < last_entitled[i.engagement] + Minute

\* Every call returns, though writers may keep their locks for ever and an
\* UPDATE locks its row before its identity, readers the other way round.
EveryReadEnds ==
    \A r \in Readers : call[r] # Idle ~> call[r] = Idle

\* A membership change that waits for the readers of its identity is not put
\* off for ever by readers that keep coming.
GuardIsGranted ==
    \A w \in Writers : at(w, "trigger") ~> ~at(w, "trigger")
=============================================================================
