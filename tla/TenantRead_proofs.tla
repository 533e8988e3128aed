-------------------------- MODULE TenantRead_proofs --------------------------
(***************************************************************************)
(* Proofs about TenantRead, for any number of readers and writers, any rows  *)
(* and either dialect.                                                     *)
(*                                                                         *)
(* The argument is about locks.  A reader and a writer never hold the same  *)
(* one (LockInv), a writer has locked what it writes (WriterInv), and at    *)
(* each step a read has locked what its queries have returned (ReadInv):    *)
(* so nothing it has read changes before it commits, and what it returns    *)
(* was visible when the last clock reading was taken.                       *)
(***************************************************************************)
EXTENDS TenantRead, TLAPS

identifying == {"authenticate", "memberships", "reauthenticate"}
validates(c) == c.step \in identifying /\ c.use.for = "validate"

\* How far a scoped read has come; the last identity is asked for in between.
projects == {"compare", "validate", "issue", "commit"}
relates  == {"project"} \cup projects
derives  == {"vendors"} \cup relates
contains == {"engagements"} \cup derives
scopes   == {"organization"} \cup contains
begun    == {"members", "grants"} \cup scopes

reached(c, steps) == c.step \in steps \/ validates(c)
scope_of(c) == IF validates(c) THEN c.use.scope ELSE c.scope
read_by(c)  == IF validates(c) THEN c.use.rows ELSE c.rows

\* Two transactions hold one lock only if they may share it.
LockInv ==
    \A t, u \in Transactions : t # u =>
        \A l \in held[t] \cap held[u] : shares(t, u, l)

\* On SQLite the transaction holds the database, for every lock of PostgreSQL's.
holds(t, l) == dialect = "sqlite" \/ l \in held[t]

\* What a writer has locked by the time it writes a membership.
WriterHas(w) ==
    LET c == call[w]
    IN  /\ c.step = "row" => held[w] = {}
        /\ c.step \in {"trigger", "write"} /\ dialect = "sqlite" => Database \in held[w]
        /\ /\ c.step \in {"trigger", "write"} /\ c.table = "member"
           /\ Lock("member", c.id) \in held[w]
           => members[c.id] # Absent
        /\ c.step = "write" /\ c.table = "member" =>
             /\ holds(w, Lock("identity", c.row.subject))
             /\ Lock("member", c.id) \in held[w] =>
                  holds(w, Lock("identity", members[c.id].subject))

WriterInv == \A w \in Writers : WriterHas(w)

GuardHeld(r) == (IF dialect = "sqlite" THEN Database ELSE Guard) \in held[r]

MemberHeld(r, org, m) ==
    /\ m \in rows_of(members) /\ members[m].org = org /\ permitted(members[m].role)
    /\ holds(r, Key("member", m))

ScopeHeld(r, s) ==
    /\ MemberHeld(r, s.org, s.member)
    /\ s.authority = authority(s.member)
    /\ \A g \in grants_of(grants, s.member) : holds(r, Lock("grant", g))

EngagementsHeld(r, s) == \A e \in s.engagement_ids : holds(r, Lock("engagement", e))

VendorsHeld(r, s) ==
    \A e \in s.engagement_ids :
        vendors[engagements[e]] = s.org => holds(r, Lock("vendor", engagements[e]))

\* The windows of the rows read, when they were last held against the clock.
DecidedOn(s, now) ==
    LET ms == s.authority[1]
        gs == s.authority[2]
    IN  /\ {m \in DOMAIN ms : current(ms[m], now)} = {s.member}
        /\ {gs[g].engagement : g \in {h \in DOMAIN gs : current(gs[h], now)}}
             = s.engagement_ids

\* What a scoped read that is at c has read is locked, so it is still what is there.
Frozen(r, c) ==
    LET s == scope_of(c)
    IN  /\ reached(c, begun) => GuardHeld(r)
        /\ c.step = "grants" => MemberHeld(r, c.org, c.member)
        /\ reached(c, scopes) => ScopeHeld(r, s)
        /\ reached(c, contains) => holds(r, Key("organization", s.org))
        /\ reached(c, derives) => EngagementsHeld(r, s)
        /\ reached(c, relates) => VendorsHeld(r, s)
        /\ reached(c, projects) =>
             read_by(c) = projection(s.org, s.engagement_ids, engagements, vendors)
        /\ c.step = "commit" => DecidedOn(s, c.decided)

ReadInv == \A r \in Readers : Frozen(r, call[r])

\* The preflight works by earlier clock readings; its metadata, while it may be
\* used, expires within Minute of a moment the engagement was entitled.
Timely(c) ==
    /\ c.step \in identifying /\ c.use.for \in {"preflight", "authorize"} => c.use.now <= clock
    /\ c.step \in {"member", "join"} => c.now <= clock
    /\ c.step = "metadata" /\ clock < c.expires =>
         c.expires <= last_entitled[c.engagement] + Minute

MetadataInv ==
    /\ \A e \in Engagements : last_entitled[e] \in Int /\ last_entitled[e] <= clock
    /\ \A r \in Readers : Timely(call[r])
    /\ \A i \in issued :
         i.expires \in Int
           /\ (clock < i.expires => i.expires <= last_entitled[i.engagement] + Minute)

-----------------------------------------------------------------------------
(* Locks *)

LEMMA LockNames ==
    ASSUME NEW a, NEW i, NEW b, NEW j
    PROVE  /\ Lock(a, i) = Lock(b, j) <=> a = b /\ i = j
           /\ Key(a, i) = Key(b, j) <=> a = b /\ i = j
           /\ Lock(a, i) # Key(b, j)
           /\ Lock(a, i)[3] = "row" /\ Key(a, i)[3] = "key"
           /\ Lock(a, i)[1] = a /\ Lock(a, i)[2] = i
  BY DEF Lock, Key

LEMMA NotBoth ==
    ASSUME NEW t \in Readers, NEW u \in Writers
    PROVE  t \in Transactions /\ u \in Transactions /\ t # u /\ t \notin Writers /\ u \notin Readers
  BY TransactionsAssumption DEF Transactions

\* What every step leaves to the others.
Others(t) ==
    /\ \A u \in Transactions \ {t} : call'[u] = call[u] /\ held'[u] = held[u]
    /\ DOMAIN call' = DOMAIN call /\ DOMAIN held' = DOMAIN held

\* A transaction ends, takes locks that are free, or leaves its locks alone.
LocksOf(t) ==
    \/ held'[t] = {} /\ call'[t] = Idle
    \/ held'[t] = held[t]
    \/ \E wanted : held'[t] = held[t] \cup wanted /\ free(t, wanted)

ReaderStep(r) ==
    scoped_read(r) \/ (\E e \in Engagements : preflight_evidence_read(r, e)) \/ runs(r) \/ fail(r)

WriterStep(w) ==
    (\E c \in Statements : statement(w, c)) \/ lock_row(w) \/ trigger(w) \/ write(w) \/ roll_back(w)

LEMMA Steps ==
    Step <=> \/ \E r \in Readers : ReaderStep(r)
             \/ \E w \in Writers : WriterStep(w)
             \/ tick \/ end_session
  BY DEF Step, ReaderStep, WriterStep

Typed == DOMAIN call = Transactions /\ held \in [Transactions -> SUBSET Locks]

LEMMA ReaderSteps ==
    ASSUME Typed, NEW r \in Readers, ReaderStep(r)
    PROVE  UNCHANGED <<session, tables, writes>> /\ Others(r) /\ LocksOf(r)
  <1>. r \in Transactions
    BY DEF Transactions
  <1>1. ASSUME NEW c, goes(r, c), UNCHANGED held  PROVE Others(r) /\ LocksOf(r)
    BY <1>1 DEF goes, Others, LocksOf, Typed
  <1>2. ASSUME ends(r)  PROVE Others(r) /\ LocksOf(r)
    BY <1>2 DEF ends, goes, Others, LocksOf, Typed
  <1>3. ASSUME NEW c, NEW wanted, free(r, wanted), take(r, wanted, c)  PROVE Others(r) /\ LocksOf(r)
    BY <1>3 DEF take, goes, Others, LocksOf, Typed
  <1>4. CASE scoped_read(r) \/ \E e \in Engagements : preflight_evidence_read(r, e)
    BY <1>1, <1>4 DEF scoped_read, preflight_evidence_read
  <1>5. CASE authenticate(r) \/ find_memberships(r)
    BY <1>1, <1>2, <1>5 DEF authenticate, find_memberships, proceeds
  <1>6. CASE reauthenticate(r)
    BY <1>1, <1>2, <1>6 DEF reauthenticate
  <1>7. CASE begin(r)
    <2>1. free(r, {Guard}) \/ dialect = "sqlite"
      BY <1>7 DEF begin, guard_free
    <2>. QED  BY <1>3, <1>7, <2>1 DEF begin
  <1>8. CASE lock_members(r)
    BY <1>2, <1>3, <1>8 DEF lock_members
  <1>9. CASE lock_grants(r)
    BY <1>2, <1>3, <1>9 DEF lock_grants
  <1>10. CASE lock_organization(r) \/ lock_engagements(r) \/ lock_vendors(r)
    BY <1>3, <1>10 DEF lock_organization, lock_engagements, lock_vendors
  <1>11. CASE project(r) \/ compare(r) \/ count(r)
    BY <1>1, <1>2, <1>11 DEF project, compare, count, proceeds
  <1>12. CASE validate(r) \/ issue(r) \/ commit(r)
    BY <1>1, <1>2, <1>12 DEF validate, issue, commit, proceeds
  <1>13. CASE lock_timeout(r) \/ fail(r)
    BY <1>2, <1>13 DEF lock_timeout, fail
  <1>14. CASE find_role(r)
    BY <1>1, <1>2, <1>14 DEF find_role
  <1>15. CASE join(r)
    BY <1>1, <1>2, <1>15 DEF join
  <1>16. CASE issue_metadata(r)
    BY <1>2, <1>16 DEF issue_metadata
  <1>. QED
    BY <1>4, <1>5, <1>6, <1>7, <1>8, <1>9, <1>10, <1>11, <1>12, <1>13, <1>14, <1>15, <1>16
       DEF ReaderStep, runs

LEMMA WriterSteps ==
    ASSUME Typed, NEW w \in Writers, WriterStep(w)
    PROVE  /\ UNCHANGED <<session, issued>> /\ Others(w) /\ LocksOf(w)
           /\ ~write(w) => UNCHANGED <<tables, writes>>
           /\ write(w) => call'[w] = Idle /\ held'[w] = {}
  <1>. w \in Transactions
    BY DEF Transactions
  <1>1. ASSUME NEW c, goes(w, c), UNCHANGED held  PROVE Others(w) /\ LocksOf(w)
    BY <1>1 DEF goes, Others, LocksOf, Typed
  <1>2. ASSUME ends(w)
        PROVE  Others(w) /\ LocksOf(w) /\ call'[w] = Idle /\ held'[w] = {}
    BY <1>2 DEF ends, goes, Others, LocksOf, Typed
  <1>3. ASSUME NEW c, NEW wanted, free(w, wanted), take(w, wanted, c)
        PROVE  Others(w) /\ LocksOf(w)
    BY <1>3 DEF take, goes, Others, LocksOf, Typed
  <1>4. CASE \E c \in Statements : statement(w, c)
    <2>1. ~write(w)
      BY <1>4 DEF statement, write, at, Idle
    <2>. QED  BY <1>1, <1>4, <2>1 DEF statement
  <1>5. CASE lock_row(w)
    <2>1. ~write(w)
      BY <1>5 DEF lock_row, write, at
    <2>. QED  BY <1>3, <1>5, <2>1 DEF lock_row
  <1>6. CASE trigger(w)
    <2>1. ~write(w)
      BY <1>6 DEF trigger, write, at
    <2>. QED  BY <1>3, <1>6, <2>1 DEF trigger
  <1>7. CASE write(w)
    BY <1>2, <1>7 DEF write
  <1>8. CASE roll_back(w)
    BY <1>2, <1>8 DEF roll_back
  <1>. QED
    BY <1>4, <1>5, <1>6, <1>7, <1>8 DEF WriterStep

LEMMA OtherSteps ==
    ASSUME tick \/ end_session
    PROVE  UNCHANGED <<dialect, tables, held, call, issued, writes>>
  BY DEF tick, end_session

LEMMA LockInvStep ==
    ASSUME LockInv, Typed, NEW t \in Transactions, Others(t), LocksOf(t), UNCHANGED dialect
    PROVE  LockInv'
  <1>1. ASSUME NEW u \in Transactions, NEW v \in Transactions, u # v, NEW l, l \in held'[u], l \in held'[v]
        PROVE  shares(u, v, l)
    <2>1. CASE u # t /\ v # t
      BY <1>1, <2>1 DEF LockInv, Others
    <2>2. ASSUME NEW x \in Transactions, x # t, l \in held'[x], l \in held'[t]
          PROVE  shares(t, x, l)
      <3>1. l \in held[x]
        BY <2>2 DEF Others
      <3>. QED  BY <2>2, <3>1 DEF LockInv, LocksOf, free
    <2>3. \A x \in Transactions : shares(t, x, l) <=> shares(x, t, l)
      BY DEF shares
    <2>. QED  BY <1>1, <2>1, <2>2, <2>3
  <1>. QED  BY <1>1 DEF LockInv, shares, Guard, Lock

LEMMA LockInvNext ==
    ASSUME LockInv, Typed, Step
    PROVE  LockInv'
  <1>1. ASSUME NEW r \in Readers, ReaderStep(r)  PROVE LockInv'
    BY <1>1, ReaderSteps, LockInvStep DEF session, Transactions
  <1>2. ASSUME NEW w \in Writers, WriterStep(w)  PROVE LockInv'
    BY <1>2, WriterSteps, LockInvStep DEF session, Transactions
  <1>3. ASSUME tick \/ end_session  PROVE LockInv'
    BY <1>3, OtherSteps DEF LockInv, shares, Guard, Lock
  <1>. QED  BY <1>1, <1>2, <1>3, Steps

\* A reader and a writer hold no lock together.
LEMMA Exclusive ==
    ASSUME LockInv, NEW r \in Readers, NEW w \in Writers
    PROVE  held[r] \cap held[w] = {}
  BY NotBoth DEF LockInv, shares

-----------------------------------------------------------------------------
(* Types *)

LEMMA LockTypes ==
    /\ Database \in Locks
    /\ \A s \in Subjects : Lock("identity", s) \in Locks
    /\ \A m \in Members : Lock("member", m) \in Locks /\ Key("member", m) \in Locks
    /\ \A g \in Grants : Lock("grant", g) \in Locks /\ Key("grant", g) \in Locks
    /\ \A e \in Engagements : Lock("engagement", e) \in Locks /\ Key("engagement", e) \in Locks
    /\ \A v \in Vendors : Lock("vendor", v) \in Locks /\ Key("vendor", v) \in Locks
    /\ \A o \in Orgs : Lock("organization", o) \in Locks /\ Key("organization", o) \in Locks
  <1>1. \A t \in DOMAIN Ids : \A i \in Ids[t] : Lock(t, i) \in Locks /\ Key(t, i) \in Locks
    BY DEF Locks
  <1>2. /\ DOMAIN Ids = {"member", "grant", "engagement", "vendor", "organization"}
        /\ Ids["member"] = Members /\ Ids["grant"] = Grants /\ Ids["engagement"] = Engagements
        /\ Ids["vendor"] = Vendors /\ Ids["organization"] = Orgs
    BY DEF Ids
  <1>3. Database \in Locks /\ \A s \in Subjects : Lock("identity", s) \in Locks
    BY DEF Locks
  <1>. QED  BY <1>1, <1>2, <1>3

\* A statement FOR UPDATE of rows of one table.
LEMMA ForUpdateTypes ==
    ASSUME NEW t, NEW S, \A i \in S : Lock(t, i) \in Locks /\ Key(t, i) \in Locks
    PROVE  for_update({Lock(t, i) : i \in S}) \subseteq Locks
  <1>1. ASSUME NEW i \in S  PROVE Key(Lock(t, i)[1], Lock(t, i)[2]) \in Locks
    BY <1>1, LockNames
  <1>. QED  BY <1>1 DEF for_update

LEMMA ReadCallFields ==
    ASSUME NEW c, c \in ReadCalls
    PROVE  /\ c.step = "authenticate" => c \in [step : {"authenticate"}, use : Uses]
           /\ c.step = "memberships" => c \in [step : {"memberships"}, use : Uses, now : Times]
           /\ c.step = "reauthenticate" =>
                c \in [step : {"reauthenticate"}, use : Uses, found : SUBSET MemberTable]
           /\ c.step \in {"begin", "members"} => c \in [step : {"begin", "members"}, org : Orgs]
           /\ c.step = "grants" => c \in [step : {"grants"}, org : Orgs, member : Members]
           /\ c.step \in {"organization", "engagements"} =>
                c \in [step : {"organization", "engagements"}, scope : Scopes]
           /\ c.step = "vendors" =>
                c \in [step : {"vendors"}, scope : Scopes, links : Snapshots(Engagements, Vendors)]
           /\ c.step = "project" => c \in [step : {"project"}, scope : RelatedScopes]
           /\ c.step \in {"compare", "validate", "issue"} =>
                c \in [step : {"compare", "validate", "issue"}, scope : RelatedScopes,
                       rows : Projections]
           /\ c.step = "commit" =>
                c \in [step : {"commit"}, scope : RelatedScopes, rows : Projections,
                       decided : Times]
           /\ c.step = "member" =>
                c \in [step : {"member"}, org : Orgs, engagement : Engagements, now : Times]
           /\ c.step = "join" =>
                c \in [step : {"join"}, org : Orgs, role : Roles, engagement : Engagements,
                       now : Times]
           /\ c.step = "metadata" =>
                c \in [step : {"metadata"}, engagement : Engagements, expires : Expiries]
           /\ c.step \in {"idle"} \cup identifying \cup begun
                           \cup {"begin", "member", "join", "metadata"}
  <1>1. CASE c = Idle
    BY <1>1 DEF Idle
  <1>2. CASE c \in [step : {"authenticate"}, use : Uses]
    BY <1>2 DEF identifying
  <1>3. CASE c \in [step : {"memberships"}, use : Uses, now : Times]
    BY <1>3 DEF identifying
  <1>4. CASE c \in [step : {"reauthenticate"}, use : Uses, found : SUBSET MemberTable]
    BY <1>4 DEF identifying
  <1>5. CASE c \in [step : {"begin", "members"}, org : Orgs]
    BY <1>5 DEF begun
  <1>6. CASE c \in [step : {"grants"}, org : Orgs, member : Members]
    BY <1>6 DEF begun
  <1>7. CASE c \in [step : {"organization", "engagements"}, scope : Scopes]
    BY <1>7 DEF begun, scopes, contains
  <1>8. CASE c \in [step : {"vendors"}, scope : Scopes, links : Snapshots(Engagements, Vendors)]
    BY <1>8 DEF begun, scopes, contains, derives
  <1>9. CASE c \in [step : {"project"}, scope : RelatedScopes]
    BY <1>9 DEF begun, scopes, contains, derives, relates
  <1>10. CASE c \in [step : {"compare", "validate", "issue"}, scope : RelatedScopes,
                     rows : Projections]
    BY <1>10 DEF begun, scopes, contains, derives, relates, projects
  <1>11. CASE c \in [step : {"commit"}, scope : RelatedScopes, rows : Projections,
                     decided : Times]
    BY <1>11 DEF begun, scopes, contains, derives, relates, projects
  <1>12. CASE c \in [step : {"member"}, org : Orgs, engagement : Engagements, now : Times]
    BY <1>12
  <1>13. CASE c \in [step : {"join"}, org : Orgs, role : Roles, engagement : Engagements,
                     now : Times]
    BY <1>13
  <1>14. CASE c \in [step : {"metadata"}, engagement : Engagements, expires : Expiries]
    BY <1>14
  <1>. QED
    BY <1>1, <1>2, <1>3, <1>4, <1>5, <1>6, <1>7, <1>8, <1>9, <1>10, <1>11, <1>12, <1>13, <1>14
       DEF ReadCalls

LEMMA UseFields ==
    ASSUME NEW u, u \in Uses
    PROVE  /\ u.for = "validate" => u.scope \in RelatedScopes /\ u.rows \in Projections
           /\ u.for = "preflight" => u.engagement \in Engagements /\ u.now \in Times
           /\ u.for = "authorize" =>
                /\ u.org \in Orgs /\ u.role \in Roles
                /\ u.engagement \in Engagements /\ u.now \in Times
           /\ u.for \in {"scope", "validate", "preflight", "authorize"}
  <1>1. CASE u \in [for : {"scope"}]
    BY <1>1
  <1>2. CASE u \in [for : {"validate"}, scope : RelatedScopes, rows : Projections]
    BY <1>2
  <1>3. CASE u \in [for : {"preflight"}, engagement : Engagements, now : Times]
    BY <1>3
  <1>4. CASE u \in [for : {"authorize"}, org : Orgs, role : Roles, engagement : Engagements,
                    now : Times]
    BY <1>4
  <1>. QED  BY <1>1, <1>2, <1>3, <1>4 DEF Uses

\* The calls the steps make.
LEMMA ReadCallTypes ==
    /\ Idle \in ReadCalls
    /\ \A u \in Uses : [step |-> "authenticate", use |-> u] \in ReadCalls
    /\ \A u \in Uses, n \in Times : [step |-> "memberships", use |-> u, now |-> n] \in ReadCalls
    /\ \A u \in Uses, f \in SUBSET MemberTable :
         [step |-> "reauthenticate", use |-> u, found |-> f] \in ReadCalls
    /\ \A p \in {"begin", "members"}, o \in Orgs : [step |-> p, org |-> o] \in ReadCalls
    /\ \A o \in Orgs, m \in Members : [step |-> "grants", org |-> o, member |-> m] \in ReadCalls
    /\ \A p \in {"organization", "engagements"}, s \in Scopes :
         [step |-> p, scope |-> s] \in ReadCalls
    /\ \A s \in Scopes, k \in Snapshots(Engagements, Vendors) :
         [step |-> "vendors", scope |-> s, links |-> k] \in ReadCalls
    /\ \A s \in RelatedScopes : [step |-> "project", scope |-> s] \in ReadCalls
    /\ \A p \in {"compare", "validate", "issue"}, s \in RelatedScopes, k \in Projections :
         [step |-> p, scope |-> s, rows |-> k] \in ReadCalls
    /\ \A s \in RelatedScopes, k \in Projections, n \in Times :
         [step |-> "commit", scope |-> s, rows |-> k, decided |-> n] \in ReadCalls
    /\ \A o \in Orgs, e \in Engagements, n \in Times :
         [step |-> "member", org |-> o, engagement |-> e, now |-> n] \in ReadCalls
    /\ \A o \in Orgs, p \in Roles, e \in Engagements, n \in Times :
         [step |-> "join", org |-> o, role |-> p, engagement |-> e, now |-> n] \in ReadCalls
    /\ \A e \in Engagements, x \in Expiries :
         [step |-> "metadata", engagement |-> e, expires |-> x] \in ReadCalls
  BY DEF ReadCalls

LEMMA UseTypes ==
    /\ [for |-> "scope"] \in Uses
    /\ \A s \in RelatedScopes, k \in Projections :
         [for |-> "validate", scope |-> s, rows |-> k] \in Uses
    /\ \A e \in Engagements, n \in Times :
         [for |-> "preflight", engagement |-> e, now |-> n] \in Uses
    /\ \A o \in Orgs, p \in Roles, e \in Engagements, n \in Times :
         [for |-> "authorize", org |-> o, role |-> p, engagement |-> e, now |-> n] \in Uses
  BY DEF Uses

\* Rows: what TypeOK says of the tables.
Stored ==
    /\ members \in [Members -> MemberTable \cup {Absent}]
    /\ grants \in [Grants -> GrantTable \cup {Absent}]
    /\ engagements \in [Engagements -> Vendors]
    /\ vendors \in [Vendors -> Orgs \cup {Absent}]

LEMMA RowTypes ==
    ASSUME Stored
    PROVE  /\ \A m \in Members : members[m] # Absent => members[m] \in MemberTable
           /\ \A g \in Grants : grants[g] # Absent => grants[g] \in GrantTable
           /\ \A x \in MemberTable : x # Absent /\ x.subject \in Subjects /\ x.org \in Orgs
                                     /\ x.role \in Roles /\ x.until \in Times /\ x.until \in Int
           /\ \A x \in GrantTable : x # Absent /\ x.member \in Members
                                    /\ x.engagement \in Engagements
                                    /\ x.until \in Times /\ x.until \in Int
  BY AbsentAssumption, TimesAssumption DEF Stored, MemberTable, GrantTable

LEMMA AuthorityTypes ==
    ASSUME Stored, NEW m
    PROVE  /\ rows_of(members) \subseteq Members /\ grants_of(grants, m) \subseteq Grants
           /\ authority(m) \in Snapshots(Members, MemberTable) \X Snapshots(Grants, GrantTable)
  <1>1. rows_of(members) \subseteq Members /\ grants_of(grants, m) \subseteq Grants
    BY DEF rows_of, grants_of
  <1>2. Restrict(members, rows_of(members)) \in [rows_of(members) -> MemberTable]
    BY RowTypes DEF Restrict, rows_of
  <1>3. Restrict(grants, grants_of(grants, m)) \in [grants_of(grants, m) -> GrantTable]
    BY RowTypes DEF Restrict, grants_of
  <1>4. /\ Restrict(members, rows_of(members)) \in Snapshots(Members, MemberTable)
        /\ Restrict(grants, grants_of(grants, m)) \in Snapshots(Grants, GrantTable)
    BY <1>1, <1>2, <1>3 DEF Snapshots
  <1>. QED  BY <1>1, <1>4 DEF authority

LEMMA EntitledTypes ==
    ASSUME Stored, NEW m, NEW now
    PROVE  entitled(grants, m, now) \in SUBSET Engagements
  BY RowTypes DEF entitled, grants_of

LEMMA RelationTypes ==
    ASSUME Stored, NEW org, NEW S, S \in SUBSET Engagements
    PROVE  /\ Restrict(engagements, S) \in Snapshots(Engagements, Vendors)
           /\ linked(org, Restrict(engagements, S)) \in SUBSET Vendors
           /\ projection(org, S, engagements, vendors) \in Projections
  <1>1. Restrict(engagements, S) \in [S -> Vendors]
    BY DEF Stored, Restrict
  <1>2. Restrict(engagements, S) \in Snapshots(Engagements, Vendors)
    BY <1>1 DEF Snapshots
  <1>3. linked(org, Restrict(engagements, S)) \in SUBSET Vendors
    BY <1>1 DEF linked
  <1>4. projection(org, S, engagements, vendors) \in Projections
    BY DEF projection, Projections, Stored
  <1>. QED  BY <1>2, <1>3, <1>4

LEMMA EarliestOfFour ==
    ASSUME NEW a \in Int, NEW b \in Int, NEW c \in Int, NEW d \in Int
    PROVE  /\ earliest({a, b, c, d}) \in Int
           /\ earliest({a, b, c, d}) <= a /\ earliest({a, b, c, d}) <= b
           /\ earliest({a, b, c, d}) <= c /\ earliest({a, b, c, d}) <= d
  <1>1. \E t \in {a, b, c, d} : \A u \in {a, b, c, d} : t <= u
    <2>1. \E t \in {a, b} : t <= a /\ t <= b
      OBVIOUS
    <2>2. \E t \in {c, d} : t <= c /\ t <= d
      OBVIOUS
    <2>3. PICK p \in {a, b} : p <= a /\ p <= b
      BY <2>1
    <2>4. PICK q \in {c, d} : q <= c /\ q <= d
      BY <2>2
    <2>5. CASE p <= q
      BY <2>3, <2>4, <2>5
    <2>6. CASE q <= p
      BY <2>3, <2>4, <2>6
    <2>. QED  BY <2>3, <2>4, <2>5, <2>6
  <1>2. /\ earliest({a, b, c, d}) \in {a, b, c, d}
        /\ \A u \in {a, b, c, d} : earliest({a, b, c, d}) <= u
    BY <1>1 DEF earliest
  <1>. QED  BY <1>2

LEMMA ExpiryTypes ==
    ASSUME Stored, NEW x \in MemberTable, NEW y \in GrantTable, NEW n \in Int
    PROVE  /\ expiry(x, y, n) \in Int /\ expiry(x, y, n) <= SessionEnd
           /\ expiry(x, y, n) <= x.until /\ expiry(x, y, n) <= y.until
           /\ expiry(x, y, n) <= n + Minute
  <1>1. SessionEnd \in Int /\ x.until \in Int /\ y.until \in Int /\ n + Minute \in Int
    BY RowTypes, ClockAssumption
  <1>. QED  BY <1>1, EarliestOfFour DEF expiry

LEMMA ReadCallStep ==
    ASSUME TypeOK, NEW r \in Readers, ReaderStep(r)
    PROVE  call'[r] \in ReadCalls
  <1>. r \in Transactions
    BY DEF Transactions
  <1>. Stored /\ DOMAIN call = Transactions /\ call[r] \in ReadCalls /\ clock \in Times
    BY DEF TypeOK, Stored
  <1>1. ASSUME NEW c, goes(r, c)  PROVE call'[r] = c
    BY <1>1 DEF goes
  <1>2. ASSUME ends(r)  PROVE call'[r] \in ReadCalls
    BY <1>1, <1>2, ReadCallTypes DEF ends
  <1>3. CASE scoped_read(r)
    BY <1>1, <1>3, ReadCallTypes, UseTypes DEF scoped_read, identify
  <1>4. CASE \E e \in Engagements : preflight_evidence_read(r, e)
    BY <1>1, <1>4, ReadCallTypes, UseTypes DEF preflight_evidence_read, identify
  <1>5. CASE authenticate(r)
    <2>1. call[r].use \in Uses
      BY <1>5, ReadCallFields DEF authenticate, at
    <2>. QED  BY <1>1, <1>2, <1>5, <2>1, ReadCallTypes DEF authenticate, proceeds
  <1>6. CASE find_memberships(r)
    <2>1. call[r].use \in Uses
      BY <1>6, ReadCallFields DEF find_memberships, at
    <2>2. {members[m] : m \in current_members(members, call[r].now)} \in SUBSET MemberTable
      BY RowTypes DEF current_members, rows_of
    <2>. QED  BY <1>1, <1>6, <2>1, <2>2, ReadCallTypes DEF find_memberships
  <1>7. CASE reauthenticate(r)
    <2>1. call[r].use \in Uses /\ call[r].found \in SUBSET MemberTable
      BY <1>7, ReadCallFields DEF reauthenticate, at
    <2>. DEFINE org == (CHOOSE row \in call[r].found : TRUE).org
    <2>2. CASE identified(call[r].found) /\ same_identity(call[r].use, org)
      <3>1. call'[r] = continues(call[r].use, org)
        BY <1>1, <1>7, <2>2 DEF reauthenticate
      <3>2. (CHOOSE row \in call[r].found : TRUE) \in MemberTable
        BY <2>1, <2>2 DEF identified
      <3>3. org \in Orgs
        BY <3>2, RowTypes
      <3>. HIDE DEF org
      <3>4. CASE call[r].use.for = "scope"
        BY <3>1, <3>3, <3>4, ReadCallTypes DEF continues
      <3>5. CASE call[r].use.for = "validate"
        BY <2>1, <3>1, <3>5, UseFields, ReadCallTypes DEF continues
      <3>6. CASE call[r].use.for = "preflight"
        BY <2>1, <3>1, <3>3, <3>6, UseFields, ReadCallTypes DEF continues
      <3>7. CASE call[r].use.for = "authorize"
        BY <2>1, <3>1, <3>3, <3>7, UseFields, ReadCallTypes DEF continues
      <3>. QED  BY <2>1, <3>4, <3>5, <3>6, <3>7, UseFields
    <2>3. CASE ~(identified(call[r].found) /\ same_identity(call[r].use, org))
      BY <1>2, <1>7, <2>3 DEF reauthenticate
    <2>. QED  BY <2>2, <2>3
  <1>8. CASE begin(r)
    <2>1. call[r].org \in Orgs
      BY <1>8, ReadCallFields DEF begin, at
    <2>. QED  BY <1>1, <1>8, <2>1, ReadCallTypes DEF begin, take
  <1>9. CASE lock_members(r)
    <2>1. call[r].org \in Orgs
      BY <1>9, ReadCallFields DEF lock_members, at
    <2>2. current_members(members, clock) \subseteq Members
      BY DEF current_members, rows_of
    <2>. QED  BY <1>1, <1>2, <1>9, <2>1, <2>2, ReadCallTypes DEF lock_members, take
  <1>10. CASE lock_grants(r)
    <2>1. call[r].org \in Orgs /\ call[r].member \in Members
      BY <1>10, ReadCallFields DEF lock_grants, at
    <2>. DEFINE s == [org |-> call[r].org, member |-> call[r].member,
                      engagement_ids |-> entitled(grants, call[r].member, clock),
                      authority |-> authority(call[r].member)]
    <2>2. s \in Scopes
      BY <2>1, AuthorityTypes, EntitledTypes DEF Scopes
    <2>3. call'[r] = [step |-> "organization", scope |-> s] \/ ends(r)
      BY <1>1, <1>10 DEF lock_grants, take
    <2>. HIDE DEF s
    <2>. QED  BY <1>2, <2>2, <2>3, ReadCallTypes
  <1>11. CASE lock_organization(r)
    <2>1. call[r].scope \in Scopes
      BY <1>11, ReadCallFields DEF lock_organization, at
    <2>. QED  BY <1>1, <1>11, <2>1, ReadCallTypes DEF lock_organization, take
  <1>12. CASE lock_engagements(r)
    <2>1. call[r].scope \in Scopes
      BY <1>12, ReadCallFields DEF lock_engagements, at
    <2>2. call[r].scope.engagement_ids \in SUBSET Engagements
      BY <2>1 DEF Scopes
    <2>3. Restrict(engagements, call[r].scope.engagement_ids) \in Snapshots(Engagements, Vendors)
      BY <2>2, RelationTypes
    <2>. QED  BY <1>1, <1>12, <2>1, <2>3, ReadCallTypes DEF lock_engagements, take
  <1>13. CASE lock_vendors(r)
    <2>. DEFINE s == call[r].scope
                links == Restrict(engagements, s.engagement_ids)
                related == [org |-> s.org, member |-> s.member, authority |-> s.authority,
                            engagement_ids |-> s.engagement_ids,
                            relationships |-> <<call[r].links, linked(s.org, links)>>]
    <2>1. s \in Scopes /\ call[r].links \in Snapshots(Engagements, Vendors)
      BY <1>13, ReadCallFields DEF lock_vendors, at
    <2>2. /\ s.org \in Orgs /\ s.member \in Members /\ s.engagement_ids \in SUBSET Engagements
          /\ s.authority \in Snapshots(Members, MemberTable) \X Snapshots(Grants, GrantTable)
      BY <2>1 DEF Scopes
    <2>3. linked(s.org, links) \in SUBSET Vendors
      BY <2>2, RelationTypes
    <2>4. call'[r] = [step |-> "project", scope |-> related]
      BY <1>1, <1>13 DEF lock_vendors, take
    <2>5. <<call[r].links, linked(s.org, links)>> \in Snapshots(Engagements, Vendors) \X SUBSET Vendors
      BY <2>1, <2>3
    <2>6. related \in RelatedScopes
      BY <2>2, <2>5 DEF RelatedScopes
    <2>. HIDE DEF related
    <2>. QED  BY <2>4, <2>6, ReadCallTypes
  <1>14. CASE project(r)
    <2>1. call[r].scope \in RelatedScopes
      BY <1>14, ReadCallFields DEF project, at
    <2>2. call[r].scope.engagement_ids \in SUBSET Engagements
      BY <2>1 DEF RelatedScopes
    <2>3. projected(call[r]) \in Projections
      BY <2>2, RelationTypes DEF projected
    <2>. QED  BY <1>1, <1>14, <2>1, <2>3, ReadCallTypes DEF project
  <1>20. CASE count(r)
    <2>1. call[r].scope \in RelatedScopes
      BY <1>20, ReadCallFields DEF count, at
    <2>2. call[r].scope.engagement_ids \in SUBSET Engagements
      BY <2>1 DEF RelatedScopes
    <2>3. projected(call[r]) \in Projections
      BY <2>2, RelationTypes DEF projected
    <2>. QED  BY <1>1, <1>20, <2>1, <2>3, ReadCallTypes, UseTypes DEF count, identify
  <1>15. CASE compare(r)
    <2>1. call[r].scope \in RelatedScopes /\ call[r].rows \in Projections
      BY <1>15, ReadCallFields DEF compare, at
    <2>. QED  BY <1>1, <1>2, <1>15, <2>1, ReadCallTypes, UseTypes DEF compare, proceeds, identify
  <1>16. CASE validate(r) \/ issue(r)
    <2>1. call[r].scope \in RelatedScopes /\ call[r].rows \in Projections
      BY <1>16, ReadCallFields DEF validate, issue, at
    <2>. QED  BY <1>1, <1>2, <1>16, <2>1, ReadCallTypes DEF validate, issue, proceeds
  <1>17. CASE commit(r) \/ lock_timeout(r) \/ fail(r) \/ issue_metadata(r)
    BY <1>2, <1>17 DEF commit, lock_timeout, fail, issue_metadata
  <1>18. CASE find_role(r)
    <2>1. call[r].org \in Orgs /\ call[r].engagement \in Engagements
      BY <1>18, ReadCallFields DEF find_role, at
    <2>2. \A m \in rows_of(members) : members[m].role \in Roles
      BY RowTypes DEF rows_of
    <2>3. \/ ends(r)
          \/ \E p \in Roles :
               call'[r] = identify([for |-> "authorize", org |-> call[r].org, role |-> p,
                                    engagement |-> call[r].engagement, now |-> clock])
      <3>1. ASSUME NEW m \in rows_of(members),
                   goes(r, identify([for |-> "authorize", org |-> call[r].org,
                                     role |-> members[m].role,
                                     engagement |-> call[r].engagement, now |-> clock]))
            PROVE  \E p \in Roles :
                      call'[r] = identify([for |-> "authorize", org |-> call[r].org, role |-> p,
                                           engagement |-> call[r].engagement, now |-> clock])
        BY <1>1, <2>2, <3>1
      <3>. QED  BY <1>18, <3>1 DEF find_role
    <2>. QED  BY <1>2, <2>1, <2>3, ReadCallTypes, UseTypes DEF identify
  <1>19. CASE join(r)
    <2>1. call[r].engagement \in Engagements /\ call[r].now \in Times
      BY <1>19, ReadCallFields DEF join, at
    <2>2. ASSUME NEW p \in authorizing(call[r])
          PROVE  expiry(members[p[1]], grants[p[2]], call[r].now) \in Expiries
      <3>1. members[p[1]] \in MemberTable /\ grants[p[2]] \in GrantTable
        BY <2>2, RowTypes DEF authorizing
      <3>. QED  BY <2>1, <3>1, ExpiryTypes, TimesAssumption DEF Expiries
    <2>. QED  BY <1>1, <1>2, <1>19, <2>1, <2>2, ReadCallTypes DEF join
  <1>. QED
    BY <1>3, <1>4, <1>5, <1>6, <1>7, <1>8, <1>9, <1>10, <1>11, <1>12, <1>13, <1>14, <1>15,
       <1>16, <1>17, <1>18, <1>19, <1>20 DEF ReaderStep, runs

LEMMA ReaderLocksStep ==
    ASSUME TypeOK, NEW r \in Readers, ReaderStep(r)
    PROVE  held' \in [Transactions -> SUBSET Locks] /\ (call'[r] = Idle => held'[r] = {})
  <1>. r \in Transactions
    BY DEF Transactions
  <1>. /\ Stored /\ DOMAIN call = Transactions /\ call[r] \in ReadCalls
       /\ held \in [Transactions -> SUBSET Locks]
    BY DEF TypeOK, Stored
  <1>. DEFINE Good == held' \in [Transactions -> SUBSET Locks] /\ (call'[r] = Idle => held'[r] = {})
  <1>1. ASSUME NEW c, goes(r, c), c.step # "idle", UNCHANGED held  PROVE Good
    BY <1>1 DEF goes, Idle
  <1>2. ASSUME ends(r)  PROVE Good
    BY <1>2 DEF ends, goes
  <1>3. ASSUME NEW c, NEW wanted, take(r, wanted, c), c.step # "idle",
               wanted \subseteq Locks
        PROVE  Good
    BY <1>3 DEF take, goes, Idle
  <1>. SUFFICES Good
    OBVIOUS
  <1>. HIDE DEF Good
  <1>4. CASE scoped_read(r) \/ \E e \in Engagements : preflight_evidence_read(r, e)
    BY <1>1, <1>4 DEF scoped_read, preflight_evidence_read, identify
  <1>5. CASE authenticate(r) \/ find_memberships(r)
    BY <1>1, <1>2, <1>5 DEF authenticate, find_memberships, proceeds
  <1>6. CASE reauthenticate(r)
    <2>. DEFINE org == (CHOOSE row \in call[r].found : TRUE).org
                next == continues(call[r].use, org)
    <2>1. ends(r) \/ (goes(r, next) /\ UNCHANGED held)
      BY <1>6 DEF reauthenticate
    <2>2. call[r].use.for \in {"scope", "validate", "preflight", "authorize"}
      BY <1>6, ReadCallFields, UseFields DEF reauthenticate, at
    <2>. HIDE DEF org
    <2>3. next.step # "idle"
      BY <2>2 DEF continues
    <2>. HIDE DEF next
    <2>. QED  BY <1>1, <1>2, <2>1, <2>3
  <1>7. CASE begin(r)
    <2>1. {Guard} \subseteq Locks /\ {Database} \subseteq Locks
      BY LockTypes, SelfAssumption DEF Guard
    <2>. QED  BY <1>3, <1>7, <2>1 DEF begin
  <1>8. CASE lock_members(r)
    <2>1. for_update({Lock("member", m) : m \in rows_of(members)}) \subseteq Locks
      BY LockTypes, AuthorityTypes, ForUpdateTypes
    <2>. QED  BY <1>2, <1>3, <1>8, <2>1 DEF lock_members
  <1>9. CASE lock_grants(r)
    <2>1. for_update({Lock("grant", g) : g \in grants_of(grants, call[r].member)}) \subseteq Locks
      BY LockTypes, AuthorityTypes, ForUpdateTypes
    <2>. QED  BY <1>2, <1>3, <1>9, <2>1 DEF lock_grants
  <1>10. CASE lock_organization(r)
    <2>1. call[r].scope.org \in Orgs
      BY <1>10, ReadCallFields DEF lock_organization, at, Scopes
    <2>2. {Lock("organization", call[r].scope.org)} = {Lock("organization", o) : o \in {call[r].scope.org}}
      OBVIOUS
    <2>3. for_update({Lock("organization", call[r].scope.org)}) \subseteq Locks
      BY <2>1, <2>2, LockTypes, ForUpdateTypes
    <2>. QED  BY <1>3, <1>10, <2>3 DEF lock_organization
  <1>11. CASE lock_engagements(r)
    <2>1. call[r].scope.engagement_ids \in SUBSET Engagements
      BY <1>11, ReadCallFields DEF lock_engagements, at, Scopes
    <2>2. for_update({Lock("engagement", e) : e \in call[r].scope.engagement_ids}) \subseteq Locks
      BY <2>1, LockTypes, ForUpdateTypes
    <2>. QED  BY <1>3, <1>11, <2>2 DEF lock_engagements
  <1>12. CASE lock_vendors(r)
    <2>. DEFINE S == linked(call[r].scope.org, Restrict(engagements, call[r].scope.engagement_ids))
                wanted == for_update({Lock("vendor", v) : v \in S})
                related == [org |-> call[r].scope.org, member |-> call[r].scope.member,
                            authority |-> call[r].scope.authority,
                            engagement_ids |-> call[r].scope.engagement_ids,
                            relationships |-> <<call[r].links, S>>]
    <2>1. call[r].scope.engagement_ids \in SUBSET Engagements
      BY <1>12, ReadCallFields DEF lock_vendors, at, Scopes
    <2>2. S \subseteq Vendors
      BY <2>1, RelationTypes
    <2>3. take(r, wanted, [step |-> "project", scope |-> related])
      BY <1>12 DEF lock_vendors
    <2>. HIDE DEF S, related
    <2>4. wanted \subseteq Locks
      BY <2>2, LockTypes, ForUpdateTypes
    <2>. HIDE DEF wanted
    <2>. QED  BY <1>3, <2>3, <2>4
  <1>13. CASE project(r) \/ compare(r) \/ count(r)
    BY <1>1, <1>2, <1>13 DEF project, compare, count, proceeds, identify
  <1>14. CASE validate(r) \/ issue(r) \/ commit(r)
    BY <1>1, <1>2, <1>14 DEF validate, issue, commit, proceeds
  <1>15. CASE lock_timeout(r) \/ fail(r) \/ issue_metadata(r)
    BY <1>2, <1>15 DEF lock_timeout, fail, issue_metadata
  <1>16. CASE find_role(r)
    BY <1>1, <1>2, <1>16 DEF find_role, identify
  <1>17. CASE join(r)
    BY <1>1, <1>2, <1>17 DEF join
  <1>. QED
    BY <1>4, <1>5, <1>6, <1>7, <1>8, <1>9, <1>10, <1>11, <1>12, <1>13, <1>14, <1>15, <1>16,
       <1>17 DEF ReaderStep, runs

LEMMA WriteCallFields ==
    ASSUME NEW c, c \in WriteCalls
    PROVE  /\ c = Idle \/ c.step \in {"row", "trigger", "write"}
           /\ c # Idle =>
                /\ \/ c.table = "member" /\ c.id \in Members /\ c.row \in MemberRows
                   \/ c.table = "grant" /\ c.id \in Grants /\ c.row \in GrantRows
                   \/ c.table = "engagement" /\ c.id \in Engagements /\ c.row \in Vendors
                   \/ c.table = "vendor" /\ c.id \in Vendors /\ c.row \in Orgs \cup {Absent}
                /\ \A p \in {"row", "trigger", "write"} : [c EXCEPT !.step = p] \in WriteCalls
  <1>. SUFFICES ASSUME c # Idle
       PROVE  /\ c.step \in {"row", "trigger", "write"}
              /\ \/ c.table = "member" /\ c.id \in Members /\ c.row \in MemberRows
                 \/ c.table = "grant" /\ c.id \in Grants /\ c.row \in GrantRows
                 \/ c.table = "engagement" /\ c.id \in Engagements /\ c.row \in Vendors
                 \/ c.table = "vendor" /\ c.id \in Vendors /\ c.row \in Orgs \cup {Absent}
              /\ \A p \in {"row", "trigger", "write"} : [c EXCEPT !.step = p] \in WriteCalls
    OBVIOUS
  <1>1. PICK p \in {"row", "trigger", "write"}, d \in Statements :
          c = [step |-> p, table |-> d.table, id |-> d.id, row |-> d.row]
    BY DEF WriteCalls
  <1>2. \A q : [c EXCEPT !.step = q] = [step |-> q, table |-> d.table, id |-> d.id, row |-> d.row]
    BY <1>1
  <1>3. ASSUME NEW q \in {"row", "trigger", "write"}
        PROVE  [c EXCEPT !.step = q] \in WriteCalls
    <2>1. [step |-> q, table |-> d.table, id |-> d.id, row |-> d.row] \in WriteCalls
      BY DEF WriteCalls
    <2>. QED  BY <1>2, <2>1
  <1>4. c.step = p /\ c.table = d.table /\ c.id = d.id /\ c.row = d.row
    BY <1>1
  <1>5. \/ d.table = "member" /\ d.id \in Members /\ d.row \in MemberRows
        \/ d.table = "grant" /\ d.id \in Grants /\ d.row \in GrantRows
        \/ d.table = "engagement" /\ d.id \in Engagements /\ d.row \in Vendors
        \/ d.table = "vendor" /\ d.id \in Vendors /\ d.row \in Orgs \cup {Absent}
    BY DEF Statements
  <1>. QED  BY <1>1, <1>3, <1>4, <1>5

LEMMA RowLockTypes ==
    ASSUME Stored, NEW c \in WriteCalls, c # Idle
    PROVE  row_locks(c) \subseteq Locks /\ trigger_locks(c) \subseteq Locks
  <1>1. \/ c.table = "member" /\ c.id \in Members /\ c.row \in MemberTable
        \/ c.table = "grant" /\ c.id \in Grants /\ c.row \in GrantTable
        \/ c.table = "engagement" /\ c.id \in Engagements /\ c.row \in Vendors
        \/ c.table = "vendor" /\ c.id \in Vendors /\ c.row \in Orgs \cup {Absent}
    BY WriteCallFields, InitialAssumption
  <1>2. parents(c.table, c.row) \subseteq Locks
    <2>1. CASE c.table = "member"
      BY <1>1, <2>1, RowTypes, LockTypes DEF parents
    <2>2. CASE c.table = "grant"
      BY <1>1, <2>2, RowTypes, LockTypes DEF parents
    <2>3. CASE c.table = "engagement"
      BY <1>1, <2>3, LockTypes DEF parents
    <2>4. CASE c.table = "vendor"
      BY <1>1, <2>4, LockTypes DEF parents
    <2>. QED  BY <1>1, <2>1, <2>2, <2>3, <2>4
  <1>3. Lock(c.table, c.id) \in Locks
    BY <1>1, LockTypes
  <1>4. trigger_locks(c) \subseteq Locks
    <2>1. CASE c.table = "member"
      <3>1. Lock("identity", c.row.subject) \in Locks
        BY <1>1, <2>1, RowTypes, LockTypes
      <3>2. \A m \in Members : members[m] # Absent => Lock("identity", members[m].subject) \in Locks
        BY RowTypes, LockTypes
      <3>. QED  BY <3>1, <3>2 DEF trigger_locks
    <2>. QED  BY <2>1 DEF trigger_locks
  <1>. QED  BY <1>2, <1>3, <1>4 DEF row_locks

LEMMA WriterTypesStep ==
    ASSUME TypeOK, NEW w \in Writers, WriterStep(w)
    PROVE  /\ call'[w] \in WriteCalls
           /\ held' \in [Transactions -> SUBSET Locks] /\ (call'[w] = Idle => held'[w] = {})
  <1>. w \in Transactions
    BY DEF Transactions
  <1>. /\ Stored /\ DOMAIN call = Transactions /\ call[w] \in WriteCalls
       /\ held \in [Transactions -> SUBSET Locks]
    BY DEF TypeOK, Stored
  <1>. Idle \in WriteCalls
    BY DEF WriteCalls
  <1>1. CASE \E c \in Statements : statement(w, c)
    <2>1. PICK c \in Statements : statement(w, c)
      BY <1>1
    <2>. DEFINE next == [step |-> "row", table |-> c.table, id |-> c.id, row |-> c.row]
    <2>2. next \in WriteCalls
      <3>1. next \in {[step |-> p, table |-> d.table, id |-> d.id, row |-> d.row] :
                         p \in {"row", "trigger", "write"}, d \in Statements}
        OBVIOUS
      <3>. HIDE DEF next
      <3>. QED  BY <3>1 DEF WriteCalls
    <2>3. next # Idle
      <3>1. next.step = "row" /\ Idle.step = "idle"
        BY DEF Idle
      <3>. QED  BY <3>1
    <2>4. goes(w, next) /\ UNCHANGED held
      BY <2>1 DEF statement
    <2>. HIDE DEF next
    <2>. QED  BY <2>2, <2>3, <2>4 DEF goes
  <1>2. ASSUME NEW p \in {"trigger", "write"}, NEW wanted, wanted \subseteq Locks,
               call[w] # Idle, take(w, wanted, [call[w] EXCEPT !.step = p])
        PROVE  /\ call'[w] \in WriteCalls
               /\ held' \in [Transactions -> SUBSET Locks] /\ (call'[w] = Idle => held'[w] = {})
    <2>1. [call[w] EXCEPT !.step = p] \in WriteCalls
      BY <1>2, WriteCallFields
    <2>2. call[w].step \in {"row", "trigger", "write"}
      BY <1>2, WriteCallFields
    <2>3. [call[w] EXCEPT !.step = p] # Idle
      <3>1. PICK q \in {"row", "trigger", "write"}, d \in Statements :
              call[w] = [step |-> q, table |-> d.table, id |-> d.id, row |-> d.row]
        BY <1>2 DEF WriteCalls
      <3>2. [call[w] EXCEPT !.step = p].step = p /\ Idle.step = "idle"
        BY <3>1 DEF Idle
      <3>. QED  BY <3>2
    <2>. QED  BY <1>2, <2>1, <2>3 DEF take, goes
  <1>3. CASE lock_row(w)
    <2>1. call[w] # Idle
      BY <1>3 DEF lock_row, at, Idle
    <2>2. {Database} \subseteq Locks /\ row_locks(call[w]) \subseteq Locks
      BY <2>1, LockTypes, RowLockTypes
    <2>. QED  BY <1>2, <1>3, <2>1, <2>2 DEF lock_row
  <1>4. CASE trigger(w)
    <2>1. call[w] # Idle
      BY <1>4 DEF trigger, at, Idle
    <2>2. trigger_locks(call[w]) \subseteq Locks
      BY <2>1, RowLockTypes
    <2>. QED  BY <1>2, <1>4, <2>1, <2>2 DEF trigger
  <1>5. CASE write(w) \/ roll_back(w)
    BY <1>5 DEF write, roll_back, ends, goes
  <1>. QED  BY <1>1, <1>3, <1>4, <1>5 DEF WriterStep

LEMMA WriteTypes ==
    ASSUME TypeOK, NEW w \in Writers, write(w)
    PROVE  Stored' /\ unique_members(members)' /\ unique_grants(grants)' /\ writes' \in Nat
  <1>1. call[w] \in WriteCalls /\ call[w] # Idle
    BY DEF TypeOK, write, at, Idle
  <1>2. Stored /\ writes \in Nat
    BY DEF TypeOK, Stored
  <1>3. \/ call[w].table = "member" /\ call[w].id \in Members /\ call[w].row \in MemberTable
        \/ call[w].table = "grant" /\ call[w].id \in Grants /\ call[w].row \in GrantTable
        \/ call[w].table = "engagement" /\ call[w].id \in Engagements /\ call[w].row \in Vendors
        \/ call[w].table = "vendor" /\ call[w].id \in Vendors
             /\ call[w].row \in Orgs \cup {Absent}
    BY <1>1, WriteCallFields, InitialAssumption
  <1>4. Stored'
    BY <1>2, <1>3 DEF write, Stored
  <1>. QED  BY <1>2, <1>4 DEF write

LEMMA IssuedStep ==
    ASSUME TypeOK, NEW r \in Readers, ReaderStep(r)
    PROVE  \/ issued' = issued
           \/ \E i : /\ issued' = issued \cup {i} /\ call[r].step = "metadata"
                     /\ i.engagement = call[r].engagement /\ i.expires = call[r].expires
                     /\ i.engagement \in Engagements /\ i.expires \in Expiries
  <1>1. CASE issue_metadata(r)
    <2>1. call[r].step = "metadata" /\ call[r] \in ReadCalls
      BY <1>1 DEF issue_metadata, at, TypeOK
    <2>2. call[r].engagement \in Engagements /\ call[r].expires \in Expiries
      BY <2>1, ReadCallFields
    <2>3. \/ issued' = issued
          \/ issued' = issued \cup {[engagement |-> call[r].engagement, expires |-> call[r].expires]}
      BY <1>1 DEF issue_metadata
    <2>. DEFINE i == [engagement |-> call[r].engagement, expires |-> call[r].expires]
    <2>4. i.engagement = call[r].engagement /\ i.expires = call[r].expires
      OBVIOUS
    <2>. QED  BY <2>1, <2>2, <2>3, <2>4
  <1>2. CASE ~issue_metadata(r)
    BY <1>2 DEF ReaderStep, runs, scoped_read, preflight_evidence_read, authenticate,
       find_memberships, reauthenticate, begin, lock_members, lock_grants, lock_organization,
       lock_engagements, lock_vendors, project, count, compare, validate, issue, commit,
       lock_timeout, find_role, join, fail
  <1>. QED  BY <1>1, <1>2

\* TypeOK: the tables keep their columns and their keys, a call has what its step
\* needs, and whoever is idle holds no lock.
THEOREM TypeCorrect == Spec => []TypeOK
  <1>1. Init => TypeOK
    <2>. SUFFICES ASSUME Init  PROVE TypeOK
      OBVIOUS
    <2>1. \A r \in Readers : call[r] = Idle
      BY DEF Init, Transactions
    <2>2. \A w \in Writers : call[w] = Idle
      BY DEF Init, Transactions
    <2>3. Idle \in WriteCalls
      BY DEF WriteCalls
    <2>4. Stored /\ unique_members(members) /\ unique_grants(grants)
      BY InitialAssumption DEF Init, Stored
    <2>. QED
      BY <2>1, <2>2, <2>3, <2>4, ReadCallTypes, ClockAssumption DEF Init, TypeOK, Stored, Transactions
  <1>2. TypeOK /\ [Next]_vars => TypeOK'
    <2>. SUFFICES ASSUME TypeOK, [Next]_vars  PROVE TypeOK'
      OBVIOUS
    <2>. Typed /\ Stored
      BY DEF TypeOK, Typed, Stored
    <2>0. ASSUME noted  PROVE DOMAIN last_entitled' = Engagements
      BY <2>0 DEF noted
    <2>1. ASSUME NEW t \in Transactions, Others(t), held' \in [Transactions -> SUBSET Locks],
                 t \in Readers => call'[t] \in ReadCalls,
                 t \in Writers => call'[t] \in WriteCalls,
                 call'[t] = Idle => held'[t] = {}
          PROVE  /\ held' \in [Transactions -> SUBSET Locks]
                 /\ \A u \in Transactions : call'[u] = Idle => held'[u] = {}
                 /\ DOMAIN call' = Transactions
                 /\ \A r \in Readers : call'[r] \in ReadCalls
                 /\ \A w \in Writers : call'[w] \in WriteCalls
      BY <2>1 DEF TypeOK, Others, Transactions
    <2>2. ASSUME NEW r \in Readers, ReaderStep(r), noted  PROVE TypeOK'
      <3>1. UNCHANGED <<session, tables, writes>> /\ Others(r)
        BY <2>2, ReaderSteps
      <3>2. r \in Transactions /\ r \notin Writers
        BY TransactionsAssumption DEF Transactions
      <3>3. /\ held' \in [Transactions -> SUBSET Locks]
            /\ \A u \in Transactions : call'[u] = Idle => held'[u] = {}
            /\ DOMAIN call' = Transactions
            /\ \A q \in Readers : call'[q] \in ReadCalls
            /\ \A w \in Writers : call'[w] \in WriteCalls
        BY <2>1, <2>2, <3>1, <3>2, ReadCallStep, ReaderLocksStep
      <3>4. \A i \in issued' : i.engagement \in Engagements /\ i.expires <= SessionEnd
        BY <2>2, IssuedStep DEF TypeOK, Expiries
      <3>. QED  BY <2>0, <2>2, <3>1, <3>3, <3>4 DEF TypeOK, session, tables
    <2>3. ASSUME NEW w \in Writers, WriterStep(w), noted  PROVE TypeOK'
      <3>1. UNCHANGED <<session, issued>> /\ Others(w)
        BY <2>3, WriterSteps
      <3>2. w \in Transactions /\ w \notin Readers
        BY TransactionsAssumption DEF Transactions
      <3>3. /\ held' \in [Transactions -> SUBSET Locks]
            /\ \A u \in Transactions : call'[u] = Idle => held'[u] = {}
            /\ DOMAIN call' = Transactions
            /\ \A q \in Readers : call'[q] \in ReadCalls
            /\ \A x \in Writers : call'[x] \in WriteCalls
        BY <2>1, <2>3, <3>1, <3>2, WriterTypesStep
      <3>4. Stored' /\ unique_members(members)' /\ unique_grants(grants)' /\ writes' \in Nat
        <4>1. CASE write(w)
          BY <4>1, WriteTypes
        <4>2. CASE ~write(w)
          BY <2>3, <4>2, WriterSteps DEF TypeOK, tables, Stored
        <4>. QED  BY <4>1, <4>2
      <3>. QED  BY <2>0, <2>3, <3>1, <3>3, <3>4 DEF TypeOK, session, Stored
    <2>4. ASSUME tick \/ end_session, noted  PROVE TypeOK'
      BY <2>0, <2>4 DEF TypeOK, tick, end_session, tables
    <2>5. ASSUME UNCHANGED vars  PROVE TypeOK'
      BY <2>5 DEF TypeOK, vars, session, tables
    <2>. QED  BY <2>2, <2>3, <2>4, <2>5, Steps DEF Next
  <1>. QED  BY <1>1, <1>2, PTL DEF Spec

-----------------------------------------------------------------------------
(* Writers *)

LEMMA WriteCallOf ==
    ASSUME TypeOK, NEW w \in Writers, write(w)
    PROVE  /\ \/ call[w].table = "member" /\ call[w].id \in Members
                   /\ call[w].row \in MemberTable
              \/ call[w].table = "grant" /\ call[w].id \in Grants /\ call[w].row \in GrantTable
              \/ call[w].table = "engagement" /\ call[w].id \in Engagements
                   /\ call[w].row \in Vendors
              \/ call[w].table = "vendor" /\ call[w].id \in Vendors
                   /\ call[w].row \in Orgs \cup {Absent}
           /\ call[w].step = "write"
  <1>1. call[w] \in WriteCalls /\ call[w] # Idle
    BY DEF TypeOK, write, at, Idle
  <1>. QED  BY <1>1, WriteCallFields, InitialAssumption DEF write, at

\* One writer at a time on SQLite, and none while a read is under way.
LEMMA OneWriter ==
    ASSUME TypeOK, LockInv, WriterInv, NEW w \in Writers, write(w),
           NEW t \in Transactions, t # w, dialect = "sqlite"
    PROVE  Database \notin held[t]
  <1>1. Database \in held[w]
    BY WriteCallOf DEF WriterInv, WriterHas
  <1>2. ~shares(t, w, Database)
    BY NotBoth, LockNames DEF shares, Database, Guard
  <1>. QED  BY <1>1, <1>2 DEF LockInv, Transactions

\* A row that exists and that somebody has locked is not written by another.
LEMMA RowLockKeeps ==
    ASSUME TypeOK, LockInv, NEW w \in Writers, write(w),
           NEW t \in Transactions, t # w, dialect # "sqlite"
    PROVE  /\ \A m \in Members : members[m] # Absent /\ Lock("member", m) \in held[t]
                                   => members'[m] = members[m]
           /\ \A g \in Grants : grants[g] # Absent /\ Lock("grant", g) \in held[t]
                                   => grants'[g] = grants[g]
           /\ \A e \in Engagements : Lock("engagement", e) \in held[t]
                                       => engagements'[e] = engagements[e]
           /\ \A v \in Vendors : Lock("vendor", v) \in held[t] => vendors'[v] = vendors[v]
  <1>. DEFINE c == call[w]
  <1>1. ASSUME NEW a, NEW i, Lock(a, i) \in held[w]  PROVE Lock(a, i) \notin held[t]
    <2>1. ~shares(t, w, Lock(a, i))
      BY NotBoth, LockNames DEF shares
    <2>. QED  BY <1>1, <2>1 DEF LockInv, Transactions
  <1>2. row_locks(c) \subseteq held[w]
    BY DEF write
  <1>3. c.table \in {"engagement", "vendor"} \/ stored(c.table, c.id) # Absent
          => Lock(c.table, c.id) \in held[w]
    BY <1>2 DEF row_locks
  <1>4. Stored
    BY DEF TypeOK, Stored
  <1>5. ASSUME NEW m \in Members, members[m] # Absent, Lock("member", m) \in held[t]
        PROVE  members'[m] = members[m]
    <2>1. ~(c.table = "member" /\ c.id = m)
      BY <1>1, <1>3, <1>5 DEF stored
    <2>. QED  BY <1>4, <2>1 DEF write, Stored
  <1>6. ASSUME NEW g \in Grants, grants[g] # Absent, Lock("grant", g) \in held[t]
        PROVE  grants'[g] = grants[g]
    <2>1. ~(c.table = "grant" /\ c.id = g)
      BY <1>1, <1>3, <1>6 DEF stored
    <2>. QED  BY <1>4, <2>1 DEF write, Stored
  <1>7. ASSUME NEW e \in Engagements, Lock("engagement", e) \in held[t]
        PROVE  engagements'[e] = engagements[e]
    <2>1. ~(c.table = "engagement" /\ c.id = e)
      BY <1>1, <1>3, <1>7
    <2>. QED  BY <1>4, <2>1 DEF write, Stored
  <1>8. ASSUME NEW v \in Vendors, Lock("vendor", v) \in held[t]
        PROVE  vendors'[v] = vendors[v]
    <2>1. ~(c.table = "vendor" /\ c.id = v)
      BY <1>1, <1>3, <1>8
    <2>. QED  BY <1>4, <2>1 DEF write, Stored
  <1>. QED  BY <1>5, <1>6, <1>7, <1>8

LEMMA WriterHasOwn ==
    ASSUME TypeOK, WriterInv, NEW w \in Writers, WriterStep(w)
    PROVE  WriterHas(w)'
  <1>. w \in Transactions /\ DOMAIN call = Transactions /\ held \in [Transactions -> SUBSET Locks]
    BY DEF Transactions, TypeOK
  <1>1. CASE \E c \in Statements : statement(w, c)
    <2>1. held'[w] = {}
      BY <1>1 DEF statement, TypeOK
    <2>2. call'[w].step = "row"
      BY <1>1 DEF statement, goes
    <2>. QED  BY <2>1, <2>2 DEF WriterHas
  <1>2. CASE lock_row(w)
    <2>. DEFINE c == call[w]
    <2>1. held[w] = {} /\ c.step = "row"
      BY <1>2 DEF WriterInv, WriterHas, lock_row, at
    <2>2. call[w] \in WriteCalls /\ call[w] # Idle
      BY <2>1 DEF TypeOK, Idle
    <2>3. PICK p \in {"row", "trigger", "write"}, d \in Statements :
            c = [step |-> p, table |-> d.table, id |-> d.id, row |-> d.row]
      BY <2>2 DEF WriteCalls
    <2>4. call'[w].step = "trigger" /\ call'[w].table = c.table /\ call'[w].id = c.id
      BY <1>2, <2>3 DEF lock_row, take, goes
    <2>5. held'[w] = IF dialect = "sqlite" THEN {Database} ELSE row_locks(c)
      BY <1>2, <2>1 DEF lock_row, take
    <2>6. UNCHANGED <<dialect, members>>
      BY <1>2 DEF lock_row, session, tables
    <2>7. ASSUME c.table = "member", Lock("member", c.id) \in held'[w]  PROVE members[c.id] # Absent
      <3>1. Lock("member", c.id) # Database
        BY LockNames DEF Database
      <3>2. Lock("member", c.id) \in row_locks(c)
        BY <2>5, <2>7, <3>1
      <3>3. \A k \in parents(c.table, c.row) : k # Lock("member", c.id)
        BY LockNames DEF parents
      <3>4. stored(c.table, c.id) # Absent
        BY <2>7, <3>2, <3>3 DEF row_locks
      <3>. QED  BY <2>7, <3>4 DEF stored
    <2>8. dialect = "sqlite" => Database \in held'[w]
      BY <2>5
    <2>. QED  BY <2>4, <2>6, <2>7, <2>8 DEF WriterHas
  <1>3. CASE trigger(w)
    <2>. DEFINE c == call[w]
    <2>1. c.step = "trigger"
      BY <1>3 DEF trigger, at
    <2>2. call[w] \in WriteCalls /\ call[w] # Idle
      BY <2>1 DEF TypeOK, Idle
    <2>3. PICK p \in {"row", "trigger", "write"}, d \in Statements :
            c = [step |-> p, table |-> d.table, id |-> d.id, row |-> d.row]
      BY <2>2 DEF WriteCalls
    <2>4. /\ call'[w].step = "write" /\ call'[w].table = c.table /\ call'[w].id = c.id
          /\ call'[w].row = c.row
      BY <1>3, <2>3 DEF trigger, take, goes
    <2>5. held'[w] = held[w] \cup trigger_locks(c)
      BY <1>3 DEF trigger, take
    <2>6. UNCHANGED <<dialect, members>>
      BY <1>3 DEF trigger, session, tables
    <2>7. /\ dialect = "sqlite" => Database \in held[w]
          /\ c.table = "member" /\ Lock("member", c.id) \in held[w] => members[c.id] # Absent
      BY <2>1 DEF WriterInv, WriterHas
    <2>8. c.table = "member" => Lock("member", c.id) \notin trigger_locks(c)
      BY LockNames DEF trigger_locks
    <2>9. c.table = "member" /\ dialect # "sqlite" => Lock("identity", c.row.subject) \in held'[w]
      BY <2>5 DEF trigger_locks
    <2>10. ASSUME c.table = "member", dialect # "sqlite", Lock("member", c.id) \in held'[w]
           PROVE  Lock("identity", members[c.id].subject) \in held'[w]
      <3>1. members[c.id] # Absent /\ c.id \in Members
        BY <2>2, <2>5, <2>7, <2>8, <2>10, WriteCallFields
      <3>. QED  BY <2>5, <2>10, <3>1 DEF trigger_locks
    <2>. HIDE DEF c
    <2>. QED
      <3>1. call'[w].table = "member" /\ Lock("member", call'[w].id) \in held'[w] =>
              /\ members'[call'[w].id] # Absent
              /\ dialect' = "sqlite" \/ Lock("identity", members'[call'[w].id].subject) \in held'[w]
        BY <2>4, <2>5, <2>6, <2>7, <2>8, <2>10
      <3>2. call'[w].table = "member" =>
              dialect' = "sqlite" \/ Lock("identity", call'[w].row.subject) \in held'[w]
        BY <2>4, <2>6, <2>9
      <3>3. dialect' = "sqlite" => Database \in held'[w]
        BY <2>5, <2>6, <2>7
      <3>. QED  BY <2>4, <3>1, <3>2, <3>3 DEF WriterHas, holds, Lock, Database
  <1>4. CASE write(w) \/ roll_back(w)
    <2>1. call'[w].step = "idle"
      BY <1>4 DEF write, roll_back, ends, goes, Idle
    <2>. QED  BY <2>1 DEF WriterHas
  <1>. QED  BY <1>1, <1>2, <1>3, <1>4 DEF WriterStep

LEMMA WriterHasStill ==
    ASSUME NEW w \in Writers, WriterHas(w), call'[w] = call[w], held'[w] = held[w],
           dialect' = dialect,
           \/ members' = members
           \/ /\ call[w].step \in {"trigger", "write"} /\ call[w].table = "member"
              /\ Lock("member", call[w].id) \in held[w]
              => members'[call[w].id] = members[call[w].id]
    PROVE  WriterHas(w)'
  BY DEF WriterHas, holds, Lock, Database

LEMMA WriterInvNext ==
    ASSUME TypeOK, LockInv, WriterInv, Step
    PROVE  WriterInv'
  <1>. Typed
    BY DEF Typed, TypeOK
  <1>. SUFFICES ASSUME NEW w \in Writers  PROVE WriterHas(w)'
    BY DEF WriterInv
  <1>. WriterHas(w) /\ w \in Transactions
    BY DEF WriterInv, Transactions
  <1>1. ASSUME NEW r \in Readers, ReaderStep(r)  PROVE WriterHas(w)'
    <2>1. r # w /\ UNCHANGED <<session, tables>> /\ Others(r)
      BY <1>1, NotBoth, ReaderSteps
    <2>. QED  BY <2>1, WriterHasStill DEF Others, session, tables
  <1>2. ASSUME NEW x \in Writers, WriterStep(x)  PROVE WriterHas(w)'
    <2>1. CASE x = w
      BY <1>2, <2>1, WriterHasOwn
    <2>2. CASE x # w
      <3>1. UNCHANGED session /\ Others(x)
        BY <1>2, WriterSteps
      <3>2. call'[w] = call[w] /\ held'[w] = held[w] /\ dialect' = dialect
        BY <2>2, <3>1 DEF Others, session
      <3>3. CASE ~write(x)
        BY <1>2, <3>2, <3>3, WriterSteps, WriterHasStill DEF tables
      <3>4. CASE write(x)
        <4>1. ASSUME call[w].step \in {"trigger", "write"}, call[w].table = "member",
                     Lock("member", call[w].id) \in held[w]
              PROVE  members'[call[w].id] = members[call[w].id]
          <5>1. members[call[w].id] # Absent /\ (dialect = "sqlite" => Database \in held[w])
            BY <4>1 DEF WriterHas
          <5>2. call[w] \in WriteCalls /\ call[w] # Idle
            BY <4>1 DEF TypeOK, Idle
          <5>3. call[w].id \in Members
            BY <4>1, <5>2, WriteCallFields
          <5>4. dialect # "sqlite"
            BY <2>2, <3>4, <5>1, OneWriter
          <5>. QED  BY <2>2, <3>4, <4>1, <5>1, <5>3, <5>4, RowLockKeeps
        <4>. QED  BY <3>2, <4>1, WriterHasStill
      <3>. QED  BY <3>3, <3>4
    <2>. QED  BY <2>1, <2>2
  <1>3. ASSUME tick \/ end_session  PROVE WriterHas(w)'
    BY <1>3, OtherSteps, WriterHasStill DEF tables
  <1>. QED  BY <1>1, <1>2, <1>3, Steps

-----------------------------------------------------------------------------
(* What a read has read is locked *)

\* The guard of its identity keeps an identity's memberships as they are.
LEMMA GuardKeepsMembers ==
    ASSUME TypeOK, LockInv, WriterInv, NEW w \in Writers, write(w),
           NEW r \in Readers, GuardHeld(r)
    PROVE  /\ dialect # "sqlite"
           /\ rows_of(members') = rows_of(members)
           /\ \A m \in rows_of(members) : members'[m] = members[m]
  <1>. r \in Transactions /\ w \in Transactions /\ r # w
    BY NotBoth
  <1>. DEFINE c == call[w]
  <1>1. dialect # "sqlite"
    BY OneWriter DEF GuardHeld
  <1>2. Guard \notin held[w]
    BY <1>1, Exclusive DEF GuardHeld
  <1>3. Stored
    BY DEF TypeOK, Stored
  <1>4. CASE c.table # "member"
    <2>1. members' = members
      BY <1>4 DEF write
    <2>. QED  BY <1>1, <2>1
  <1>5. CASE c.table = "member"
    <2>1. c.id \in Members /\ c.row \in MemberTable /\ c.step = "write"
      BY <1>5, WriteCallOf
    <2>2. Lock("identity", c.row.subject) \in held[w]
      BY <1>1, <1>5, <2>1 DEF WriterInv, WriterHas, holds
    <2>3. c.row.subject # Self
      BY <1>2, <2>2 DEF Guard
    <2>4. ASSUME members[c.id] # Absent  PROVE members[c.id].subject # Self
      <3>1. Lock("member", c.id) \in held[w]
        BY <1>1, <1>5, <2>4 DEF write, row_locks, stored
      <3>2. Lock("identity", members[c.id].subject) \in held[w]
        BY <1>1, <1>5, <2>1, <3>1 DEF WriterInv, WriterHas, holds
      <3>. QED  BY <1>2, <3>2 DEF Guard
    <2>5. members' = [members EXCEPT ![c.id] = c.row]
      BY <1>5 DEF write
    <2>6. c.id \notin rows_of(members) /\ c.id \notin rows_of(members')
      BY <1>3, <2>1, <2>3, <2>4, <2>5 DEF rows_of, Stored
    <2>7. \A m \in Members : m # c.id => members'[m] = members[m]
      BY <1>3, <2>5 DEF Stored
    <2>. HIDE DEF c
    <2>. QED  BY <1>1, <2>6, <2>7 DEF rows_of
  <1>. QED  BY <1>4, <1>5

\* The lock of a membership's key and those of its grants keep its grants.
LEMMA GrantsKept ==
    ASSUME TypeOK, LockInv, NEW w \in Writers, write(w), dialect # "sqlite",
           NEW r \in Readers, NEW m \in Members, Key("member", m) \in held[r],
           \A g \in grants_of(grants, m) : Lock("grant", g) \in held[r]
    PROVE  /\ grants_of(grants', m) = grants_of(grants, m)
           /\ \A g \in grants_of(grants, m) : grants'[g] = grants[g]
  <1>. r \in Transactions /\ w \in Transactions /\ r # w
    BY NotBoth
  <1>. DEFINE c == call[w]
  <1>1. \A g \in grants_of(grants, m) : grants'[g] = grants[g]
    BY RowLockKeeps DEF grants_of
  <1>2. Stored
    BY DEF TypeOK, Stored
  <1>3. ASSUME NEW g \in Grants, grants'[g] # Absent, grants'[g].member = m,
               g \notin grants_of(grants, m)
        PROVE  FALSE
    <2>1. c.table = "grant" /\ c.id = g /\ c.row = grants'[g]
      BY <1>2, <1>3 DEF write, grants_of, Stored
    <2>2. Key("member", m) \in parents("grant", c.row)
      BY <1>3, <2>1 DEF parents
    <2>3. Key("member", m) \notin parents("grant", grants[g])
      BY <1>3, LockNames DEF parents, grants_of
    <2>4. Key("member", m) \in held[w]
      BY <2>1, <2>2, <2>3 DEF write, row_locks, stored
    <2>. QED  BY <2>4, Exclusive
  <1>4. \A g \in grants_of(grants, m) : g \in grants_of(grants', m)
    BY <1>1 DEF grants_of
  <1>5. \A g \in grants_of(grants', m) : g \in grants_of(grants, m)
    BY <1>3 DEF grants_of
  <1>. QED  BY <1>1, <1>4, <1>5

\* The lock of an organization's key keeps vendors out of it.
LEMMA OrganizationKept ==
    ASSUME TypeOK, LockInv, NEW w \in Writers, write(w), dialect # "sqlite",
           NEW r \in Readers, NEW o \in Orgs, Key("organization", o) \in held[r],
           NEW v \in Vendors, vendors'[v] = o
    PROVE  vendors[v] = o
  <1>. DEFINE c == call[w]
  <1>1. Stored
    BY DEF TypeOK, Stored
  <1>2. SUFFICES ASSUME vendors[v] # o  PROVE FALSE
    OBVIOUS
  <1>3. c.table = "vendor" /\ c.id = v /\ c.row = o
    BY <1>1, <1>2 DEF write, Stored
  <1>4. Key("organization", o) \in parents("vendor", c.row)
    BY <1>3, AbsentAssumption DEF parents
  <1>5. Key("organization", o) \notin parents("vendor", vendors[v])
    BY <1>2, LockNames DEF parents
  <1>6. Key("organization", o) \in held[w]
    BY <1>3, <1>4, <1>5 DEF write, row_locks, stored
  <1>. QED  BY <1>6, Exclusive

LEMMA ScopeTypes ==
    ASSUME NEW c \in ReadCalls, reached(c, scopes)
    PROVE  /\ scope_of(c).org \in Orgs /\ scope_of(c).member \in Members
           /\ scope_of(c).engagement_ids \in SUBSET Engagements
  <1>1. \A s \in Scopes \cup RelatedScopes :
          s.org \in Orgs /\ s.member \in Members /\ s.engagement_ids \in SUBSET Engagements
    BY DEF Scopes, RelatedScopes
  <1>2. CASE validates(c)
    <2>1. c.use \in Uses
      BY <1>2, ReadCallFields DEF validates, identifying
    <2>. QED  BY <1>1, <1>2, <2>1, UseFields DEF validates, scope_of
  <1>3. CASE ~validates(c)
    <2>1. c.step \in scopes
      BY <1>3 DEF reached
    <2>2. c.scope \in Scopes \cup RelatedScopes
      BY <2>1, ReadCallFields DEF scopes, contains, derives, relates, projects
    <2>. QED  BY <1>1, <1>3, <2>2 DEF scope_of
  <1>. QED  BY <1>2, <1>3

LEMMA Stages ==
    ASSUME NEW c
    PROVE  /\ reached(c, projects) => reached(c, relates)
           /\ reached(c, relates) => reached(c, derives)
           /\ reached(c, derives) => reached(c, contains)
           /\ reached(c, contains) => reached(c, scopes)
           /\ reached(c, scopes) => reached(c, begun)
           /\ c.step = "commit" => reached(c, projects)
           /\ c.step = "grants" => reached(c, begun)
  BY DEF reached, begun, scopes, contains, derives, relates, projects

LEMMA WriteKeeps ==
    ASSUME TypeOK, LockInv, WriterInv, NEW w \in Writers, write(w),
           NEW r \in Readers, GuardHeld(r)
    PROVE  /\ GuardHeld(r)' /\ \A l : holds(r, l) => l \in held'[r]
           /\ \A o, m : MemberHeld(r, o, m) => MemberHeld(r, o, m)'
           /\ \A s : ScopeHeld(r, s) => ScopeHeld(r, s)'
           /\ \A s : s.engagement_ids \in SUBSET Engagements /\ EngagementsHeld(r, s) =>
                       /\ EngagementsHeld(r, s)'
                       /\ \A e \in s.engagement_ids : engagements'[e] = engagements[e]
           /\ \A s : /\ s.engagement_ids \in SUBSET Engagements /\ s.org \in Orgs
                     /\ holds(r, Key("organization", s.org))
                     /\ EngagementsHeld(r, s) /\ VendorsHeld(r, s)
                     => /\ VendorsHeld(r, s)'
                        /\ projection(s.org, s.engagement_ids, engagements, vendors)'
                             = projection(s.org, s.engagement_ids, engagements, vendors)
  <1>. r \in Transactions /\ w \in Transactions /\ r # w
    BY NotBoth
  <1>1. Stored /\ Typed
    BY DEF TypeOK, Stored, Typed
  <1>2. dialect' = dialect /\ held'[r] = held[r]
    BY <1>1, WriterSteps DEF WriterStep, session, Others
  <1>3. dialect # "sqlite"
    BY GuardKeepsMembers
  <1>4. /\ rows_of(members') = rows_of(members)
        /\ \A m \in rows_of(members) : members'[m] = members[m]
    BY GuardKeepsMembers
  <1>5. GuardHeld(r)' /\ \A l : holds(r, l) <=> l \in held'[r]
    BY <1>2, <1>3 DEF GuardHeld, holds, Guard, Database, Lock
  <1>6. \A l : holds(r, l) => holds(r, l)'
    BY <1>5 DEF holds
  <1>7. \A o, m : MemberHeld(r, o, m) => MemberHeld(r, o, m)'
    <2>. SUFFICES ASSUME NEW o, NEW m, MemberHeld(r, o, m)  PROVE MemberHeld(r, o, m)'
      OBVIOUS
    <2>1. m \in rows_of(members') /\ members'[m] = members[m]
      BY <1>4 DEF MemberHeld
    <2>2. Key("member", m) \in held'[r]
      BY <1>5 DEF MemberHeld
    <2>. QED  BY <2>1, <2>2 DEF MemberHeld, holds, Key
  <1>8. ASSUME NEW s, ScopeHeld(r, s)  PROVE ScopeHeld(r, s)'
    <2>1. s.member \in Members /\ Key("member", s.member) \in held[r]
      BY <1>2, <1>5, <1>8 DEF ScopeHeld, MemberHeld, rows_of
    <2>2. \A g \in grants_of(grants, s.member) : Lock("grant", g) \in held[r]
      BY <1>2, <1>5, <1>8 DEF ScopeHeld
    <2>3. /\ grants_of(grants', s.member) = grants_of(grants, s.member)
          /\ \A g \in grants_of(grants, s.member) : grants'[g] = grants[g]
      BY <1>3, <2>1, <2>2, GrantsKept
    <2>4. Restrict(members', rows_of(members')) = Restrict(members, rows_of(members))
      BY <1>4 DEF Restrict
    <2>5. Restrict(grants', grants_of(grants', s.member))
            = Restrict(grants, grants_of(grants, s.member))
      BY <2>3 DEF Restrict
    <2>6. s.authority = authority(s.member)'
      BY <1>8, <2>4, <2>5 DEF ScopeHeld, authority
    <2>7. MemberHeld(r, s.org, s.member)'
      BY <1>7, <1>8 DEF ScopeHeld
    <2>. QED  BY <1>2, <2>2, <2>3, <2>6, <2>7 DEF ScopeHeld, holds, Lock
  <1>9. ASSUME NEW s, s.engagement_ids \in SUBSET Engagements, EngagementsHeld(r, s)
        PROVE  /\ EngagementsHeld(r, s)'
               /\ \A e \in s.engagement_ids : engagements'[e] = engagements[e]
    <2>1. \A e \in s.engagement_ids : Lock("engagement", e) \in held[r]
      BY <1>2, <1>5, <1>9 DEF EngagementsHeld
    <2>2. \A e \in s.engagement_ids : engagements'[e] = engagements[e]
      BY <1>3, <1>9, <2>1, RowLockKeeps
    <2>. QED  BY <1>2, <2>1, <2>2 DEF EngagementsHeld, holds, Lock
  <1>10. ASSUME NEW s, s.engagement_ids \in SUBSET Engagements, s.org \in Orgs,
                holds(r, Key("organization", s.org)), EngagementsHeld(r, s), VendorsHeld(r, s)
         PROVE  /\ VendorsHeld(r, s)'
                /\ projection(s.org, s.engagement_ids, engagements, vendors)'
                     = projection(s.org, s.engagement_ids, engagements, vendors)
    <2>1. \A e \in s.engagement_ids : engagements'[e] = engagements[e] /\ engagements[e] \in Vendors
      BY <1>1, <1>9, <1>10 DEF Stored
    <2>2. Key("organization", s.org) \in held[r]
      BY <1>2, <1>5, <1>10
    <2>3. \A v \in Vendors : vendors'[v] = s.org => vendors[v] = s.org
      BY <1>3, <1>10, <2>2, OrganizationKept
    <2>4. \A e \in s.engagement_ids :
            vendors[engagements[e]] = s.org => Lock("vendor", engagements[e]) \in held[r]
      BY <1>2, <1>5, <1>10 DEF VendorsHeld
    <2>5. \A e \in s.engagement_ids :
            vendors[engagements[e]] = s.org => vendors'[engagements[e]] = s.org
      BY <1>3, <2>1, <2>4, RowLockKeeps
    <2>6. \A e \in s.engagement_ids :
            vendors'[engagements'[e]] = s.org <=> vendors[engagements[e]] = s.org
      BY <2>1, <2>3, <2>5
    <2>7. VendorsHeld(r, s)'
      BY <1>2, <2>1, <2>4, <2>6 DEF VendorsHeld, holds, Lock
    <2>. QED  BY <2>1, <2>6, <2>7 DEF projection
  <1>. QED  BY <1>5, <1>7, <1>8, <1>9, <1>10

LEMMA WriteKeepsFrozen ==
    ASSUME TypeOK, LockInv, WriterInv, NEW w \in Writers, write(w),
           NEW r \in Readers, NEW c \in ReadCalls, Frozen(r, c)
    PROVE  Frozen(r, c)'
  <1>. DEFINE s == scope_of(c)
  <1>1. CASE ~reached(c, begun)
    BY <1>1, Stages DEF Frozen
  <1>2. CASE reached(c, begun)
    <2>1. GuardHeld(r)
      BY <1>2 DEF Frozen
    <2>2. GuardHeld(r)'
      BY <2>1, WriteKeeps
    <2>3. ASSUME c.step = "grants"  PROVE MemberHeld(r, c.org, c.member)'
      BY <2>1, <2>3, WriteKeeps DEF Frozen
    <2>4. ASSUME reached(c, scopes)  PROVE ScopeHeld(r, s)'
      BY <2>1, <2>4, WriteKeeps DEF Frozen
    <2>5. ASSUME reached(c, contains)
          PROVE  holds(r, Key("organization", s.org)) /\ holds(r, Key("organization", s.org))'
      BY <2>1, <2>5, WriteKeeps DEF Frozen, holds, Key
    <2>6. ASSUME reached(c, derives)
          PROVE  /\ s.engagement_ids \in SUBSET Engagements /\ s.org \in Orgs
                 /\ EngagementsHeld(r, s) /\ EngagementsHeld(r, s)'
      <3>1. /\ s.engagement_ids \in SUBSET Engagements /\ s.org \in Orgs
            /\ EngagementsHeld(r, s)
        BY <2>6, Stages, ScopeTypes DEF Frozen
      <3>. QED  BY <2>1, <3>1, WriteKeeps
    <2>7. ASSUME reached(c, relates)
          PROVE  /\ VendorsHeld(r, s)'
                 /\ projection(s.org, s.engagement_ids, engagements, vendors)'
                      = projection(s.org, s.engagement_ids, engagements, vendors)
      <3>1. VendorsHeld(r, s)
        BY <2>7 DEF Frozen
      <3>2. /\ s.engagement_ids \in SUBSET Engagements /\ s.org \in Orgs
            /\ EngagementsHeld(r, s) /\ holds(r, Key("organization", s.org))
        BY <2>5, <2>6, <2>7, Stages
      <3>. QED  BY <2>1, <3>1, <3>2, WriteKeeps
    <2>8. ASSUME reached(c, projects)
          PROVE  read_by(c) = projection(s.org, s.engagement_ids, engagements, vendors)'
      BY <2>7, <2>8, Stages DEF Frozen
    <2>9. c.step = "commit" => DecidedOn(s, c.decided)
      BY DEF Frozen
    <2>. QED
      BY <2>2, <2>3, <2>4, <2>5, <2>6, <2>7, <2>8, <2>9 DEF Frozen, scope_of, read_by, reached,
         validates, DecidedOn, current
  <1>. QED  BY <1>1, <1>2

\* A step that changes no row keeps what is locked, if it releases nothing.
LEMMA ReadKeeps ==
    ASSUME NEW r, UNCHANGED <<dialect, tables>>, held[r] \subseteq held'[r]
    PROVE  /\ GuardHeld(r) => GuardHeld(r)'
           /\ \A l : holds(r, l) => holds(r, l)'
           /\ \A o, m : MemberHeld(r, o, m) => MemberHeld(r, o, m)'
           /\ \A s : ScopeHeld(r, s) => ScopeHeld(r, s)'
           /\ \A s : EngagementsHeld(r, s) => EngagementsHeld(r, s)'
           /\ \A s : VendorsHeld(r, s) => VendorsHeld(r, s)'
           /\ \A s : projection(s.org, s.engagement_ids, engagements, vendors)'
                       = projection(s.org, s.engagement_ids, engagements, vendors)
  <1>1. \A l : holds(r, l) => holds(r, l)'
    BY DEF holds
  <1>2. GuardHeld(r) => GuardHeld(r)'
    BY DEF GuardHeld, Guard, Database, Lock
  <1>3. \A o, m : MemberHeld(r, o, m) => MemberHeld(r, o, m)'
    BY DEF MemberHeld, holds, tables, rows_of, Key
  <1>4. \A s : ScopeHeld(r, s) => ScopeHeld(r, s)'
    BY <1>3 DEF ScopeHeld, authority, holds, tables, rows_of, grants_of, Lock, Restrict
  <1>5. \A s : EngagementsHeld(r, s) => EngagementsHeld(r, s)'
    BY DEF EngagementsHeld, holds, tables, Lock
  <1>6. \A s : VendorsHeld(r, s) => VendorsHeld(r, s)'
    BY DEF VendorsHeld, holds, tables, Lock
  <1>7. \A s : projection(s.org, s.engagement_ids, engagements, vendors)'
                 = projection(s.org, s.engagement_ids, engagements, vendors)
    BY DEF projection, tables
  <1>. QED  BY <1>1, <1>2, <1>3, <1>4, <1>5, <1>6, <1>7

\* What a later call needs of an earlier one's.
LEMMA FrozenCarried ==
    ASSUME NEW r, UNCHANGED <<dialect, tables>>, held[r] \subseteq held'[r],
           NEW c, NEW d, Frozen(r, c),
           \A S \in {begun, scopes, contains, derives, relates, projects} :
               reached(d, S) => reached(c, S),
           reached(d, scopes) => scope_of(d) = scope_of(c),
           reached(d, projects) => read_by(d) = read_by(c),
           d.step \notin {"grants", "commit"}
    PROVE  Frozen(r, d)'
  <1>. DEFINE s == scope_of(c)
  <1>1. reached(d, begun) => GuardHeld(r)'
    BY ReadKeeps DEF Frozen
  <1>2. reached(d, scopes) => ScopeHeld(r, s)'
    BY ReadKeeps DEF Frozen
  <1>3. reached(d, contains) => holds(r, Key("organization", s.org))'
    BY DEF Frozen, holds, Key
  <1>4. reached(d, derives) => EngagementsHeld(r, s)'
    BY ReadKeeps DEF Frozen
  <1>5. reached(d, relates) => VendorsHeld(r, s)'
    BY ReadKeeps DEF Frozen
  <1>6. reached(d, projects) =>
          read_by(d) = projection(s.org, s.engagement_ids, engagements, vendors)'
    BY ReadKeeps DEF Frozen
  <1>7. reached(d, scopes) => scope_of(d) = s
    OBVIOUS
  <1>. HIDE DEF s
  <1>. QED
    BY <1>1, <1>2, <1>3, <1>4, <1>5, <1>6, <1>7, Stages
       DEF Frozen

LEMMA NothingFrozen ==
    ASSUME NEW r, NEW d, ~reached(d, begun)
    PROVE  Frozen(r, d)'
  BY Stages DEF Frozen

LEMMA FrozenNow ==
    ASSUME NEW r, NEW d, call'[r] = d, Frozen(r, d)'
    PROVE  Frozen(r, call[r])'
  BY DEF Frozen

LEMMA ReadOwn ==
    ASSUME TypeOK, NEW r \in Readers, Frozen(r, call[r]), ReaderStep(r)
    PROVE  Frozen(r, call[r])'
  <1>. r \in Transactions /\ DOMAIN call = Transactions /\ held \in [Transactions -> SUBSET Locks]
    BY DEF Transactions, TypeOK
  <1>. Stored /\ call[r] \in ReadCalls
    BY DEF TypeOK, Stored
  <1>. UNCHANGED <<dialect, tables>>
    BY ReaderSteps DEF Typed, session
  <1>. DEFINE c == call[r]
  <1>1. ASSUME NEW d, goes(r, d), ~reached(d, begun)  PROVE Frozen(r, call[r])'
    BY <1>1, NothingFrozen, FrozenNow DEF goes
  <1>2. ASSUME ends(r)  PROVE Frozen(r, call[r])'
    <2>1. goes(r, Idle) /\ ~reached(Idle, begun)
      BY <1>2 DEF ends, Idle, reached, validates, identifying, begun, scopes, contains, derives,
         relates, projects
    <2>. QED  BY <1>1, <2>1
  <1>3. ASSUME NEW d, goes(r, d), UNCHANGED held,
               \A S \in {begun, scopes, contains, derives, relates, projects} :
                   reached(d, S) => reached(c, S),
               reached(d, scopes) => scope_of(d) = scope_of(c),
               reached(d, projects) => read_by(d) = read_by(c),
               d.step \notin {"grants", "commit"}
        PROVE  Frozen(r, call[r])'
    <2>1. held[r] \subseteq held'[r] /\ call'[r] = d
      BY <1>3 DEF goes
    <2>2. Frozen(r, d)'
      BY <1>3, <2>1, FrozenCarried
    <2>. QED  BY <2>1, <2>2, FrozenNow
  <1>4. ASSUME NEW d, NEW wanted, take(r, wanted, d)
        PROVE  call'[r] = d /\ held'[r] = held[r] \cup wanted /\ held[r] \subseteq held'[r]
    BY <1>4 DEF take, goes
  <1>5. CASE begin(r)
    <2>1. PICK d : d = [step |-> "members", org |-> c.org]
      OBVIOUS
    <2>2. call'[r] = d /\ (IF dialect = "sqlite" THEN Database ELSE Guard) \in held'[r]
      BY <1>5, <2>1 DEF begin, take, goes
    <2>3. GuardHeld(r)'
      BY <2>2 DEF GuardHeld, Guard, Database, Lock
    <2>4. d.step = "members"
      BY <2>1
    <2>5. Frozen(r, d)'
      BY <2>3, <2>4 DEF Frozen, reached, validates, identifying, scopes, contains, derives,
         relates, projects
    <2>. QED  BY <2>2, <2>5, FrozenNow
  <1>6. CASE lock_members(r)
    <2>. DEFINE wanted == for_update({Lock("member", m) : m \in rows_of(members)})
    <2>1. SUFFICES ASSUME NEW m \in current_members(members, clock),
                          members[m].org = c.org, permitted(members[m].role),
                          take(r, wanted, [step |-> "grants", org |-> c.org, member |-> m])
                   PROVE  Frozen(r, call[r])'
      BY <1>2, <1>6 DEF lock_members
    <2>2. PICK d : d = [step |-> "grants", org |-> c.org, member |-> m]
      OBVIOUS
    <2>3. m \in rows_of(members)
      BY DEF current_members
    <2>4. dialect = "sqlite" \/ Key("member", m) \in wanted
      <3>1. Lock("member", m)[1] = "member" /\ Lock("member", m)[2] = m
        BY LockNames
      <3>2. Lock("member", m) \in {Lock("member", n) : n \in rows_of(members)}
        BY <2>3
      <3>. QED  BY <3>1, <3>2 DEF for_update
    <2>5. call'[r] = d /\ held'[r] = held[r] \cup wanted
      BY <1>4, <2>1, <2>2
    <2>6. GuardHeld(r)
      BY <1>6 DEF lock_members, at, Frozen, reached, begun
    <2>7. GuardHeld(r)'
      BY <2>5, <2>6, ReadKeeps
    <2>9. d.step = "grants" /\ d.org = c.org /\ d.member = m
      BY <2>2
    <2>10. m \in rows_of(members') /\ members'[m].org = d.org /\ permitted(members'[m].role)
      BY <2>1, <2>3, <2>9 DEF tables
    <2>11. dialect' = "sqlite" \/ Key("member", m) \in held'[r]
      BY <2>4, <2>5
    <2>12. MemberHeld(r, d.org, m)'
      BY <2>10, <2>11 DEF MemberHeld, holds, Key
    <2>13. Frozen(r, d)'
      BY <2>7, <2>9, <2>12 DEF Frozen, reached, validates, identifying, scopes, contains, derives,
         relates, projects
    <2>. QED  BY <2>5, <2>13, FrozenNow
  <1>7. CASE lock_grants(r)
    <2>. DEFINE m == c.member
                wanted == for_update({Lock("grant", g) : g \in grants_of(grants, m)})
                s == [org |-> c.org, member |-> m, engagement_ids |-> entitled(grants, m, clock),
                      authority |-> authority(m)]
    <2>1. SUFFICES ASSUME take(r, wanted, [step |-> "organization", scope |-> s])
                   PROVE  Frozen(r, call[r])'
      BY <1>2, <1>7 DEF lock_grants
    <2>2. PICK d : d = [step |-> "organization", scope |-> s]
      OBVIOUS
    <2>3. call'[r] = d /\ held'[r] = held[r] \cup wanted /\ held[r] \subseteq held'[r]
      BY <1>4, <2>1, <2>2
    <2>4. GuardHeld(r) /\ MemberHeld(r, c.org, m)
      BY <1>7 DEF lock_grants, at, Frozen, reached, begun
    <2>5. d.step = "organization" /\ d.scope = s
      BY <2>2
    <2>6. s.org = c.org /\ s.member = m /\ s.authority = authority(m)
      OBVIOUS
    <2>7. \A g \in grants_of(grants, m) : dialect = "sqlite" \/ Lock("grant", g) \in held'[r]
      BY <2>3 DEF for_update
    <2>. HIDE DEF s, wanted
    <2>9. PICK k : k = s
      OBVIOUS
    <2>8. MemberHeld(r, k.org, k.member)
      BY <2>4, <2>6, <2>9
    <2>10. GuardHeld(r)' /\ MemberHeld(r, k.org, k.member)'
      BY <2>3, <2>4, <2>8, ReadKeeps
    <2>11. k.authority = authority(k.member)'
      BY <2>6, <2>9 DEF authority, tables, rows_of, grants_of
    <2>12. \A g \in grants_of(grants', k.member) : dialect' = "sqlite" \/ Lock("grant", g) \in held'[r]
      BY <2>6, <2>7, <2>9 DEF tables
    <2>13. ScopeHeld(r, k)'
      BY <2>10, <2>11, <2>12 DEF ScopeHeld, holds, Lock
    <2>14. scope_of(d) = k
      BY <2>5, <2>9 DEF scope_of, validates, identifying
    <2>15. Frozen(r, d)'
      BY <2>5, <2>10, <2>13, <2>14 DEF Frozen, reached, validates, identifying, contains, derives,
         relates, projects
    <2>. QED  BY <2>3, <2>15, FrozenNow
  <1>8. CASE lock_organization(r)
    <2>. DEFINE wanted == for_update({Lock("organization", c.scope.org)})
    <2>1. PICK d : d = [step |-> "engagements", scope |-> c.scope]
      OBVIOUS
    <2>2. call'[r] = d /\ held'[r] = held[r] \cup wanted /\ held[r] \subseteq held'[r]
      BY <1>4, <1>8, <2>1 DEF lock_organization
    <2>3. d.step = "engagements" /\ d.scope = c.scope /\ c.step = "organization"
      BY <1>8, <2>1 DEF lock_organization, at
    <2>4. PICK s : s = c.scope
      OBVIOUS
    <2>5. scope_of(c) = s /\ scope_of(d) = s
      BY <2>3, <2>4 DEF scope_of, validates, identifying
    <2>6. GuardHeld(r) /\ ScopeHeld(r, s)
      BY <2>3, <2>5 DEF Frozen, reached, scopes, begun
    <2>7. GuardHeld(r)' /\ ScopeHeld(r, s)'
      BY <2>2, <2>6, ReadKeeps
    <2>8. dialect = "sqlite" \/ Key("organization", s.org) \in wanted
      <3>1. Lock("organization", s.org)[1] = "organization" /\ Lock("organization", s.org)[2] = s.org
        BY LockNames
      <3>. QED  BY <2>4, <3>1 DEF for_update
    <2>9. holds(r, Key("organization", s.org))'
      BY <2>2, <2>8 DEF holds, Key
    <2>10. Frozen(r, d)'
      BY <2>3, <2>5, <2>7, <2>9 DEF Frozen, reached, validates, identifying, derives, relates,
         projects
    <2>. QED  BY <2>2, <2>10, FrozenNow
  <1>9. CASE lock_engagements(r)
    <2>. DEFINE wanted == for_update({Lock("engagement", e) : e \in c.scope.engagement_ids})
    <2>1. PICK d : d = [step |-> "vendors", scope |-> c.scope,
                        links |-> Restrict(engagements, c.scope.engagement_ids)]
      OBVIOUS
    <2>2. call'[r] = d /\ held'[r] = held[r] \cup wanted /\ held[r] \subseteq held'[r]
      BY <1>4, <1>9, <2>1 DEF lock_engagements
    <2>3. d.step = "vendors" /\ d.scope = c.scope /\ c.step = "engagements"
      BY <1>9, <2>1 DEF lock_engagements, at
    <2>4. PICK s : s = c.scope
      OBVIOUS
    <2>5. scope_of(c) = s /\ scope_of(d) = s
      BY <2>3, <2>4 DEF scope_of, validates, identifying
    <2>6. GuardHeld(r) /\ ScopeHeld(r, s) /\ holds(r, Key("organization", s.org))
      BY <2>3, <2>5 DEF Frozen, reached, contains, scopes, begun
    <2>7. GuardHeld(r)' /\ ScopeHeld(r, s)'
      BY <2>2, <2>6, ReadKeeps
    <2>8. holds(r, Key("organization", s.org))'
      BY <2>2, <2>6 DEF holds, Key
    <2>9. \A e \in s.engagement_ids : dialect = "sqlite" \/ Lock("engagement", e) \in wanted
      BY <2>4 DEF for_update
    <2>10. EngagementsHeld(r, s)'
      BY <2>2, <2>9 DEF EngagementsHeld, holds, Lock
    <2>11. Frozen(r, d)'
      BY <2>3, <2>5, <2>7, <2>8, <2>10 DEF Frozen, reached, validates, identifying, relates,
         projects
    <2>. QED  BY <2>2, <2>11, FrozenNow
  <1>10. CASE lock_vendors(r)
    <2>1. PICK s : s = c.scope
      OBVIOUS
    <2>2. c.step = "vendors" /\ scope_of(c) = s /\ reached(c, scopes)
      BY <1>10, <2>1 DEF lock_vendors, at, scope_of, validates, identifying, reached, scopes,
         contains, derives
    <2>. DEFINE P == linked(s.org, Restrict(engagements, s.engagement_ids))
                wanted == for_update({Lock("vendor", v) : v \in P})
                related == [org |-> s.org, member |-> s.member, authority |-> s.authority,
                            engagement_ids |-> s.engagement_ids,
                            relationships |-> <<c.links, P>>]
    <2>3. take(r, wanted, [step |-> "project", scope |-> related])
      BY <1>10, <2>1 DEF lock_vendors
    <2>4. PICK k : k = related
      OBVIOUS
    <2>5. /\ k.org = s.org /\ k.member = s.member /\ k.authority = s.authority
          /\ k.engagement_ids = s.engagement_ids
      BY <2>4
    <2>6. PICK d : d = [step |-> "project", scope |-> k]
      OBVIOUS
    <2>7. d.step = "project" /\ scope_of(d) = k
      BY <2>6 DEF scope_of, validates, identifying
    <2>8. call'[r] = d /\ held'[r] = held[r] \cup wanted /\ held[r] \subseteq held'[r]
      BY <1>4, <2>3, <2>4, <2>6
    <2>. HIDE DEF related
    <2>9. /\ GuardHeld(r) /\ ScopeHeld(r, s) /\ EngagementsHeld(r, s)
          /\ holds(r, Key("organization", s.org))
      BY <2>2, Stages DEF Frozen, reached, derives, contains
    <2>10. GuardHeld(r)' /\ ScopeHeld(r, s)' /\ EngagementsHeld(r, s)'
      BY <2>8, <2>9, ReadKeeps
    <2>11. ScopeHeld(r, k)' /\ EngagementsHeld(r, k)'
      BY <2>5, <2>10 DEF ScopeHeld, EngagementsHeld, MemberHeld
    <2>12. holds(r, Key("organization", k.org))'
      BY <2>5, <2>8, <2>9 DEF holds, Key
    <2>13. s.engagement_ids \in SUBSET Engagements
      BY <2>2, ScopeTypes
    <2>14. ASSUME NEW e \in s.engagement_ids, vendors[engagements[e]] = s.org
           PROVE  dialect = "sqlite" \/ Lock("vendor", engagements[e]) \in wanted
      <3>1. engagements[e] \in P
        BY <2>13, <2>14 DEF linked, Restrict
      <3>. QED  BY <3>1 DEF for_update
    <2>15. VendorsHeld(r, k)'
      BY <2>5, <2>8, <2>14 DEF VendorsHeld, holds, Lock, tables
    <2>16. Frozen(r, d)'
      BY <2>7, <2>10, <2>11, <2>12, <2>15 DEF Frozen, reached, validates, identifying, projects
    <2>. QED  BY <2>8, <2>16, FrozenNow
  <1>11. CASE project(r)
    <2>1. PICK d : d = [step |-> "compare", scope |-> c.scope, rows |-> projected(c)]
      OBVIOUS
    <2>2. call'[r] = d /\ held[r] \subseteq held'[r]
      BY <1>11, <2>1 DEF project, goes
    <2>3. /\ c.step = "project" /\ d.step = "compare" /\ d.scope = c.scope
          /\ d.rows = projected(c)
      BY <1>11, <2>1 DEF project, at
    <2>4. PICK s : s = c.scope
      OBVIOUS
    <2>5. scope_of(c) = s /\ scope_of(d) = s /\ read_by(d) = d.rows
      BY <2>3, <2>4 DEF scope_of, read_by, validates, identifying
    <2>6. /\ GuardHeld(r) /\ ScopeHeld(r, s) /\ EngagementsHeld(r, s) /\ VendorsHeld(r, s)
          /\ holds(r, Key("organization", s.org))
      BY <2>3, <2>5, Stages DEF Frozen, reached, relates
    <2>7. /\ GuardHeld(r)' /\ ScopeHeld(r, s)' /\ EngagementsHeld(r, s)' /\ VendorsHeld(r, s)'
      BY <2>2, <2>6, ReadKeeps
    <2>8. holds(r, Key("organization", s.org))'
      BY <2>2, <2>6 DEF holds, Key
    <2>9. read_by(d) = projection(s.org, s.engagement_ids, engagements, vendors)'
      BY <2>3, <2>4, <2>5 DEF projected, projection, tables
    <2>10. Frozen(r, d)'
      BY <2>3, <2>5, <2>7, <2>8, <2>9 DEF Frozen
    <2>. QED  BY <2>2, <2>10, FrozenNow
  <1>25. CASE count(r)
    <2>1. PICK u : u = [for |-> "validate", scope |-> c.scope, rows |-> projected(c)]
      OBVIOUS
    <2>2. PICK d : d = [step |-> "authenticate", use |-> u]
      OBVIOUS
    <2>3. call'[r] = d /\ held[r] \subseteq held'[r]
      BY <1>25, <2>1, <2>2 DEF count, goes, identify
    <2>4. /\ c.step = "project" /\ d.step = "authenticate" /\ d.use = u /\ u.for = "validate"
          /\ u.scope = c.scope /\ u.rows = projected(c)
      BY <1>25, <2>1, <2>2 DEF count, at
    <2>5. PICK s : s = c.scope
      OBVIOUS
    <2>6. scope_of(c) = s /\ scope_of(d) = s /\ read_by(d) = projected(c)
      BY <2>4, <2>5 DEF scope_of, read_by, validates, identifying
    <2>7. /\ GuardHeld(r) /\ ScopeHeld(r, s) /\ EngagementsHeld(r, s) /\ VendorsHeld(r, s)
          /\ holds(r, Key("organization", s.org))
      BY <2>4, <2>6, Stages DEF Frozen, reached, relates
    <2>8. /\ GuardHeld(r)' /\ ScopeHeld(r, s)' /\ EngagementsHeld(r, s)' /\ VendorsHeld(r, s)'
      BY <2>3, <2>7, ReadKeeps
    <2>9. holds(r, Key("organization", s.org))'
      BY <2>3, <2>7 DEF holds, Key
    <2>10. read_by(d) = projection(s.org, s.engagement_ids, engagements, vendors)'
      BY <2>5, <2>6 DEF projected, projection, tables
    <2>11. Frozen(r, d)'
      BY <2>4, <2>6, <2>8, <2>9, <2>10 DEF Frozen
    <2>. QED  BY <2>3, <2>11, FrozenNow
  <1>12. CASE scoped_read(r) \/ \E e \in Engagements : preflight_evidence_read(r, e)
    <2>1. SUFFICES ASSUME NEW u, goes(r, [step |-> "authenticate", use |-> u]),
                          u.for \in {"scope", "preflight"}
                   PROVE  Frozen(r, call[r])'
      <3>1. CASE scoped_read(r)
        <4>1. PICK u : u = [for |-> "scope"]
          OBVIOUS
        <4>. QED  BY <2>1, <3>1, <4>1 DEF scoped_read, identify
      <3>2. ASSUME NEW e \in Engagements, preflight_evidence_read(r, e)  PROVE Frozen(r, call[r])'
        <4>1. PICK u : u = [for |-> "preflight", engagement |-> e, now |-> clock]
          OBVIOUS
        <4>2. u.for = "preflight"
          BY <4>1
        <4>. QED  BY <2>1, <3>2, <4>1, <4>2 DEF preflight_evidence_read, identify
      <3>. QED  BY <1>12, <3>1, <3>2
    <2>2. ~reached([step |-> "authenticate", use |-> u], begun)
      BY <2>1 DEF reached, validates, begun, scopes, contains, derives, relates, projects
    <2>. QED  BY <1>1, <2>1, <2>2
  <1>13. CASE authenticate(r) \/ find_memberships(r)
    <2>1. SUFFICES ASSUME NEW d, goes(r, d), UNCHANGED held, d.step \in identifying, d.use = c.use,
                          c.step \in identifying
                   PROVE  Frozen(r, call[r])'
      <3>1. CASE authenticate(r)
        <4>1. PICK d : d = [step |-> "memberships", use |-> c.use, now |-> clock]
          OBVIOUS
        <4>2. ends(r) \/ (goes(r, d) /\ UNCHANGED held)
          BY <3>1, <4>1 DEF authenticate, proceeds
        <4>3. c.step \in identifying /\ d.step \in identifying /\ d.use = c.use
          BY <3>1, <4>1 DEF authenticate, at, identifying
        <4>. QED  BY <1>2, <2>1, <4>2, <4>3
      <3>2. CASE find_memberships(r)
        <4>1. PICK d : d = [step |-> "reauthenticate", use |-> c.use,
                            found |-> {members[m] : m \in current_members(members, c.now)}]
          OBVIOUS
        <4>2. goes(r, d) /\ UNCHANGED held
          BY <3>2, <4>1 DEF find_memberships
        <4>3. c.step \in identifying /\ d.step \in identifying /\ d.use = c.use
          BY <3>2, <4>1 DEF find_memberships, at, identifying
        <4>. QED  BY <2>1, <4>2, <4>3
      <3>. QED  BY <1>13, <3>1, <3>2
    <2>2. validates(d) <=> validates(c)
      BY <2>1 DEF validates
    <2>3. \A S \in {begun, scopes, contains, derives, relates, projects} :
            reached(d, S) => reached(c, S)
      <3>1. \A S \in {begun, scopes, contains, derives, relates, projects} : d.step \notin S
        BY <2>1 DEF identifying, begun, scopes, contains, derives, relates, projects
      <3>. QED  BY <2>2, <3>1 DEF reached
    <2>4. validates(d) => scope_of(d) = scope_of(c) /\ read_by(d) = read_by(c)
      BY <2>1, <2>2 DEF scope_of, read_by
    <2>5. reached(d, begun) => validates(d)
      BY <2>1 DEF reached, identifying, begun, scopes, contains, derives, relates, projects
    <2>6. d.step \notin {"grants", "commit"}
      BY <2>1 DEF identifying
    <2>. QED  BY <1>3, <2>1, <2>3, <2>4, <2>5, <2>6, Stages
  <1>14. CASE reauthenticate(r)
    <2>. DEFINE org == (CHOOSE row \in c.found : TRUE).org
    <2>1. c.step = "reauthenticate" /\ c.use \in Uses
      BY <1>14, ReadCallFields DEF reauthenticate, at
    <2>2. PICK d : d = continues(c.use, org)
      OBVIOUS
    <2>3. SUFFICES ASSUME goes(r, d), UNCHANGED held  PROVE Frozen(r, call[r])'
      BY <1>2, <1>14, <2>2 DEF reauthenticate
    <2>. HIDE DEF org
    <2>4. CASE c.use.for = "validate"
      <3>1. d.step = "validate" /\ d.scope = c.use.scope /\ d.rows = c.use.rows
        BY <2>2, <2>4 DEF continues
      <3>2. validates(c) /\ ~validates(d)
        BY <2>1, <2>4, <3>1 DEF validates, identifying
      <3>3. \A S : reached(c, S)
        BY <3>2 DEF reached
      <3>4. scope_of(d) = scope_of(c) /\ read_by(d) = read_by(c)
        BY <3>1, <3>2 DEF scope_of, read_by
      <3>. QED  BY <1>3, <2>3, <3>1, <3>3, <3>4
    <2>5. CASE c.use.for # "validate"
      <3>1. c.use.for \in {"scope", "preflight", "authorize"}
        BY <2>1, <2>5, UseFields
      <3>2. d.step \in {"begin", "member", "join"}
        BY <2>2, <3>1 DEF continues
      <3>3. ~reached(d, begun)
        BY <3>2 DEF reached, validates, identifying, begun, scopes, contains, derives, relates,
           projects
      <3>. QED  BY <1>1, <2>3, <3>3
    <2>. QED  BY <2>4, <2>5
  <1>15. CASE compare(r)
    <2>1. PICK u : u = [for |-> "validate", scope |-> c.scope, rows |-> c.rows]
      OBVIOUS
    <2>2. PICK d : d = [step |-> "authenticate", use |-> u]
      OBVIOUS
    <2>3. SUFFICES ASSUME goes(r, d), UNCHANGED held  PROVE Frozen(r, call[r])'
      BY <1>2, <1>15, <2>1, <2>2 DEF compare, proceeds, identify
    <2>4. c.step = "compare" /\ d.step = "authenticate" /\ d.use = u
      BY <1>15, <2>2 DEF compare, at
    <2>5. u.for = "validate" /\ u.scope = c.scope /\ u.rows = c.rows
      BY <2>1
    <2>6. \A S \in {begun, scopes, contains, derives, relates, projects} : reached(c, S)
      BY <2>4 DEF reached, begun, scopes, contains, derives, relates, projects
    <2>7. scope_of(d) = scope_of(c) /\ read_by(d) = read_by(c)
      BY <2>4, <2>5 DEF scope_of, read_by, validates, identifying
    <2>. QED  BY <1>3, <2>3, <2>4, <2>6, <2>7
  <1>16. CASE validate(r)
    <2>1. PICK d : d = [step |-> "issue", scope |-> c.scope, rows |-> c.rows]
      OBVIOUS
    <2>2. SUFFICES ASSUME goes(r, d), UNCHANGED held  PROVE Frozen(r, call[r])'
      BY <1>2, <1>16, <2>1 DEF validate, proceeds
    <2>3. c.step = "validate" /\ d.step = "issue" /\ d.scope = c.scope /\ d.rows = c.rows
      BY <1>16, <2>1 DEF validate, at
    <2>4. \A S \in {begun, scopes, contains, derives, relates, projects} : reached(c, S)
      BY <2>3 DEF reached, begun, scopes, contains, derives, relates, projects
    <2>5. scope_of(d) = scope_of(c) /\ read_by(d) = read_by(c)
      BY <2>3 DEF scope_of, read_by, validates, identifying
    <2>. QED  BY <1>3, <2>2, <2>3, <2>4, <2>5
  <1>17. CASE issue(r)
    <2>1. PICK s, k, n : s = c.scope /\ k = c.rows /\ n = clock
      OBVIOUS
    <2>2. PICK d : d = [step |-> "commit", scope |-> s, rows |-> k, decided |-> n]
      OBVIOUS
    <2>3. SUFFICES ASSUME windows_current(s), goes(r, d), UNCHANGED held
                   PROVE  Frozen(r, call[r])'
      BY <1>2, <1>17, <2>1, <2>2 DEF issue, proceeds
    <2>4. /\ c.step = "issue" /\ d.step = "commit" /\ d.scope = s /\ d.rows = k
          /\ d.decided = n
      BY <1>17, <2>2 DEF issue, at
    <2>5. scope_of(c) = s /\ scope_of(d) = s /\ read_by(c) = k /\ read_by(d) = k
      BY <2>1, <2>4 DEF scope_of, read_by, validates, identifying
    <2>6. /\ GuardHeld(r) /\ ScopeHeld(r, s) /\ EngagementsHeld(r, s) /\ VendorsHeld(r, s)
          /\ holds(r, Key("organization", s.org))
          /\ k = projection(s.org, s.engagement_ids, engagements, vendors)
      BY <2>4, <2>5, Stages DEF Frozen, reached, projects
    <2>7. call'[r] = d /\ held[r] \subseteq held'[r]
      BY <2>3 DEF goes
    <2>8. GuardHeld(r)' /\ ScopeHeld(r, s)' /\ EngagementsHeld(r, s)' /\ VendorsHeld(r, s)'
      BY <2>6, <2>7, ReadKeeps
    <2>9. /\ holds(r, Key("organization", s.org))'
          /\ k = projection(s.org, s.engagement_ids, engagements, vendors)'
      BY <2>6, <2>7 DEF holds, Key, projection, tables
    <2>10. DecidedOn(s, n)
      BY <2>1, <2>3 DEF DecidedOn, windows_current
    <2>11. DecidedOn(s, n)'
      BY <2>10 DEF DecidedOn, current
    <2>12. Frozen(r, d)'
      BY <2>4, <2>5, <2>8, <2>9, <2>11 DEF Frozen
    <2>. QED  BY <2>7, <2>12, FrozenNow
  <1>18. CASE commit(r) \/ lock_timeout(r) \/ fail(r) \/ issue_metadata(r)
    BY <1>2, <1>18 DEF commit, lock_timeout, fail, issue_metadata
  <1>19. CASE find_role(r)
    <2>1. SUFFICES ASSUME NEW u, goes(r, [step |-> "authenticate", use |-> u]),
                          u.for = "authorize"
                   PROVE  Frozen(r, call[r])'
      <3>1. ASSUME NEW m, goes(r, identify([for |-> "authorize", org |-> c.org,
                                            role |-> members[m].role,
                                            engagement |-> c.engagement, now |-> clock]))
            PROVE  Frozen(r, call[r])'
        <4>1. PICK u : u = [for |-> "authorize", org |-> c.org, role |-> members[m].role,
                            engagement |-> c.engagement, now |-> clock]
          OBVIOUS
        <4>2. u.for = "authorize"
          BY <4>1
        <4>. QED  BY <2>1, <3>1, <4>1, <4>2 DEF identify
      <3>. QED  BY <1>2, <1>19, <3>1 DEF find_role
    <2>2. ~reached([step |-> "authenticate", use |-> u], begun)
      BY <2>1 DEF reached, validates, begun, scopes, contains, derives, relates, projects
    <2>. QED  BY <1>1, <2>1, <2>2
  <1>20. CASE join(r)
    <2>1. SUFFICES ASSUME NEW e, NEW x,
                          goes(r, [step |-> "metadata", engagement |-> e, expires |-> x])
                   PROVE  Frozen(r, call[r])'
      BY <1>2, <1>20 DEF join
    <2>2. ~reached([step |-> "metadata", engagement |-> e, expires |-> x], begun)
      BY DEF reached, validates, identifying, begun, scopes, contains, derives, relates, projects
    <2>. QED  BY <1>1, <2>1, <2>2
  <1>. QED
    BY <1>5, <1>6, <1>7, <1>8, <1>9, <1>10, <1>11, <1>12, <1>13, <1>14, <1>15, <1>16, <1>17,
       <1>18, <1>19, <1>20, <1>25 DEF ReaderStep, runs

LEMMA FrozenStill ==
    ASSUME NEW r, UNCHANGED <<dialect, tables>>, held'[r] = held[r], NEW c, Frozen(r, c)
    PROVE  Frozen(r, c)'
  <1>. DEFINE s == scope_of(c)
  <1>1. held[r] \subseteq held'[r]
    OBVIOUS
  <1>2. /\ reached(c, begun) => GuardHeld(r)'
        /\ c.step = "grants" => MemberHeld(r, c.org, c.member)'
        /\ reached(c, scopes) => ScopeHeld(r, s)'
    BY <1>1, ReadKeeps DEF Frozen
  <1>3. /\ reached(c, derives) => EngagementsHeld(r, s)'
        /\ reached(c, relates) => VendorsHeld(r, s)'
    BY <1>1, ReadKeeps DEF Frozen
  <1>4. reached(c, contains) => holds(r, Key("organization", s.org))'
    BY DEF Frozen, holds, Key
  <1>5. reached(c, projects) =>
          read_by(c) = projection(s.org, s.engagement_ids, engagements, vendors)'
    BY DEF Frozen, projection, tables
  <1>6. c.step = "commit" => DecidedOn(s, c.decided)'
    BY DEF Frozen, DecidedOn, current
  <1>. QED  BY <1>2, <1>3, <1>4, <1>5, <1>6 DEF Frozen

LEMMA ReadInvNext ==
    ASSUME TypeOK, LockInv, WriterInv, ReadInv, Step
    PROVE  ReadInv'
  <1>. Typed
    BY DEF Typed, TypeOK
  <1>. SUFFICES ASSUME NEW r \in Readers  PROVE Frozen(r, call[r])'
    BY DEF ReadInv
  <1>. PICK c : c = call[r]
    OBVIOUS
  <1>. Frozen(r, c) /\ c \in ReadCalls /\ r \in Transactions
    BY DEF ReadInv, TypeOK, Transactions
  <1>1. ASSUME NEW q \in Readers, ReaderStep(q)  PROVE Frozen(r, call[r])'
    <2>1. CASE q = r
      BY <1>1, <2>1, ReadOwn
    <2>2. CASE q # r
      <3>1. UNCHANGED <<dialect, tables>> /\ call'[r] = c /\ held'[r] = held[r]
        BY <1>1, <2>2, ReaderSteps DEF Others, session
      <3>. QED  BY <3>1, FrozenStill, FrozenNow
    <2>. QED  BY <2>1, <2>2
  <1>2. ASSUME NEW w \in Writers, WriterStep(w)  PROVE Frozen(r, call[r])'
    <2>1. r # w
      BY NotBoth
    <2>2. dialect' = dialect /\ call'[r] = c /\ held'[r] = held[r]
      BY <1>2, <2>1, WriterSteps DEF Others, session
    <2>3. CASE write(w)
      BY <2>2, <2>3, WriteKeepsFrozen, FrozenNow
    <2>4. CASE ~write(w)
      <3>1. UNCHANGED tables
        BY <1>2, <2>4, WriterSteps
      <3>. QED  BY <2>2, <3>1, FrozenStill, FrozenNow
    <2>. QED  BY <2>3, <2>4
  <1>3. ASSUME tick \/ end_session  PROVE Frozen(r, call[r])'
    <2>1. UNCHANGED <<dialect, tables>> /\ call'[r] = c /\ held'[r] = held[r]
      BY <1>3, OtherSteps
    <2>. QED  BY <2>1, FrozenStill, FrozenNow
  <1>. QED  BY <1>1, <1>2, <1>3, Steps

-----------------------------------------------------------------------------
(* The preflight's metadata *)

LEMMA ClockSteps ==
    ASSUME TypeOK, Step
    PROVE  clock \in Int /\ clock' \in Int /\ clock <= clock' /\ (live' => live)
  <1>. Typed /\ clock \in Times
    BY DEF Typed, TypeOK
  <1>1. clock \in Int
    BY TimesAssumption
  <1>2. ASSUME NEW r \in Readers, ReaderStep(r)  PROVE clock' = clock /\ live' = live
    BY <1>2, ReaderSteps DEF session
  <1>3. ASSUME NEW w \in Writers, WriterStep(w)  PROVE clock' = clock /\ live' = live
    BY <1>3, WriterSteps DEF session
  <1>4. ASSUME tick \/ end_session
        PROVE  clock' \in Int /\ clock <= clock' /\ (live' => live)
    BY <1>1, <1>4 DEF tick, end_session
  <1>. QED  BY <1>1, <1>2, <1>3, <1>4, Steps

LEMMA EntitledLater ==
    ASSUME TypeOK, MetadataInv, Step, noted
    PROVE  \A e \in Engagements : /\ last_entitled'[e] \in Int /\ last_entitled'[e] <= clock'
                                  /\ last_entitled[e] <= last_entitled'[e]
                                  /\ may_read_evidence(e)' => last_entitled'[e] = clock'
  <1>. SUFFICES ASSUME NEW e \in Engagements
       PROVE  /\ last_entitled'[e] \in Int /\ last_entitled'[e] <= clock'
              /\ last_entitled[e] <= last_entitled'[e]
              /\ may_read_evidence(e)' => last_entitled'[e] = clock'
    OBVIOUS
  <1>1. /\ last_entitled[e] \in Int /\ last_entitled[e] <= clock
        /\ clock \in Int /\ clock' \in Int /\ clock <= clock'
    BY ClockSteps DEF MetadataInv
  <1>2. CASE may_read_evidence(e)'
    <2>1. last_entitled'[e] = clock'
      BY <1>2 DEF noted
    <2>. QED  BY <1>1, <2>1
  <1>3. CASE ~may_read_evidence(e)'
    <2>1. last_entitled'[e] = last_entitled[e]
      BY <1>3 DEF noted
    <2>. QED  BY <1>1, <1>3, <2>1
  <1>. QED  BY <1>2, <1>3

LEMMA TimelyStill ==
    ASSUME TypeOK, MetadataInv, Step, noted, NEW c \in ReadCalls, Timely(c)
    PROVE  Timely(c)'
  <1>1. clock \in Int /\ clock' \in Int /\ clock <= clock'
    BY ClockSteps
  <1>2. ASSUME c.step \in identifying, c.use.for \in {"preflight", "authorize"}
        PROVE  c.use.now <= clock'
    <2>1. c.use \in Uses
      BY <1>2, ReadCallFields DEF identifying
    <2>2. c.use.now \in Int /\ c.use.now <= clock
      BY <1>2, <2>1, UseFields, TimesAssumption DEF Timely
    <2>. QED  BY <1>1, <2>2
  <1>3. ASSUME c.step \in {"member", "join"}  PROVE c.now <= clock'
    <2>1. c.now \in Int /\ c.now <= clock
      BY <1>3, ReadCallFields, TimesAssumption DEF Timely
    <2>. QED  BY <1>1, <2>1
  <1>4. ASSUME c.step = "metadata", clock' < c.expires
        PROVE  c.expires <= last_entitled'[c.engagement] + Minute
    <2>1. c.engagement \in Engagements /\ c.expires \in Int /\ Minute \in Int
      BY <1>4, ReadCallFields, ClockAssumption DEF Expiries
    <2>2. /\ last_entitled[c.engagement] \in Int /\ last_entitled'[c.engagement] \in Int
          /\ last_entitled[c.engagement] <= last_entitled'[c.engagement]
      BY <2>1, EntitledLater DEF MetadataInv
    <2>3. clock < c.expires
      BY <1>1, <1>4, <2>1
    <2>4. c.expires <= last_entitled[c.engagement] + Minute
      BY <1>4, <2>3 DEF Timely
    <2>. QED  BY <2>1, <2>2, <2>4
  <1>. QED  BY <1>2, <1>3, <1>4 DEF Timely

LEMMA TimelyNow ==
    ASSUME NEW r, NEW d, call'[r] = d, Timely(d)'
    PROVE  Timely(call[r])'
  BY DEF Timely

\* What one query has joined entitles the identity at the clock reading, until
\* the metadata expires.
LEMMA JoinedIsEntitled ==
    ASSUME TypeOK, NEW r \in Readers, at(r, "join"), call[r].now <= clock,
           NEW p \in authorizing(call[r]),
           clock < expiry(members[p[1]], grants[p[2]], call[r].now)
    PROVE  /\ may_read_evidence(call[r].engagement)
           /\ expiry(members[p[1]], grants[p[2]], call[r].now) <= clock + Minute
  <1>. DEFINE c == call[r]
              x == members[p[1]]
              y == grants[p[2]]
  <1>1. c \in ReadCalls /\ Stored /\ clock \in Int
    BY TimesAssumption DEF TypeOK, Stored
  <1>2. c.now \in Int /\ c.engagement \in Engagements
    BY <1>1, ReadCallFields, TimesAssumption DEF at
  <1>3. p[1] \in Members /\ p[2] \in Grants /\ x # Absent /\ y # Absent
    BY DEF authorizing
  <1>4. x \in MemberTable /\ y \in GrantTable
    BY <1>1, <1>3, RowTypes
  <1>5. /\ x.subject = Self /\ permitted(x.role) /\ y.member = p[1]
        /\ y.engagement = c.engagement /\ vendors[engagements[c.engagement]] = x.org
        /\ x.status = "active" /\ y.status = "active"
    BY DEF authorizing, current
  <1>6. /\ expiry(x, y, c.now) \in Int /\ expiry(x, y, c.now) <= x.until
        /\ expiry(x, y, c.now) <= y.until /\ expiry(x, y, c.now) <= c.now + Minute
    BY <1>1, <1>2, <1>4, ExpiryTypes
  <1>7. x.until \in Int /\ y.until \in Int /\ Minute \in Int
    BY <1>1, <1>4, RowTypes, ClockAssumption
  <1>8. clock < x.until /\ clock < y.until
    BY <1>1, <1>6, <1>7
  <1>9. p[1] \in current_members(members, clock)
    BY <1>3, <1>5, <1>8 DEF current_members, rows_of, current
  <1>10. c.engagement \in entitled(grants, p[1], clock)
    BY <1>3, <1>5, <1>8 DEF entitled, grants_of, current
  <1>11. may_read_evidence(c.engagement)
    BY <1>5, <1>9, <1>10 DEF may_read_evidence
  <1>12. expiry(x, y, c.now) <= clock + Minute
    BY <1>1, <1>2, <1>6, <1>7
  <1>. QED  BY <1>11, <1>12

LEMMA TimelyOwn ==
    ASSUME TypeOK, MetadataInv, NEW r \in Readers, ReaderStep(r), noted
    PROVE  Timely(call[r])'
  <1>. r \in Transactions /\ DOMAIN call = Transactions /\ call[r] \in ReadCalls
    BY DEF Transactions, TypeOK
  <1>. DEFINE c == call[r]
  <1>. Timely(c)
    BY DEF MetadataInv
  <1>. /\ UNCHANGED <<clock, tables>> /\ clock \in Int
    BY ReaderSteps, TimesAssumption DEF Typed, session, TypeOK
  <1>1. ASSUME NEW d, goes(r, d), d.step \notin identifying \cup {"member", "join", "metadata"}
        PROVE  Timely(call[r])'
    <2>1. Timely(d)'
      BY <1>1 DEF Timely
    <2>. QED  BY <1>1, <2>1, TimelyNow DEF goes
  <1>2. ASSUME ends(r)  PROVE Timely(call[r])'
    BY <1>1, <1>2 DEF ends, Idle, identifying
  <1>3. ASSUME NEW d, goes(r, d), d.step \in identifying, d.step # "metadata",
               d.use.for \in {"preflight", "authorize"} => d.use.now <= clock
        PROVE  Timely(call[r])'
    <2>1. Timely(d)'
      BY <1>3 DEF Timely, identifying
    <2>. QED  BY <1>3, <2>1, TimelyNow DEF goes
  <1>4. CASE scoped_read(r)
    <2>1. PICK u : u = [for |-> "scope"]
      OBVIOUS
    <2>2. PICK d : d = [step |-> "authenticate", use |-> u]
      OBVIOUS
    <2>3. goes(r, d) /\ d.step = "authenticate" /\ d.use = u /\ u.for = "scope"
      BY <1>4, <2>1, <2>2 DEF scoped_read, identify
    <2>. QED  BY <1>3, <2>3 DEF identifying
  <1>5. ASSUME NEW e \in Engagements, preflight_evidence_read(r, e)  PROVE Timely(call[r])'
    <2>1. PICK u : u = [for |-> "preflight", engagement |-> e, now |-> clock]
      OBVIOUS
    <2>2. PICK d : d = [step |-> "authenticate", use |-> u]
      OBVIOUS
    <2>3. goes(r, d) /\ d.step = "authenticate" /\ d.use = u /\ u.now = clock
      BY <1>5, <2>1, <2>2 DEF preflight_evidence_read, identify
    <2>. QED  BY <1>3, <2>3 DEF identifying
  <1>6. CASE authenticate(r)
    <2>1. PICK d : d = [step |-> "memberships", use |-> c.use, now |-> clock]
      OBVIOUS
    <2>2. ends(r) \/ goes(r, d)
      BY <1>6, <2>1 DEF authenticate, proceeds
    <2>3. /\ d.step = "memberships" /\ d.use = c.use /\ c.step = "authenticate"
      BY <1>6, <2>1 DEF authenticate, at
    <2>. QED  BY <1>2, <1>3, <2>2, <2>3 DEF identifying, Timely
  <1>7. CASE find_memberships(r)
    <2>1. PICK d : d = [step |-> "reauthenticate", use |-> c.use,
                        found |-> {members[m] : m \in current_members(members, c.now)}]
      OBVIOUS
    <2>2. goes(r, d)
      BY <1>7, <2>1 DEF find_memberships
    <2>3. /\ d.step = "reauthenticate" /\ d.use = c.use /\ c.step = "memberships"
      BY <1>7, <2>1 DEF find_memberships, at
    <2>. QED  BY <1>3, <2>2, <2>3 DEF identifying, Timely
  <1>8. CASE reauthenticate(r)
    <2>. DEFINE org == (CHOOSE row \in c.found : TRUE).org
    <2>1. c.step = "reauthenticate" /\ c.use \in Uses
      BY <1>8, ReadCallFields DEF reauthenticate, at
    <2>2. PICK d : d = continues(c.use, org)
      OBVIOUS
    <2>3. SUFFICES ASSUME goes(r, d)  PROVE Timely(call[r])'
      BY <1>2, <1>8, <2>2 DEF reauthenticate
    <2>. HIDE DEF org
    <2>4. CASE c.use.for \in {"scope", "validate"}
      <3>1. d.step \in {"begin", "validate"}
        BY <2>2, <2>4 DEF continues
      <3>. QED  BY <1>1, <2>3, <3>1 DEF identifying
    <2>5. CASE c.use.for \in {"preflight", "authorize"}
      <3>1. d.step \in {"member", "join"} /\ d.now = c.use.now
        BY <2>2, <2>5 DEF continues
      <3>2. c.use.now <= clock
        BY <2>1, <2>5 DEF Timely, identifying
      <3>3. Timely(d)'
        BY <3>1, <3>2 DEF Timely, identifying
      <3>. QED  BY <2>3, <3>3, TimelyNow DEF goes
    <2>. QED  BY <2>1, <2>4, <2>5, UseFields
  <1>9. CASE begin(r) \/ lock_members(r) \/ lock_grants(r)
    BY <1>1, <1>2, <1>9 DEF begin, lock_members, lock_grants, take, identifying
  <1>10. CASE lock_organization(r) \/ lock_engagements(r) \/ lock_vendors(r)
    <2>1. \E d : goes(r, d) /\ d.step \in {"engagements", "vendors", "project"}
      <3>1. CASE lock_organization(r)
        <4>1. PICK d : d = [step |-> "engagements", scope |-> c.scope]
          OBVIOUS
        <4>. QED  BY <3>1, <4>1 DEF lock_organization, take
      <3>2. CASE lock_engagements(r)
        <4>1. PICK d : d = [step |-> "vendors", scope |-> c.scope,
                            links |-> Restrict(engagements, c.scope.engagement_ids)]
          OBVIOUS
        <4>. QED  BY <3>2, <4>1 DEF lock_engagements, take
      <3>3. CASE lock_vendors(r)
        <4>. DEFINE P == linked(c.scope.org, Restrict(engagements, c.scope.engagement_ids))
                    related == [org |-> c.scope.org, member |-> c.scope.member,
                                authority |-> c.scope.authority,
                                engagement_ids |-> c.scope.engagement_ids,
                                relationships |-> <<c.links, P>>]
        <4>1. goes(r, [step |-> "project", scope |-> related])
          BY <3>3 DEF lock_vendors, take
        <4>. HIDE DEF related
        <4>. QED  BY <4>1
      <3>. QED  BY <1>10, <3>1, <3>2, <3>3
    <2>. QED  BY <1>1, <2>1 DEF identifying
  <1>11. CASE project(r) \/ validate(r) \/ issue(r)
    BY <1>1, <1>2, <1>11 DEF project, validate, issue, proceeds, identifying
  <1>12. CASE compare(r)
    <2>1. PICK u : u = [for |-> "validate", scope |-> c.scope, rows |-> c.rows]
      OBVIOUS
    <2>2. PICK d : d = [step |-> "authenticate", use |-> u]
      OBVIOUS
    <2>3. d.step = "authenticate" /\ d.use = u /\ u.for = "validate"
      BY <2>1, <2>2
    <2>4. goes(r, d) \/ ends(r)
      BY <1>12, <2>1, <2>2 DEF compare, proceeds, identify
    <2>. QED  BY <1>2, <1>3, <2>3, <2>4 DEF identifying
  <1>30. CASE count(r)
    <2>1. PICK u : u = [for |-> "validate", scope |-> c.scope, rows |-> projected(c)]
      OBVIOUS
    <2>2. PICK d : d = [step |-> "authenticate", use |-> u]
      OBVIOUS
    <2>3. d.step = "authenticate" /\ d.use = u /\ u.for = "validate"
      BY <2>1, <2>2
    <2>4. goes(r, d)
      BY <1>30, <2>1, <2>2 DEF count, identify
    <2>. QED  BY <1>3, <2>3, <2>4 DEF identifying
  <1>13. CASE commit(r) \/ lock_timeout(r) \/ fail(r) \/ issue_metadata(r)
    BY <1>2, <1>13 DEF commit, lock_timeout, fail, issue_metadata
  <1>14. CASE find_role(r)
    <2>1. ASSUME NEW m, goes(r, identify([for |-> "authorize", org |-> c.org,
                                          role |-> members[m].role,
                                          engagement |-> c.engagement, now |-> clock]))
          PROVE  Timely(call[r])'
      <3>1. PICK u : u = [for |-> "authorize", org |-> c.org, role |-> members[m].role,
                          engagement |-> c.engagement, now |-> clock]
        OBVIOUS
      <3>2. PICK d : d = [step |-> "authenticate", use |-> u]
        OBVIOUS
      <3>3. goes(r, d) /\ d.step = "authenticate" /\ d.use = u /\ u.now = clock
        BY <2>1, <3>1, <3>2 DEF identify
      <3>. QED  BY <1>3, <3>3 DEF identifying
    <2>. QED  BY <1>2, <1>14, <2>1 DEF find_role
  <1>15. CASE join(r)
    <2>1. ASSUME NEW p \in authorizing(c),
                 goes(r, [step |-> "metadata", engagement |-> c.engagement,
                          expires |-> expiry(members[p[1]], grants[p[2]], c.now)])
          PROVE  Timely(call[r])'
      <3>1. PICK x : x = expiry(members[p[1]], grants[p[2]], c.now)
        OBVIOUS
      <3>2. PICK d : d = [step |-> "metadata", engagement |-> c.engagement, expires |-> x]
        OBVIOUS
      <3>3. call'[r] = d /\ d.step = "metadata" /\ d.engagement = c.engagement /\ d.expires = x
        BY <2>1, <3>1, <3>2 DEF goes
      <3>4. PICK e : e = c.engagement
        OBVIOUS
      <3>5. e \in Engagements /\ c.now <= clock
        BY <1>15, <3>4, ReadCallFields DEF join, at, Timely
      <3>6. ASSUME clock < x  PROVE may_read_evidence(e) /\ x <= clock + Minute
        BY <1>15, <2>1, <3>1, <3>4, <3>5, <3>6, JoinedIsEntitled DEF join
      <3>7. may_read_evidence(e)' <=> may_read_evidence(e)
        BY DEF may_read_evidence, tables, current_members, rows_of, current, entitled, grants_of
      <3>8. ASSUME clock < x  PROVE last_entitled'[e] = clock
        BY <3>5, <3>6, <3>7, <3>8 DEF noted
      <3>9. Timely(d)'
        BY <3>3, <3>4, <3>6, <3>8 DEF Timely, identifying
      <3>. QED  BY <3>3, <3>9, TimelyNow
    <2>. QED  BY <1>2, <1>15, <2>1 DEF join
  <1>. QED
    BY <1>4, <1>5, <1>6, <1>7, <1>8, <1>9, <1>10, <1>11, <1>12, <1>13, <1>14, <1>15,
       <1>30
       DEF ReaderStep, runs

LEMMA MetadataInvNext ==
    ASSUME TypeOK, MetadataInv, Step, noted
    PROVE  MetadataInv'
  <1>. Typed
    BY DEF Typed, TypeOK
  <1>1. \A e \in Engagements : last_entitled'[e] \in Int /\ last_entitled'[e] <= clock'
    BY EntitledLater
  <1>2. ASSUME NEW r \in Readers  PROVE Timely(call[r])'
    <2>1. PICK c : c = call[r]
      OBVIOUS
    <2>2. c \in ReadCalls /\ Timely(c) /\ r \in Transactions
      BY <2>1 DEF TypeOK, MetadataInv, Transactions
    <2>3. CASE call'[r] = c
      BY <2>2, <2>3, TimelyStill, TimelyNow
    <2>4. CASE call'[r] # c
      <3>1. ASSUME NEW q \in Readers, ReaderStep(q)  PROVE Timely(call[r])'
        <4>1. q = r
          BY <2>1, <2>2, <2>4, <3>1, ReaderSteps DEF Others
        <4>. QED  BY <3>1, <4>1, TimelyOwn
      <3>2. ASSUME NEW w \in Writers, WriterStep(w)  PROVE FALSE
        BY <2>1, <2>2, <2>4, <3>2, NotBoth, WriterSteps DEF Others
      <3>3. ASSUME tick \/ end_session  PROVE FALSE
        BY <2>1, <2>4, <3>3, OtherSteps
      <3>. QED  BY <3>1, <3>2, <3>3, Steps
    <2>. QED  BY <2>3, <2>4
  <1>3. ASSUME NEW i, i \in issued'
        PROVE  /\ i.expires \in Int
               /\ clock' < i.expires => i.expires <= last_entitled'[i.engagement] + Minute
    <2>1. clock \in Int /\ clock' \in Int /\ clock <= clock' /\ Minute \in Int
      BY ClockSteps, ClockAssumption
    <2>2. /\ i.engagement \in Engagements /\ i.expires \in Int
          /\ clock < i.expires => i.expires <= last_entitled[i.engagement] + Minute
      <3>1. CASE i \in issued
        BY <3>1 DEF MetadataInv, TypeOK
      <3>2. CASE i \notin issued
        <4>1. PICK r \in Readers : ReaderStep(r)
          <5>1. ASSUME NEW w \in Writers, WriterStep(w)  PROVE FALSE
            BY <1>3, <3>2, <5>1, WriterSteps
          <5>2. ASSUME tick \/ end_session  PROVE FALSE
            BY <1>3, <3>2, <5>2, OtherSteps
          <5>. QED  BY <5>1, <5>2, Steps
        <4>2. /\ call[r].step = "metadata" /\ i.engagement = call[r].engagement
              /\ i.expires = call[r].expires /\ i.engagement \in Engagements
              /\ i.expires \in Expiries
          BY <1>3, <3>2, <4>1, IssuedStep
        <4>3. Timely(call[r])
          BY DEF MetadataInv
        <4>. QED  BY <4>2, <4>3 DEF Timely, Expiries
      <3>. QED  BY <3>1, <3>2
    <2>3. /\ last_entitled[i.engagement] \in Int /\ last_entitled'[i.engagement] \in Int
          /\ last_entitled[i.engagement] <= last_entitled'[i.engagement]
      BY <2>2, EntitledLater DEF MetadataInv
    <2>. QED  BY <2>1, <2>2, <2>3
  <1>. QED  BY <1>1, <1>2, <1>3 DEF MetadataInv

-----------------------------------------------------------------------------
(* The invariants, and what follows *)

TenantInv == TypeOK /\ LockInv /\ WriterInv /\ ReadInv /\ MetadataInv

\* TenantInv: locks are exclusive, and what each transaction has read or is about
\* to write is locked, step by step; metadata is timely.
THEOREM InductiveInvariant == Spec => []TenantInv
  <1>1. Init => LockInv /\ WriterInv /\ ReadInv /\ MetadataInv
    <2>. SUFFICES ASSUME Init  PROVE LockInv /\ WriterInv /\ ReadInv /\ MetadataInv
      OBVIOUS
    <2>1. \A t \in Transactions : held[t] = {} /\ call[t] = Idle
      BY DEF Init
    <2>2. \A r \in Readers : call[r].step = "idle"
      BY <2>1 DEF Transactions, Idle
    <2>3. \A w \in Writers : call[w].step = "idle"
      BY <2>1 DEF Transactions, Idle
    <2>4. ReadInv
      BY <2>2 DEF ReadInv, Frozen, reached, validates, identifying, begun, scopes, contains,
         derives, relates, projects
    <2>5. \A r \in Readers : Timely(call[r])
      BY <2>2 DEF Timely, identifying
    <2>6. \A e \in Engagements : last_entitled[e] \in Int /\ last_entitled[e] <= clock
      BY ClockAssumption DEF Init
    <2>. QED
      BY <2>1, <2>3, <2>4, <2>5, <2>6 DEF LockInv, WriterInv, WriterHas, MetadataInv, Init
  <1>2. /\ TypeOK /\ TypeOK' /\ LockInv /\ WriterInv /\ ReadInv /\ MetadataInv /\ [Next]_vars
        => LockInv' /\ WriterInv' /\ ReadInv' /\ MetadataInv'
    <2>. SUFFICES ASSUME TypeOK, LockInv, WriterInv, ReadInv, MetadataInv, [Next]_vars
                  PROVE  LockInv' /\ WriterInv' /\ ReadInv' /\ MetadataInv'
      OBVIOUS
    <2>. Typed
      BY DEF Typed, TypeOK
    <2>1. CASE Next
      BY <2>1, LockInvNext, WriterInvNext, ReadInvNext, MetadataInvNext DEF Next
    <2>2. CASE UNCHANGED vars
      <3>1. UNCHANGED <<dialect, clock, tables, held, call, issued, last_entitled>>
        BY <2>2 DEF vars, session
      <3>2. LockInv'
        BY <3>1 DEF LockInv, shares, Guard, Lock
      <3>3. WriterInv'
        BY <3>1, WriterHasStill DEF WriterInv, tables
      <3>4. ASSUME NEW r \in Readers  PROVE Frozen(r, call[r])'
        <4>1. PICK c : c = call[r]
          OBVIOUS
        <4>2. Frozen(r, c)
          BY <4>1 DEF ReadInv
        <4>3. call'[r] = c /\ held'[r] = held[r]
          BY <3>1, <4>1
        <4>. QED  BY <3>1, <4>2, <4>3, FrozenStill, FrozenNow
      <3>5. ReadInv'
        BY <3>4 DEF ReadInv
      <3>6. MetadataInv'
        BY <3>1 DEF MetadataInv, Timely
      <3>. QED  BY <3>2, <3>3, <3>5, <3>6
    <2>. QED  BY <2>1, <2>2
  <1>. QED  BY <1>1, <1>2, TypeCorrect, PTL DEF Spec, TenantInv

\* The rows that authorize a read say the same when its clock was read.
LEMMA VisibleNow ==
    ASSUME NEW r, NEW s, NEW n, ScopeHeld(r, s), DecidedOn(s, n)
    PROVE  visible(members, grants, engagements, vendors, n)
             = projection(s.org, s.engagement_ids, engagements, vendors)
  <1>. DEFINE ms == Restrict(members, rows_of(members))
              gs == Restrict(grants, grants_of(grants, s.member))
  <1>1. s.authority[1] = ms /\ s.authority[2] = gs
    BY DEF ScopeHeld, authority
  <1>2. /\ DOMAIN ms = rows_of(members) /\ \A m \in rows_of(members) : ms[m] = members[m]
        /\ DOMAIN gs = grants_of(grants, s.member)
        /\ \A g \in grants_of(grants, s.member) : gs[g] = grants[g]
    BY DEF Restrict
  <1>3. /\ {m \in DOMAIN ms : current(ms[m], n)} = {s.member}
        /\ {gs[g].engagement : g \in {h \in DOMAIN gs : current(gs[h], n)}} = s.engagement_ids
    BY <1>1 DEF DecidedOn
  <1>. HIDE DEF ms, gs
  <1>4. current_members(members, n) = {s.member}
    BY <1>2, <1>3 DEF current_members
  <1>5. entitled(grants, s.member, n) = s.engagement_ids
    BY <1>2, <1>3 DEF entitled
  <1>6. members[s.member].org = s.org /\ permitted(members[s.member].role)
    BY DEF ScopeHeld, MemberHeld
  <1>7. {m \in current_members(members, n) :
           current_members(members, n) = {m} /\ permitted(members[m].role)} = {s.member}
    BY <1>4, <1>6
  <1>. HIDE DEF projection
  <1>8. {projection(members[m].org, entitled(grants, m, n), engagements, vendors) : m \in {s.member}}
          = {projection(s.org, s.engagement_ids, engagements, vendors)}
    BY <1>5, <1>6
  <1>9. visible(members, grants, engagements, vendors, n)
          = UNION {projection(s.org, s.engagement_ids, engagements, vendors)}
    BY <1>7, <1>8 DEF visible
  <1>. QED  BY <1>9

\* HeldUntilIssued: what a read returns is still what its identity may see.
THEOREM HeldUntilCommitted == Spec => []HeldUntilIssued
  <1>1. TenantInv => HeldUntilIssued
    <2>. SUFFICES ASSUME TenantInv, NEW r \in Readers, at(r, "commit")
                  PROVE  call[r].rows = visible(members, grants, engagements, vendors,
                                                call[r].decided)
      BY DEF HeldUntilIssued
    <2>. DEFINE c == call[r]
    <2>1. Frozen(r, c) /\ c.step = "commit"
      BY DEF TenantInv, ReadInv, at
    <2>2. scope_of(c) = c.scope /\ read_by(c) = c.rows
      BY <2>1 DEF scope_of, read_by, validates, identifying
    <2>3. /\ ScopeHeld(r, c.scope) /\ DecidedOn(c.scope, c.decided)
          /\ c.rows = projection(c.scope.org, c.scope.engagement_ids, engagements, vendors)
      BY <2>1, <2>2, Stages DEF Frozen
    <2>. QED  BY <2>3, VisibleNow
  <1>. QED  BY <1>1, InductiveInvariant, PTL

\* MetadataShortLived: who was revoked can use the metadata for a minute at most.
THEOREM MetadataIsShortLived == Spec => []MetadataShortLived
  <1>1. TenantInv => MetadataShortLived
    <2>. SUFFICES ASSUME TenantInv, NEW i \in issued, clock < i.expires
                  PROVE  clock < last_entitled[i.engagement] + Minute
      BY DEF MetadataShortLived
    <2>1. i.engagement \in Engagements /\ i.expires \in Int /\ clock \in Int /\ Minute \in Int
      BY ClockAssumption, TimesAssumption DEF TenantInv, MetadataInv, TypeOK
    <2>2. last_entitled[i.engagement] \in Int
      BY <2>1 DEF TenantInv, MetadataInv
    <2>3. i.expires <= last_entitled[i.engagement] + Minute
      BY DEF TenantInv, MetadataInv
    <2>. QED  BY <2>1, <2>2, <2>3
  <1>. QED  BY <1>1, InductiveInvariant, PTL

-----------------------------------------------------------------------------
(* The contract *)

LEMMA AskOf ==
    ASSUME NEW c
    PROVE  /\ c.step = "commit" => ask_of(c) = [phase |-> "decided", rows |-> c.rows]
           /\ c.step \in {"validate", "issue"} => ask_of(c) = [phase |-> "vouched"]
           /\ c.step \in identifying =>
                ask_of(c) = [phase |-> IF c.use.for \in {"scope", "validate"}
                                       THEN "asked" ELSE "idle"]
           /\ c.step \in {"begin", "members", "grants", "organization", "engagements", "vendors",
                          "project", "compare"} => ask_of(c) = [phase |-> "asked"]
           /\ c.step \in {"idle", "member", "join", "metadata"} => ask_of(c) = [phase |-> "idle"]
  BY DEF ask_of, identifying

asked   == [phase |-> "asked"]
idle    == [phase |-> "idle"]
vouched == [phase |-> "vouched"]

\* A step of a reader, as the contract sees it.
AskStep(r) ==
    LET a == ask_of(call[r])
        b == ask_of(call[r])'
    IN  \/ b = a
        \/ a = idle /\ b = asked
        \/ a = asked /\ b = vouched /\ live /\ clock < SessionEnd
        \/ /\ a = vouched
           /\ b = [phase |-> "decided",
                   rows |-> visible(members, grants, engagements, vendors, clock)]
        \/ a.phase # "idle" /\ b = idle

LEMMA AsksFollow ==
    ASSUME TenantInv, NEW r \in Readers, ReaderStep(r)
    PROVE  AskStep(r)
  <1>. r \in Transactions /\ DOMAIN call = Transactions /\ call[r] \in ReadCalls
    BY DEF Transactions, TypeOK, TenantInv
  <1>. DEFINE c == call[r]
              d == call'[r]
  <1>1. ASSUME NEW x, goes(r, x)  PROVE d = x
    BY <1>1 DEF goes
  <1>2. ASSUME NEW x, goes(r, x), ask_of(c) = asked, ask_of(x) = asked  PROVE AskStep(r)
    BY <1>1, <1>2 DEF AskStep, ask_of
  <1>3. ASSUME NEW x, goes(r, x), ask_of(c) = idle, ask_of(x) = idle  PROVE AskStep(r)
    BY <1>1, <1>3 DEF AskStep, ask_of
  <1>4. ASSUME ends(r)  PROVE AskStep(r)
    <2>1. d = Idle
      BY <1>1, <1>4 DEF ends
    <2>2. ask_of(Idle) = idle
      BY AskOf DEF Idle, idle
    <2>3. ask_of(c) = idle \/ ask_of(c).phase # "idle"
      <3>1. c.step \in {"idle", "member", "join", "metadata", "commit", "validate", "issue"}
                        \cup identifying
                        \cup {"begin", "members", "grants", "organization", "engagements",
                              "vendors", "project", "compare"}
        BY ReadCallFields DEF begun, scopes, contains, derives, relates, projects
      <3>. HIDE DEF c
      <3>2. CASE c.step \in {"idle", "member", "join", "metadata"}
        BY <3>2, AskOf DEF idle
      <3>3. CASE c.step \in {"commit", "validate", "issue"}
        BY <3>3, AskOf
      <3>4. CASE c.step \in identifying
        BY <3>4, AskOf DEF idle
      <3>5. CASE c.step \in {"begin", "members", "grants", "organization", "engagements",
                             "vendors", "project", "compare"}
        BY <3>5, AskOf
      <3>. QED  BY <3>1, <3>2, <3>3, <3>4, <3>5
    <2>4. ask_of(call[r])' = idle
      BY <2>1, <2>2 DEF ask_of, idle, Idle
    <2>. QED  BY <2>3, <2>4 DEF AskStep, idle
  <1>5. CASE scoped_read(r)
    <2>1. PICK u : u = [for |-> "scope"]
      OBVIOUS
    <2>2. PICK x : x = [step |-> "authenticate", use |-> u]
      OBVIOUS
    <2>3. goes(r, x) /\ x.step = "authenticate" /\ x.use.for = "scope" /\ c.step = "idle"
      BY <1>5, <2>1, <2>2 DEF scoped_read, identify, Idle
    <2>4. ask_of(x) = asked /\ ask_of(c) = idle
      BY <2>3, AskOf DEF identifying, asked, idle
    <2>5. ask_of(call[r])' = asked
      BY <1>1, <2>3, <2>4 DEF ask_of, asked
    <2>. QED  BY <2>4, <2>5 DEF AskStep
  <1>6. ASSUME NEW e \in Engagements, preflight_evidence_read(r, e)  PROVE AskStep(r)
    <2>1. PICK u : u = [for |-> "preflight", engagement |-> e, now |-> clock]
      OBVIOUS
    <2>2. PICK x : x = [step |-> "authenticate", use |-> u]
      OBVIOUS
    <2>3. goes(r, x) /\ x.step = "authenticate" /\ x.use.for = "preflight" /\ c.step = "idle"
      BY <1>6, <2>1, <2>2 DEF preflight_evidence_read, identify, Idle
    <2>4. ask_of(x) = idle /\ ask_of(c) = idle
      BY <2>3, AskOf DEF identifying, idle
    <2>. QED  BY <1>3, <2>3, <2>4
  <1>7. CASE authenticate(r) \/ find_memberships(r)
    <2>1. SUFFICES ASSUME NEW x, goes(r, x), x.step \in identifying, x.use = c.use,
                          c.step \in identifying
                   PROVE  AskStep(r)
      <3>1. CASE authenticate(r)
        <4>1. PICK x : x = [step |-> "memberships", use |-> c.use, now |-> clock]
          OBVIOUS
        <4>2. ends(r) \/ goes(r, x)
          BY <3>1, <4>1 DEF authenticate, proceeds
        <4>3. c.step \in identifying /\ x.step \in identifying /\ x.use = c.use
          BY <3>1, <4>1 DEF authenticate, at, identifying
        <4>. QED  BY <1>4, <2>1, <4>2, <4>3
      <3>2. CASE find_memberships(r)
        <4>1. PICK x : x = [step |-> "reauthenticate", use |-> c.use,
                            found |-> {members[m] : m \in current_members(members, c.now)}]
          OBVIOUS
        <4>2. goes(r, x)
          BY <3>2, <4>1 DEF find_memberships
        <4>3. c.step \in identifying /\ x.step \in identifying /\ x.use = c.use
          BY <3>2, <4>1 DEF find_memberships, at, identifying
        <4>. QED  BY <2>1, <4>2, <4>3
      <3>. QED  BY <1>7, <3>1, <3>2
    <2>2. ask_of(x) = ask_of(c)
      BY <2>1, AskOf
    <2>3. ask_of(call[r])' = ask_of(x)
      BY <1>1, <2>1 DEF ask_of
    <2>. QED  BY <2>2, <2>3 DEF AskStep
  <1>8. CASE reauthenticate(r)
    <2>. DEFINE org == (CHOOSE row \in c.found : TRUE).org
    <2>1. c.step = "reauthenticate" /\ c.use \in Uses
      BY <1>8, ReadCallFields DEF reauthenticate, at
    <2>2. PICK x : x = continues(c.use, org)
      OBVIOUS
    <2>3. SUFFICES ASSUME goes(r, x), authenticated  PROVE AskStep(r)
      BY <1>4, <1>8, <2>2 DEF reauthenticate, identified
    <2>. HIDE DEF org
    <2>4. CASE c.use.for = "scope"
      <3>1. x.step = "begin"
        BY <2>2, <2>4 DEF continues
      <3>2. ask_of(c) = asked /\ ask_of(x) = asked
        BY <2>1, <2>4, <3>1, AskOf DEF identifying, asked
      <3>. QED  BY <1>2, <2>3, <3>2
    <2>5. CASE c.use.for = "validate"
      <3>1. x.step = "validate"
        BY <2>2, <2>5 DEF continues
      <3>2. ask_of(c) = asked /\ ask_of(x) = vouched
        BY <2>1, <2>5, <3>1, AskOf DEF identifying, asked, vouched
      <3>3. ask_of(call[r])' = vouched
        BY <1>1, <2>3, <3>2 DEF ask_of, vouched
      <3>. QED  BY <2>3, <3>2, <3>3 DEF AskStep, authenticated
    <2>6. CASE c.use.for \in {"preflight", "authorize"}
      <3>1. x.step \in {"member", "join"}
        BY <2>2, <2>6 DEF continues
      <3>2. ask_of(c) = idle /\ ask_of(x) = idle
        BY <2>1, <2>6, <3>1, AskOf DEF identifying, idle
      <3>. QED  BY <1>3, <2>3, <3>2
    <2>. QED  BY <2>1, <2>4, <2>5, <2>6, UseFields
  <1>9. ASSUME NEW x, goes(r, x), x.step \in {"members", "grants", "organization", "engagements",
                                              "vendors", "project", "compare"},
               c.step \in {"begin", "members", "grants", "organization", "engagements", "vendors",
                           "project"}
        PROVE  AskStep(r)
    <2>1. ask_of(c) = asked /\ ask_of(x) = asked
      BY <1>9, AskOf DEF asked
    <2>. QED  BY <1>2, <1>9, <2>1
  <1>10. CASE begin(r) \/ lock_members(r) \/ lock_grants(r)
    BY <1>4, <1>9, <1>10 DEF begin, lock_members, lock_grants, take, at
  <1>11. CASE lock_organization(r)
    <2>1. PICK x : x = [step |-> "engagements", scope |-> c.scope]
      OBVIOUS
    <2>. QED  BY <1>9, <1>11, <2>1 DEF lock_organization, take, at
  <1>12. CASE lock_engagements(r)
    <2>1. PICK x : x = [step |-> "vendors", scope |-> c.scope,
                        links |-> Restrict(engagements, c.scope.engagement_ids)]
      OBVIOUS
    <2>. QED  BY <1>9, <1>12, <2>1 DEF lock_engagements, take, at
  <1>13. CASE lock_vendors(r)
    <2>. DEFINE P == linked(c.scope.org, Restrict(engagements, c.scope.engagement_ids))
                related == [org |-> c.scope.org, member |-> c.scope.member,
                            authority |-> c.scope.authority,
                            engagement_ids |-> c.scope.engagement_ids,
                            relationships |-> <<c.links, P>>]
    <2>1. goes(r, [step |-> "project", scope |-> related]) /\ c.step = "vendors"
      BY <1>13 DEF lock_vendors, take, at
    <2>. HIDE DEF related
    <2>. QED  BY <1>9, <2>1
  <1>14. CASE project(r)
    BY <1>9, <1>14 DEF project, at
  <1>30. CASE count(r)
    <2>1. PICK u : u = [for |-> "validate", scope |-> c.scope, rows |-> projected(c)]
      OBVIOUS
    <2>2. PICK x : x = [step |-> "authenticate", use |-> u]
      OBVIOUS
    <2>3. /\ x.step = "authenticate" /\ x.use.for = "validate" /\ c.step = "project"
          /\ goes(r, x)
      BY <1>30, <2>1, <2>2 DEF count, identify, at
    <2>4. ask_of(c) = asked /\ ask_of(x) = asked
      BY <2>3, AskOf DEF asked, identifying
    <2>. QED  BY <1>2, <2>3, <2>4
  <1>15. CASE compare(r)
    <2>1. PICK u : u = [for |-> "validate", scope |-> c.scope, rows |-> c.rows]
      OBVIOUS
    <2>2. PICK x : x = [step |-> "authenticate", use |-> u]
      OBVIOUS
    <2>3. /\ x.step = "authenticate" /\ x.use.for = "validate" /\ c.step = "compare"
          /\ goes(r, x) \/ ends(r)
      BY <1>15, <2>1, <2>2 DEF compare, proceeds, identify, at
    <2>4. ask_of(c) = asked /\ ask_of(x) = asked
      BY <2>3, AskOf DEF asked, identifying
    <2>. QED  BY <1>2, <1>4, <2>3, <2>4
  <1>16. CASE validate(r)
    <2>1. PICK x : x = [step |-> "issue", scope |-> c.scope, rows |-> c.rows]
      OBVIOUS
    <2>2. /\ x.step = "issue" /\ c.step = "validate"
          /\ goes(r, x) \/ ends(r)
      BY <1>16, <2>1 DEF validate, proceeds, at
    <2>3. ask_of(x) = ask_of(c)
      BY <2>2, AskOf
    <2>4. goes(r, x) => ask_of(call[r])' = ask_of(x)
      BY <1>1 DEF ask_of
    <2>. QED  BY <1>4, <2>2, <2>3, <2>4 DEF AskStep
  <1>17. CASE issue(r)
    <2>1. PICK s, k, n : s = c.scope /\ k = c.rows /\ n = clock
      OBVIOUS
    <2>2. PICK x : x = [step |-> "commit", scope |-> s, rows |-> k, decided |-> n]
      OBVIOUS
    <2>3. SUFFICES ASSUME windows_current(s), goes(r, x)  PROVE AskStep(r)
      BY <1>4, <1>17, <2>1, <2>2 DEF issue, proceeds
    <2>4. x.step = "commit" /\ x.rows = k /\ c.step = "issue"
      BY <1>17, <2>2 DEF issue, at
    <2>5. scope_of(c) = s /\ read_by(c) = k /\ reached(c, projects)
      BY <2>1, <2>4 DEF scope_of, read_by, validates, identifying, reached, projects
    <2>6. Frozen(r, c)
      BY DEF TenantInv, ReadInv
    <2>7. ScopeHeld(r, s) /\ k = projection(s.org, s.engagement_ids, engagements, vendors)
      BY <2>5, <2>6, Stages DEF Frozen
    <2>8. DecidedOn(s, n)
      BY <2>1, <2>3 DEF DecidedOn, windows_current
    <2>9. k = visible(members, grants, engagements, vendors, clock)
      BY <2>1, <2>7, <2>8, VisibleNow
    <2>10. ask_of(c) = vouched /\ ask_of(x) = [phase |-> "decided", rows |-> k]
      BY <2>4, AskOf DEF vouched
    <2>11. ask_of(call[r])' = [phase |-> "decided", rows |-> k]
      BY <1>1, <2>3, <2>10 DEF ask_of
    <2>. QED  BY <2>9, <2>10, <2>11 DEF AskStep
  <1>18. CASE commit(r) \/ lock_timeout(r) \/ fail(r) \/ issue_metadata(r)
    BY <1>4, <1>18 DEF commit, lock_timeout, fail, issue_metadata
  <1>19. CASE find_role(r)
    <2>1. ASSUME NEW m, goes(r, identify([for |-> "authorize", org |-> c.org,
                                          role |-> members[m].role,
                                          engagement |-> c.engagement, now |-> clock]))
          PROVE  AskStep(r)
      <3>1. PICK u : u = [for |-> "authorize", org |-> c.org, role |-> members[m].role,
                          engagement |-> c.engagement, now |-> clock]
        OBVIOUS
      <3>2. PICK x : x = [step |-> "authenticate", use |-> u]
        OBVIOUS
      <3>3. goes(r, x) /\ x.step = "authenticate" /\ x.use.for = "authorize" /\ c.step = "member"
        BY <1>19, <2>1, <3>1, <3>2 DEF identify, find_role, at
      <3>4. ask_of(c) = idle /\ ask_of(x) = idle
        BY <3>3, AskOf DEF identifying, idle
      <3>. QED  BY <1>3, <3>3, <3>4
    <2>. QED  BY <1>4, <1>19, <2>1 DEF find_role
  <1>20. CASE join(r)
    <2>1. ASSUME NEW e, NEW t, goes(r, [step |-> "metadata", engagement |-> e, expires |-> t])
          PROVE  AskStep(r)
      <3>1. PICK x : x = [step |-> "metadata", engagement |-> e, expires |-> t]
        OBVIOUS
      <3>2. goes(r, x) /\ x.step = "metadata" /\ c.step = "join"
        BY <1>20, <2>1, <3>1 DEF join, at
      <3>3. ask_of(c) = idle /\ ask_of(x) = idle
        BY <3>2, AskOf DEF idle
      <3>. QED  BY <1>3, <3>2, <3>3
    <2>. QED  BY <1>4, <1>20, <2>1 DEF join
  <1>. QED
    BY <1>5, <1>6, <1>7, <1>8, <1>10, <1>11, <1>12, <1>13, <1>14, <1>15, <1>16, <1>17, <1>18,
       <1>19, <1>20, <1>30 DEF ReaderStep, runs

\* The contract's reading of the rows is this module's.
LEMMA SameVisible ==
    Contract!visible(members, grants, engagements, vendors, clock)
      = visible(members, grants, engagements, vendors, clock)
  BY DEF Contract!visible, visible, Contract!projection, projection, Contract!current_members,
     current_members, Contract!rows_of, rows_of, Contract!current, current, Contract!permitted,
     permitted, Contract!entitled, entitled, Contract!grants_of, grants_of, Contract!can, can,
     Contract!permissions_for_role, permissions_for_role, Contract!ALL_PERMISSIONS, ALL_PERMISSIONS

LEMMA StepImplements ==
    ASSUME TenantInv, Next
    PROVE  Contract!Next
  <1>. TypeOK /\ Typed /\ Step
    BY DEF TenantInv, TypeOK, Typed, Next
  <1>1. clock' >= clock /\ (live' => live)
    BY ClockSteps
  <1>. DEFINE asks == [r \in Readers |-> ask_of(call[r])]
  <1>2. ASSUME asks' = asks  PROVE Contract!Next
    BY <1>1, <1>2 DEF Contract!Next, Contract!Change
  <1>3. ASSUME \A r \in Readers : call'[r] = call[r]  PROVE asks' = asks
    BY <1>3 DEF ask_of
  <1>4. ASSUME NEW w \in Writers, WriterStep(w)  PROVE Contract!Next
    <2>1. \A r \in Readers : call'[r] = call[r]
      BY <1>4, NotBoth, WriterSteps DEF Others
    <2>. QED  BY <1>2, <1>3, <2>1
  <1>5. ASSUME tick \/ end_session  PROVE Contract!Next
    BY <1>2, <1>3, <1>5, OtherSteps
  <1>6. ASSUME NEW r \in Readers, ReaderStep(r)  PROVE Contract!Next
    <2>1. UNCHANGED Contract!world
      BY <1>6, ReaderSteps DEF session, tables, Contract!world
    <2>2. \A q \in Readers \ {r} : call'[q] = call[q]
      BY <1>6, ReaderSteps DEF Others, Transactions
    <2>. DEFINE b == ask_of(call'[r])
    <2>3. asks' = [asks EXCEPT ![r] = b]
      BY <2>2 DEF ask_of
    <2>4. asks[r] = ask_of(call[r]) /\ ask_of(call[r])' = b
      BY DEF ask_of
    <2>5. AskStep(r)
      BY <1>6, AsksFollow
    <2>6. CASE b = ask_of(call[r])
      <3>1. asks' = asks
        BY <2>3, <2>4, <2>6
      <3>. QED  BY <1>2, <3>1
    <2>7. CASE ask_of(call[r]) = idle /\ b = asked
      <3>1. Contract!Ask(r)
        BY <2>1, <2>3, <2>4, <2>7 DEF Contract!Ask, Contract!goes, idle, asked
      <3>. QED  BY <3>1 DEF Contract!Next
    <2>8. CASE ask_of(call[r]) = asked /\ b = vouched /\ live /\ clock < SessionEnd
      <3>1. Contract!Vouch(r)
        BY <2>1, <2>3, <2>4, <2>8 DEF Contract!Vouch, Contract!goes, asked, vouched
      <3>. QED  BY <3>1 DEF Contract!Next
    <2>9. CASE /\ ask_of(call[r]) = vouched
               /\ b = [phase |-> "decided",
                       rows |-> visible(members, grants, engagements, vendors, clock)]
      <3>1. Contract!Decide(r)
        BY <2>1, <2>3, <2>4, <2>9, SameVisible DEF Contract!Decide, Contract!goes, vouched
      <3>. QED  BY <3>1 DEF Contract!Next
    <2>10. CASE ask_of(call[r]).phase # "idle" /\ b = idle
      <3>1. Contract!End(r)
        BY <2>1, <2>3, <2>4, <2>10 DEF Contract!End, Contract!goes, idle
      <3>. QED  BY <3>1 DEF Contract!Next
    <2>. QED  BY <2>4, <2>5, <2>6, <2>7, <2>8, <2>9, <2>10 DEF AskStep
  <1>. QED  BY <1>4, <1>5, <1>6, Steps

\* Implements: a scoped read returns what its identity could see at one moment
\* after the call, with a session valid after the call, or nothing.
THEOREM ReadsImplementContract == Spec => Implements
  <1>1. Init => Contract!Init
    <2>. SUFFICES ASSUME Init  PROVE Contract!Init
      OBVIOUS
    <2>1. \A r \in Readers : call[r] = Idle
      BY DEF Init, Transactions
    <2>2. ask_of(Idle) = idle
      BY AskOf DEF Idle, idle
    <2>3. [r \in Readers |-> ask_of(call[r])] = [r \in Readers |-> [phase |-> "idle"]]
      BY <2>1, <2>2 DEF idle
    <2>4. clock \in Times /\ live \in BOOLEAN
      BY ClockAssumption DEF Init
    <2>5. Stored
      BY InitialAssumption DEF Init, Stored
    <2>. QED  BY <2>3, <2>4, <2>5 DEF Contract!Init, Stored, MemberTable, GrantTable,
         Contract!MemberTable, Contract!GrantTable, Statuses, Contract!Statuses, Roles,
         Contract!Roles
  <1>2. TenantInv /\ [Next]_vars => [Contract!Next]_<<Contract!world, [r \in Readers |-> ask_of(call[r])]>>
    <2>1. CASE UNCHANGED vars
      BY <2>1 DEF vars, session, tables, Contract!world, ask_of
    <2>. QED  BY <2>1, StepImplements
  <1>. QED  BY <1>1, <1>2, InductiveInvariant, PTL DEF Spec, Implements, Contract!Spec
=============================================================================
