--------------------------- MODULE ServerSessions ---------------------------
(***************************************************************************)
(* Server-owned sessions: SessionManager over InMemorySessionStore.  Each   *)
(* store operation is atomic under the store's lock; a manager operation    *)
(* is several of them, with a reading of the clock before and after, and    *)
(* the requests of different threads interleave in between.                 *)
(*                                                                         *)
(* A handle is 256 random bits: an unused one is drawn, and nobody presents *)
(* a handle that was not given to them.  Every handle has a session id of   *)
(* its own, so the id is not kept apart from the handle; the verified       *)
(* subject is represented by the sign-in it came from, named by the first   *)
(* handle the sign-in was given.                                            *)
(***************************************************************************)
EXTENDS Integers, FiniteSets

CONSTANTS Threads,            \* request threads
          Handles,            \* the handles that can be drawn in this instance
          Idle_seconds,       \* SessionManager(idle_seconds=...)
          Absolute_seconds,   \* SessionManager(absolute_seconds=...)
          Capacity,           \* InMemorySessionStore(capacity=...)
          MaxClock,           \* bound on the wall clock
          ClockSteps,         \* by how much the wall clock moves at once
          Outages,            \* store operations that may be unavailable
          Absent,             \* None in place of a record
          Denied              \* None in place of a session

Operations == {"create", "authenticate", "rotate", "revoke"}

ASSUME ConfigurationAssumption ==
    /\ Idle_seconds \in Nat /\ Absolute_seconds \in Nat
    /\ 1 <= Idle_seconds /\ Idle_seconds <= Absolute_seconds
ASSUME CapacityAssumption == Capacity \in Nat \ {0}
ASSUME ClockAssumption == MaxClock \in Nat /\ ClockSteps \subseteq Int
ASSUME OutagesAssumption == Outages \subseteq Operations

VARIABLES
    clock,    \* utc_now()
    records,  \* InMemorySessionStore._records
    used,     \* handles drawn so far
    given,    \* handles returned to a client
    call      \* per thread, the manager operation it is in

vars == <<clock, records, used, given, call>>

Times == 0..MaxClock

Idle   == [step |-> "idle"]

Sessions == [login : Handles, issued : Times, expires : Int]
Records  == [session : Sessions, last_seen : Times]

ASSUME NoneAssumption ==
    Absent \notin Records \cup Sessions /\ Denied \notin Sessions

Calls ==
    {Idle}
    \cup [step : {"create"}, handle : Handles, now : Times]
    \cup [step : {"created", "discard", "revoke"}, handle : Handles]
    \cup [step : {"authenticate"}, op : {"issue", "authenticate"},
          handle : Handles, now : Times]
    \cup [step : {"rotate"}, handle : Handles, new : Handles, now : Times]
    \cup [step : {"check"}, op : {"issue", "authenticate", "rotate"},
          handle : Handles, record : Records \cup {Absent}]
    \cup [step : {"withdraw"}, op : {"issue", "authenticate", "rotate"},
          handle : Handles]
    \cup [step : {"answered"}, handle : Handles, session : Sessions \cup {Denied}]

-----------------------------------------------------------------------------
\* Mutant: no absolute deadline.
valid_until_idle(record, now) ==
    /\ record # Absent
    /\ record.session.issued <= record.last_seen /\ record.last_seen <= now
    /\ now < record.last_seen + Idle_seconds

valid(record, now) ==
    /\ record # Absent
    /\ record.session.issued <= record.last_seen
    /\ record.last_seen <= now
    /\ now < record.session.expires
    /\ now < record.last_seen + Idle_seconds
    /\ record.session.expires - record.session.issued <= Absolute_seconds

Stored == {h \in Handles : records[h] # Absent}

\* Mutant: the oldest sign-in makes room.
evicting(now) ==
    [h \in Handles |->
        IF /\ records[h] # Absent
           /\ \/ records[h].session.expires <= now
              \/ /\ Cardinality(Stored) >= Capacity
                 /\ \A g \in Stored :
                      records[h].session.issued <= records[g].session.issued
        THEN Absent ELSE records[h]]

\* What create() leaves of the store before it looks for room.
pruned(now) ==
    [h \in Handles |->
        IF records[h] # Absent /\ records[h].session.expires <= now
        THEN Absent ELSE records[h]]

\* Mutant: the old handle goes on.
rotation_keeping_old(old, new, now) ==
    [records EXCEPT ![new] = [session |-> records[old].session, last_seen |-> now]]

rotation(old, new, now) ==
    [records EXCEPT ![old] = Absent,
        ![new] = [session |-> records[old].session, last_seen |-> now]]

Answer(h, session) == [step |-> "answered", handle |-> h, session |-> session]

-----------------------------------------------------------------------------
(* issue(): draw, create, authenticate, and discard what cannot be used *)

issue(t, h) ==
    /\ call[t] = Idle
    /\ h \notin used
    /\ used' = used \cup {h}
    /\ call' = [call EXCEPT ![t] = [step |-> "create", handle |-> h, now |-> clock]]
    /\ UNCHANGED <<clock, records, given>>

store_create(t) ==
    /\ call[t].step = "create"
    /\ LET h    == call[t].handle
           now  == call[t].now
           kept == pruned(now)
           room == Cardinality({g \in Handles : kept[g] # Absent}) < Capacity
       IN  \/ /\ room
              /\ records' = [kept EXCEPT ![h] =
                   [session   |-> [login |-> h, issued |-> now,
                                   expires |-> now + Absolute_seconds],
                    last_seen |-> now]]
              /\ call' = [call EXCEPT ![t] = [step |-> "created", handle |-> h]]
           \/ /\ ~room
              /\ records' = kept
              /\ call' = [call EXCEPT ![t] = Idle]
    /\ UNCHANGED <<clock, used, given>>

\* authenticate() on the fresh handle, with a new reading of the clock.
authenticate_issued(t) ==
    /\ call[t].step = "created"
    /\ call' = [call EXCEPT ![t] =
                  [step |-> "authenticate", op |-> "issue",
                   handle |-> call[t].handle, now |-> clock]]
    /\ UNCHANGED <<clock, records, used, given>>

discard(t) ==
    /\ call[t].step = "discard"
    /\ records' = [records EXCEPT ![call[t].handle] = Absent]
    /\ call' = [call EXCEPT ![t] = Idle]
    /\ UNCHANGED <<clock, used, given>>

-----------------------------------------------------------------------------
(* authenticate(), rotate(), revoke() on a handle a client was given *)

authenticate(t, h) ==
    /\ call[t] = Idle
    /\ h \in given
    /\ call' = [call EXCEPT ![t] =
                  [step |-> "authenticate", op |-> "authenticate",
                   handle |-> h, now |-> clock]]
    /\ UNCHANGED <<clock, records, used, given>>

store_authenticate(t) ==
    /\ call[t].step = "authenticate"
    /\ LET h      == call[t].handle
           now    == call[t].now
           record == IF valid(records[h], now)
                     THEN [records[h] EXCEPT !.last_seen = now] ELSE Absent
       IN  /\ records' = [records EXCEPT ![h] = record]
           /\ call' = [call EXCEPT ![t] =
                         [step |-> "check", op |-> call[t].op,
                          handle |-> h, record |-> record]]
    /\ UNCHANGED <<clock, used, given>>

rotate(t, h, new) ==
    /\ call[t] = Idle
    /\ h \in given
    /\ new \notin used
    /\ used' = used \cup {new}
    /\ call' = [call EXCEPT ![t] =
                  [step |-> "rotate", handle |-> h, new |-> new, now |-> clock]]
    /\ UNCHANGED <<clock, records, given>>

store_rotate(t) ==
    /\ call[t].step = "rotate"
    /\ LET old == call[t].handle
           new == call[t].new
           now == call[t].now
       IN  \/ /\ valid(records[old], now)
              /\ records' = rotation(old, new, now)
              /\ call' = [call EXCEPT ![t] =
                   [step |-> "check", op |-> "rotate", handle |-> new,
                    record |-> [session |-> records[old].session, last_seen |-> now]]]
           \/ /\ ~valid(records[old], now)
              /\ records' = [records EXCEPT ![old] = Absent]
              /\ call' = [call EXCEPT ![t] =
                   [step |-> "check", op |-> "rotate", handle |-> new,
                    record |-> Absent]]
    /\ UNCHANGED <<clock, used, given>>

\* The clock again, after the storage work: the record must still be valid.
check(t) ==
    /\ call[t].step = "check"
    /\ LET h == call[t].handle
       IN  \/ /\ valid(call[t].record, clock)
              /\ given' = given \cup {h}
              /\ call' = [call EXCEPT ![t] =
                            IF call[t].op = "authenticate"
                            THEN Answer(h, call[t].record.session) ELSE Idle]
           \/ /\ ~valid(call[t].record, clock)
              /\ call' = [call EXCEPT ![t] =
                            [step |-> "withdraw", op |-> call[t].op, handle |-> h]]
              /\ UNCHANGED given
    /\ UNCHANGED <<clock, records, used>>

\* Mutant: a refused sign-in is not discarded.
refused_and_kept(t) ==
    IF call[t].op = "authenticate" THEN Answer(call[t].handle, Denied) ELSE Idle

\* How an operation that came to nothing ends.
Refused(t) ==
    CASE call[t].op = "issue" -> [step |-> "discard", handle |-> call[t].handle]
      [] call[t].op = "authenticate" -> Answer(call[t].handle, Denied)
      [] OTHER -> Idle

withdraw(t) ==
    /\ call[t].step = "withdraw"
    /\ records' = [records EXCEPT ![call[t].handle] = Absent]
    /\ call' = [call EXCEPT ![t] = Refused(t)]
    /\ UNCHANGED <<clock, used, given>>

revoke(t, h) ==
    /\ call[t] = Idle
    /\ h \in given
    /\ call' = [call EXCEPT ![t] = [step |-> "revoke", handle |-> h]]
    /\ UNCHANGED <<clock, records, used, given>>

store_revoke(t) ==
    /\ call[t].step = "revoke"
    /\ records' = [records EXCEPT ![call[t].handle] = Absent]
    /\ call' = [call EXCEPT ![t] = Idle]
    /\ UNCHANGED <<clock, used, given>>

\* The caller takes the answer of authenticate() and the thread is free.
done(t) ==
    /\ call[t].step = "answered"
    /\ call' = [call EXCEPT ![t] = Idle]
    /\ UNCHANGED <<clock, records, used, given>>

-----------------------------------------------------------------------------
(* The environment *)

\* The store raises instead of working; the manager turns that into a refusal.
unavailable(t) ==
    /\ \/ /\ call[t].step \in {"create", "rotate", "revoke"}
          /\ call[t].step \in Outages
          /\ call' = [call EXCEPT ![t] = Idle]
       \/ /\ call[t].step = "authenticate" /\ "authenticate" \in Outages
          /\ call' = [call EXCEPT ![t] = Refused(t)]
       \/ /\ call[t].step = "withdraw" /\ "revoke" \in Outages
          /\ call' = [call EXCEPT ![t] = Refused(t)]
       \/ /\ call[t].step = "discard" /\ "revoke" \in Outages
          /\ call' = [call EXCEPT ![t] = Idle]
    /\ UNCHANGED <<clock, records, used, given>>

tick ==
    /\ \E step \in ClockSteps : clock' = clock + step
    /\ clock' \in Times
    /\ UNCHANGED <<records, used, given, call>>

\* The sessions live in memory only.
restart ==
    /\ records' = [h \in Handles |-> Absent]
    /\ call' = [t \in Threads |-> Idle]
    /\ UNCHANGED <<clock, used, given>>

-----------------------------------------------------------------------------
Init ==
    /\ clock = 0
    /\ records = [h \in Handles |-> Absent]
    /\ used = {}
    /\ given = {}
    /\ call = [t \in Threads |-> Idle]

Serve(t) ==
    \/ \E h \in Handles : issue(t, h) \/ authenticate(t, h) \/ revoke(t, h)
    \/ \E h, new \in Handles : rotate(t, h, new)
    \/ store_create(t) \/ authenticate_issued(t) \/ store_authenticate(t)
    \/ store_rotate(t) \/ store_revoke(t)
    \/ check(t) \/ withdraw(t) \/ discard(t) \/ done(t)
    \/ unavailable(t)

Next == (\E t \in Threads : Serve(t)) \/ tick \/ restart

Spec == Init /\ [][Next]_vars

-----------------------------------------------------------------------------
(* Properties *)

\* Every variable has the shape the store and the manager give it.
TypeOK ==
    /\ clock \in Times
    /\ records \in [Handles -> Records \cup {Absent}]
    /\ used \subseteq Handles
    /\ given \subseteq Handles
    /\ call \in [Threads -> Calls]

\* A sign-in has at most one handle that works: a rotation never leaves the old
\* and the new handle in the store together, however requests interleave.
OneHandlePerLogin ==
    \A g, h \in Stored :
        records[g].session.login = records[h].session.login => g = h

\* The verified subject and the absolute deadline of a sign-in are fixed when
\* it is created: no refresh and no rotation gives it another.
SessionNeverChanges ==
    [][\A g, h \in Handles :
         (/\ records[g] # Absent /\ records'[h] # Absent
          /\ records[g].session.login = records'[h].session.login)
         => records'[h].session = records[g].session]_vars

\* The last use of a handle is never moved back by a request that read the
\* clock earlier, or by a clock that was set back.
LastSeenOnlyForward ==
    [][\A h \in Handles :
         records[h] # Absent /\ records'[h] # Absent
         => records[h].last_seen <= records'[h].last_seen]_vars

Concerns(c, h) ==
    /\ c.step \in {"created", "authenticate", "check", "withdraw", "discard"}
    /\ c.handle = h

Orphan(h) == h \in Stored /\ h \notin given /\ \A t \in Threads : ~Concerns(call[t], h)

\* A session comes to stay in the store under a handle nobody was given only if
\* the store fails when issue() or rotate() takes back what it does not return.
NoOrphans ==
    [][\A h \in Handles : Orphan(h)' /\ ~Orphan(h) =>
         \E t \in Threads : call[t].step \in {"withdraw", "discard"} /\ call[t].handle = h]_vars

\* A session leaves the store at a request that comes with its handle, or once its
\* absolute deadline is past: a sign-in that finds the store full is refused and
\* never ends the session of another ("Never evict a current session to admit
\* another one", InMemorySessionStore.create).
NeverEvicted ==
    [][\A h \in Stored : records'[h] = Absent /\ ~restart =>
         \E t \in Threads :
            \/ call[t].step \notin {"idle", "create"} /\ call[t].handle = h
            \/ call[t].step = "create" /\ records[h].session.expires <= call[t].now]_vars

\* The client of h asks for its end: a sign-out, or a rotation to another handle.
AskedToEnd(h) ==
    \E t \in Threads : call[t].step \in {"revoke", "rotate"} /\ call[t].handle = h

\* A session that is inside both deadlines leaves the store only with its client
\* or with the process: no other sign-in evicts it, and no request that merely
\* uses it ends it.  (The documentation lists what denies a read: unknown, expired,
\* revoked, malformed, corrupted, unavailable.)
LiveSessionIsKept ==
    [][\A h \in given :
         valid(records[h], clock) /\ ~AskedToEnd(h) => records'[h] # Absent \/ restart]_vars

\* What that takes: the requests with one handle come one after another, and the
\* clock is not set back.
InUse(t, h) ==
    call[t].step \in {"authenticate", "check", "withdraw"} /\ call[t].handle = h
InTurn == \A h \in given : \A t, u \in Threads : InUse(t, h) /\ InUse(u, h) => t = u
InTurnSpec == Init /\ [][Next /\ InTurn' /\ clock <= clock']_vars

-----------------------------------------------------------------------------
(* What the manager promises, with readings of the clock, store operations   *)
(* and the idle deadline abstracted away.                                    *)

\* The handle an operation drew for a store step that is still to come.
Drawn(c) ==
    {h \in Handles : \/ c.step = "create" /\ c.handle = h
                     \/ c.step = "rotate" /\ c.new = h}

Pending == UNION {Drawn(call[t]) : t \in Threads}

\* What the contract knows of the operation a thread is in.
Request(c) ==
    CASE c.step = "authenticate" /\ c.op = "authenticate" ->
             [step |-> "asked", handle |-> c.handle]
      [] c.step = "check" /\ c.op = "authenticate" /\ c.record = Absent ->
             [step |-> "asked", handle |-> c.handle]
      [] c.step = "check" /\ c.op = "authenticate" /\ c.record # Absent ->
             [step |-> "seen", session |-> c.record.session]
      [] c.step = "withdraw" /\ c.op = "authenticate" ->
             [step |-> "answered", session |-> Denied]
      [] c.step = "answered" -> [step |-> "answered", session |-> c.session]
      [] OTHER -> Idle

live    == [h \in Handles |-> IF records[h] = Absent THEN Absent ELSE records[h].session]
ever    == used \ Pending
request == [t \in Threads |-> Request(call[t])]

Contract == INSTANCE SessionContract WITH Absolute <- Absolute_seconds

\* Whatever the interleaving of requests, clock and outages: a request is
\* accepted only with a session that was in the store after it asked and before
\* that session's absolute deadline, a handle that left the store never works
\* again, and a rotation hands over exactly one session.
Implements == Contract!Spec
=============================================================================
