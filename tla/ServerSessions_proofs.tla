----------------------- MODULE ServerSessions_proofs -----------------------
(***************************************************************************)
(* Proofs about ServerSessions, for every set of threads and handles, every *)
(* pair of deadlines and every capacity, clock and outage.                  *)
(***************************************************************************)
EXTENDS ServerSessions, TLAPS

-----------------------------------------------------------------------------
(* Types *)

LEMMA SessionTypes ==
    /\ \A r \in Records : r # Absent /\ r.session \in Sessions /\ r.last_seen \in Times
    /\ \A s \in Sessions : s # Denied /\ s # Absent
    /\ \A h \in Handles, n \in Times :
         [login |-> h, issued |-> n, expires |-> n + Absolute_seconds] \in Sessions
    /\ \A s \in Sessions, n \in Times : [session |-> s, last_seen |-> n] \in Records
<1>1. \A n \in Times : n + Absolute_seconds \in Int
  BY ConfigurationAssumption, ClockAssumption DEF Times
<1> QED
  BY <1>1, NoneAssumption DEF Records, Sessions

\* What a refreshed record is.
LEMMA Refreshed ==
    ASSUME NEW r \in Records, NEW now \in Times
    PROVE  /\ [r EXCEPT !.last_seen = now] \in Records
           /\ [r EXCEPT !.last_seen = now].session = r.session
BY DEF Records

\* The fields a call has at each step.
LEMMA CallFields ==
    ASSUME NEW c \in Calls
    PROVE  /\ c.step # "idle" => c.handle \in Handles
           /\ c.step \in {"create", "authenticate", "rotate"} => c.now \in Times
           /\ c.step = "rotate" => c.new \in Handles
           /\ c.step = "check" => c.record \in Records \cup {Absent}
           /\ c.step \in {"check", "withdraw"} => c.op \in {"issue", "authenticate", "rotate"}
           /\ c.step = "authenticate" => c.op \in {"issue", "authenticate"}
           /\ c.step = "answered" => c.session \in Sessions \cup {Denied}
           /\ c.step = "idle" => c = Idle
BY DEF Calls, Idle

LEMMA CallTypes ==
    /\ Idle \in Calls /\ Idle.step = "idle"
    /\ \A h \in Handles, n \in Times :
         [step |-> "create", handle |-> h, now |-> n] \in Calls
    /\ \A h \in Handles : /\ [step |-> "created", handle |-> h] \in Calls
                          /\ [step |-> "discard", handle |-> h] \in Calls
                          /\ [step |-> "revoke", handle |-> h] \in Calls
    /\ \A h \in Handles, n \in Times, o \in {"issue", "authenticate"} :
         [step |-> "authenticate", op |-> o, handle |-> h, now |-> n] \in Calls
    /\ \A h, g \in Handles, n \in Times :
         [step |-> "rotate", handle |-> h, new |-> g, now |-> n] \in Calls
    /\ \A h \in Handles, o \in {"issue", "authenticate", "rotate"},
          r \in Records \cup {Absent} :
         [step |-> "check", op |-> o, handle |-> h, record |-> r] \in Calls
    /\ \A h \in Handles, o \in {"issue", "authenticate", "rotate"} :
         [step |-> "withdraw", op |-> o, handle |-> h] \in Calls
    /\ \A h \in Handles, s \in Sessions \cup {Denied} : Answer(h, s) \in Calls
BY DEF Calls, Idle, Answer

LEMMA RefusedType ==
    ASSUME TypeOK, NEW t \in Threads, call[t].step \in {"authenticate", "withdraw"}
    PROVE  /\ Refused(t) \in Calls
           /\ Refused(t).step \in {"idle", "discard", "answered"}
           /\ Refused(t).step # "idle" => Refused(t).handle = call[t].handle
           /\ Refused(t).step = "answered" <=> call[t].op = "authenticate"
           /\ Refused(t).step = "answered" => Refused(t).session = Denied
<1>1. call[t] \in Calls
  BY DEF TypeOK
<1>2. call[t].handle \in Handles /\ call[t].op \in {"issue", "authenticate", "rotate"}
  BY <1>1, CallFields
<1>3. CASE call[t].op = "issue"
  BY <1>2, <1>3, CallTypes DEF Refused
<1>4. CASE call[t].op = "authenticate"
  BY <1>2, <1>4, CallTypes DEF Refused, Answer
<1>5. CASE call[t].op = "rotate"
  BY <1>2, <1>5, CallTypes DEF Refused
<1> QED
  BY <1>2, <1>3, <1>4, <1>5

LEMMA InitType == Init => TypeOK
BY CallTypes, ClockAssumption DEF Init, TypeOK, Times

LEMMA NextType == TypeOK /\ [Next]_vars => TypeOK'
<1> SUFFICES ASSUME TypeOK, [Next]_vars PROVE TypeOK'
  OBVIOUS
<1> USE DEF TypeOK
<1>1. \A t \in Threads : call[t] \in Calls
  OBVIOUS
<1>2. clock \in Times
  OBVIOUS
<1>3. ASSUME NEW t \in Threads, NEW h \in Handles, issue(t, h) PROVE TypeOK'
  BY <1>3, <1>2, CallTypes DEF issue
<1>4. ASSUME NEW t \in Threads, NEW h \in Handles, authenticate(t, h) PROVE TypeOK'
  BY <1>4, <1>2, CallTypes DEF authenticate
<1>5. ASSUME NEW t \in Threads, NEW h \in Handles, revoke(t, h) PROVE TypeOK'
  BY <1>5, CallTypes DEF revoke
<1>6. ASSUME NEW t \in Threads, NEW h \in Handles, NEW new \in Handles, rotate(t, h, new)
      PROVE  TypeOK'
  BY <1>6, <1>2, CallTypes DEF rotate
<1>7. ASSUME NEW t \in Threads, store_create(t) PROVE TypeOK'
  <2> DEFINE h   == call[t].handle
             now == call[t].now
  <2>1. h \in Handles /\ now \in Times
    BY <1>1, <1>7, CallFields DEF store_create
  <2>2. pruned(now) \in [Handles -> Records \cup {Absent}]
    BY DEF pruned
  <2>3. [session |-> [login |-> h, issued |-> now, expires |-> now + Absolute_seconds],
         last_seen |-> now] \in Records
    BY <2>1, SessionTypes
  <2>4. records' \in [Handles -> Records \cup {Absent}] /\ call' \in [Threads -> Calls]
    BY <1>7, <2>1, <2>2, <2>3, CallTypes DEF store_create
  <2> QED
    BY <1>7, <2>4 DEF store_create
<1>8. ASSUME NEW t \in Threads, authenticate_issued(t) PROVE TypeOK'
  BY <1>8, <1>1, <1>2, CallFields, CallTypes DEF authenticate_issued
<1>9. ASSUME NEW t \in Threads, store_authenticate(t) PROVE TypeOK'
  <2> DEFINE h   == call[t].handle
             now == call[t].now
             record == IF valid(records[h], now)
                       THEN [records[h] EXCEPT !.last_seen = now] ELSE Absent
  <2>1. h \in Handles /\ now \in Times /\ call[t].op \in {"issue", "authenticate", "rotate"}
    BY <1>1, <1>9, CallFields DEF store_authenticate
  <2>2. record \in Records \cup {Absent}
    BY <2>1, Refreshed DEF valid
  <2>3. [step |-> "check", op |-> call[t].op, handle |-> h, record |-> record] \in Calls
    BY <2>1, <2>2, CallTypes
  <2>4. records' = [records EXCEPT ![h] = record]
        /\ call' = [call EXCEPT ![t] =
                     [step |-> "check", op |-> call[t].op, handle |-> h, record |-> record]]
    BY <1>9 DEF store_authenticate
  <2> HIDE DEF record
  <2> QED
    BY <1>9, <2>1, <2>2, <2>3, <2>4 DEF store_authenticate
<1>10. ASSUME NEW t \in Threads, store_rotate(t) PROVE TypeOK'
  <2> DEFINE old == call[t].handle
             new == call[t].new
             now == call[t].now
             moved == [session |-> records[old].session, last_seen |-> now]
  <2>1. old \in Handles /\ new \in Handles /\ now \in Times
    BY <1>1, <1>10, CallFields DEF store_rotate
  <2>2. CASE valid(records[old], now)
    <3>1. moved \in Records
      BY <2>1, <2>2, SessionTypes DEF valid
    <3>2. records' = [records EXCEPT ![old] = Absent, ![new] = moved]
          /\ call' = [call EXCEPT ![t] =
                       [step |-> "check", op |-> "rotate", handle |-> new, record |-> moved]]
      BY <1>10, <2>2 DEF store_rotate, rotation
    <3>3. [step |-> "check", op |-> "rotate", handle |-> new, record |-> moved] \in Calls
      BY <2>1, <3>1, CallTypes
    <3> HIDE DEF moved
    <3> QED
      BY <1>10, <2>1, <3>1, <3>2, <3>3 DEF store_rotate
  <2>3. CASE ~valid(records[old], now)
    BY <1>10, <2>1, <2>3, CallTypes DEF store_rotate
  <2> QED
    BY <2>2, <2>3
<1>11. ASSUME NEW t \in Threads, check(t) PROVE TypeOK'
  <2>1. call[t].handle \in Handles /\ call[t].record \in Records \cup {Absent}
        /\ call[t].op \in {"issue", "authenticate", "rotate"}
    BY <1>1, <1>11, CallFields DEF check
  <2>2. CASE valid(call[t].record, clock)
    <3>1. call[t].record.session \in Sessions
      BY <2>1, <2>2, SessionTypes DEF valid
    <3> QED
      BY <1>11, <2>1, <2>2, <3>1, CallTypes DEF check
  <2>3. CASE ~valid(call[t].record, clock)
    BY <1>11, <2>1, <2>3, CallTypes DEF check
  <2> QED
    BY <2>2, <2>3
<1>12. ASSUME NEW t \in Threads, withdraw(t) PROVE TypeOK'
  BY <1>12, <1>1, RefusedType, CallFields DEF withdraw
<1>13. ASSUME NEW t \in Threads, discard(t) PROVE TypeOK'
  BY <1>13, <1>1, CallTypes, CallFields DEF discard
<1>14. ASSUME NEW t \in Threads, store_revoke(t) PROVE TypeOK'
  BY <1>14, <1>1, CallTypes, CallFields DEF store_revoke
<1>15. ASSUME NEW t \in Threads, done(t) PROVE TypeOK'
  BY <1>15, CallTypes DEF done
<1>16. ASSUME NEW t \in Threads, unavailable(t) PROVE TypeOK'
  BY <1>16, CallTypes, RefusedType DEF unavailable
<1>17. CASE tick
  BY <1>17 DEF tick
<1>18. CASE restart
  BY <1>18, CallTypes DEF restart
<1>19. CASE UNCHANGED vars
  BY <1>19 DEF vars
<1> QED
  BY <1>3, <1>4, <1>5, <1>6, <1>7, <1>8, <1>9, <1>10, <1>11, <1>12, <1>13, <1>14,
     <1>15, <1>16, <1>17, <1>18, <1>19 DEF Next, Serve

\* Every variable keeps its shape, whatever interleaves and whatever fails.
THEOREM TypeCorrect == Spec => []TypeOK
BY InitType, NextType, PTL DEF Spec

-----------------------------------------------------------------------------
(* Handles: drawn, settled, stored *)

\* A handle is drawn by one operation at a time, is in nobody's hands before
\* its store step, and never comes back: what is stored, returned to a client
\* or worked on is settled, and so is the sign-in a stored session came from.
HandlesInv ==
    /\ TypeOK
    /\ Pending \subseteq used
    /\ \A t, u \in Threads : t # u => Drawn(call[t]) \cap Drawn(call[u]) = {}
    /\ \A h \in Handles :
         records[h] # Absent => h \in ever /\ records[h].session.login \in ever
    /\ given \subseteq ever
    /\ \A t \in Threads :
         call[t].step \notin {"idle", "create"} => call[t].handle \in ever
    /\ OneHandlePerLogin

\* What an operation draws at each step.
LEMMA DrawnHandles ==
    /\ \A c : c.step \notin {"create", "rotate"} => Drawn(c) = {}
    /\ \A c \in Calls : c.step = "create" => Drawn(c) = {c.handle}
    /\ \A c \in Calls : c.step = "rotate" => Drawn(c) = {c.new}
    /\ \A c \in Calls : Drawn(c) \subseteq Handles
BY CallFields DEF Drawn

\* The pending handles when thread t goes on to call c.
LEMMA PendingAfter ==
    ASSUME HandlesInv, NEW t \in Threads, NEW c,
           call' = [call EXCEPT ![t] = c]
    PROVE  /\ Drawn(c) = Drawn(call[t]) => Pending' = Pending
           /\ Drawn(call[t]) = {} => Pending' = Pending \cup Drawn(c)
           /\ Drawn(c) = {} => Pending' = Pending \ Drawn(call[t])
<1>1. call'[t] = c /\ \A u \in Threads \ {t} : call'[u] = call[u]
  BY DEF HandlesInv, TypeOK
<1>2. \A h : h \in Pending <=> h \in Drawn(call[t])
                               \/ \E u \in Threads \ {t} : h \in Drawn(call[u])
  BY DEF Pending
<1>3. \A h : h \in Pending' <=> h \in Drawn(c)
                                \/ \E u \in Threads \ {t} : h \in Drawn(call[u])
  BY <1>1 DEF Pending
<1>4. \A u \in Threads \ {t} : Drawn(call[t]) \cap Drawn(call[u]) = {}
  BY DEF HandlesInv
<1> QED
  BY <1>2, <1>3, <1>4

\* A step that stores nothing, draws nothing and hands out only what is settled.
LEMMA QuietStep ==
    ASSUME HandlesInv, TypeOK', NEW t \in Threads, NEW c,
           call' = [call EXCEPT ![t] = c],
           Drawn(c) = {},
           used' = used,
           c.step \notin {"idle", "create"} =>
               c.handle \in ever \cup Drawn(call[t]),
           \A h \in Handles : records'[h] # Absent =>
               records[h] # Absent /\ records'[h].session = records[h].session,
           given' \subseteq ever \cup Drawn(call[t])
    PROVE  HandlesInv' /\ ever' = ever \cup Drawn(call[t])
<1>1. Pending' = Pending \ Drawn(call[t])
  BY PendingAfter
<1>2. Drawn(call[t]) \subseteq Pending
  BY DEF Pending
<1>3. ever' = ever \cup Drawn(call[t])
  BY <1>1, <1>2 DEF ever, HandlesInv
<1>4. call'[t] = c /\ \A u \in Threads \ {t} : call'[u] = call[u]
  BY DEF HandlesInv, TypeOK
<1>5. \A u, v \in Threads : u # v => Drawn(call'[u]) \cap Drawn(call'[v]) = {}
  BY <1>4 DEF HandlesInv
<1>6. \A u \in Threads : call'[u].step \notin {"idle", "create"} => call'[u].handle \in ever'
  BY <1>3, <1>4 DEF HandlesInv
<1>7. OneHandlePerLogin'
  BY DEF HandlesInv, OneHandlePerLogin, Stored
<1>8. \A h \in Handles :
        records'[h] # Absent => h \in ever' /\ records'[h].session.login \in ever'
  BY <1>3 DEF HandlesInv
<1>9. Pending' \subseteq used'
  BY <1>1 DEF HandlesInv
<1>10. given' \subseteq ever'
  BY <1>3
<1> QED
  BY <1>3, <1>5, <1>6, <1>7, <1>8, <1>9, <1>10 DEF HandlesInv

\* Drawing an unused handle settles nothing.
LEMMA DrawStep ==
    ASSUME HandlesInv, TypeOK', NEW t \in Threads, NEW c, NEW h,
           call[t] = Idle, call' = [call EXCEPT ![t] = c],
           h \notin used, used' = used \cup {h}, Drawn(c) = {h},
           c.step # "create" => c.handle \in ever,
           UNCHANGED <<records, given>>
    PROVE  HandlesInv' /\ ever' = ever
<1>1. Drawn(call[t]) = {}
  BY DEF Drawn, Idle
<1>2. Pending' = Pending \cup {h}
  BY <1>1, PendingAfter
<1>3. ever' = ever
  BY <1>2 DEF ever, HandlesInv
<1>4. call'[t] = c /\ \A u \in Threads \ {t} : call'[u] = call[u]
  BY DEF HandlesInv, TypeOK
<1>5. \A u \in Threads : Drawn(call[u]) \subseteq used
  BY DEF HandlesInv, Pending
<1>6. \A u, v \in Threads : u # v => Drawn(call'[u]) \cap Drawn(call'[v]) = {}
  BY <1>4, <1>5 DEF HandlesInv
<1>7. \A u \in Threads : call'[u].step \notin {"idle", "create"} => call'[u].handle \in ever'
  BY <1>3, <1>4 DEF HandlesInv
<1>8. OneHandlePerLogin'
  BY DEF HandlesInv, OneHandlePerLogin, Stored
<1>9. Pending' \subseteq used'
  BY <1>2 DEF HandlesInv
<1>10. \A g \in Handles :
         records'[g] # Absent => g \in ever' /\ records'[g].session.login \in ever'
  BY <1>3 DEF HandlesInv
<1>11. given' \subseteq ever'
  BY <1>3 DEF HandlesInv
<1> QED
  BY <1>3, <1>6, <1>7, <1>8, <1>9, <1>10, <1>11 DEF HandlesInv

-----------------------------------------------------------------------------
(* What each step does to the invariant and to the settled handles *)

LEMMA IssueStep ==
    ASSUME HandlesInv, TypeOK', NEW t \in Threads, NEW h \in Handles, issue(t, h)
    PROVE  HandlesInv' /\ ever' = ever
<1> DEFINE c == [step |-> "create", handle |-> h, now |-> clock]
<1>1. Drawn(c) = {h} /\ c.step = "create"
  BY DEF Drawn
<1>2. /\ call[t] = Idle /\ call' = [call EXCEPT ![t] = c]
      /\ h \notin used /\ used' = used \cup {h} /\ UNCHANGED <<records, given>>
  BY DEF issue
<1> HIDE DEF c
<1> QED
  BY <1>1, <1>2, DrawStep

LEMMA RotateStep ==
    ASSUME HandlesInv, TypeOK', NEW t \in Threads, NEW h \in Handles,
           NEW new \in Handles, rotate(t, h, new)
    PROVE  HandlesInv' /\ ever' = ever
<1> DEFINE c == [step |-> "rotate", handle |-> h, new |-> new, now |-> clock]
<1>1. Drawn(c) = {new} /\ c.handle \in ever
  BY DEF Drawn, rotate, HandlesInv
<1>2. /\ call[t] = Idle /\ call' = [call EXCEPT ![t] = c]
      /\ new \notin used /\ used' = used \cup {new} /\ UNCHANGED <<records, given>>
  BY DEF rotate
<1> HIDE DEF c
<1> QED
  BY <1>1, <1>2, DrawStep

LEMMA AuthenticateStep ==
    ASSUME HandlesInv, TypeOK', NEW t \in Threads, NEW h \in Handles, authenticate(t, h)
    PROVE  HandlesInv' /\ ever' = ever
<1> DEFINE c == [step |-> "authenticate", op |-> "authenticate",
                 handle |-> h, now |-> clock]
<1>1. Drawn(c) = {} /\ Drawn(call[t]) = {}
  BY DEF Drawn, Idle, authenticate
<1>2. /\ call' = [call EXCEPT ![t] = c] /\ c.handle \in ever
      /\ UNCHANGED <<records, used, given>>
  BY DEF authenticate, HandlesInv
<1> HIDE DEF c
<1>3. given' \subseteq ever
  BY <1>2 DEF HandlesInv
<1> QED
  BY <1>1, <1>2, <1>3, QuietStep

LEMMA RevokeStep ==
    ASSUME HandlesInv, TypeOK', NEW t \in Threads, NEW h \in Handles, revoke(t, h)
    PROVE  HandlesInv' /\ ever' = ever
<1> DEFINE c == [step |-> "revoke", handle |-> h]
<1>1. Drawn(c) = {} /\ Drawn(call[t]) = {}
  BY DEF Drawn, Idle, revoke
<1>2. /\ call' = [call EXCEPT ![t] = c] /\ c.handle \in ever
      /\ UNCHANGED <<records, used, given>>
  BY DEF revoke, HandlesInv
<1> HIDE DEF c
<1>3. given' \subseteq ever
  BY <1>2 DEF HandlesInv
<1> QED
  BY <1>1, <1>2, <1>3, QuietStep

LEMMA IssuedStep ==
    ASSUME HandlesInv, TypeOK', NEW t \in Threads, authenticate_issued(t)
    PROVE  HandlesInv' /\ ever' = ever
<1> DEFINE c == [step |-> "authenticate", op |-> "issue",
                 handle |-> call[t].handle, now |-> clock]
<1>1. Drawn(c) = {} /\ Drawn(call[t]) = {}
  BY DEF Drawn, authenticate_issued
<1>2. /\ call' = [call EXCEPT ![t] = c] /\ c.handle \in ever
      /\ UNCHANGED <<records, used, given>>
  BY DEF authenticate_issued, HandlesInv
<1> HIDE DEF c
<1>3. given' \subseteq ever
  BY <1>2 DEF HandlesInv
<1> QED
  BY <1>1, <1>2, <1>3, QuietStep

LEMMA StoreCreateStep ==
    ASSUME HandlesInv, TypeOK', NEW t \in Threads, store_create(t)
    PROVE  /\ HandlesInv'
           /\ ever' = ever \cup {call[t].handle}
           /\ call[t].handle \in Handles \ ever
<1> DEFINE h    == call[t].handle
           now  == call[t].now
           kept == pruned(now)
           room == Cardinality({g \in Handles : kept[g] # Absent}) < Capacity
<1>1. call[t] \in Calls /\ call[t].step = "create"
  BY DEF store_create, HandlesInv, TypeOK
<1>2. h \in Handles /\ Drawn(call[t]) = {h} /\ h \notin ever
  BY <1>1, CallFields, DrawnHandles DEF ever, Pending
<1>3. \A g \in Handles : kept[g] # Absent =>
        records[g] # Absent /\ kept[g].session = records[g].session
  BY DEF pruned
<1>4. CASE ~room
  <2>1. records' = kept /\ call' = [call EXCEPT ![t] = Idle] /\ UNCHANGED <<used, given>>
    BY <1>4 DEF store_create
  <2>2. Drawn(Idle) = {} /\ Idle.step = "idle"
    BY DEF Drawn, Idle
  <2>3. given' \subseteq ever
    BY <2>1 DEF HandlesInv
  <2> HIDE DEF kept
  <2> QED
    BY <1>2, <1>3, <2>1, <2>2, <2>3, QuietStep
<1>5. CASE room
  <2> DEFINE c == [step |-> "created", handle |-> h]
             opened == [session |-> [login |-> h, issued |-> now,
                                     expires |-> now + Absolute_seconds],
                        last_seen |-> now]
  <2>1. /\ records' = [kept EXCEPT ![h] = opened]
        /\ call' = [call EXCEPT ![t] = c] /\ UNCHANGED <<used, given>>
    BY <1>5 DEF store_create
  <2>2. Drawn(c) = {} /\ c.step = "created" /\ c.handle = h
    BY DEF Drawn
  <2>3. opened.session.login = h
    OBVIOUS
  <2>4. \A g \in Handles :
          records'[g] = IF g = h THEN opened ELSE kept[g]
    BY <1>2, <2>1 DEF pruned
  <2> HIDE DEF c, opened, kept
  <2>5. Pending' = Pending \ {h}
    BY <1>2, <2>1, <2>2, PendingAfter
  <2>6. h \in Pending
    BY <1>2 DEF Pending
  <2>7. ever' = ever \cup {h}
    BY <2>1, <2>5, <2>6 DEF ever, HandlesInv
  <2>8. call'[t] = c /\ \A u \in Threads \ {t} : call'[u] = call[u]
    BY <2>1 DEF HandlesInv, TypeOK
  <2>9. \A u, v \in Threads : u # v => Drawn(call'[u]) \cap Drawn(call'[v]) = {}
    BY <2>2, <2>8 DEF HandlesInv
  <2>10. \A u \in Threads :
           call'[u].step \notin {"idle", "create"} => call'[u].handle \in ever'
    BY <2>2, <2>7, <2>8 DEF HandlesInv
  <2>11. \A g \in Handles :
           records'[g] # Absent => g \in ever' /\ records'[g].session.login \in ever'
    BY <1>3, <2>3, <2>4, <2>7 DEF HandlesInv
  <2>12. OneHandlePerLogin'
    <3> SUFFICES ASSUME NEW f \in Handles, NEW g \in Handles,
                        records'[f] # Absent, records'[g] # Absent,
                        records'[f].session.login = records'[g].session.login
                 PROVE  f = g
      BY DEF OneHandlePerLogin, Stored
    <3>1. \A k \in Handles : kept[k] # Absent => kept[k].session.login # h
      BY <1>2, <1>3 DEF HandlesInv
    <3> QED
      BY <1>3, <2>3, <2>4, <3>1 DEF HandlesInv, OneHandlePerLogin, Stored
  <2>13. Pending' \subseteq used' /\ given' \subseteq ever'
    BY <2>1, <2>5, <2>7 DEF HandlesInv
  <2> QED
    BY <1>2, <2>7, <2>9, <2>10, <2>11, <2>12, <2>13 DEF HandlesInv
<1> QED
  BY <1>4, <1>5

LEMMA StoreAuthenticateStep ==
    ASSUME HandlesInv, TypeOK', NEW t \in Threads, store_authenticate(t)
    PROVE  HandlesInv' /\ ever' = ever
<1> DEFINE h   == call[t].handle
           now == call[t].now
           record == IF valid(records[h], now)
                     THEN [records[h] EXCEPT !.last_seen = now] ELSE Absent
           c == [step |-> "check", op |-> call[t].op, handle |-> h, record |-> record]
<1>1. call[t] \in Calls /\ call[t].step = "authenticate"
  BY DEF store_authenticate, HandlesInv, TypeOK
<1>2. h \in Handles /\ now \in Times /\ h \in ever
  BY <1>1, CallFields DEF HandlesInv
<1>3. Drawn(c) = {} /\ Drawn(call[t]) = {} /\ c.handle = h
  BY <1>1 DEF Drawn
<1>4. record # Absent => records[h] # Absent /\ record.session = records[h].session
  BY <1>2, Refreshed DEF valid, HandlesInv, TypeOK
<1>5. /\ call' = [call EXCEPT ![t] = c] /\ records' = [records EXCEPT ![h] = record]
      /\ UNCHANGED <<used, given>>
  BY DEF store_authenticate
<1> HIDE DEF c, record
<1>6. \A g \in Handles : records'[g] # Absent =>
        records[g] # Absent /\ records'[g].session = records[g].session
  BY <1>2, <1>4, <1>5 DEF HandlesInv, TypeOK
<1>7. given' \subseteq ever
  BY <1>5 DEF HandlesInv
<1> QED
  BY <1>2, <1>3, <1>5, <1>6, <1>7, QuietStep

LEMMA StoreRotateStep ==
    ASSUME HandlesInv, TypeOK', NEW t \in Threads, store_rotate(t)
    PROVE  /\ HandlesInv'
           /\ ever' = ever \cup {call[t].new}
           /\ call[t].new \in Handles \ ever
           /\ call[t].handle \in Handles \cap ever
<1> DEFINE old == call[t].handle
           new == call[t].new
           now == call[t].now
<1>1. call[t] \in Calls /\ call[t].step = "rotate"
  BY DEF store_rotate, HandlesInv, TypeOK
<1>2. /\ old \in Handles /\ new \in Handles /\ Drawn(call[t]) = {new}
      /\ new \notin ever /\ old \in ever
  BY <1>1, CallFields, DrawnHandles DEF ever, Pending, HandlesInv
<1>3. CASE ~valid(records[old], now)
  <2> DEFINE c == [step |-> "check", op |-> "rotate", handle |-> new, record |-> Absent]
  <2>1. Drawn(c) = {} /\ c.handle = new
    BY DEF Drawn
  <2>2. /\ records' = [records EXCEPT ![old] = Absent]
        /\ call' = [call EXCEPT ![t] = c] /\ UNCHANGED <<used, given>>
    BY <1>3 DEF store_rotate
  <2> HIDE DEF c
  <2>3. \A g \in Handles : records'[g] # Absent =>
          records[g] # Absent /\ records'[g].session = records[g].session
    BY <1>2, <2>2 DEF HandlesInv, TypeOK
  <2>4. given' \subseteq ever
    BY <2>2 DEF HandlesInv
  <2> QED
    BY <1>2, <2>1, <2>2, <2>3, <2>4, QuietStep
<1>4. CASE valid(records[old], now)
  <2> DEFINE moved == [session |-> records[old].session, last_seen |-> now]
             c == [step |-> "check", op |-> "rotate", handle |-> new, record |-> moved]
  <2>1. /\ records' = [records EXCEPT ![old] = Absent, ![new] = moved]
        /\ call' = [call EXCEPT ![t] = c] /\ UNCHANGED <<used, given>>
    BY <1>4 DEF store_rotate, rotation
  <2>2. Drawn(c) = {} /\ c.step = "check" /\ c.handle = new
    BY DEF Drawn
  <2>3. moved.session = records[old].session /\ records[old] # Absent
    BY <1>4 DEF valid
  <2> HIDE DEF c, moved
  <2>4. \A g \in Handles :
          records'[g] = IF g = new THEN moved ELSE IF g = old THEN Absent ELSE records[g]
    BY <1>2, <2>1 DEF HandlesInv, TypeOK
  <2>5. Pending' = Pending \ {new} /\ new \in Pending
    BY <1>2, <2>1, <2>2, PendingAfter DEF Pending
  <2>6. ever' = ever \cup {new}
    BY <2>1, <2>5 DEF ever, HandlesInv
  <2>7. call'[t] = c /\ \A u \in Threads \ {t} : call'[u] = call[u]
    BY <2>1 DEF HandlesInv, TypeOK
  <2>8. \A u, v \in Threads : u # v => Drawn(call'[u]) \cap Drawn(call'[v]) = {}
    BY <2>2, <2>7 DEF HandlesInv
  <2>9. \A u \in Threads :
          call'[u].step \notin {"idle", "create"} => call'[u].handle \in ever'
    BY <2>2, <2>6, <2>7 DEF HandlesInv
  <2>10. \A g \in Handles :
           records'[g] # Absent => g \in ever' /\ records'[g].session.login \in ever'
    BY <1>2, <2>3, <2>4, <2>6 DEF HandlesInv
  <2>11. OneHandlePerLogin'
    <3> SUFFICES ASSUME NEW f \in Handles, NEW g \in Handles,
                        records'[f] # Absent, records'[g] # Absent,
                        records'[f].session.login = records'[g].session.login
                 PROVE  f = g
      BY DEF OneHandlePerLogin, Stored
    <3> QED
      BY <1>2, <2>3, <2>4 DEF HandlesInv, OneHandlePerLogin, Stored
  <2>12. Pending' \subseteq used' /\ given' \subseteq ever'
    BY <2>1, <2>5, <2>6 DEF HandlesInv
  <2> QED
    BY <1>2, <2>6, <2>8, <2>9, <2>10, <2>11, <2>12 DEF HandlesInv
<1> QED
  BY <1>2, <1>3, <1>4

LEMMA CheckStep ==
    ASSUME HandlesInv, TypeOK', NEW t \in Threads, check(t)
    PROVE  HandlesInv' /\ ever' = ever
<1>1. call[t].step = "check" /\ call[t].handle \in ever
  BY DEF check, HandlesInv
<1>2. Drawn(call[t]) = {}
  BY <1>1, DrawnHandles
<1>3. given' \subseteq ever
  BY <1>1 DEF check, HandlesInv
<1> DEFINE c == call'[t]
<1>4. /\ call' = [call EXCEPT ![t] = c]
      /\ c.step \in {"idle", "answered", "withdraw"}
      /\ c.step # "idle" => c.handle = call[t].handle
  <2>1. CASE valid(call[t].record, clock) /\ call[t].op = "authenticate"
    <3>1. call' = [call EXCEPT ![t] = Answer(call[t].handle, call[t].record.session)]
      BY <2>1 DEF check
    <3> QED
      BY <3>1 DEF Answer, HandlesInv, TypeOK
  <2>2. CASE valid(call[t].record, clock) /\ call[t].op # "authenticate"
    <3>1. call' = [call EXCEPT ![t] = Idle]
      BY <2>2 DEF check
    <3> QED
      BY <3>1 DEF Idle, HandlesInv, TypeOK
  <2>3. CASE ~valid(call[t].record, clock)
    <3>1. call' = [call EXCEPT ![t] =
                     [step |-> "withdraw", op |-> call[t].op, handle |-> call[t].handle]]
      BY <2>3 DEF check
    <3> QED
      BY <3>1 DEF HandlesInv, TypeOK
  <2> QED
    BY <2>1, <2>2, <2>3
<1> HIDE DEF c
<1>5. Drawn(c) = {}
  BY <1>4, DrawnHandles
<1>6. used' = used /\ records' = records
  BY DEF check
<1> QED
  BY <1>1, <1>2, <1>3, <1>4, <1>5, <1>6, QuietStep

\* Taking a handle out of the store, or answering, settles what was drawn.
LEMMA EndStep ==
    ASSUME HandlesInv, TypeOK', NEW t \in Threads,
           \/ withdraw(t) \/ discard(t) \/ store_revoke(t) \/ done(t) \/ unavailable(t)
    PROVE  HandlesInv' /\ ever' = ever \cup Drawn(call[t])
<1> DEFINE c == call'[t]
<1>1. /\ call' = [call EXCEPT ![t] = c]
      /\ c.step \in {"idle", "discard", "answered"}
      /\ c.step # "idle" =>
           c.handle = call[t].handle /\ call[t].step \notin {"idle", "create"}
  <2>1. CASE withdraw(t)
    <3>1. call[t].step = "withdraw" /\ call' = [call EXCEPT ![t] = Refused(t)]
      BY <2>1 DEF withdraw
    <3> QED
      BY <3>1, RefusedType DEF HandlesInv, TypeOK
  <2>2. CASE discard(t) \/ store_revoke(t) \/ done(t)
    <3>1. call' = [call EXCEPT ![t] = Idle]
      BY <2>2 DEF discard, store_revoke, done
    <3> QED
      BY <3>1 DEF Idle, HandlesInv, TypeOK
  <2>3. CASE unavailable(t)
    <3>1. \/ call' = [call EXCEPT ![t] = Idle]
          \/ /\ call[t].step \in {"authenticate", "withdraw"}
             /\ call' = [call EXCEPT ![t] = Refused(t)]
      BY <2>3 DEF unavailable
    <3>2. CASE call' = [call EXCEPT ![t] = Idle]
      BY <3>2 DEF Idle, HandlesInv, TypeOK
    <3>3. CASE /\ call[t].step \in {"authenticate", "withdraw"}
               /\ call' = [call EXCEPT ![t] = Refused(t)]
      BY <3>3, RefusedType DEF HandlesInv, TypeOK
    <3> QED
      BY <3>1, <3>2, <3>3
  <2> QED
    BY <2>1, <2>2, <2>3
<1> HIDE DEF c
<1>2. Drawn(c) = {}
  BY <1>1, DrawnHandles
<1>3. c.step # "idle" => c.handle \in ever
  BY <1>1 DEF HandlesInv
<1>4. used' = used /\ given' = given
  BY DEF withdraw, discard, store_revoke, done, unavailable
<1>5. \A h \in Handles : records'[h] # Absent =>
        records[h] # Absent /\ records'[h].session = records[h].session
  BY DEF withdraw, discard, store_revoke, done, unavailable, HandlesInv, TypeOK
<1>6. given' \subseteq ever
  BY <1>4 DEF HandlesInv
<1> QED
  BY <1>1, <1>2, <1>3, <1>4, <1>5, <1>6, QuietStep

LEMMA RestartStep ==
    ASSUME HandlesInv, TypeOK', restart
    PROVE  HandlesInv' /\ ever' = ever \cup Pending
<1>1. \A t \in Threads : call'[t] = Idle /\ Drawn(call'[t]) = {}
  BY CallTypes, DrawnHandles DEF restart
<1>2. Pending' = {}
  BY <1>1 DEF Pending
<1>3. ever' = ever \cup Pending
  BY <1>2 DEF ever, restart, HandlesInv
<1>4. \A h \in Handles : records'[h] = Absent
  BY DEF restart
<1>5. OneHandlePerLogin'
  BY <1>4 DEF OneHandlePerLogin, Stored
<1>6. given' \subseteq ever'
  BY <1>3 DEF restart, HandlesInv
<1> QED
  BY <1>1, <1>2, <1>3, <1>4, <1>5, <1>6, CallTypes DEF HandlesInv

LEMMA HandlesNext == HandlesInv /\ [Next]_vars => HandlesInv'
<1> SUFFICES ASSUME HandlesInv, [Next]_vars PROVE HandlesInv'
  OBVIOUS
<1>1. TypeOK'
  BY NextType DEF HandlesInv
<1>2. ASSUME NEW t \in Threads, Serve(t) PROVE HandlesInv'
  BY <1>1, <1>2, IssueStep, RotateStep, AuthenticateStep, RevokeStep, IssuedStep,
     StoreCreateStep, StoreAuthenticateStep, StoreRotateStep, CheckStep, EndStep
  DEF Serve
<1>3. CASE tick
  BY <1>1, <1>3 DEF tick, HandlesInv, OneHandlePerLogin, Stored, ever, Pending
<1>4. CASE restart
  BY <1>1, <1>4, RestartStep
<1>5. CASE UNCHANGED vars
  BY <1>1, <1>5 DEF vars, HandlesInv, OneHandlePerLogin, Stored, ever, Pending
<1> QED
  BY <1>2, <1>3, <1>4, <1>5 DEF Next

LEMMA HandlesInit == Init => HandlesInv
<1> SUFFICES ASSUME Init PROVE HandlesInv
  OBVIOUS
<1>1. \A t \in Threads : call[t] = Idle /\ Drawn(call[t]) = {} /\ call[t].step = "idle"
  BY CallTypes, DrawnHandles DEF Init
<1>2. Pending = {}
  BY <1>1 DEF Pending
<1> QED
  BY <1>1, <1>2, InitType DEF Init, HandlesInv, OneHandlePerLogin, Stored

THEOREM InductiveInvariant == Spec => []HandlesInv
BY HandlesInit, HandlesNext, PTL DEF Spec

\* A sign-in never has two working handles, however many requests rotate it,
\* sign it out or authenticate it at once.
THEOREM OneHandle == Spec => []OneHandlePerLogin
BY InductiveInvariant, PTL DEF HandlesInv

-----------------------------------------------------------------------------
(* What no step does to a session *)

\* Only create() and rotate() put a session under a handle, and the handle is new.
LEMMA StoredFrom ==
    ASSUME HandlesInv, [Next]_vars, NEW h \in Handles, records'[h] # Absent
    PROVE  \/ records[h] # Absent /\ records'[h].session = records[h].session
           \/ /\ records[h] = Absent
              /\ \/ records'[h].session.login \notin ever
                 \/ \E g \in Handles : /\ records[g] # Absent
                                       /\ records'[h].session = records[g].session
<1>1. ASSUME NEW t \in Threads, store_create(t)
      PROVE  \/ records[h] # Absent /\ records'[h].session = records[h].session
             \/ records[h] = Absent /\ records'[h].session.login \notin ever
  <2> DEFINE k      == call[t].handle
             now    == call[t].now
             kept   == pruned(now)
             opened == [session |-> [login |-> k, issued |-> now,
                                     expires |-> now + Absolute_seconds],
                        last_seen |-> now]
  <2>1. k \notin ever /\ k \in Handles
    BY <1>1, NextType, StoreCreateStep DEF HandlesInv, Next, Serve
  <2>2. records' = [kept EXCEPT ![k] = opened] \/ records' = kept
    BY <1>1 DEF store_create
  <2>3. opened.session.login = k
    OBVIOUS
  <2>4. \A g \in Handles : kept[g] # Absent =>
          records[g] # Absent /\ kept[g].session = records[g].session
    BY DEF pruned
  <2>5. DOMAIN kept = Handles
    BY DEF pruned
  <2>6. records[k] = Absent
    BY <2>1 DEF HandlesInv
  <2> HIDE DEF opened, kept
  <2>7. CASE records' = kept
    BY <2>4, <2>7
  <2>8. CASE records' = [kept EXCEPT ![k] = opened] /\ h = k
    BY <2>1, <2>3, <2>5, <2>6, <2>8
  <2>9. CASE records' = [kept EXCEPT ![k] = opened] /\ h # k
    BY <2>1, <2>4, <2>5, <2>9
  <2> QED
    BY <2>2, <2>7, <2>8, <2>9
<1>2. ASSUME NEW t \in Threads, store_rotate(t)
      PROVE  \/ records[h] # Absent /\ records'[h].session = records[h].session
             \/ /\ records[h] = Absent
                /\ \E g \in Handles : /\ records[g] # Absent
                                      /\ records'[h].session = records[g].session
  <2> DEFINE old == call[t].handle
             new == call[t].new
             now == call[t].now
             moved == [session |-> records[old].session, last_seen |-> now]
  <2>1. new \in Handles \ ever /\ old \in Handles
    BY <1>2, NextType, StoreRotateStep DEF HandlesInv, Next, Serve
  <2>2. records[new] = Absent
    BY <2>1 DEF HandlesInv
  <2>3. \/ records' = [records EXCEPT ![old] = Absent]
        \/ /\ records' = [records EXCEPT ![old] = Absent, ![new] = moved]
           /\ records[old] # Absent
    BY <1>2 DEF store_rotate, rotation, valid
  <2>4. moved.session = records[old].session
    OBVIOUS
  <2> HIDE DEF moved
  <2>5. DOMAIN records = Handles
    BY DEF HandlesInv, TypeOK
  <2>6. CASE records' = [records EXCEPT ![old] = Absent]
    BY <2>1, <2>5, <2>6
  <2>7. CASE /\ records' = [records EXCEPT ![old] = Absent, ![new] = moved]
             /\ records[old] # Absent
    BY <2>1, <2>2, <2>4, <2>5, <2>7
  <2> QED
    BY <2>3, <2>6, <2>7
<1>3. ASSUME NEW t \in Threads, store_authenticate(t)
      PROVE  records[h] # Absent /\ records'[h].session = records[h].session
  <2> DEFINE k   == call[t].handle
             now == call[t].now
             record == IF valid(records[k], now)
                       THEN [records[k] EXCEPT !.last_seen = now] ELSE Absent
  <2>1. k \in Handles /\ now \in Times
    BY <1>3, CallFields DEF store_authenticate, HandlesInv, TypeOK
  <2>2. record # Absent => records[k] # Absent /\ record.session = records[k].session
    BY <2>1, Refreshed DEF valid, HandlesInv, TypeOK
  <2>3. records' = [records EXCEPT ![k] = record]
    BY <1>3 DEF store_authenticate
  <2> HIDE DEF record
  <2> QED
    BY <2>1, <2>2, <2>3 DEF HandlesInv, TypeOK
<1>4. CASE UNCHANGED records
  BY <1>4
<1>5. ASSUME NEW t \in Threads, withdraw(t) \/ discard(t) \/ store_revoke(t)
      PROVE  records[h] # Absent /\ records'[h].session = records[h].session
  BY <1>5 DEF withdraw, discard, store_revoke, HandlesInv, TypeOK
<1>6. CASE restart
  BY <1>6 DEF restart
<1>7. ASSUME NEW t \in Threads, Serve(t)
      PROVE  \/ store_create(t) \/ store_rotate(t) \/ store_authenticate(t)
             \/ UNCHANGED records
             \/ withdraw(t) \/ discard(t) \/ store_revoke(t)
  BY <1>7 DEF Serve, issue, authenticate, revoke, rotate, authenticate_issued,
     check, done, unavailable
<1>8. tick \/ UNCHANGED vars => UNCHANGED records
  BY DEF tick, vars
<1> QED
  BY <1>1, <1>2, <1>3, <1>4, <1>5, <1>6, <1>7, <1>8 DEF Next

LEMMA SessionStep ==
    ASSUME HandlesInv, [Next]_vars, NEW g \in Handles, NEW h \in Handles,
           records[g] # Absent, records'[h] # Absent,
           records[g].session.login = records'[h].session.login
    PROVE  records'[h].session = records[g].session
<1>1. records[g].session.login \in ever
  BY DEF HandlesInv
<1>2. PICK k \in Handles : /\ records[k] # Absent
                           /\ records'[h].session = records[k].session
  BY <1>1, StoredFrom
<1>3. k = g
  BY <1>2 DEF HandlesInv, OneHandlePerLogin, Stored
<1> QED
  BY <1>2, <1>3

\* The subject and the absolute deadline of a sign-in never change, through
\* every refresh and rotation.
THEOREM SessionsAreFixed == Spec => SessionNeverChanges
<1>1. HandlesInv /\ [Next]_vars =>
        [\A g, h \in Handles :
           (/\ records[g] # Absent /\ records'[h] # Absent
            /\ records[g].session.login = records'[h].session.login)
           => records'[h].session = records[g].session]_vars
  BY SessionStep
<1> QED
  BY <1>1, InductiveInvariant, PTL DEF Spec, SessionNeverChanges

LEMMA SeenStep ==
    ASSUME HandlesInv, [Next]_vars, NEW h \in Handles,
           records[h] # Absent, records'[h] # Absent
    PROVE  records[h].last_seen <= records'[h].last_seen
<1>1. records[h].last_seen \in Int
  BY ClockAssumption DEF HandlesInv, TypeOK, Records, Times
<1>2. ASSUME NEW t \in Threads, store_create(t) PROVE records'[h] = records[h]
  <2> DEFINE k    == call[t].handle
             now  == call[t].now
             kept == pruned(now)
             opened == [session |-> [login |-> k, issued |-> now,
                                     expires |-> now + Absolute_seconds],
                        last_seen |-> now]
  <2>1. k \notin ever /\ k \in Handles
    BY <1>2, NextType, StoreCreateStep DEF HandlesInv, Next, Serve
  <2>2. h # k
    BY <2>1 DEF HandlesInv
  <2>3. records' = [kept EXCEPT ![k] = opened] \/ records' = kept
    BY <1>2 DEF store_create
  <2>4. kept[h] = Absent \/ kept[h] = records[h]
    BY DEF pruned
  <2>5. DOMAIN kept = Handles
    BY DEF pruned
  <2> HIDE DEF opened, kept
  <2> QED
    BY <2>2, <2>3, <2>4, <2>5
<1>3. ASSUME NEW t \in Threads, store_rotate(t) PROVE records'[h] = records[h]
  <2>1. call[t].new \in Handles \ ever /\ call[t].handle \in Handles
    BY <1>3, NextType, StoreRotateStep DEF HandlesInv, Next, Serve
  <2>2. h # call[t].new
    BY <2>1 DEF HandlesInv
  <2> QED
    BY <1>3, <2>1, <2>2 DEF store_rotate, rotation, HandlesInv, TypeOK
<1>4. ASSUME NEW t \in Threads, store_authenticate(t)
      PROVE  records[h].last_seen <= records'[h].last_seen
  <2> DEFINE k   == call[t].handle
             now == call[t].now
             record == IF valid(records[k], now)
                       THEN [records[k] EXCEPT !.last_seen = now] ELSE Absent
  <2>1. k \in Handles /\ now \in Times
    BY <1>4, CallFields DEF store_authenticate, HandlesInv, TypeOK
  <2>2. records' = [records EXCEPT ![k] = record]
    BY <1>4 DEF store_authenticate
  <2>3. record # Absent =>
          records[k].last_seen <= now /\ record = [records[k] EXCEPT !.last_seen = now]
    BY DEF valid
  <2> HIDE DEF record
  <2>4. CASE h = k
    <3>1. records'[h] = record /\ records[k] \in Records
      BY <2>1, <2>2, <2>4 DEF HandlesInv, TypeOK
    <3> QED
      BY <2>3, <2>4, <3>1 DEF Records
  <2>5. CASE h # k
    BY <1>1, <2>1, <2>2, <2>5 DEF HandlesInv, TypeOK
  <2> QED
    BY <2>4, <2>5
<1>5. ASSUME NEW t \in Threads, withdraw(t) \/ discard(t) \/ store_revoke(t)
      PROVE  records'[h] = records[h]
  BY <1>5 DEF withdraw, discard, store_revoke, HandlesInv, TypeOK
<1>6. CASE restart
  BY <1>6 DEF restart
<1>7. ASSUME NEW t \in Threads, Serve(t)
      PROVE  \/ store_create(t) \/ store_rotate(t) \/ store_authenticate(t)
             \/ UNCHANGED records
             \/ withdraw(t) \/ discard(t) \/ store_revoke(t)
  BY <1>7 DEF Serve, issue, authenticate, revoke, rotate, authenticate_issued,
     check, done, unavailable
<1>8. tick \/ UNCHANGED vars => UNCHANGED records
  BY DEF tick, vars
<1>9. records'[h] = records[h] => records[h].last_seen <= records'[h].last_seen
  BY <1>1
<1> QED
  BY <1>2, <1>3, <1>4, <1>5, <1>6, <1>7, <1>8, <1>9 DEF Next

\* The last use of a handle is never set back, whatever the clock does.
THEOREM LastSeenIsMonotone == Spec => LastSeenOnlyForward
<1>1. HandlesInv /\ [Next]_vars =>
        [\A h \in Handles :
           records[h] # Absent /\ records'[h] # Absent
           => records[h].last_seen <= records'[h].last_seen]_vars
  BY SeenStep
<1> QED
  BY <1>1, InductiveInvariant, PTL DEF Spec, LastSeenOnlyForward

-----------------------------------------------------------------------------
(* Handles that nobody was given yet *)

\* The operation that works on a handle it has not returned.
Holding(c) ==
    \/ c.step \in {"created", "discard"}
    \/ c.step \in {"authenticate", "check", "withdraw"} /\ c.op # "authenticate"

\* The operation that works on the handle of a client.
Using(c) ==
    \/ c.step \in {"rotate", "revoke"}
    \/ c.step \in {"authenticate", "check", "withdraw"} /\ c.op = "authenticate"

\* A handle is either a client's or with the one operation that drew it.
GivenInv ==
    /\ \A t \in Threads : Using(call[t]) => call[t].handle \in given
    /\ \A t \in Threads : Holding(call[t]) => call[t].handle \notin given
    /\ \A t, u \in Threads :
         Holding(call[t]) /\ Holding(call[u]) /\ call[t].handle = call[u].handle => t = u

\* A step of thread t that gives nobody a handle.
LEMMA UngivenStep ==
    ASSUME HandlesInv, GivenInv, NEW t \in Threads, NEW c,
           call' = [call EXCEPT ![t] = c], given' = given,
           Using(c) => c.handle \in given,
           Holding(c) => \/ Holding(call[t]) /\ c.handle = call[t].handle
                         \/ c.handle \notin ever
    PROVE  GivenInv'
<1>1. call'[t] = c /\ \A u \in Threads \ {t} : call'[u] = call[u]
  BY DEF HandlesInv, TypeOK
<1>2. \A u \in Threads : Holding(call[u]) => call[u].handle \in ever
  BY DEF Holding, HandlesInv
<1>3. Holding(c) => c.handle \notin given
  BY DEF GivenInv, HandlesInv
<1>4. \A u \in Threads \ {t} :
        Holding(c) /\ Holding(call[u]) => c.handle # call[u].handle
  BY <1>2 DEF GivenInv
<1>5. \A u \in Threads : Using(call'[u]) => call'[u].handle \in given'
  BY <1>1 DEF GivenInv
<1>6. \A u \in Threads : Holding(call'[u]) => call'[u].handle \notin given'
  BY <1>1, <1>3 DEF GivenInv
<1>7. \A u, v \in Threads :
        Holding(call'[u]) /\ Holding(call'[v]) /\ call'[u].handle = call'[v].handle => u = v
  <2> SUFFICES ASSUME NEW u \in Threads, NEW v \in Threads, u # v,
                      Holding(call'[u]), Holding(call'[v]), call'[u].handle = call'[v].handle
               PROVE  FALSE
    OBVIOUS
  <2>1. CASE u = t
    BY <1>1, <1>4, <2>1
  <2>2. CASE v = t
    BY <1>1, <1>4, <2>2
  <2>3. CASE u # t /\ v # t
    BY <1>1, <2>3 DEF GivenInv
  <2> QED
    BY <2>1, <2>2, <2>3
<1> QED
  BY <1>5, <1>6, <1>7 DEF GivenInv

\* What an operation holds or uses when it is refused.
LEMMA RefusedHolds ==
    ASSUME TypeOK, NEW t \in Threads, call[t].step \in {"authenticate", "withdraw"}
    PROVE  /\ ~Using(Refused(t))
           /\ Holding(Refused(t)) =>
                Holding(call[t]) /\ Refused(t).handle = call[t].handle
BY RefusedType DEF Using, Holding

LEMMA GivenStep ==
    ASSUME HandlesInv, TypeOK', GivenInv, NEW t \in Threads, Serve(t)
    PROVE  GivenInv'
<1> DEFINE c == call'[t]
<1> USE DEF Using, Holding
<1>1. TypeOK
  BY DEF HandlesInv
<1>2. ASSUME NEW h \in Handles, issue(t, h) PROVE GivenInv'
  <2>1. call' = [call EXCEPT ![t] = c] /\ c.step = "create" /\ given' = given
    BY <1>1, <1>2 DEF issue, TypeOK
  <2> QED
    BY <2>1, UngivenStep
<1>3. ASSUME NEW h \in Handles, authenticate(t, h) PROVE GivenInv'
  <2>1. /\ call' = [call EXCEPT ![t] = c] /\ given' = given
        /\ c.step = "authenticate" /\ c.op = "authenticate" /\ c.handle \in given
    BY <1>1, <1>3 DEF authenticate, TypeOK
  <2> QED
    BY <2>1, UngivenStep
<1>4. ASSUME NEW h \in Handles, revoke(t, h) PROVE GivenInv'
  <2>1. /\ call' = [call EXCEPT ![t] = c] /\ given' = given
        /\ c.step = "revoke" /\ c.handle \in given
    BY <1>1, <1>4 DEF revoke, TypeOK
  <2> QED
    BY <2>1, UngivenStep
<1>5. ASSUME NEW h \in Handles, NEW new \in Handles, rotate(t, h, new) PROVE GivenInv'
  <2>1. /\ call' = [call EXCEPT ![t] = c] /\ given' = given
        /\ c.step = "rotate" /\ c.handle \in given
    BY <1>1, <1>5 DEF rotate, TypeOK
  <2> QED
    BY <2>1, UngivenStep
<1>6. CASE store_create(t)
  <2>1. /\ call' = [call EXCEPT ![t] = c] /\ given' = given
        /\ \/ c = Idle
           \/ c.step = "created" /\ c.handle = call[t].handle
    BY <1>1, <1>6 DEF store_create, TypeOK
  <2>2. call[t].handle \notin ever
    BY <1>6, StoreCreateStep
  <2>3. Idle.step = "idle"
    BY DEF Idle
  <2> QED
    BY <2>1, <2>2, <2>3, UngivenStep
<1>7. CASE authenticate_issued(t)
  <2>1. /\ call' = [call EXCEPT ![t] = c] /\ given' = given /\ call[t].step = "created"
        /\ c.step = "authenticate" /\ c.op = "issue" /\ c.handle = call[t].handle
    BY <1>1, <1>7 DEF authenticate_issued, TypeOK
  <2> QED
    BY <2>1, UngivenStep
<1>8. CASE store_authenticate(t)
  <2>1. /\ call' = [call EXCEPT ![t] = c] /\ given' = given /\ call[t].step = "authenticate"
        /\ c.step = "check" /\ c.op = call[t].op /\ c.handle = call[t].handle
    BY <1>1, <1>8 DEF store_authenticate, TypeOK
  <2>2. c.op = "authenticate" => c.handle \in given
    BY <2>1 DEF GivenInv
  <2> QED
    BY <2>1, <2>2, UngivenStep
<1>9. CASE store_rotate(t)
  <2>1. /\ call' = [call EXCEPT ![t] = c] /\ given' = given
        /\ c.step = "check" /\ c.op = "rotate" /\ c.handle = call[t].new
    BY <1>1, <1>9 DEF store_rotate, TypeOK
  <2>2. call[t].new \notin ever
    BY <1>9, StoreRotateStep
  <2> QED
    BY <2>1, <2>2, UngivenStep
<1>10. CASE check(t) /\ valid(call[t].record, clock)
  <2>1. /\ call[t].step = "check"
        /\ given' = given \cup {call[t].handle}
        /\ call' = [call EXCEPT ![t] = c]
        /\ c.step \in {"idle", "answered"}
    BY <1>1, <1>10 DEF check, Answer, Idle, TypeOK
  <2>2. call'[t].step \in {"idle", "answered"} /\ \A u \in Threads \ {t} : call'[u] = call[u]
    BY <1>1, <2>1 DEF TypeOK
  <2>3. \A u \in Threads \ {t} : Holding(call[u]) => call[u].handle # call[t].handle
    <3>1. CASE Holding(call[t])
      BY <3>1 DEF GivenInv
    <3>2. CASE Using(call[t])
      BY <3>2 DEF GivenInv
    <3> QED
      BY <2>1, <3>1, <3>2
  <2> HIDE DEF c
  <2> QED
    BY <2>1, <2>2, <2>3 DEF GivenInv
<1>11. CASE check(t) /\ ~valid(call[t].record, clock)
  <2>1. /\ call[t].step = "check" /\ given' = given
        /\ call' = [call EXCEPT ![t] = c]
        /\ c.step = "withdraw" /\ c.op = call[t].op /\ c.handle = call[t].handle
    BY <1>1, <1>11 DEF check, TypeOK
  <2>2. c.op = "authenticate" => c.handle \in given
    BY <2>1 DEF GivenInv
  <2> QED
    BY <2>1, <2>2, UngivenStep
<1>12. CASE withdraw(t) \/ discard(t) \/ store_revoke(t) \/ done(t) \/ unavailable(t)
  <2>1. /\ call' = [call EXCEPT ![t] = c] /\ given' = given
        /\ \/ c = Idle
           \/ c = Refused(t) /\ call[t].step \in {"authenticate", "withdraw"}
    BY <1>1, <1>12 DEF withdraw, discard, store_revoke, done, unavailable, TypeOK
  <2>2. Idle.step = "idle"
    BY DEF Idle
  <2>3. ~Using(c) /\ (Holding(c) => Holding(call[t]) /\ c.handle = call[t].handle)
    BY <1>1, <2>1, <2>2, RefusedHolds
  <2> QED
    BY <2>1, <2>3, UngivenStep
<1> QED
  BY <1>2, <1>3, <1>4, <1>5, <1>6, <1>7, <1>8, <1>9, <1>10, <1>11, <1>12 DEF Serve

LEMMA GivenNext == HandlesInv /\ GivenInv /\ [Next]_vars => GivenInv'
<1> SUFFICES ASSUME HandlesInv, GivenInv, [Next]_vars PROVE GivenInv'
  OBVIOUS
<1>1. TypeOK'
  BY NextType DEF HandlesInv
<1>2. ASSUME NEW t \in Threads, Serve(t) PROVE GivenInv'
  BY <1>1, <1>2, GivenStep
<1>3. CASE tick \/ UNCHANGED vars
  BY <1>3 DEF tick, vars, GivenInv
<1>4. CASE restart
  BY <1>4 DEF restart, GivenInv, Idle, Using, Holding
<1> QED
  BY <1>2, <1>3, <1>4 DEF Next

LEMMA GivenInit == Init => GivenInv
BY DEF Init, GivenInv, Idle, Using, Holding

\* Whose handle it is, at every step of every operation.
THEOREM HandlesHaveOneOwner == Spec => [](HandlesInv /\ GivenInv)
BY HandlesInit, HandlesNext, GivenInit, GivenNext, PTL DEF Spec

\* Only a new handle enters the store, and the operation that put it there is
\* still working on it.
LEMMA EntersStore ==
    ASSUME HandlesInv, [Next]_vars, NEW h \in Handles, records[h] = Absent, records'[h] # Absent
    PROVE  \E t \in Threads : Concerns(call'[t], h)
<1> USE DEF HandlesInv, TypeOK
<1>1. ASSUME NEW t \in Threads, store_create(t) PROVE Concerns(call'[t], h)
  <2> DEFINE k      == call[t].handle
             kept   == pruned(call[t].now)
             opened == [session |-> [login |-> k, issued |-> call[t].now,
                                     expires |-> call[t].now + Absolute_seconds],
                        last_seen |-> call[t].now]
  <2>1. \A g \in Handles : kept[g] # Absent => records[g] # Absent
    BY DEF pruned
  <2>2. DOMAIN kept = Handles
    BY DEF pruned
  <2>3. \/ records' = kept
        \/ /\ records' = [kept EXCEPT ![k] = opened]
           /\ call'[t] = [step |-> "created", handle |-> k]
    BY <1>1 DEF store_create
  <2> HIDE DEF kept, opened
  <2>4. h = k /\ call'[t] = [step |-> "created", handle |-> k]
    BY <2>1, <2>2, <2>3
  <2> QED
    BY <2>4 DEF Concerns
<1>2. ASSUME NEW t \in Threads, store_rotate(t) PROVE Concerns(call'[t], h)
  <2> DEFINE moved == [session |-> records[call[t].handle].session, last_seen |-> call[t].now]
  <2>1. call'[t].step = "check" /\ call'[t].handle = call[t].new
    BY <1>2 DEF store_rotate
  <2>2. \/ records' = [records EXCEPT ![call[t].handle] = Absent]
        \/ records' = [records EXCEPT ![call[t].handle] = Absent, ![call[t].new] = moved]
    BY <1>2 DEF store_rotate, rotation
  <2> HIDE DEF moved
  <2>3. h = call[t].new
    BY <2>2
  <2> QED
    BY <2>1, <2>3 DEF Concerns
<1>3. ASSUME NEW t \in Threads, store_authenticate(t) PROVE FALSE
  <2> DEFINE record == IF valid(records[call[t].handle], call[t].now)
                       THEN [records[call[t].handle] EXCEPT !.last_seen = call[t].now]
                       ELSE Absent
  <2>1. record # Absent => records[call[t].handle] # Absent
    BY DEF valid
  <2>2. records' = [records EXCEPT ![call[t].handle] = record]
    BY <1>3 DEF store_authenticate
  <2> HIDE DEF record
  <2> QED
    BY <2>1, <2>2
<1>4. ASSUME NEW t \in Threads, withdraw(t) \/ discard(t) \/ store_revoke(t) PROVE FALSE
  BY <1>4 DEF withdraw, discard, store_revoke
<1>5. ASSUME NEW t \in Threads, Serve(t)
      PROVE  \/ store_create(t) \/ store_rotate(t) \/ store_authenticate(t)
             \/ UNCHANGED records
             \/ withdraw(t) \/ discard(t) \/ store_revoke(t)
  BY <1>5 DEF Serve, issue, authenticate, revoke, rotate, authenticate_issued,
     check, done, unavailable
<1>6. tick \/ UNCHANGED vars => UNCHANGED records
  BY DEF tick, vars
<1>7. restart => records'[h] = Absent
  BY DEF restart
<1> QED
  BY <1>1, <1>2, <1>3, <1>4, <1>5, <1>6, <1>7 DEF Next

\* An operation keeps working on its handle until it gives it to a client or
\* takes it back.
LEMMA KeepsConcern ==
    ASSUME HandlesInv, GivenInv, [Next]_vars, NEW t \in Threads, NEW h \in Handles,
           Concerns(call[t], h), ~Concerns(call'[t], h), h \notin given', ~restart
    PROVE  call[t].step \in {"withdraw", "discard"}
<1>1. TypeOK /\ TypeOK'
  BY NextType DEF HandlesInv
<1>2. call[t].step \in {"created", "authenticate", "check", "withdraw", "discard"}
      /\ call[t].handle = h
  BY DEF Concerns
<1>3. given \subseteq given'
  BY DEF Next, Serve, issue, authenticate, revoke, rotate, authenticate_issued, check, done,
     unavailable, store_create, store_rotate, store_authenticate, withdraw, discard,
     store_revoke, tick, restart, vars
<1>4. Serve(t)
  <2>1. call'[t] # call[t]
    OBVIOUS
  <2>2. \A u \in Threads \ {t} : ~Serve(u)
    BY <1>1, <2>1 DEF Serve, issue, authenticate, revoke, rotate, authenticate_issued,
       check, done, unavailable, store_create, store_rotate, store_authenticate,
       withdraw, discard, store_revoke, TypeOK
  <2> QED
    BY <2>1, <2>2 DEF Next, tick, vars
<1>5. CASE authenticate_issued(t)
  <2>1. call'[t].step = "authenticate" /\ call'[t].handle = h
    BY <1>1, <1>2, <1>5 DEF authenticate_issued, TypeOK
  <2> QED
    BY <2>1 DEF Concerns
<1>6. CASE store_authenticate(t)
  <2>1. call'[t].step = "check" /\ call'[t].handle = h
    BY <1>1, <1>2, <1>6 DEF store_authenticate, TypeOK
  <2> QED
    BY <2>1 DEF Concerns
<1>7. CASE check(t)
  <2>1. call'[t].step = "withdraw" /\ call'[t].handle = h
    BY <1>1, <1>2, <1>7 DEF check, TypeOK
  <2> QED
    BY <2>1 DEF Concerns
<1>8. CASE unavailable(t)
  <2>1. call[t].step = "authenticate" => call[t].op # "authenticate"
    BY <1>2, <1>3 DEF GivenInv, Using
  <2>2. call[t].step = "authenticate" =>
          call'[t] = Refused(t) /\ call[t].op = "issue"
    BY <1>1, <1>8, <2>1, CallFields DEF unavailable, TypeOK
  <2>3. call[t].step = "authenticate" => call'[t].step = "discard" /\ call'[t].handle = h
    BY <1>2, <2>2 DEF Refused
  <2> QED
    BY <1>2, <1>8, <2>3 DEF Concerns, unavailable
<1>9. Idle.step = "idle"
  BY DEF Idle
<1>10. CASE withdraw(t) \/ discard(t)
  BY <1>10 DEF withdraw, discard
<1>11. CASE \/ (\E g \in Handles : issue(t, g) \/ authenticate(t, g) \/ revoke(t, g))
             \/ (\E old, new \in Handles : rotate(t, old, new))
  <2>1. call[t].step = "idle"
    BY <1>9, <1>11 DEF issue, authenticate, revoke, rotate
  <2> QED
    BY <1>2, <2>1
<1>12. CASE store_create(t) \/ store_rotate(t) \/ store_revoke(t) \/ done(t)
  <2>1. call[t].step \in {"create", "rotate", "revoke", "answered"}
    BY <1>12 DEF store_create, store_rotate, store_revoke, done
  <2> QED
    BY <1>2, <2>1
<1> QED
  BY <1>4, <1>5, <1>6, <1>7, <1>8, <1>10, <1>11, <1>12 DEF Serve

\* A handle that nobody was given stays in the store only when the store fails
\* as issue() or rotate() takes it back.
THEOREM OrphansAreOutages == Spec => NoOrphans
<1>1. ASSUME HandlesInv, GivenInv, [Next]_vars, NEW h \in Handles, Orphan(h)', ~Orphan(h)
      PROVE  \E t \in Threads : call[t].step \in {"withdraw", "discard"} /\ call[t].handle = h
  <2>1. /\ records'[h] # Absent /\ h \notin given'
        /\ \A t \in Threads : ~Concerns(call'[t], h)
    BY <1>1 DEF Orphan, Stored
  <2>2. records[h] # Absent
    BY <1>1, <2>1, EntersStore
  <2>3. h \notin given
    BY <1>1, <2>1 DEF Next, Serve, issue, authenticate, revoke, rotate, authenticate_issued,
       check, done, unavailable, store_create, store_rotate, store_authenticate, withdraw,
       discard, store_revoke, tick, restart, vars
  <2>4. PICK t \in Threads : Concerns(call[t], h)
    BY <1>1, <2>2, <2>3 DEF Orphan, Stored
  <2>5. ~restart
    BY <2>1 DEF restart
  <2>6. call[t].step \in {"withdraw", "discard"}
    BY <1>1, <2>1, <2>4, <2>5, KeepsConcern
  <2> QED
    BY <2>4, <2>6 DEF Concerns
<1>2. HandlesInv /\ GivenInv /\ [Next]_vars =>
        [\A h \in Handles : Orphan(h)' /\ ~Orphan(h) =>
           \E t \in Threads : call[t].step \in {"withdraw", "discard"} /\ call[t].handle = h]_vars
  BY <1>1
<1> QED
  BY <1>2, HandlesHaveOneOwner, PTL DEF Spec, NoOrphans

\* No sign-in ends the session of another to make room for itself, however full the
\* store is and whatever clock the sign-in has read (InMemorySessionStore.create).
THEOREM NobodyIsEvicted == Spec => NeverEvicted
<1>1. ASSUME HandlesInv, [Next]_vars, NEW h \in Stored, records'[h] = Absent, ~restart
      PROVE  \E t \in Threads :
                \/ call[t].step \notin {"idle", "create"} /\ call[t].handle = h
                \/ call[t].step = "create" /\ records[h].session.expires <= call[t].now
  <2> USE DEF HandlesInv, TypeOK
  <2>1. h \in Handles /\ records[h] # Absent
    BY <1>1 DEF Stored
  <2>2. PICK t \in Threads :
          store_create(t) \/ store_authenticate(t) \/ store_rotate(t) \/ store_revoke(t)
          \/ withdraw(t) \/ discard(t)
    BY <1>1, <2>1 DEF Next, Serve, issue, authenticate, revoke, rotate, authenticate_issued,
       check, done, unavailable, tick, vars
  <2>3. CASE store_create(t)
    <3> DEFINE kept   == pruned(call[t].now)
               opened == [session   |-> [login |-> call[t].handle, issued |-> call[t].now,
                                         expires |-> call[t].now + Absolute_seconds],
                          last_seen |-> call[t].now]
    <3>1. DOMAIN kept = Handles /\ call[t].step = "create"
      BY <2>3 DEF pruned, store_create
    <3>2. records' \in {kept, [kept EXCEPT ![call[t].handle] = opened]}
      BY <2>3 DEF store_create
    <3>3. opened # Absent
      BY <1>1, <3>1, CallFields, SessionTypes
    <3>4. kept[h] = Absent
      BY <1>1, <2>1, <3>1, <3>2, <3>3
    <3> QED
      BY <2>1, <3>1, <3>4 DEF pruned
  <2>4. CASE store_authenticate(t) \/ store_rotate(t) \/ store_revoke(t) \/ withdraw(t)
             \/ discard(t)
    <3>1. call[t].step \in {"authenticate", "rotate", "revoke", "withdraw", "discard"}
      BY <2>4 DEF store_authenticate, store_rotate, store_revoke, withdraw, discard
    <3>2. CASE ~store_rotate(t)
      BY <1>1, <2>1, <2>4, <3>1, <3>2 DEF store_authenticate, store_revoke, withdraw, discard
    <3>3. CASE store_rotate(t)
      <4> DEFINE old == call[t].handle
                 new == call[t].new
                 moved == [session |-> records[old].session, last_seen |-> call[t].now]
      <4>1. CASE records' = [records EXCEPT ![old] = Absent]
        BY <1>1, <2>1, <3>1, <4>1
      <4>2. CASE records' = rotation(old, new, call[t].now) /\ valid(records[old], call[t].now)
        <5>1. moved # Absent
          BY <1>1, <3>3, <4>2, CallFields, SessionTypes DEF store_rotate, valid
        <5>2. records' = [records EXCEPT ![old] = Absent, ![new] = moved]
          BY <4>2 DEF rotation
        <5> QED
          BY <1>1, <2>1, <3>1, <5>1, <5>2
      <4> QED
        BY <3>3, <4>1, <4>2 DEF store_rotate
    <3> QED
      BY <3>2, <3>3
  <2> QED
    BY <2>2, <2>3, <2>4
<1>2. HandlesInv /\ [Next]_vars =>
        [\A h \in Stored : records'[h] = Absent /\ ~restart =>
           \E t \in Threads :
              \/ call[t].step \notin {"idle", "create"} /\ call[t].handle = h
              \/ call[t].step = "create" /\ records[h].session.expires <= call[t].now]_vars
  BY <1>1
<1> QED
  BY <1>2, InductiveInvariant, PTL DEF Spec, NeverEvicted

-----------------------------------------------------------------------------
(* What becomes of a live session *)

\* The only step that changes a settled record without removing it.
LEMMA KeptOrGone ==
    ASSUME HandlesInv, [Next]_vars, NEW h \in ever, h \in Handles
    PROVE  \/ records'[h] \in {records[h], Absent}
           \/ \E t \in Threads : store_authenticate(t) /\ call[t].handle = h
<1> USE DEF HandlesInv, TypeOK
<1>1. ASSUME NEW t \in Threads, store_create(t) PROVE records'[h] \in {records[h], Absent}
  <2> DEFINE k      == call[t].handle
             kept   == pruned(call[t].now)
             opened == [session |-> [login |-> k, issued |-> call[t].now,
                                     expires |-> call[t].now + Absolute_seconds],
                        last_seen |-> call[t].now]
  <2>1. k # h
    BY <1>1, NextType, StoreCreateStep
  <2>2. kept[h] \in {records[h], Absent} /\ DOMAIN kept = Handles
    BY DEF pruned
  <2>3. records' = kept \/ records' = [kept EXCEPT ![k] = opened]
    BY <1>1 DEF store_create
  <2> HIDE DEF k, kept, opened
  <2> QED
    BY <2>1, <2>2, <2>3
<1>2. ASSUME NEW t \in Threads, store_rotate(t) PROVE records'[h] \in {records[h], Absent}
  <2> DEFINE moved == [session |-> records[call[t].handle].session, last_seen |-> call[t].now]
  <2>1. call[t].new # h
    BY <1>2, NextType, StoreRotateStep
  <2>2. \/ records' = [records EXCEPT ![call[t].handle] = Absent]
        \/ records' = [records EXCEPT ![call[t].handle] = Absent, ![call[t].new] = moved]
    BY <1>2 DEF store_rotate, rotation
  <2> HIDE DEF moved
  <2> QED
    BY <2>1, <2>2
<1>3. ASSUME NEW t \in Threads, store_authenticate(t), call[t].handle # h
      PROVE  records'[h] = records[h]
  BY <1>3 DEF store_authenticate
<1>4. ASSUME NEW t \in Threads, withdraw(t) \/ discard(t) \/ store_revoke(t)
      PROVE  records'[h] \in {records[h], Absent}
  BY <1>4 DEF withdraw, discard, store_revoke
<1>5. ASSUME NEW t \in Threads, Serve(t)
      PROVE  \/ store_create(t) \/ store_rotate(t) \/ store_authenticate(t)
             \/ UNCHANGED records
             \/ withdraw(t) \/ discard(t) \/ store_revoke(t)
  BY <1>5 DEF Serve, issue, authenticate, revoke, rotate, authenticate_issued,
     check, done, unavailable
<1>6. tick \/ UNCHANGED vars => UNCHANGED records
  BY DEF tick, vars
<1>7. restart => records'[h] = Absent
  BY DEF restart
<1> QED
  BY <1>1, <1>2, <1>3, <1>4, <1>5, <1>6, <1>7 DEF Next

\* A record that changed was seen last by the operation that wrote it.
LEMMA WrittenAt ==
    ASSUME HandlesInv, [Next]_vars, NEW h \in Handles, records'[h] # Absent
    PROVE  \/ records'[h] = records[h]
           \/ \E t \in Threads : /\ call[t].step \in {"create", "authenticate", "rotate"}
                                 /\ records'[h].last_seen = call[t].now
<1> USE DEF HandlesInv, TypeOK
<1>1. ASSUME NEW t \in Threads, store_create(t)
      PROVE  records'[h] = records[h] \/ records'[h].last_seen = call[t].now
  <2> DEFINE k      == call[t].handle
             kept   == pruned(call[t].now)
             opened == [session |-> [login |-> k, issued |-> call[t].now,
                                     expires |-> call[t].now + Absolute_seconds],
                        last_seen |-> call[t].now]
  <2>1. kept[h] \in {records[h], Absent} /\ DOMAIN kept = Handles
    BY DEF pruned
  <2>2. records' = kept \/ records' = [kept EXCEPT ![k] = opened]
    BY <1>1 DEF store_create
  <2>3. opened.last_seen = call[t].now
    OBVIOUS
  <2> HIDE DEF k, kept, opened
  <2> QED
    BY <2>1, <2>2, <2>3
<1>2. ASSUME NEW t \in Threads, store_rotate(t)
      PROVE  records'[h] = records[h] \/ records'[h].last_seen = call[t].now
  <2> DEFINE moved == [session |-> records[call[t].handle].session, last_seen |-> call[t].now]
  <2>1. \/ records' = [records EXCEPT ![call[t].handle] = Absent]
        \/ records' = [records EXCEPT ![call[t].handle] = Absent, ![call[t].new] = moved]
    BY <1>2 DEF store_rotate, rotation
  <2>2. moved.last_seen = call[t].now
    OBVIOUS
  <2> HIDE DEF moved
  <2> QED
    BY <2>1, <2>2
<1>3. ASSUME NEW t \in Threads, store_authenticate(t)
      PROVE  records'[h] = records[h] \/ records'[h].last_seen = call[t].now
  <2> DEFINE k      == call[t].handle
             record == IF valid(records[k], call[t].now)
                       THEN [records[k] EXCEPT !.last_seen = call[t].now] ELSE Absent
  <2>1. records' = [records EXCEPT ![k] = record]
    BY <1>3 DEF store_authenticate
  <2>2. k \in Handles /\ (records[k] # Absent => records[k] \in Records)
    BY <1>3, CallFields DEF store_authenticate
  <2>3. record # Absent => record.last_seen = call[t].now
    BY <2>2 DEF valid, Records
  <2> HIDE DEF k, record
  <2> QED
    BY <2>1, <2>3
<1>4. ASSUME NEW t \in Threads, withdraw(t) \/ discard(t) \/ store_revoke(t)
      PROVE  records'[h] = records[h]
  BY <1>4 DEF withdraw, discard, store_revoke
<1>5. ASSUME NEW t \in Threads, Serve(t)
      PROVE  \/ store_create(t) \/ store_rotate(t) \/ store_authenticate(t)
             \/ UNCHANGED records
             \/ withdraw(t) \/ discard(t) \/ store_revoke(t)
  BY <1>5 DEF Serve, issue, authenticate, revoke, rotate, authenticate_issued,
     check, done, unavailable
<1>6. tick \/ UNCHANGED vars => UNCHANGED records
  BY DEF tick, vars
<1>7. ~restart
  BY DEF restart
<1>8. \A t \in Threads : store_create(t) \/ store_rotate(t) \/ store_authenticate(t)
        => call[t].step \in {"create", "authenticate", "rotate"}
  BY DEF store_create, store_rotate, store_authenticate
<1> QED
  BY <1>1, <1>2, <1>3, <1>4, <1>5, <1>6, <1>7, <1>8 DEF Next

\* With a clock that is not set back, nothing was read or seen later than now.
ClockInv ==
    /\ \A h \in Handles : records[h] # Absent => records[h].last_seen <= clock
    /\ \A t \in Threads :
         call[t].step \in {"create", "authenticate", "rotate"} => call[t].now <= clock

\* With the requests of a handle in turn, what a request has read of the handle's
\* record still stands when it comes to write.
TurnInv ==
    /\ InTurn
    /\ \A t \in Threads : \A h \in given : InUse(t, h) =>
         /\ call[t].step = "authenticate" /\ records[h] # Absent
              => records[h].last_seen <= call[t].now
         /\ call[t].step = "check" => records[h] \in {Absent, call[t].record}
         /\ call[t].step = "withdraw" => ~valid(records[h], clock)

LEMMA ClockNext ==
    ASSUME HandlesInv, ClockInv, [Next]_vars, clock <= clock'
    PROVE  ClockInv'
<1> USE DEF HandlesInv, TypeOK
<1>1. /\ TypeOK' /\ clock \in Int /\ clock' \in Int
      /\ \A h \in Handles : records[h] # Absent => records[h].last_seen \in Int
      /\ \A t \in Threads :
           call[t].step \in {"create", "authenticate", "rotate"} => call[t].now \in Int
  BY NextType, CallFields, ClockAssumption DEF Times, Records
<1>2. ASSUME NEW t \in Threads, call'[t].step \in {"create", "authenticate", "rotate"}
      PROVE  call'[t].now <= clock'
  <2>1. \/ call'[t] = call[t]
        \/ call'[t].step \in {"create", "authenticate", "rotate"} /\ call'[t].now = clock
        \/ call'[t].step \notin {"create", "authenticate", "rotate"}
    <3>1. CASE restart \/ tick \/ UNCHANGED vars
      BY <3>1 DEF restart, tick, vars, Idle
    <3>2. ASSUME NEW u \in Threads,
                 withdraw(u) \/ unavailable(u), t = u, call'[t] # call[t]
          PROVE  call'[t].step \notin {"create", "authenticate", "rotate"}
      <4>1. \/ call'[t] = Idle
            \/ call[t].step \in {"authenticate", "withdraw"} /\ call'[t] = Refused(t)
        BY <3>2 DEF withdraw, unavailable
      <4> QED
        BY <4>1, RefusedType DEF Idle
    <3>3. ASSUME NEW u \in Threads, withdraw(u) \/ unavailable(u), t # u
          PROVE  call'[t] = call[t]
      BY <3>3 DEF withdraw, unavailable
    <3>4. ASSUME NEW u \in Threads, Serve(u), ~withdraw(u), ~unavailable(u)
          PROVE  \/ call'[t] = call[t]
                 \/ call'[t].step \in {"create", "authenticate", "rotate"} /\ call'[t].now = clock
                 \/ call'[t].step \notin {"create", "authenticate", "rotate"}
      BY <3>4 DEF Serve, issue, authenticate, revoke, rotate, authenticate_issued,
         check, store_create, store_rotate, store_authenticate, done,
         discard, store_revoke, Answer, Idle
    <3> QED
      BY <3>1, <3>2, <3>3, <3>4 DEF Next
  <2> QED
    BY <1>1, <1>2, <2>1 DEF ClockInv
<1>3. ASSUME NEW h \in Handles, records'[h] # Absent
      PROVE  records'[h].last_seen <= clock'
  <2>1. \/ records'[h] = records[h]
        \/ \E t \in Threads : /\ call[t].step \in {"create", "authenticate", "rotate"}
                              /\ records'[h].last_seen = call[t].now
    BY <1>3, WrittenAt
  <2> QED
    BY <1>1, <1>3, <2>1 DEF ClockInv
<1> QED
  BY <1>2, <1>3 DEF ClockInv

\* A handle comes to a client only from the operation that drew it.
LEMMA GivenBy ==
    ASSUME HandlesInv, GivenInv, [Next]_vars, NEW h \in given' \ given
    PROVE  \E t \in Threads : check(t) /\ call[t].handle = h /\ Holding(call[t])
                              /\ call'[t] = Idle
<1>1. PICK t \in Threads : check(t) /\ call[t].handle = h
  BY DEF Next, Serve, issue, authenticate, revoke, rotate, authenticate_issued, check, done,
     unavailable, store_create, store_rotate, store_authenticate, withdraw, discard,
     store_revoke, tick, restart, vars
<1>2. call[t].op # "authenticate" /\ call[t].step = "check"
  BY <1>1 DEF check, GivenInv, Using
<1>3. call'[t] = Idle
  BY <1>1, <1>2 DEF check, HandlesInv, TypeOK
<1> QED
  BY <1>1, <1>2, <1>3 DEF Holding

LEMMA ValidStays ==
    ASSUME NEW r \in Records \cup {Absent}, NEW c \in Times, NEW d \in Times,
           c <= d, r # Absent => r.last_seen <= c, valid(r, d)
    PROVE  valid(r, c)
BY ClockAssumption, ConfigurationAssumption DEF valid, Records, Sessions, Times

LEMMA TurnNext ==
    ASSUME HandlesInv, GivenInv, ClockInv, TurnInv, [Next]_vars, InTurn', clock <= clock'
    PROVE  TurnInv'
<1> USE DEF HandlesInv
<1>1. TypeOK /\ TypeOK'
  BY NextType
<1>2. SUFFICES ASSUME NEW t \in Threads, NEW h \in given', InUse(t, h)'
               PROVE  /\ call'[t].step = "authenticate" /\ records'[h] # Absent
                           => records'[h].last_seen <= call'[t].now
                      /\ call'[t].step = "check" => records'[h] \in {Absent, call'[t].record}
                      /\ call'[t].step = "withdraw" => ~valid(records'[h], clock')
  BY DEF TurnInv
<1>3. h \in given
  <2>1. SUFFICES ASSUME h \notin given PROVE FALSE
    OBVIOUS
  <2>2. PICK u \in Threads : /\ check(u) /\ call[u].handle = h /\ Holding(call[u])
                             /\ call'[u] = Idle
    BY <2>1, GivenBy
  <2>3. t # u /\ call'[t] = call[t]
    BY <1>1, <1>2, <2>2 DEF InUse, Idle, check, TypeOK
  <2>4. Holding(call[t])
    BY <1>2, <2>1, <2>3 DEF InUse, Holding, GivenInv, Using
  <2> QED
    BY <1>2, <2>2, <2>3, <2>4 DEF GivenInv, InUse
<1>4. h \in Handles /\ h \in ever /\ clock \in Times /\ clock' \in Times
  BY <1>1, <1>3 DEF TypeOK
<1>5. CASE call'[t] = call[t]
  <2>1. InUse(t, h)
    BY <1>2, <1>5 DEF InUse
  <2>2. \A u \in Threads : ~(store_authenticate(u) /\ call[u].handle = h)
    <3>1. SUFFICES ASSUME NEW u \in Threads, store_authenticate(u), call[u].handle = h
                   PROVE  FALSE
      OBVIOUS
    <3>2. InUse(u, h)
      BY <3>1 DEF InUse, store_authenticate
    <3>3. u = t
      BY <1>3, <2>1, <3>2 DEF TurnInv, InTurn
    <3>4. call[u].step = "authenticate" /\ call'[u].step = "check"
      BY <1>1, <3>1 DEF store_authenticate, TypeOK
    <3> QED
      BY <1>5, <3>3, <3>4
  <2>3. records'[h] \in {records[h], Absent}
    BY <1>4, <2>2, KeptOrGone
  <2>4. call[t].step = "withdraw" => ~valid(records'[h], clock')
    <3>1. call[t].step = "withdraw" => ~valid(records[h], clock)
      BY <1>3, <2>1 DEF TurnInv
    <3>2. records[h] \in Records \cup {Absent} /\ (records[h] # Absent => records[h].last_seen <= clock)
      BY <1>1, <1>4 DEF TypeOK, ClockInv
    <3>3. ~valid(Absent, clock')
      BY DEF valid
    <3> QED
      BY <1>4, <2>3, <3>1, <3>2, <3>3, ValidStays
  <2> QED
    BY <1>3, <1>5, <2>1, <2>3, <2>4 DEF TurnInv
<1>6. CASE call'[t] # call[t]
  <2>1. \/ \E g \in Handles : authenticate(t, g)
        \/ authenticate_issued(t) \/ store_authenticate(t) \/ store_rotate(t) \/ check(t)
    <3>1. call'[t].step \in {"authenticate", "check", "withdraw"}
      BY <1>2 DEF InUse
    <3>2. ~restart /\ ~tick /\ ~UNCHANGED vars
      BY <1>6, <3>1 DEF restart, tick, vars, Idle
    <3>3. PICK u \in Threads : Serve(u)
      BY <3>2 DEF Next
    <3>4. u = t
      BY <1>1, <1>6, <3>3 DEF Serve, issue, authenticate, revoke, rotate, authenticate_issued,
         check, done, unavailable, store_create, store_rotate, store_authenticate,
         withdraw, discard, store_revoke, TypeOK
    <3>5. unavailable(t) =>
            \/ call'[t] = Idle
            \/ call[t].step \in {"authenticate", "withdraw"} /\ call'[t] = Refused(t)
      BY <1>1 DEF unavailable, TypeOK
    <3>6. withdraw(t) => call[t].step = "withdraw" /\ call'[t] = Refused(t)
      BY <1>1 DEF withdraw, TypeOK
    <3>7. ~unavailable(t) /\ ~withdraw(t)
      BY <1>1, <3>1, <3>5, <3>6, RefusedType DEF Idle
    <3> QED
      BY <1>1, <3>1, <3>3, <3>4, <3>7 DEF Serve, issue, revoke, rotate,
         done, store_create, discard, store_revoke, TypeOK, Idle
  <2>2. call'[t].handle = h
    BY <1>2 DEF InUse
  <2>3. CASE \E g \in Handles : authenticate(t, g)
    <3>1. call'[t].step = "authenticate" /\ call'[t].now = clock /\ records' = records
      BY <1>1, <2>3 DEF authenticate, TypeOK
    <3> QED
      BY <1>4, <3>1 DEF ClockInv
  <2>4. CASE authenticate_issued(t)
    <3>1. call[t].step = "created" /\ call[t].handle = h
      BY <1>1, <2>2, <2>4 DEF authenticate_issued, TypeOK
    <3> QED
      BY <1>3, <3>1 DEF GivenInv, Holding
  <2>5. CASE store_authenticate(t)
    <3> DEFINE record == IF valid(records[call[t].handle], call[t].now)
                         THEN [records[call[t].handle] EXCEPT !.last_seen = call[t].now]
                         ELSE Absent
    <3>1. /\ records' = [records EXCEPT ![call[t].handle] = record]
          /\ call'[t] = [step |-> "check", op |-> call[t].op,
                         handle |-> call[t].handle, record |-> record]
      BY <1>1, <2>5 DEF store_authenticate, TypeOK
    <3> HIDE DEF record
    <3>2. call[t].handle = h
      BY <2>2, <3>1
    <3>3. records'[h] = record
      BY <1>1, <1>4, <3>1, <3>2 DEF TypeOK
    <3> QED
      BY <3>1, <3>3
  <2>6. CASE store_rotate(t)
    <3>1. call'[t].handle = call[t].new
      BY <1>1, <2>6 DEF store_rotate, TypeOK
    <3> QED
      BY <1>1, <1>4, <2>2, <2>6, <3>1, StoreRotateStep
  <2>7. CASE check(t)
    <3>1. /\ call[t].step = "check" /\ call[t].handle = h /\ records' = records
          /\ ~valid(call[t].record, clock) /\ clock' = clock
          /\ call'[t].step = "withdraw"
      BY <1>1, <1>2, <2>7 DEF check, TypeOK, InUse, Answer, Idle
    <3>2. records[h] \in {Absent, call[t].record}
      BY <1>3, <3>1 DEF TurnInv, InUse
    <3> QED
      BY <3>1, <3>2 DEF valid
  <2> QED
    BY <2>1, <2>3, <2>4, <2>5, <2>6, <2>7
<1> QED
  BY <1>5, <1>6

LEMMA TurnInit == Init => ClockInv /\ TurnInv
BY DEF Init, ClockInv, TurnInv, InTurn, Idle

\* When the requests with a handle come one after another and the clock is not
\* set back, a session inside its deadlines is ended by its client or with the
\* process, whatever the other sign-ins do and however full the store is.
THEOREM LiveSessionsAreKept == InTurnSpec => LiveSessionIsKept
<1>1. ASSUME HandlesInv, GivenInv, ClockInv, TurnInv, [Next]_vars, NEW h \in given,
             valid(records[h], clock), ~AskedToEnd(h), ~restart
      PROVE  records'[h] # Absent
  <2>1. TypeOK /\ h \in Handles /\ h \in ever /\ records[h] # Absent /\ records[h] \in Records
    BY <1>1 DEF HandlesInv, TypeOK, valid
  <2>2. clock \in Times
    BY <2>1 DEF TypeOK
  <2>3. ASSUME NEW t \in Threads, store_create(t) PROVE records'[h] # Absent
    <3> DEFINE k      == call[t].handle
               now    == call[t].now
               kept   == pruned(now)
               opened == [session |-> [login |-> k, issued |-> now,
                                       expires |-> now + Absolute_seconds],
                          last_seen |-> now]
    <3>1. now <= clock /\ now \in Int /\ clock \in Int /\ records[h].session.expires \in Int
      BY <1>1, <2>1, <2>2, <2>3, CallFields, ClockAssumption
      DEF store_create, TypeOK, Times, Records, Sessions, ClockInv
    <3>2. k \in Handles /\ k \notin ever
      BY <1>1, <2>1, <2>3, NextType, StoreCreateStep
    <3>3. kept[h] = records[h] /\ DOMAIN kept = Handles
      BY <1>1, <2>1, <3>1 DEF pruned, valid
    <3>4. records' = kept \/ records' = [kept EXCEPT ![k] = opened]
      BY <2>3 DEF store_create
    <3> HIDE DEF kept, opened
    <3> QED
      BY <2>1, <3>2, <3>3, <3>4
  <2>4. ASSUME NEW t \in Threads, store_authenticate(t) PROVE records'[h] # Absent
    <3> DEFINE k      == call[t].handle
               now    == call[t].now
               record == IF valid(records[k], now)
                         THEN [records[k] EXCEPT !.last_seen = now] ELSE Absent
    <3>1. k \in Handles /\ now \in Times /\ now <= clock
      BY <1>1, <2>1, <2>4, CallFields DEF store_authenticate, TypeOK, ClockInv
    <3>2. h = k => records[h].last_seen <= now
      BY <1>1, <2>1, <2>4 DEF TurnInv, InUse, store_authenticate
    <3>3. h = k => valid(records[h], now)
      BY <1>1, <2>1, <2>2, <3>1, <3>2, ClockAssumption, ConfigurationAssumption
      DEF valid, Records, Sessions, Times
    <3>4. h = k => record # Absent
      BY <2>1, <3>1, <3>3, Refreshed, SessionTypes
    <3>5. records' = [records EXCEPT ![k] = record]
      BY <2>4 DEF store_authenticate
    <3> HIDE DEF k, record
    <3> QED
      BY <2>1, <3>1, <3>4, <3>5 DEF TypeOK
  <2>5. ASSUME NEW t \in Threads, store_rotate(t) PROVE records'[h] # Absent
    <3>1. call[t].handle # h
      BY <1>1, <2>5 DEF AskedToEnd, store_rotate
    <3>2. call[t].new \notin ever
      BY <1>1, <2>1, <2>5, NextType, StoreRotateStep
    <3> QED
      BY <2>1, <2>5, <3>1, <3>2 DEF store_rotate, rotation, TypeOK
  <2>6. ASSUME NEW t \in Threads, withdraw(t) \/ discard(t) \/ store_revoke(t)
        PROVE  records'[h] # Absent
    <3>1. call[t].handle # h
      BY <1>1, <2>6 DEF AskedToEnd, withdraw, discard, store_revoke, GivenInv, Holding,
         TurnInv, InUse
    <3> QED
      BY <2>1, <2>6, <3>1 DEF withdraw, discard, store_revoke, TypeOK
  <2>7. ASSUME NEW t \in Threads, Serve(t)
        PROVE  \/ store_create(t) \/ store_rotate(t) \/ store_authenticate(t)
               \/ UNCHANGED records
               \/ withdraw(t) \/ discard(t) \/ store_revoke(t)
    BY <2>7 DEF Serve, issue, authenticate, revoke, rotate, authenticate_issued,
       check, done, unavailable
  <2>8. tick \/ UNCHANGED vars => UNCHANGED records
    BY DEF tick, vars
  <2> QED
    BY <1>1, <2>1, <2>3, <2>4, <2>5, <2>6, <2>7, <2>8 DEF Next
<1>2. HandlesInv /\ GivenInv /\ ClockInv /\ TurnInv /\ [Next]_vars =>
        [\A h \in given :
           valid(records[h], clock) /\ ~AskedToEnd(h) => records'[h] # Absent \/ restart]_vars
  BY <1>1
<1>3. ASSUME HandlesInv, GivenInv, ClockInv, TurnInv, [Next /\ InTurn' /\ clock <= clock']_vars
      PROVE  HandlesInv' /\ GivenInv' /\ ClockInv' /\ TurnInv'
  <2>1. [Next]_vars
    BY <1>3
  <2>2. InTurn' /\ clock <= clock'
    BY <1>3, ClockAssumption DEF vars, InTurn, InUse, TurnInv, HandlesInv, TypeOK, Times
  <2> QED
    BY <1>3, <2>1, <2>2, HandlesNext, GivenNext, ClockNext, TurnNext
<1>4. [Next /\ InTurn' /\ clock <= clock']_vars => [Next]_vars
  OBVIOUS
<1> QED
  BY <1>2, <1>3, <1>4, HandlesInit, GivenInit, TurnInit, PTL DEF InTurnSpec, LiveSessionIsKept

-----------------------------------------------------------------------------
(* The manager implements the session contract *)

LEMMA RequestAfter ==
    ASSUME TypeOK, NEW t \in Threads, NEW c, call' = [call EXCEPT ![t] = c]
    PROVE  /\ request' = [request EXCEPT ![t] = Request(c)]
           /\ Request(c) = Request(call[t]) => request' = request
<1>1. \A u \in Threads : call'[u] = IF u = t THEN c ELSE call[u]
  BY DEF TypeOK
<1>2. request' = [u \in Threads |-> Request(call'[u])]
  BY DEF request
<1>3. request' = [u \in Threads |-> IF u = t THEN Request(c) ELSE Request(call[u])]
  BY <1>1, <1>2
<1> QED
  BY <1>3 DEF request

\* Only an authenticate() of a client is a request of the contract.
LEMMA RequestOf ==
    /\ Request(Idle) = Idle
    /\ \A c : c.step \in {"create", "created", "discard", "revoke", "rotate"} =>
                Request(c) = Idle
    /\ \A c : c.step \in {"authenticate", "check", "withdraw"} /\ c.op # "authenticate" =>
                Request(c) = Idle
    /\ \A c : c.step = "authenticate" /\ c.op = "authenticate" =>
                Request(c) = [step |-> "asked", handle |-> c.handle]
    /\ \A c : c.step = "check" /\ c.op = "authenticate" /\ c.record = Absent =>
                Request(c) = [step |-> "asked", handle |-> c.handle]
    /\ \A c : c.step = "check" /\ c.op = "authenticate" /\ c.record # Absent =>
                Request(c) = [step |-> "seen", session |-> c.record.session]
    /\ \A c : c.step = "withdraw" /\ c.op = "authenticate" =>
                Request(c) = [step |-> "answered", session |-> Denied]
    /\ \A c : c.step = "answered" =>
                Request(c) = [step |-> "answered", session |-> c.session]
BY DEF Request, Idle

\* Taking one handle out of the store is a retirement.
LEMMA Removal ==
    ASSUME TypeOK, NEW h \in Handles, records' = [records EXCEPT ![h] = Absent]
    PROVE  live' = Contract!Without({h})
<1>1. \A g \in Handles : records'[g] = IF g = h THEN Absent ELSE records[g]
  BY DEF TypeOK
<1>2. live' = [g \in Handles |-> IF records'[g] = Absent THEN Absent ELSE records'[g].session]
  BY DEF live
<1>3. live' = [g \in Handles |-> IF g \in {h} THEN Absent ELSE live[g]]
  BY <1>1, <1>2 DEF live
<1> QED
  BY <1>3 DEF Contract!Without

LEMMA ContractInit == Init => Contract!Init
<1> SUFFICES ASSUME Init PROVE Contract!Init
  OBVIOUS
<1>1. clock \in Times /\ used = {} /\ TypeOK
  BY InitType DEF Init, TypeOK
<1>2. live = [h \in Handles |-> Absent]
  BY DEF Init, live
<1>3. request = [t \in Threads |-> Contract!Idle]
  BY RequestOf DEF Init, request, Contract!Idle, Idle
<1>4. ever = {}
  BY <1>1 DEF ever
<1> QED
  BY <1>1, <1>2, <1>3, <1>4 DEF Contract!Init

\* Steps the contract does not see.
LEMMA HiddenStep ==
    ASSUME HandlesInv, TypeOK', NEW t \in Threads,
           \/ \E h \in Handles : issue(t, h) \/ revoke(t, h)
           \/ \E h, new \in Handles : rotate(t, h, new)
           \/ authenticate_issued(t)
    PROVE  UNCHANGED Contract!vars
<1>1. ever' = ever
  BY IssueStep, RevokeStep, RotateStep, IssuedStep
<1>2. clock' = clock /\ records' = records
  BY DEF issue, revoke, rotate, authenticate_issued
<1>3. live' = live
  BY <1>2 DEF live
<1>4. request' = request
  <2> DEFINE c == call'[t]
  <2>1. call' = [call EXCEPT ![t] = c]
    BY DEF issue, revoke, rotate, authenticate_issued, HandlesInv, TypeOK
  <2>2. \/ call[t] = Idle
        \/ call[t].step = "created"
    BY DEF issue, revoke, rotate, authenticate_issued
  <2>3. \/ c.step \in {"create", "revoke", "rotate"}
        \/ c.step = "authenticate" /\ c.op = "issue"
    BY DEF issue, revoke, rotate, authenticate_issued, HandlesInv, TypeOK
  <2> HIDE DEF c
  <2>4. Request(c) = Request(call[t])
    BY <2>2, <2>3, RequestOf
  <2> QED
    BY <2>1, <2>4, RequestAfter DEF HandlesInv
<1> QED
  BY <1>1, <1>2, <1>3, <1>4 DEF Contract!vars

LEMMA AskStep ==
    ASSUME HandlesInv, TypeOK', NEW t \in Threads, NEW h \in Handles, authenticate(t, h)
    PROVE  Contract!ask(t, h)
<1> DEFINE c == [step |-> "authenticate", op |-> "authenticate",
                 handle |-> h, now |-> clock]
<1>1. call' = [call EXCEPT ![t] = c] /\ call[t] = Idle
      /\ UNCHANGED <<clock, records, used, given>>
  BY DEF authenticate
<1>2. Request(c) = [step |-> "asked", handle |-> h]
  BY RequestOf
<1> HIDE DEF c
<1>3. request' = [request EXCEPT ![t] = [step |-> "asked", handle |-> h]]
  BY <1>1, <1>2, RequestAfter DEF HandlesInv
<1>4. request[t] = Contract!Idle
  BY <1>1, RequestOf DEF request, Contract!Idle, Idle
<1>5. live' = live
  BY <1>1 DEF live
<1>6. ever' = ever
  BY AuthenticateStep
<1> QED
  BY <1>1, <1>3, <1>4, <1>5, <1>6 DEF Contract!ask

LEMMA OpenStep ==
    ASSUME HandlesInv, TypeOK', NEW t \in Threads, store_create(t)
    PROVE  Contract!Next
<1> DEFINE h    == call[t].handle
           now  == call[t].now
           kept == pruned(now)
           S    == {g \in Handles : kept[g] = Absent}
<1>1. call[t] \in Calls /\ call[t].step = "create" /\ h \in Handles /\ now \in Times
  BY CallFields DEF store_create, HandlesInv, TypeOK
<1>2. h \notin ever /\ ever' = ever \cup {h}
  BY StoreCreateStep
<1>3. clock' = clock
  BY DEF store_create
<1>4. \A g \in Handles : kept[g] # Absent =>
        records[g] # Absent /\ kept[g].session = records[g].session
  BY DEF pruned
<1>5. \A g \in Handles : kept[g] = Absent \/ kept[g] = records[g]
  BY DEF pruned
<1>6. records[h] = Absent /\ kept[h] = Absent
  BY <1>1, <1>2, <1>5 DEF HandlesInv
<1> DEFINE R == {g \in Handles : records[g] # Absent /\ kept[g] = Absent}
<1>7. R \subseteq ever /\ R \in SUBSET Handles
  BY DEF HandlesInv
<1>8. [g \in Handles |-> IF kept[g] = Absent THEN Absent ELSE kept[g].session]
        = Contract!Without(R)
  BY <1>4 DEF Contract!Without, live
<1>9. CASE call' = [call EXCEPT ![t] = Idle] /\ records' = kept
  <2>1. request' = request
    <3>1. Request(Idle) = Request(call[t])
      BY <1>1, RequestOf
    <3> QED
      BY <1>9, <3>1, RequestAfter DEF HandlesInv
  <2>2. live' = Contract!Without(R)
    BY <1>8, <1>9 DEF live
  <2>3. Contract!Without(R \cup {h}) = Contract!Without(R)
    BY <1>6 DEF Contract!Without, live
  <2>4. ever' = ever \cup (R \cup {h})
    BY <1>2, <1>7
  <2>5. Contract!retire(R \cup {h}) /\ R \cup {h} \in SUBSET Handles
    BY <1>1, <1>3, <1>7, <2>1, <2>2, <2>3, <2>4 DEF Contract!retire
  <2> QED
    BY <2>5 DEF Contract!Next
<1> DEFINE opened  == [login |-> h, issued |-> now, expires |-> now + Absolute_seconds]
           record  == [session |-> opened, last_seen |-> now]
           created == [step |-> "created", handle |-> h]
<1>10. CASE /\ call' = [call EXCEPT ![t] = created]
            /\ records' = [kept EXCEPT ![h] = record]
  <2>1. request' = request
    <3>1. Request(created) = Request(call[t])
      BY <1>1, RequestOf
    <3> HIDE DEF created
    <3> QED
      BY <1>10, <3>1, RequestAfter DEF HandlesInv
  <2>2. record # Absent /\ record.session = opened
    BY <1>1, SessionTypes
  <2> HIDE DEF record
  <2>3. \A g \in Handles : records'[g] = IF g = h THEN record ELSE kept[g]
    BY <1>1, <1>10 DEF pruned
  <2>4. live' = [g \in Handles |-> IF records'[g] = Absent THEN Absent ELSE records'[g].session]
    BY DEF live
  <2>5. live' = [g \in Handles |->
                   IF g = h THEN opened
                   ELSE IF kept[g] = Absent THEN Absent ELSE kept[g].session]
    BY <2>2, <2>3, <2>4
  <2>6. live' = [Contract!Without(R) EXCEPT ![h] = opened]
    BY <1>1, <1>8, <2>5 DEF Contract!Without
  <2>7. ever' = ever \cup R \cup {h}
    BY <1>2, <1>7
  <2>8. Contract!open(h, now, R)
    BY <1>2, <1>3, <2>1, <2>6, <2>7 DEF Contract!open
  <2> QED
    BY <1>1, <1>7, <2>8 DEF Contract!Next
<1> QED
  BY <1>9, <1>10 DEF store_create

LEMMA SeeStep ==
    ASSUME HandlesInv, TypeOK', NEW t \in Threads, store_authenticate(t)
    PROVE  [Contract!Next]_(Contract!vars)
<1> DEFINE h   == call[t].handle
           now == call[t].now
           record == IF valid(records[h], now)
                     THEN [records[h] EXCEPT !.last_seen = now] ELSE Absent
           c == [step |-> "check", op |-> call[t].op, handle |-> h, record |-> record]
<1>1. call[t] \in Calls /\ call[t].step = "authenticate" /\ h \in Handles /\ now \in Times
  BY CallFields DEF store_authenticate, HandlesInv, TypeOK
<1>2. /\ call' = [call EXCEPT ![t] = c] /\ records' = [records EXCEPT ![h] = record]
      /\ clock' = clock
  BY DEF store_authenticate
<1>3. h \in ever /\ ever' = ever
  BY <1>1, StoreAuthenticateStep DEF HandlesInv
<1>4. c.step = "check" /\ c.op = call[t].op /\ c.handle = h /\ c.record = record
  OBVIOUS
<1>5. CASE ~valid(records[h], now)
  <2>1. record = Absent
    BY <1>5
  <2> HIDE DEF c, record
  <2>2. Request(c) = Request(call[t])
    BY <1>1, <1>4, <2>1, RequestOf
  <2>3. request' = request
    BY <1>2, <2>2, RequestAfter DEF HandlesInv
  <2>4. live' = Contract!Without({h})
    BY <1>1, <1>2, <2>1, Removal DEF HandlesInv
  <2>5. Contract!retire({h})
    BY <1>2, <1>3, <2>3, <2>4 DEF Contract!retire
  <2> QED
    BY <1>1, <2>5 DEF Contract!Next
<1>6. CASE valid(records[h], now)
  <2>1. records[h] # Absent /\ records[h] \in Records
    BY <1>1, <1>6 DEF valid, HandlesInv, TypeOK
  <2>2. record # Absent /\ record.session = records[h].session
    BY <1>1, <1>6, <2>1, Refreshed, SessionTypes
  <2> HIDE DEF c, record
  <2>3. \A g \in Handles : records'[g] = IF g = h THEN record ELSE records[g]
    BY <1>2 DEF HandlesInv, TypeOK
  <2>4. live' = [g \in Handles |-> IF records'[g] = Absent THEN Absent ELSE records'[g].session]
    BY DEF live
  <2>5. live' = live
    BY <2>1, <2>2, <2>3, <2>4 DEF live
  <2>6. CASE call[t].op = "authenticate"
    <3>1. request' = [request EXCEPT ![t] =
                        [step |-> "seen", session |-> records[h].session]]
      <4>1. Request(c) = [step |-> "seen", session |-> records[h].session]
        BY <1>4, <2>2, <2>6, RequestOf
      <4> QED
        BY <1>2, <4>1, RequestAfter DEF HandlesInv
    <3>2. request[t] = [step |-> "asked", handle |-> h]
      BY <1>1, <2>6, RequestOf DEF request
    <3> DEFINE r == request[t]
    <3>6. r.step = "asked" /\ r.handle = h
      BY <3>2
    <3>3. live[h] = records[h].session
      BY <1>1, <2>1 DEF live
    <3>4. live[h] # Absent
      BY <3>3, <2>1, SessionTypes
    <3>5. Contract!see(t)
      BY <1>2, <1>3, <2>5, <3>1, <3>6, <3>3, <3>4 DEF Contract!see
    <3> QED
      BY <3>5 DEF Contract!Next
  <2>7. CASE call[t].op # "authenticate"
    <3>1. request' = request
      <4>1. Request(c) = Request(call[t])
        BY <1>1, <1>4, <2>7, RequestOf
      <4> QED
        BY <1>2, <4>1, RequestAfter DEF HandlesInv
    <3> QED
      BY <1>2, <1>3, <2>5, <3>1 DEF Contract!vars
  <2> QED
    BY <2>6, <2>7
<1> QED
  BY <1>5, <1>6

LEMMA HandOverStep ==
    ASSUME HandlesInv, TypeOK', NEW t \in Threads, store_rotate(t)
    PROVE  Contract!Next
<1> DEFINE old == call[t].handle
           new == call[t].new
           now == call[t].now
           moved  == [session |-> records[old].session, last_seen |-> now]
           failed == [step |-> "check", op |-> "rotate", handle |-> new, record |-> Absent]
           passed == [step |-> "check", op |-> "rotate", handle |-> new, record |-> moved]
<1>1. call[t] \in Calls /\ call[t].step = "rotate" /\ now \in Times
  BY CallFields DEF store_rotate, HandlesInv, TypeOK
<1>2. /\ new \in Handles \ ever /\ old \in Handles \cap ever
      /\ ever' = ever \cup {new}
  BY StoreRotateStep
<1>3. records[new] = Absent
  BY <1>2 DEF HandlesInv
<1>4. clock' = clock
  BY DEF store_rotate
<1>5. Request(failed) = Request(call[t]) /\ Request(passed) = Request(call[t])
  BY <1>1, RequestOf
<1>6. CASE ~valid(records[old], now)
  <2>1. records' = [records EXCEPT ![old] = Absent] /\ call' = [call EXCEPT ![t] = failed]
    BY <1>6 DEF store_rotate
  <2> HIDE DEF failed
  <2>2. request' = request
    BY <1>5, <2>1, RequestAfter DEF HandlesInv
  <2>3. live' = Contract!Without({old})
    BY <1>2, <2>1, Removal DEF HandlesInv
  <2>4. Contract!Without({old, new}) = Contract!Without({old})
    BY <1>3 DEF Contract!Without, live
  <2>5. ever' = ever \cup {old, new}
    BY <1>2
  <2>6. Contract!retire({old, new}) /\ {old, new} \in SUBSET Handles
    BY <1>2, <1>4, <2>2, <2>3, <2>4, <2>5 DEF Contract!retire
  <2> QED
    BY <2>6 DEF Contract!Next
<1>7. CASE valid(records[old], now)
  <2>1. records' = [records EXCEPT ![old] = Absent, ![new] = moved]
        /\ call' = [call EXCEPT ![t] = passed]
    BY <1>7 DEF store_rotate, rotation
  <2>2. records[old] # Absent /\ records[old].session # Absent
    BY <1>2, <1>7, SessionTypes DEF valid, HandlesInv, TypeOK
  <2>3. moved # Absent /\ moved.session = records[old].session
    BY <1>1, <1>2, <2>2, SessionTypes DEF HandlesInv, TypeOK
  <2> HIDE DEF passed, moved
  <2>4. request' = request
    BY <1>5, <2>1, RequestAfter DEF HandlesInv
  <2>5. \A g \in Handles :
          records'[g] = IF g = new THEN moved ELSE IF g = old THEN Absent ELSE records[g]
    BY <1>2, <2>1 DEF HandlesInv, TypeOK
  <2>6. live' = [g \in Handles |-> IF records'[g] = Absent THEN Absent ELSE records'[g].session]
    BY DEF live
  <2>7. live[old] = records[old].session /\ live[old] # Absent
    BY <1>2, <2>2 DEF live
  <2>8. live' = [g \in Handles |->
                   IF g = new THEN live[old] ELSE IF g = old THEN Absent ELSE live[g]]
    BY <2>3, <2>5, <2>6, <2>7 DEF live
  <2>9. live' = [live EXCEPT ![old] = Absent, ![new] = live[old]]
    BY <1>2, <2>8 DEF live
  <2>10. Contract!renew(old, new)
    BY <1>2, <1>4, <2>4, <2>7, <2>9 DEF Contract!renew
  <2> QED
    BY <1>2, <2>10 DEF Contract!Next
<1> QED
  BY <1>6, <1>7

LEMMA AcceptStep ==
    ASSUME HandlesInv, TypeOK', NEW t \in Threads, check(t)
    PROVE  [Contract!Next]_(Contract!vars)
<1> DEFINE h == call[t].handle
           answer == Answer(h, call[t].record.session)
           failed == [step |-> "withdraw", op |-> call[t].op, handle |-> h]
           r == request[t]
<1>1. call[t].step = "check" /\ call[t].record \in Records \cup {Absent}
  BY CallFields DEF check, HandlesInv, TypeOK
<1>2. clock' = clock /\ records' = records /\ ever' = ever
  BY CheckStep DEF check
<1>3. live' = live
  BY <1>2 DEF live
<1>4. CASE valid(call[t].record, clock) /\ call[t].op = "authenticate"
  <2>1. call' = [call EXCEPT ![t] = answer]
    BY <1>4 DEF check
  <2>2. Request(answer) = [step |-> "answered", session |-> call[t].record.session]
    BY RequestOf DEF Answer
  <2> HIDE DEF answer
  <2>3. request' = [request EXCEPT ![t] =
                      [step |-> "answered", session |-> call[t].record.session]]
    BY <2>1, <2>2, RequestAfter DEF HandlesInv
  <2>4. /\ call[t].record # Absent
        /\ clock < call[t].record.session.expires
    BY <1>4 DEF valid
  <2>5. r = [step |-> "seen", session |-> call[t].record.session]
    BY <1>1, <1>4, <2>4, RequestOf DEF request
  <2>6. r.step = "seen" /\ r.session = call[t].record.session
    BY <2>5
  <2>7. Contract!accept(t)
    BY <1>2, <1>3, <2>3, <2>4, <2>6 DEF Contract!accept
  <2> QED
    BY <2>7 DEF Contract!Next
<1>5. CASE ~valid(call[t].record, clock) /\ call[t].op = "authenticate"
  <2>1. call' = [call EXCEPT ![t] = failed]
    BY <1>5 DEF check
  <2>2. Request(failed) = [step |-> "answered", session |-> Denied]
    BY <1>5, RequestOf
  <2> HIDE DEF failed
  <2>3. request' = [request EXCEPT ![t] = [step |-> "answered", session |-> Denied]]
    BY <2>1, <2>2, RequestAfter DEF HandlesInv
  <2>4. r.step \in {"asked", "seen"}
    <3>1. CASE call[t].record = Absent
      <4>1. r = [step |-> "asked", handle |-> h]
        BY <1>1, <1>5, <3>1, RequestOf DEF request
      <4> QED
        BY <4>1
    <3>2. CASE call[t].record # Absent
      <4>1. r = [step |-> "seen", session |-> call[t].record.session]
        BY <1>1, <1>5, <3>2, RequestOf DEF request
      <4> QED
        BY <4>1
    <3> QED
      BY <3>1, <3>2
  <2>5. Contract!deny(t)
    BY <1>2, <1>3, <2>3, <2>4 DEF Contract!deny
  <2> QED
    BY <2>5 DEF Contract!Next
<1>6. CASE call[t].op # "authenticate"
  <2>1. call' = [call EXCEPT ![t] = Idle] \/ call' = [call EXCEPT ![t] = failed]
    BY <1>6 DEF check
  <2>2. Request(Idle) = Request(call[t]) /\ Request(failed) = Request(call[t])
    BY <1>1, <1>6, RequestOf
  <2> HIDE DEF failed
  <2>3. request' = request
    BY <2>1, <2>2, RequestAfter DEF HandlesInv
  <2> QED
    BY <1>2, <1>3, <2>3 DEF Contract!vars
<1> QED
  BY <1>4, <1>5, <1>6

LEMMA RefusedRequest ==
    ASSUME TypeOK, NEW t \in Threads, call[t].step \in {"authenticate", "withdraw"}
    PROVE  Request(Refused(t)) = IF call[t].op = "authenticate"
                                 THEN [step |-> "answered", session |-> Denied]
                                 ELSE Idle
<1>1. CASE call[t].op = "authenticate"
  <2>1. Refused(t).step = "answered" /\ Refused(t).session = Denied
    BY <1>1, RefusedType
  <2> QED
    BY <1>1, <2>1, RequestOf
<1>2. CASE call[t].op # "authenticate"
  <2>1. Refused(t).step \in {"idle", "discard"} /\ Refused(t) \in Calls
    BY <1>2, RefusedType
  <2> QED
    BY <1>2, <2>1, CallFields, RequestOf
<1> QED
  BY <1>1, <1>2

LEMMA RetireStep ==
    ASSUME HandlesInv, TypeOK', NEW t \in Threads,
           withdraw(t) \/ discard(t) \/ store_revoke(t)
    PROVE  Contract!Next
<1> DEFINE h == call[t].handle
           c == call'[t]
<1>1. /\ call[t].step \in {"withdraw", "discard", "revoke"} /\ h \in Handles /\ h \in ever
      /\ records' = [records EXCEPT ![h] = Absent] /\ clock' = clock
  BY CallFields DEF withdraw, discard, store_revoke, HandlesInv, TypeOK
<1>2. ever' = ever
  <2>1. Drawn(call[t]) = {}
    BY <1>1, DrawnHandles
  <2>2. ever' = ever \cup Drawn(call[t])
    BY EndStep
  <2> QED
    BY <2>1, <2>2
<1>3. live' = Contract!Without({h})
  BY <1>1, Removal DEF HandlesInv
<1>4. call' = [call EXCEPT ![t] = c]
  BY DEF withdraw, discard, store_revoke, HandlesInv, TypeOK
<1>5. \/ call[t].step = "withdraw" /\ c = Refused(t)
      \/ call[t].step \in {"discard", "revoke"} /\ c = Idle
  BY DEF withdraw, discard, store_revoke, HandlesInv, TypeOK
<1> HIDE DEF c
<1>6. Request(c) = Request(call[t])
  BY <1>5, RefusedRequest, RequestOf DEF HandlesInv
<1>7. request' = request
  BY <1>4, <1>6, RequestAfter DEF HandlesInv
<1>8. Contract!retire({h})
  BY <1>1, <1>2, <1>3, <1>7 DEF Contract!retire
<1> QED
  BY <1>1, <1>8 DEF Contract!Next

LEMMA DoneStep ==
    ASSUME HandlesInv, TypeOK', NEW t \in Threads, done(t)
    PROVE  Contract!Next
<1> DEFINE r == request[t]
<1>1. call[t].step = "answered" /\ call' = [call EXCEPT ![t] = Idle]
      /\ clock' = clock /\ records' = records
  BY DEF done
<1>2. ever' = ever
  <2>1. Drawn(call[t]) = {}
    BY <1>1, DrawnHandles
  <2>2. ever' = ever \cup Drawn(call[t])
    BY EndStep
  <2> QED
    BY <2>1, <2>2
<1>3. live' = live
  BY <1>1 DEF live
<1>4. request' = [request EXCEPT ![t] = Contract!Idle]
  <2>1. Request(Idle) = Contract!Idle
    BY RequestOf DEF Contract!Idle, Idle
  <2> QED
    BY <1>1, <2>1, RequestAfter DEF HandlesInv
<1>5. r = [step |-> "answered", session |-> call[t].session]
  BY <1>1, RequestOf DEF request
<1>6. r.step = "answered"
  BY <1>5
<1>7. Contract!done(t)
  BY <1>1, <1>2, <1>3, <1>4, <1>6 DEF Contract!done
<1> QED
  BY <1>7 DEF Contract!Next

LEMMA OutageStep ==
    ASSUME HandlesInv, TypeOK', NEW t \in Threads, unavailable(t)
    PROVE  [Contract!Next]_(Contract!vars)
<1> DEFINE r == request[t]
<1>1. clock' = clock /\ records' = records
  BY DEF unavailable
<1>2. live' = live
  BY <1>1 DEF live
<1>3. ever' = ever \cup Drawn(call[t])
  BY EndStep
<1>4. CASE call[t].step \in {"create", "rotate", "revoke", "discard"}
  <2> DEFINE S == Drawn(call[t])
  <2>1. call' = [call EXCEPT ![t] = Idle]
    BY <1>4 DEF unavailable
  <2>2. Request(Idle) = Request(call[t])
    BY <1>4, RequestOf
  <2>3. request' = request
    BY <2>1, <2>2, RequestAfter DEF HandlesInv
  <2>4. S \in SUBSET Handles
    BY DEF Drawn
  <2>5. \A h \in S : records[h] = Absent
    BY <2>4 DEF HandlesInv, ever, Pending
  <2>6. live' = Contract!Without(S)
    BY <1>2, <2>4, <2>5 DEF Contract!Without, live
  <2>7. Contract!retire(S)
    BY <1>1, <1>3, <2>3, <2>6 DEF Contract!retire
  <2> QED
    BY <2>4, <2>7 DEF Contract!Next
<1>5. CASE call[t].step \in {"authenticate", "withdraw"}
  <2>1. call' = [call EXCEPT ![t] = Refused(t)]
    BY <1>5 DEF unavailable
  <2>2. ever' = ever
    BY <1>3, <1>5, DrawnHandles
  <2>3. CASE call[t].op = "authenticate" /\ call[t].step = "authenticate"
    <3>1. Request(Refused(t)) = [step |-> "answered", session |-> Denied]
      BY <1>5, <2>3, RefusedRequest DEF HandlesInv
    <3>2. request' = [request EXCEPT ![t] = [step |-> "answered", session |-> Denied]]
      <4> DEFINE c == Refused(t)
      <4>1. call' = [call EXCEPT ![t] = c] /\ Request(c) = [step |-> "answered", session |-> Denied]
        BY <2>1, <3>1
      <4> HIDE DEF c
      <4> QED
        BY <4>1, RequestAfter DEF HandlesInv
    <3>3. r = [step |-> "asked", handle |-> call[t].handle]
      BY <2>3, RequestOf DEF request
    <3>4. r.step = "asked"
      BY <3>3
    <3>5. Contract!deny(t)
      BY <1>1, <1>2, <2>2, <3>2, <3>4 DEF Contract!deny
    <3> QED
      BY <3>5 DEF Contract!Next
  <2>4. CASE call[t].op # "authenticate" \/ call[t].step = "withdraw"
    <3> DEFINE c == Refused(t)
    <3>1. Request(c) = Request(call[t])
      BY <1>5, <2>4, RefusedRequest, RequestOf DEF HandlesInv
    <3>2. call' = [call EXCEPT ![t] = c]
      BY <2>1
    <3> HIDE DEF c
    <3>3. request' = request
      BY <3>1, <3>2, RequestAfter DEF HandlesInv
    <3> QED
      BY <1>1, <1>2, <2>2, <3>3 DEF Contract!vars
  <2> QED
    BY <1>5, <2>3, <2>4
<1> QED
  BY <1>4, <1>5 DEF unavailable

LEMMA ContractNext ==
    HandlesInv /\ [Next]_vars => [Contract!Next]_(Contract!vars)
<1> SUFFICES ASSUME HandlesInv, [Next]_vars PROVE [Contract!Next]_(Contract!vars)
  OBVIOUS
<1>1. TypeOK'
  BY NextType DEF HandlesInv
<1>2. ASSUME NEW t \in Threads, Serve(t) PROVE [Contract!Next]_(Contract!vars)
  <2>1. CASE \E h \in Handles : authenticate(t, h)
    BY <1>1, <2>1, AskStep DEF Contract!Next
  <2>2. CASE \/ \E h \in Handles : issue(t, h) \/ revoke(t, h)
             \/ \E h, new \in Handles : rotate(t, h, new)
             \/ authenticate_issued(t)
    BY <1>1, <2>2, HiddenStep
  <2> QED
    BY <1>1, <1>2, <2>1, <2>2, OpenStep, SeeStep, HandOverStep, AcceptStep, RetireStep,
       DoneStep, OutageStep
    DEF Serve
<1>3. CASE tick
  <2>1. live' = live /\ ever' = ever /\ request' = request
    BY <1>3 DEF tick, live, ever, Pending, request
  <2>2. Contract!tick
    BY <1>3, <2>1 DEF tick, Contract!tick
  <2> QED
    BY <2>2 DEF Contract!Next
<1>4. CASE restart
  <2>1. live' = [h \in Handles |-> Absent]
    BY <1>4 DEF restart, live
  <2>2. request' = [t \in Threads |-> Contract!Idle]
    BY <1>4, RequestOf DEF restart, request, Contract!Idle, Idle
  <2>3. ever' = ever \cup Pending /\ Pending \in SUBSET Handles
    BY <1>1, <1>4, RestartStep DEF Pending, Drawn
  <2>4. Contract!restart(Pending)
    BY <1>4, <2>1, <2>2, <2>3 DEF restart, Contract!restart
  <2> QED
    BY <2>3, <2>4 DEF Contract!Next
<1>5. CASE UNCHANGED vars
  BY <1>5 DEF vars, Contract!vars, live, ever, Pending, request
<1> QED
  BY <1>2, <1>3, <1>4, <1>5 DEF Next

\* SessionManager over its store implements the session contract: acceptance,
\* retirement and hand-over are as if each were a single step.
THEOREM Refinement == Spec => Implements
BY ContractInit, ContractNext, InductiveInvariant, PTL DEF Spec, Implements, Contract!Spec

=============================================================================
