--------------------------- MODULE SessionContract ---------------------------
(***************************************************************************)
(* What a server session promises to the code behind it, with no clock      *)
(* readings, no store operations and no idle deadline in sight:             *)
(*   - a handle is opened once, and once it is retired it stays retired;    *)
(*   - a rotation moves a session, deadlines and all, to a new handle;      *)
(*   - a request is accepted only if its handle was live at some moment     *)
(*     after the request was made, and before the session's absolute        *)
(*     deadline; it may be denied at any time.                              *)
(***************************************************************************)
EXTENDS Integers

CONSTANTS Threads, Handles, Times, Absolute, Absent, Denied

VARIABLES clock,   \* the wall clock
          live,    \* per handle, its session or Absent
          ever,    \* handles that were opened, or never will be
          request  \* per thread, the request it is serving

vars == <<clock, live, ever, request>>

Idle   == [step |-> "idle"]

Init ==
    /\ clock \in Times
    /\ live = [h \in Handles |-> Absent]
    /\ ever = {}
    /\ request = [t \in Threads |-> Idle]

tick == /\ clock' \in Times
        /\ UNCHANGED <<live, ever, request>>

Without(S) == [h \in Handles |-> IF h \in S THEN Absent ELSE live[h]]

\* A sign-in: a session for a handle never used, and S out of the way.
open(h, issued, S) ==
    /\ h \notin ever
    /\ live' = [Without(S) EXCEPT ![h] =
                  [login |-> h, issued |-> issued, expires |-> issued + Absolute]]
    /\ ever' = ever \cup S \cup {h}
    /\ UNCHANGED <<clock, request>>

renew(h, new) ==
    /\ live[h] # Absent
    /\ new \notin ever
    /\ live' = [live EXCEPT ![h] = Absent, ![new] = live[h]]
    /\ ever' = ever \cup {new}
    /\ UNCHANGED <<clock, request>>

retire(S) ==
    /\ live' = Without(S)
    /\ ever' = ever \cup S
    /\ UNCHANGED <<clock, request>>

ask(t, h) ==
    /\ request[t] = Idle
    /\ request' = [request EXCEPT ![t] = [step |-> "asked", handle |-> h]]
    /\ UNCHANGED <<clock, live, ever>>

see(t) ==
    /\ request[t].step = "asked"
    /\ live[request[t].handle] # Absent
    /\ request' = [request EXCEPT ![t] =
                     [step |-> "seen", session |-> live[request[t].handle]]]
    /\ UNCHANGED <<clock, live, ever>>

accept(t) ==
    /\ request[t].step = "seen"
    /\ clock < request[t].session.expires
    /\ request' = [request EXCEPT ![t] =
                     [step |-> "answered", session |-> request[t].session]]
    /\ UNCHANGED <<clock, live, ever>>

deny(t) ==
    /\ request[t].step \in {"asked", "seen"}
    /\ request' = [request EXCEPT ![t] = [step |-> "answered", session |-> Denied]]
    /\ UNCHANGED <<clock, live, ever>>

done(t) ==
    /\ request[t].step = "answered"
    /\ request' = [request EXCEPT ![t] = Idle]
    /\ UNCHANGED <<clock, live, ever>>

\* The process restarts: every session and every request is gone.
restart(S) ==
    /\ live' = [h \in Handles |-> Absent]
    /\ ever' = ever \cup S
    /\ request' = [t \in Threads |-> Idle]
    /\ UNCHANGED clock

Next ==
    \/ tick
    \/ \E h \in Handles, issued \in Times, S \in SUBSET Handles : open(h, issued, S)
    \/ \E h, new \in Handles : renew(h, new)
    \/ \E S \in SUBSET Handles : retire(S) \/ restart(S)
    \/ \E t \in Threads :
         \/ \E h \in Handles : ask(t, h)
         \/ see(t) \/ accept(t) \/ deny(t) \/ done(t)

Spec == Init /\ [][Next]_vars
=============================================================================
