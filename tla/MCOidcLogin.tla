----------------------------- MODULE MCOidcLogin -----------------------------
(* Small instances of OidcLogin for TLC. *)
EXTENDS OidcLogin, TLC

CONSTANTS t1, t2, s1, s2, s3, ann, c1, c2

TwoThreads == {t1, t2}

\* Short deadlines and a provider in step with us, for many sign-ins; and one
\* whose clock is off by the skew either way and whose tokens state all the times
\* they can, for one that takes its time.
Racing == [ttl_seconds |-> 2, capacity |-> 2, CodeRetention |-> 2,
           clock_skew_seconds |-> 1, max_token_age_seconds |-> 1,
           max_auth_age_seconds |-> Absent, TokenLifetime |-> 1,
           NotBefore |-> Absent, StatesAuthTime |-> FALSE, SignedOnFor |-> {0},
           Drifts |-> {0}, ChecksVerifier |-> FALSE, MaxClock |-> 2]
Drifting == [ttl_seconds |-> 6, capacity |-> 1, CodeRetention |-> 6,
             clock_skew_seconds |-> 1, max_token_age_seconds |-> 2,
             max_auth_age_seconds |-> 2, TokenLifetime |-> 2,
             NotBefore |-> 0, StatesAuthTime |-> TRUE, SignedOnFor |-> {0, 2},
             Drifts |-> {-1, 1}, ChecksVerifier |-> FALSE, MaxClock |-> 7]
TwoDeployments == {Racing, Drifting}

\* Clocks do not depend on races: with Drifting, one sign-in and one thread.
Slices ==
    config = Drifting =>
        /\ Cardinality({t \in Threads : call[t] # Idle}) <= 1
        /\ Cardinality(Held(begun)) <= 1
        /\ Cardinality(Held(grants)) <= 1

Symmetry == Permutations({t1, t2}) \cup Permutations({s1, s2, s3})
              \cup Permutations({c1, c2})
=============================================================================
