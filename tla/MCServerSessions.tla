-------------------------- MODULE MCServerSessions --------------------------
(* Small instances of ServerSessions for TLC. *)
EXTENDS ServerSessions, TLC

CONSTANTS t1, t2, h1, h2, h3

TwoThreads   == {t1, t2}
ThreeHandles == {h1, h2, h3}

Symmetry == Permutations(Threads) \cup Permutations(Handles)

Stepped   == {1, -1}     \* a wall clock that is also set back
Forward   == {1}
AnyOutage == Operations
=============================================================================
