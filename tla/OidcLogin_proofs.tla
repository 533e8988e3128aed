-------------------------- MODULE OidcLogin_proofs --------------------------
(***************************************************************************)
(* Proofs about OidcLogin, for every set of threads, sign-ins, codes and    *)
(* deployments of the service and its provider.                             *)
(***************************************************************************)
EXTENDS OidcLogin, TLAPS

-----------------------------------------------------------------------------
(* Types *)

LEMMA Configured ==
    ASSUME config \in Deployments
    PROVE  /\ ttl_seconds \in Nat \ {0} /\ config.CodeRetention \in Nat \ {0}
           /\ clock_skew_seconds \in Nat /\ max_token_age_seconds \in Nat \ {0}
           /\ config.TokenLifetime \in Nat \ {0} /\ config.MaxClock \in Nat
           /\ max_auth_age_seconds \in (Nat \ {0}) \cup {Absent}
           /\ config.NotBefore \in Int \cup {Absent} /\ config.StatesAuthTime \in BOOLEAN
           /\ config.Drifts \subseteq Int /\ config.SignedOnFor \subseteq Nat
BY DeploymentsAssumption
DEF ttl_seconds, clock_skew_seconds, max_token_age_seconds, max_auth_age_seconds

\* The fields a call has at each step.
LEMMA CallFields ==
    ASSUME NEW c \in Calls
    PROVE  /\ c.step \in {"idle", "begin", "finish", "exchange", "verify", "issue", "rejected"}
           /\ c.step = "idle" => c = Idle
           /\ c.step \in {"begin", "finish", "rejected"} => c.now \in Times
           /\ c.step \notin {"idle", "begin"} => c.state \in States
           /\ c.step \in {"finish", "exchange", "verify", "issue"} => c.code \in Codes
           /\ c.step \in {"exchange", "verify"} => c.expires \in Int
           /\ c.step \in {"exchange", "verify", "issue"} => c.first \in BOOLEAN
           /\ c.step \in {"verify", "rejected"} => c.token \in Tokens
           /\ c.step = "issue" => c.subject \in Subjects /\ c.verified \in Times
BY DEF Calls, Idle

LEMMA CallTypes ==
    /\ Idle \in Calls /\ Idle.step = "idle"
    /\ \A n \in Times : [step |-> "begin", now |-> n] \in Calls
    /\ \A s, b \in States, k \in Codes, n \in Times :
         [step |-> "finish", state |-> s, binding |-> b, code |-> k, now |-> n] \in Calls
    /\ \A s \in States, k \in Codes, e \in Int, f \in BOOLEAN :
         [step |-> "exchange", state |-> s, code |-> k, expires |-> e, first |-> f] \in Calls
    /\ \A s \in States, k \in Codes, e \in Int, f \in BOOLEAN, o \in Tokens :
         [step |-> "verify", state |-> s, code |-> k, expires |-> e, first |-> f,
          token |-> o] \in Calls
    /\ \A s \in States, k \in Codes, a \in Subjects, n \in Times, f \in BOOLEAN :
         [step |-> "issue", state |-> s, code |-> k, subject |-> a, verified |-> n,
          first |-> f] \in Calls
    /\ \A s \in States, o \in Tokens, n \in Times :
         [step |-> "rejected", state |-> s, token |-> o, now |-> n] \in Calls
BY DEF Calls, Idle

\* Types speak of the configuration, which no step changes.
LEMMA SameTypes ==
    ASSUME config' = config
    PROVE  /\ Times' = Times /\ Tokens' = Tokens /\ Calls' = Calls /\ Sessions' = Sessions
           /\ ttl_seconds' = ttl_seconds
BY DEF Times, Tokens, Calls, Sessions, ttl_seconds

LEMMA KeptType ==
    ASSUME NEW K, NEW f \in [K -> Int \cup {Absent}], NEW now
    PROVE  /\ kept(f, now) \in [K -> Int \cup {Absent}]
           /\ \A x \in K : kept(f, now)[x] # Absent => kept(f, now)[x] = f[x]
BY DEF kept

LEMMA InitType == Init => TypeOK
<1> SUFFICES ASSUME Init
             PROVE  TypeOK
  OBVIOUS
<1>1. clock \in Times
  BY Configured DEF Init, Times
<1> QED
  BY <1>1, CallTypes DEF Init, TypeOK

\* A callback carries a code that the provider has granted.
Granted ==
    \A t \in Threads : call[t].step \in {"finish", "exchange", "verify", "issue"} =>
        grants[call[t].code] # Absent

LEMMA NextType == TypeOK /\ Granted /\ [Next]_vars => TypeOK'
<1> SUFFICES ASSUME TypeOK, Granted, [Next]_vars
             PROVE  TypeOK'
  OBVIOUS
<1> USE DEF TypeOK
<1>1. config' = config
  BY DEF Next, vars
<1>2. Times' = Times /\ Calls' = Calls /\ Sessions' = Sessions
  BY <1>1, SameTypes
<1>3. \A t \in Threads : call[t] \in Calls
  OBVIOUS
<1>4. ASSUME NEW t \in Threads, begin(t)
      PROVE  TypeOK'
  BY <1>1, <1>2, <1>4, CallTypes DEF begin, goes
<1>5. ASSUME NEW t \in Threads, create(t)
      PROVE  TypeOK'
  <2> DEFINE now == call[t].now
  <2>1. now \in Times /\ now \in Int /\ now + ttl_seconds \in Int
    BY <1>3, <1>5, CallFields, Configured DEF create, Times
  <2>2. /\ kept(pending, now) \in [States -> Int \cup {Absent}]
        /\ kept(codes, now) \in [Codes -> Int \cup {Absent}]
    BY KeptType
  <2>3. pending' \in [States -> Int \cup {Absent}]
    BY <1>5, <2>1, <2>2 DEF create
  <2>4. begun' \in [States -> Times \cup {Absent}]
    BY <1>5, <2>1 DEF create
  <2> QED
    BY <1>1, <1>2, <1>5, <2>2, <2>3, <2>4, CallTypes DEF create, goes
<1>6. ASSUME NEW t \in Threads, NEW s \in States, NEW b \in States, NEW k \in Codes,
             finish(t, s, b, k)
      PROVE  TypeOK'
  BY <1>1, <1>2, <1>6, CallTypes DEF finish, goes
<1>7. ASSUME NEW t \in Threads, consume(t)
      PROVE  TypeOK'
  <2> DEFINE c == call[t]
             transactions == kept(pending, c.now)
             remembered == kept(codes, c.now)
  <2>1. /\ c.state \in States /\ c.binding \in States /\ c.code \in Codes /\ c.now \in Times
        /\ c.now \in Int /\ c.now + config.CodeRetention \in Int
    BY <1>3, <1>7, CallFields, Configured DEF consume, Times, Calls, Idle
  <2>2. /\ transactions \in [States -> Int \cup {Absent}]
        /\ remembered \in [Codes -> Int \cup {Absent}]
    BY KeptType
  <2>3. pending' \in [States -> Int \cup {Absent}] /\ presented' \subseteq States
    BY <1>7, <2>1, <2>2 DEF consume, taken
  <2>4. codes' \in [Codes -> Int \cup {Absent}]
    BY <1>7, <2>1, <2>2 DEF consume
  <2>5. CASE matches(c, transactions, remembered)
    <3>1. transactions[c.state] \in Int
      BY <2>1, <2>2, <2>5 DEF matches
    <3>2. call' = [call EXCEPT ![t] =
                     [step |-> "exchange", state |-> c.state, code |-> c.code,
                      expires |-> transactions[c.state], first |-> c.state \notin presented]]
      BY <1>7, <2>5 DEF consume, goes
    <3>3. call' \in [Threads -> Calls]
      BY <2>1, <3>1, <3>2, CallTypes
    <3> QED
      BY <1>1, <1>2, <1>7, <2>3, <2>4, <3>3 DEF consume
  <2>6. CASE ~ matches(c, transactions, remembered)
    <3>1. call' \in [Threads -> Calls]
      BY <1>7, <2>6, CallTypes DEF consume, goes
    <3> QED
      BY <1>1, <1>2, <1>7, <2>3, <2>4, <3>1 DEF consume
  <2> QED
    BY <2>5, <2>6
<1>8. ASSUME NEW t \in Threads, NEW drift \in config.Drifts, exchange_code(t, drift)
      PROVE  TypeOK'
  <2> DEFINE c == call[t]
             grant == grants[c.code]
             token == [nonce |-> grant.state, subject |-> grant.subject, minted |-> clock,
                       iat |-> clock + drift, exp |-> clock + drift + config.TokenLifetime,
                       nbf |-> IF config.NotBefore = Absent THEN Absent
                               ELSE clock + drift + config.NotBefore,
                       sign_on |-> grant.sign_on]
  <2>1. /\ c.state \in States /\ c.code \in Codes /\ c.expires \in Int /\ c.first \in BOOLEAN
    BY <1>3, <1>8, CallFields DEF exchange_code
  <2>2. clock + drift \in Int /\ clock + drift + config.TokenLifetime \in Int
    <3>1. clock \in Int /\ drift \in Int
      BY Configured DEF Times
    <3> QED
      BY <3>1, Configured
  <2>3. grant \in Grants
    BY <1>8, <2>1 DEF exchange_code, Granted
  <2>4. token \in Tokens
    <3>1. config.NotBefore # Absent => clock + drift + config.NotBefore \in Int
      <4>1. config.NotBefore \in Int \cup {Absent}
        BY Configured
      <4> QED
        BY <2>2, <4>1
    <3>2. token.nbf \in Int \cup {Absent}
      BY <3>1
    <3> QED
      BY <2>2, <2>3, <3>2 DEF Tokens, Grants
  <2>5. call' = [call EXCEPT ![t] =
                   [step |-> "verify", state |-> c.state, code |-> c.code,
                    expires |-> c.expires, first |-> c.first, token |-> token]]
    BY <1>8 DEF exchange_code, goes
  <2> HIDE DEF token
  <2>6. call' \in [Threads -> Calls]
    BY <2>1, <2>4, <2>5, CallTypes
  <2> QED
    BY <1>1, <1>2, <1>8, <2>6 DEF exchange_code
<1>9. ASSUME NEW t \in Threads, exchange_failed(t)
      PROVE  TypeOK'
  BY <1>1, <1>2, <1>9, CallTypes DEF exchange_failed, goes
<1>10. ASSUME NEW t \in Threads, verify_token(t)
       PROVE  TypeOK'
  <2> DEFINE c == call[t]
  <2>1. /\ c.state \in States /\ c.code \in Codes /\ c.first \in BOOLEAN
        /\ c.token \in Tokens /\ c.token.subject \in Subjects
    BY <1>3, <1>10, CallFields DEF verify_token, Tokens
  <2>2. call' \in [Threads -> Calls]
    BY <1>10, <2>1, CallTypes DEF verify_token, goes
  <2> QED
    BY <1>1, <1>2, <1>10, <2>2 DEF verify_token
<1>11. ASSUME NEW t \in Threads, issue(t)
       PROVE  TypeOK'
  <2> DEFINE c == call[t]
             x == [state |-> c.state, code |-> c.code, subject |-> c.subject,
                   verified |-> c.verified, first |-> c.first]
  <2>1. x \in Sessions
    BY <1>3, <1>11, CallFields DEF issue, Sessions
  <2>2. sessions' \in {sessions, sessions \cup {x}}
    BY <1>11 DEF issue
  <2> HIDE DEF x
  <2>3. sessions' \subseteq Sessions
    BY <2>1, <2>2
  <2> QED
    BY <1>1, <1>2, <1>11, <2>3, CallTypes DEF issue, goes
<1>12. ASSUME NEW t \in Threads, reject(t)
       PROVE  TypeOK'
  BY <1>1, <1>2, <1>12, CallTypes DEF reject, goes
<1>13. ASSUME NEW s \in States, NEW a \in Subjects, NEW k \in Codes,
              NEW n \in config.SignedOnFor, NEW d \in config.Drifts, authorize(s, a, k, n, d)
       PROVE  TypeOK'
  <2> DEFINE sign_on == IF config.StatesAuthTime
                        THEN [at |-> clock - n, auth_time |-> clock - n + d] ELSE Absent
  <2>1. clock - n \in Int /\ clock - n + d \in Int
    BY Configured DEF Times
  <2>2. sign_on \in SignOns \cup {Absent}
    BY <2>1 DEF SignOns
  <2>3. grants' = [grants EXCEPT ![k] = [state |-> s, subject |-> a, sign_on |-> sign_on]]
    BY <1>13 DEF authorize
  <2> HIDE DEF sign_on
  <2>4. grants' \in [Codes -> Grants \cup {Absent}]
    BY <2>2, <2>3 DEF Grants
  <2> QED
    BY <1>1, <1>2, <1>13, <2>4 DEF authorize
<1>14. CASE tick
  <2>1. clock' \in Times
    BY <1>14, Configured DEF tick, Times
  <2> QED
    BY <1>1, <1>2, <1>14, <2>1 DEF tick
<1>15. CASE restart
  BY <1>1, <1>2, <1>15, CallTypes DEF restart
<1>16. CASE UNCHANGED vars
  BY <1>2, <1>16 DEF vars
<1> QED
  BY <1>4, <1>5, <1>6, <1>7, <1>8, <1>9, <1>10, <1>11, <1>12, <1>13, <1>14, <1>15, <1>16
  DEF Next, Step, Serve

-----------------------------------------------------------------------------
(* The inductive invariant *)

\* A transaction is pending from begin() until its state is first presented.
StoreInv ==
    /\ \A s \in States : begun[s] # Absent => begun[s] <= clock
    /\ \A s \in States : pending[s] # Absent =>
          s \notin presented /\ begun[s] # Absent /\ pending[s] = begun[s] + ttl_seconds
    /\ \A s \in presented : begun[s] # Absent

\* What a call knows, and why: its transaction's deadline, whose code it carries,
\* and that its token was minted by the provider it is configured with.
Minted(token) ==
    /\ token.exp = token.iat + config.TokenLifetime
    /\ token.nbf = IF config.NotBefore = Absent THEN Absent ELSE token.iat + config.NotBefore
CallInv(c) ==
    /\ c.step = "begin" => c.now <= clock
    /\ c.step \in {"finish", "exchange", "verify", "issue"} => begun[c.state] # Absent
    /\ c.step \in {"exchange", "verify"} => c.expires = begun[c.state] + ttl_seconds
    /\ c.step = "verify" =>
          /\ c.token.nonce = grants[c.code].state /\ c.token.subject = grants[c.code].subject
          /\ Minted(c.token) /\ c.token.minted <= clock
    /\ c.step = "issue" =>
          /\ For(grants[c.code], c)
          /\ begun[c.state] <= c.verified /\ c.verified < begun[c.state] + ttl_seconds
    /\ c.step = "rejected" =>
          /\ Minted(c.token) /\ c.token.minted <= c.now
          /\ ~ verify(c.token, c.state, c.now)
CallsInv == \A t \in Threads : CallInv(call[t])

\* What is asked of a token depends on the configuration only.
LEMMA SameVerdict ==
    ASSUME config' = config
    PROVE  /\ \A o, s, n : verify(o, s, n)' <=> verify(o, s, n)
           /\ \A o : Minted(o)' <=> Minted(o)
BY DEF verify, in_window, begun_to_hold, signed_on_lately, Minted, clock_skew_seconds,
       max_token_age_seconds, max_auth_age_seconds

\* Past consume(), a call is the only one for its sign-in.
flies(t) == call[t].step \in {"exchange", "verify", "issue"}
FlightInv ==
    /\ \A t \in Threads : flies(t) =>
          /\ call[t].first /\ call[t].state \in presented
          /\ \A x \in sessions : x.state # call[t].state
    /\ \A t, u \in Threads : t # u /\ flies(t) /\ flies(u) => call[t].state # call[u].state

SessionInv ==
    /\ \A x \in sessions :
          /\ x.first /\ x.state \in presented /\ begun[x.state] # Absent
          /\ For(grants[x.code], x)
          /\ begun[x.state] <= x.verified /\ x.verified < begun[x.state] + ttl_seconds
    /\ \A x, y \in sessions : x.state = y.state => x = y

LoginInv == TypeOK /\ Granted /\ StoreInv /\ CallsInv /\ FlightInv /\ SessionInv

LEMMA LoginInit == Init => LoginInv
<1> SUFFICES ASSUME Init
             PROVE  LoginInv
  OBVIOUS
<1>1. TypeOK
  BY InitType
<1>2. \A t \in Threads : call[t] = Idle /\ call[t].step = "idle"
  BY CallTypes DEF Init
<1>3. Granted /\ CallsInv /\ FlightInv
  BY <1>2 DEF Granted, CallsInv, CallInv, FlightInv, flies
<1>4. StoreInv /\ SessionInv
  BY DEF Init, StoreInv, SessionInv
<1> QED
  BY <1>1, <1>3, <1>4 DEF LoginInv

\* Who begins, presents and is granted a sign-in does so once; time goes on.
LEMMA Steady ==
    ASSUME TypeOK, Next
    PROVE  /\ config' = config /\ clock <= clock' /\ clock \in Int /\ clock' \in Int
           /\ presented \subseteq presented'
           /\ \A s \in States : begun[s] # Absent =>
                begun'[s] = begun[s] /\ begun[s] \in Int /\ begun'[s] # Absent
           /\ \A k \in Codes : grants[k] # Absent => grants'[k] = grants[k]
<1>1. config' = config
  BY DEF Next
<1>2. clock \in Int
  BY Configured DEF TypeOK, Times
<1>3. clock' \in Int /\ clock <= clock'
  <2>1. clock' = clock \/ clock' = clock + 1
    BY DEF Next, Step, Serve, begin, create, finish, consume, exchange_code, exchange_failed,
           verify_token, issue, reject, authorize, tick, restart
  <2> QED
    BY <1>2, <2>1
<1>4. presented \subseteq presented'
  BY DEF Next, Step, Serve, begin, create, finish, consume, exchange_code, exchange_failed,
         verify_token, issue, reject, authorize, tick, restart
<1>5. \A s \in States : begun[s] # Absent => begun'[s] = begun[s]
  BY DEF Next, Step, Serve, begin, create, finish, consume, exchange_code, exchange_failed,
         verify_token, issue, reject, authorize, tick, restart, TypeOK
<1>6. \A s \in States : begun[s] # Absent => begun[s] \in Int
  BY Configured DEF TypeOK, Times
<1>7. \A k \in Codes : grants[k] # Absent => grants'[k] = grants[k]
  BY DEF Next, Step, Serve, begin, create, finish, consume, exchange_code, exchange_failed,
         verify_token, issue, reject, authorize, tick, restart, TypeOK
<1> QED
  BY <1>1, <1>2, <1>3, <1>4, <1>5, <1>6, <1>7

\* A thread's step leaves the other calls alone.
LEMMA Others ==
    ASSUME NEW t \in Threads, Serve(t), TypeOK
    PROVE  /\ \A u \in Threads \ {t} : call'[u] = call[u]
           /\ \E c : call' = [call EXCEPT ![t] = c]
BY DEF Serve, begin, create, finish, consume, exchange_code, exchange_failed, verify_token,
       issue, reject, goes, TypeOK

LEMMA StoreNext ==
    ASSUME LoginInv, Next
    PROVE  StoreInv'
<1> USE DEF LoginInv, StoreInv, TypeOK
<1>0. /\ config' = config /\ clock <= clock' /\ clock \in Int /\ clock' \in Int
      /\ ttl_seconds' = ttl_seconds /\ ttl_seconds \in Int
      /\ \A s \in States : begun[s] # Absent =>
           begun'[s] = begun[s] /\ begun[s] \in Int /\ begun'[s] # Absent
      /\ \A n \in Times : n \in Int /\ n # Absent
  BY Steady, SameTypes, Configured, AbsentAssumption DEF Times
<1>1. ASSUME UNCHANGED <<pending, begun, presented>>
      PROVE  StoreInv'
  BY <1>0, <1>1
<1>2. ASSUME NEW t \in Threads, create(t)
      PROVE  StoreInv'
  <2> DEFINE now == call[t].now
  <2>1. now \in Times /\ now <= clock
    BY <1>2, CallFields DEF create, CallsInv, CallInv
  <2>2. /\ kept(pending, now) \in [States -> Int \cup {Absent}]
        /\ \A s \in States : kept(pending, now)[s] # Absent => kept(pending, now)[s] = pending[s]
    BY KeptType
  <2>3. CASE UNCHANGED begun /\ pending' = kept(pending, now)
    BY <1>0, <1>2, <2>2, <2>3 DEF create
  <2>4. CASE \E s \in States : /\ begun[s] = Absent
                               /\ pending' = [kept(pending, now) EXCEPT ![s] = now + ttl_seconds]
                               /\ begun' = [begun EXCEPT ![s] = now]
    <3>1. PICK s \in States : /\ begun[s] = Absent
                              /\ pending' = [kept(pending, now) EXCEPT ![s] = now + ttl_seconds]
                              /\ begun' = [begun EXCEPT ![s] = now]
      BY <2>4
    <3>2. begun'[s] = now /\ now # Absent /\ s \notin presented
      BY <1>0, <2>1, <3>1
    <3>3. UNCHANGED <<clock, presented>>
      BY <1>2 DEF create
    <3>4. pending'[s] = begun'[s] + ttl_seconds'
      BY <1>0, <2>2, <3>1, <3>2
    <3>5. \A r \in States \ {s} : begun'[r] = begun[r] /\ pending'[r] = kept(pending, now)[r]
      BY <2>2, <3>1
    <3> QED
      BY <1>0, <2>1, <2>2, <3>2, <3>3, <3>4, <3>5
  <2> QED
    BY <1>2, <2>3, <2>4 DEF create
<1>3. ASSUME NEW t \in Threads, consume(t)
      PROVE  StoreInv'
  <2> DEFINE c == call[t]
             transactions == kept(pending, c.now)
  <2>1. c.state \in States /\ begun[c.state] # Absent
    BY <1>3, CallFields DEF consume, CallsInv, CallInv
  <2>2. /\ transactions \in [States -> Int \cup {Absent}]
        /\ \A s \in States : transactions[s] # Absent => transactions[s] = pending[s]
    BY KeptType
  <2>3. /\ pending' = [transactions EXCEPT ![c.state] = Absent]
        /\ presented' = presented \cup {c.state} /\ UNCHANGED <<clock, begun>>
    BY <1>3 DEF consume, taken
  <2>4. pending'[c.state] = Absent /\ \A s \in States \ {c.state} : pending'[s] = transactions[s]
    BY <2>1, <2>2, <2>3
  <2> QED
    BY <1>0, <2>1, <2>2, <2>3, <2>4
<1>4. CASE restart
  BY <1>0, <1>4 DEF restart
<1> QED
  BY <1>1, <1>2, <1>3, <1>4
  DEF Next, Step, Serve, begin, finish, exchange_code, exchange_failed, verify_token, issue,
      reject, authorize, tick

\* What a call knows stays true while it waits for others.
LEMMA Waits ==
    ASSUME LoginInv, Next, NEW t \in Threads, call'[t] = call[t]
    PROVE  /\ CallInv(call[t])'
           /\ call'[t].step \in {"finish", "exchange", "verify", "issue"} =>
                grants'[call'[t].code] # Absent
<1> DEFINE c == call[t]
<1>1. /\ c \in Calls /\ CallInv(c)
      /\ c.step \in {"finish", "exchange", "verify", "issue"} => grants[c.code] # Absent
  BY DEF LoginInv, TypeOK, CallsInv, Granted
<1>2. /\ config' = config /\ clock <= clock' /\ clock \in Int /\ clock' \in Int
      /\ ttl_seconds' = ttl_seconds
  BY Steady, SameTypes DEF LoginInv
<1>3. /\ c.step # "idle" /\ c.step # "begin" => c.state \in States
      /\ c.step = "begin" => c.now \in Int
      /\ c.step = "verify" => c.token.minted \in Int
      /\ c.step \in {"finish", "exchange", "verify", "issue"} => c.code \in Codes
  BY <1>1, CallFields DEF Times, Tokens
<1>4. /\ c.step \in {"finish", "exchange", "verify", "issue"} =>
           begun'[c.state] = begun[c.state] /\ begun'[c.state] # Absent
      /\ c.step \in {"finish", "exchange", "verify", "issue"} => grants'[c.code] = grants[c.code]
  BY <1>1, <1>3, Steady DEF LoginInv, CallInv
<1>5. \A o, s, n : verify(o, s, n)' <=> verify(o, s, n)
  BY <1>2, SameVerdict
<1>6. \A o : Minted(o)' <=> Minted(o)
  BY <1>2, SameVerdict
<1> QED
  BY <1>1, <1>2, <1>3, <1>4, <1>5, <1>6 DEF CallInv, For

LEMMA CallsNext ==
    ASSUME LoginInv, Next
    PROVE  CallsInv' /\ Granted'
<1> USE DEF LoginInv
<1>0. /\ config' = config /\ ttl_seconds' = ttl_seconds
      /\ clock \in Int /\ clock <= clock' /\ clock' \in Int
      /\ \A t \in Threads : call[t] \in Calls /\ CallInv(call[t])
      /\ Idle.step = "idle"
  BY Steady, SameTypes, CallTypes DEF TypeOK, CallsInv
<1>1. ASSUME NEW t \in Threads, Serve(t),
             /\ CallInv(call[t])'
             /\ call'[t].step \in {"finish", "exchange", "verify", "issue"} =>
                  grants'[call'[t].code] # Absent
      PROVE  CallsInv' /\ Granted'
  <2>1. \A u \in Threads \ {t} : call'[u] = call[u]
    BY <1>1, Others
  <2>2. ASSUME NEW u \in Threads
        PROVE  /\ CallInv(call[u])'
               /\ call'[u].step \in {"finish", "exchange", "verify", "issue"} =>
                    grants'[call'[u].code] # Absent
    BY <1>1, <2>1, Waits
  <2> QED
    BY <2>2 DEF CallsInv, Granted
<1>2. ASSUME NEW t \in Threads, begin(t)
      PROVE  CallsInv' /\ Granted'
  <2>1. call'[t] = [step |-> "begin", now |-> clock] /\ clock' = clock
    BY <1>2 DEF begin, goes, TypeOK
  <2>2. CallInv(call[t])' /\ call'[t].step = "begin"
    BY <1>0, <2>1 DEF CallInv
  <2> QED
    BY <1>1, <1>2, <2>2 DEF Serve
<1>3. ASSUME NEW t \in Threads, call'[t] = Idle, Serve(t)
      PROVE  CallsInv' /\ Granted'
  <2>1. CallInv(call[t])' /\ call'[t].step = "idle"
    BY <1>0, <1>3 DEF CallInv
  <2> QED
    BY <1>1, <1>3, <2>1
<1>4. ASSUME NEW t \in Threads, NEW s \in States, NEW b \in States, NEW k \in Codes,
             finish(t, s, b, k)
      PROVE  CallsInv' /\ Granted'
  <2>1. /\ call'[t] = [step |-> "finish", state |-> s, binding |-> b, code |-> k, now |-> clock]
        /\ begun'[s] # Absent /\ grants'[k] # Absent
    BY <1>4 DEF finish, goes, TypeOK
  <2>2. CallInv(call[t])' /\ grants'[call'[t].code] # Absent
    BY <2>1 DEF CallInv
  <2> QED
    BY <1>1, <1>4, <2>2 DEF Serve
<1>5. ASSUME NEW t \in Threads, consume(t)
      PROVE  CallsInv' /\ Granted'
  <2> DEFINE c == call[t]
             transactions == kept(pending, c.now)
             remembered == kept(codes, c.now)
  <2>1. CASE matches(c, transactions, remembered)
    <3>1. /\ c.state \in States /\ c.code \in Codes /\ begun[c.state] # Absent
          /\ grants[c.code] # Absent
      BY <1>0, <1>5, CallFields DEF consume, CallInv, Granted
    <3>2. /\ call'[t] = [step |-> "exchange", state |-> c.state, code |-> c.code,
                         expires |-> transactions[c.state], first |-> c.state \notin presented]
          /\ UNCHANGED <<begun, grants>>
      BY <1>5, <2>1 DEF consume, goes, TypeOK
    <3>3. transactions[c.state] = pending[c.state] /\ pending[c.state] # Absent
      BY <2>1, <3>1, KeptType DEF TypeOK, matches
    <3>4. transactions[c.state] = begun[c.state] + ttl_seconds
      BY <3>1, <3>3 DEF StoreInv
    <3>5. CallInv(call[t])' /\ grants'[call'[t].code] # Absent
      BY <1>0, <3>1, <3>2, <3>4 DEF CallInv
    <3> QED
      BY <1>1, <1>5, <3>5 DEF Serve
  <2>2. CASE ~ matches(c, transactions, remembered)
    BY <1>3, <1>5, <2>2 DEF consume, goes, TypeOK, Serve
  <2> QED
    BY <2>1, <2>2
<1>6. ASSUME NEW t \in Threads, NEW drift \in config.Drifts, exchange_code(t, drift)
      PROVE  CallsInv' /\ Granted'
  <2> DEFINE c == call[t]
             grant == grants[c.code]
             token == [nonce |-> grant.state, subject |-> grant.subject, minted |-> clock,
                       iat |-> clock + drift, exp |-> clock + drift + config.TokenLifetime,
                       nbf |-> IF config.NotBefore = Absent THEN Absent
                               ELSE clock + drift + config.NotBefore,
                       sign_on |-> grant.sign_on]
  <2>1. /\ call'[t] = [step |-> "verify", state |-> c.state, code |-> c.code,
                       expires |-> c.expires, first |-> c.first, token |-> token]
        /\ UNCHANGED <<begun, grants>>
    BY <1>6 DEF exchange_code, goes, TypeOK
  <2>2. grant # Absent /\ begun[c.state] # Absent /\ c.expires = begun[c.state] + ttl_seconds
    BY <1>0, <1>6 DEF exchange_code, CallInv, Granted
  <2>3. /\ Minted(token) /\ token.minted <= clock'
        /\ \A o : Minted(o)' <=> Minted(o)
    BY <1>0, SameVerdict DEF Minted
  <2>4. /\ call'[t].step = "verify" /\ call'[t].token = token
        /\ call'[t].state = c.state /\ call'[t].code = c.code /\ call'[t].expires = c.expires
        /\ token.nonce = grant.state /\ token.subject = grant.subject
    BY <2>1
  <2> HIDE DEF token
  <2>5. CallInv(call[t])' /\ grants'[call'[t].code] # Absent
    BY <1>0, <2>1, <2>2, <2>3, <2>4 DEF CallInv
  <2> QED
    BY <1>1, <1>6, <2>5 DEF Serve
<1>7. ASSUME NEW t \in Threads, verify_token(t)
      PROVE  CallsInv' /\ Granted'
  <2> DEFINE c == call[t]
  <2>1. /\ c.state \in States /\ c.code \in Codes /\ begun[c.state] # Absent
        /\ grants[c.code] \in Grants /\ c.expires = begun[c.state] + ttl_seconds
        /\ c.token.nonce = grants[c.code].state /\ c.token.subject = grants[c.code].subject
        /\ Minted(c.token) /\ c.token.minted <= clock /\ UNCHANGED <<begun, grants, clock>>
    BY <1>0, <1>7, CallFields DEF verify_token, CallInv, Granted, TypeOK
  <2>2. CASE ~ in_time(c)
    BY <1>3, <1>7, <2>2 DEF verify_token, goes, TypeOK, Serve
  <2>3. CASE in_time(c) /\ ~ verify(c.token, c.state, clock)
    <3>1. call'[t] = [step |-> "rejected", state |-> c.state, token |-> c.token, now |-> clock]
      BY <1>7, <2>3 DEF verify_token, goes, TypeOK
    <3>2. /\ call'[t].step = "rejected" /\ call'[t].token = c.token
          /\ call'[t].state = c.state /\ call'[t].now = clock
      BY <3>1
    <3>3. ~ verify(call[t].token, call[t].state, call[t].now)' /\ Minted(call[t].token)'
      BY <1>0, <2>1, <2>3, <3>2, SameVerdict
    <3>4. CallInv(call[t])'
      BY <2>1, <3>2, <3>3 DEF CallInv
    <3> QED
      BY <1>1, <1>7, <3>2, <3>4 DEF Serve
  <2>4. CASE in_time(c) /\ verify(c.token, c.state, clock)
    <3>1. call'[t] = [step |-> "issue", state |-> c.state, code |-> c.code,
                      subject |-> c.token.subject, verified |-> clock, first |-> c.first]
      BY <1>7, <2>4 DEF verify_token, goes, TypeOK
    <3>2. grants[c.code].state = c.state /\ grants[c.code].subject = c.token.subject
      BY <2>1, <2>4 DEF verify
    <3>3. begun[c.state] <= clock /\ clock < begun[c.state] + ttl_seconds
      BY <2>1, <2>4 DEF in_time, StoreInv
    <3>4. grants[c.code] # Absent
      BY <2>1, AbsentAssumption DEF Grants
    <3>5. /\ call'[t].step = "issue" /\ call'[t].state = c.state /\ call'[t].code = c.code
          /\ call'[t].subject = c.token.subject /\ call'[t].verified = clock
      BY <3>1
    <3>6. begun' = begun /\ grants' = grants
      BY <2>1
    <3>7. CallInv(call[t])'
      BY <1>0, <2>1, <3>2, <3>3, <3>4, <3>5, <3>6 DEF CallInv, For
    <3>8. grants'[call'[t].code] # Absent
      BY <3>4, <3>5, <3>6
    <3> QED
      BY <1>1, <1>7, <3>7, <3>8 DEF Serve
  <2> QED
    BY <2>2, <2>3, <2>4
<1>8. ASSUME NEW t \in Threads, create(t) \/ exchange_failed(t) \/ issue(t) \/ reject(t)
      PROVE  CallsInv' /\ Granted'
  BY <1>3, <1>8 DEF create, exchange_failed, issue, reject, goes, TypeOK, Serve
<1>9. CASE call' = call
  <2>1. \A u \in Threads : call'[u] = call[u]
    BY <1>9
  <2> QED
    BY <1>9, <2>1, Waits DEF CallsInv, Granted
<1>10. CASE restart
  <2>1. \A u \in Threads : call'[u] = Idle
    BY <1>10 DEF restart
  <2> QED
    BY <1>0, <2>1 DEF CallsInv, CallInv, Granted
<1> QED
  BY <1>2, <1>4, <1>5, <1>6, <1>7, <1>8, <1>9, <1>10 DEF Next, Step, Serve, authorize, tick

LEMMA FlightNext ==
    ASSUME LoginInv, Next
    PROVE  FlightInv'
<1> USE DEF LoginInv
<1>0. presented \subseteq presented' /\ Idle.step = "idle"
  BY Steady, CallTypes
\* A call that goes on, or ends, takes off from no new sign-in.
<1>1. ASSUME NEW t \in Threads, Serve(t), UNCHANGED sessions,
             ~ flies(t)' \/ /\ flies(t)
                            /\ call'[t].state = call[t].state /\ call'[t].first = call[t].first
      PROVE  FlightInv'
  <2>1. \A u \in Threads \ {t} : call'[u] = call[u]
    BY <1>1, Others
  <2> QED
    BY <1>0, <1>1, <2>1 DEF FlightInv, flies
<1>2. ASSUME NEW t \in Threads, begin(t) \/ create(t) \/ exchange_failed(t) \/ reject(t)
      PROVE  FlightInv'
  <2>1. ~ flies(t)' /\ UNCHANGED sessions
    BY <1>0, <1>2 DEF begin, create, exchange_failed, reject, goes, flies, TypeOK
  <2> QED
    BY <1>1, <1>2, <2>1 DEF Serve
<1>3. ASSUME NEW t \in Threads, NEW s \in States, NEW b \in States, NEW k \in Codes,
             finish(t, s, b, k)
      PROVE  FlightInv'
  <2>1. ~ flies(t)' /\ UNCHANGED sessions
    BY <1>3 DEF finish, goes, flies, TypeOK
  <2> QED
    BY <1>1, <1>3, <2>1 DEF Serve
<1>4. ASSUME NEW t \in Threads, consume(t)
      PROVE  FlightInv'
  <2> DEFINE c == call[t]
             transactions == kept(pending, c.now)
             remembered == kept(codes, c.now)
  <2>0. /\ \A u \in Threads \ {t} : call'[u] = call[u]
        /\ UNCHANGED sessions /\ presented' = presented \cup {c.state} /\ c.state \in States
    BY <1>4, Others, CallFields DEF consume, Serve, TypeOK
  <2>1. CASE matches(c, transactions, remembered)
    <3>1. transactions[c.state] = pending[c.state] /\ pending[c.state] # Absent
      BY <2>0, <2>1, KeptType DEF TypeOK, matches
    <3>2. c.state \notin presented
      BY <2>0, <3>1 DEF StoreInv
    <3>3. call'[t] = [step |-> "exchange", state |-> c.state, code |-> c.code,
                      expires |-> transactions[c.state], first |-> c.state \notin presented]
      BY <1>4, <2>1 DEF consume, goes, TypeOK
    <3>4. call'[t].state = c.state /\ call'[t].first
      <4>1. call'[t].state = c.state /\ call'[t].first = (c.state \notin presented)
        BY <3>3
      <4> QED
        BY <3>2, <4>1
    <3>5. \A x \in sessions : x.state # c.state
      BY <3>2 DEF SessionInv
    <3>6. \A u \in Threads \ {t} : flies(u)' => call'[u].state # c.state
      BY <2>0, <3>2 DEF FlightInv, flies
    <3> QED
      BY <1>0, <2>0, <3>4, <3>5, <3>6 DEF FlightInv, flies
  <2>2. CASE ~ matches(c, transactions, remembered)
    <3>1. ~ flies(t)'
      BY <1>0, <1>4, <2>2 DEF consume, goes, flies, TypeOK
    <3> QED
      BY <1>1, <1>4, <2>0, <3>1 DEF Serve
  <2> QED
    BY <2>1, <2>2
<1>5. ASSUME NEW t \in Threads, NEW drift \in config.Drifts, exchange_code(t, drift)
      PROVE  FlightInv'
  <2>1. /\ flies(t) /\ call'[t].state = call[t].state /\ call'[t].first = call[t].first
        /\ UNCHANGED sessions
    BY <1>5 DEF exchange_code, goes, flies, TypeOK
  <2> QED
    BY <1>1, <1>5, <2>1 DEF Serve
<1>6. ASSUME NEW t \in Threads, verify_token(t)
      PROVE  FlightInv'
  <2>1. UNCHANGED sessions
    BY <1>6 DEF verify_token
  <2>2. \/ ~ flies(t)'
        \/ /\ flies(t)
           /\ call'[t].state = call[t].state /\ call'[t].first = call[t].first
    BY <1>0, <1>6 DEF verify_token, goes, flies, TypeOK
  <2> QED
    BY <1>1, <1>6, <2>1, <2>2 DEF Serve
<1>7. ASSUME NEW t \in Threads, issue(t)
      PROVE  FlightInv'
  <2>1. /\ \A u \in Threads \ {t} : call'[u] = call[u]
        /\ ~ flies(t)' /\ flies(t) /\ UNCHANGED presented
    BY <1>0, <1>7, Others DEF issue, goes, flies, TypeOK, Serve
  <2>2. \A x \in sessions' : x \in sessions \/ x.state = call[t].state
    BY <1>7 DEF issue
  <2> QED
    BY <2>1, <2>2 DEF FlightInv, flies
<1>8. CASE call' = call /\ sessions' = sessions
  BY <1>0, <1>8 DEF FlightInv, flies
<1>9. CASE restart
  BY <1>0, <1>9 DEF restart, FlightInv, flies
<1> QED
  BY <1>2, <1>3, <1>4, <1>5, <1>6, <1>7, <1>8, <1>9 DEF Next, Step, Serve, authorize, tick

LEMMA SessionsNext ==
    ASSUME LoginInv, Next
    PROVE  SessionInv'
<1> USE DEF LoginInv
<1>0. /\ presented \subseteq presented' /\ ttl_seconds' = ttl_seconds
      /\ \A s \in States : begun[s] # Absent => begun'[s] = begun[s] /\ begun'[s] # Absent
      /\ \A k \in Codes : grants[k] # Absent => grants'[k] = grants[k]
      /\ \A x \in sessions : x.state \in States /\ x.code \in Codes /\ x.subject \in Subjects
  BY Steady, SameTypes DEF TypeOK, Sessions
<1>1. \A x \in sessions : grants[x.code] # Absent
  BY DEF SessionInv, For
<1>2. \A x \in sessions :
         /\ x.first /\ x.state \in presented' /\ begun'[x.state] # Absent
         /\ For(grants'[x.code], x)
         /\ begun'[x.state] <= x.verified /\ x.verified < begun'[x.state] + ttl_seconds'
  BY <1>0, <1>1 DEF SessionInv
<1>3. CASE sessions' = sessions
  BY <1>2, <1>3 DEF SessionInv
<1>4. ASSUME NEW t \in Threads, issue(t)
      PROVE  SessionInv'
  <2> DEFINE c == call[t]
             x == [state |-> c.state, code |-> c.code, subject |-> c.subject,
                   verified |-> c.verified, first |-> c.first]
  <2>1. sessions' \in {sessions, sessions \cup {x}} /\ UNCHANGED <<begun, presented, grants>>
    BY <1>4 DEF issue
  <2>2. /\ c.first /\ c.state \in presented /\ begun[c.state] # Absent
        /\ For(grants[c.code], c)
        /\ begun[c.state] <= c.verified /\ c.verified < begun[c.state] + ttl_seconds
        /\ \A y \in sessions : y.state # c.state
    BY <1>4 DEF issue, CallsInv, CallInv, FlightInv, flies
  <2>3. /\ x.first = c.first /\ x.state = c.state /\ x.code = c.code
        /\ x.subject = c.subject /\ x.verified = c.verified
    OBVIOUS
  <2> HIDE DEF x
  <2>4. /\ x.first /\ x.state \in presented' /\ begun'[x.state] # Absent
        /\ For(grants'[x.code], x)
        /\ begun'[x.state] <= x.verified /\ x.verified < begun'[x.state] + ttl_seconds'
        /\ \A y \in sessions : y.state # x.state
    BY <1>0, <2>1, <2>2, <2>3 DEF For
  <2>5. CASE sessions' = sessions \cup {x}
    BY <1>2, <2>4, <2>5 DEF SessionInv
  <2> QED
    BY <1>3, <2>1, <2>5
<1>5. sessions' = sessions \/ \E t \in Threads : issue(t)
  BY DEF Next, Step, Serve, begin, create, finish, consume, exchange_code, exchange_failed,
         verify_token, reject, authorize, tick, restart
<1> QED
  BY <1>3, <1>4, <1>5

LEMMA LoginNext == LoginInv /\ [Next]_vars => LoginInv'
<1> SUFFICES ASSUME LoginInv, [Next]_vars
             PROVE  LoginInv'
  OBVIOUS
<1>1. TypeOK'
  BY NextType DEF LoginInv
<1>2. CASE Next
  BY <1>1, <1>2, StoreNext, CallsNext, FlightNext, SessionsNext DEF LoginInv
<1>3. CASE UNCHANGED vars
  <2>1. (\A o, s, n : verify(o, s, n)' <=> verify(o, s, n)) /\ \A o : Minted(o)' <=> Minted(o)
    BY <1>3, SameVerdict DEF vars
  <2> QED
    BY <1>1, <1>3, <2>1
    DEF vars, LoginInv, Granted, StoreInv, CallsInv, CallInv, FlightInv, flies, SessionInv,
        ttl_seconds, For
<1> QED
  BY <1>2, <1>3

-----------------------------------------------------------------------------
(* What follows *)

\* LoginInv is an invariant: a transaction is pending until its state is first
\* presented, a call past consume() is the only one for its sign-in, and it carries
\* the deadline, code and token of that sign-in (oidc_login.py, oidc_login_service.py).
THEOREM InductiveInvariant == Spec => []LoginInv
BY LoginInit, LoginNext, PTL DEF Spec

\* Every variable keeps its type, for any threads, sign-ins and deployments.
THEOREM TypeCorrect == Spec => []TypeOK
<1>1. LoginInv => TypeOK
  BY DEF LoginInv
<1> QED
  BY <1>1, InductiveInvariant, PTL

\* A sign-in gets at most one session and only for its first callback, and so does
\* a code; for any number of racing, repeated and late callbacks and restarts
\* (InMemoryLoginTransactions.consume).
THEOREM OneSession == Spec => []OneSessionPerSignIn
<1>1. ASSUME LoginInv
      PROVE  OneSessionPerSignIn
  <2>1. ASSUME NEW x \in sessions, NEW y \in sessions, x.code = y.code
        PROVE  x.state = y.state
    <3>1. For(grants[x.code], x) /\ For(grants[x.code], y)
      BY <1>1, <2>1 DEF LoginInv, SessionInv
    <3> QED
      BY <3>1 DEF For
  <2> QED
    BY <1>1, <2>1 DEF LoginInv, SessionInv, OneSessionPerSignIn
<1> QED
  BY <1>1, InductiveInvariant, PTL

\* A session is for the subject who signed in at the provider for this sign-in,
\* whatever parts of several sign-ins a callback mixes (LoginService.finish).
THEOREM RightSubject == Spec => []SubjectOfThisSignIn
<1>1. LoginInv => SubjectOfThisSignIn
  BY DEF LoginInv, SessionInv, SubjectOfThisSignIn
<1> QED
  BY <1>1, InductiveInvariant, PTL

\* A subject is verified within the time to live of the transaction, for any time
\* to live and however long the exchange with the provider takes.
THEOREM InTime == Spec => []VerifiedInTime
<1>1. LoginInv => VerifiedInTime
  BY DEF LoginInv, SessionInv, VerifiedInTime
<1> QED
  BY <1>1, InductiveInvariant, PTL

\* An honest token for this sign-in is turned away only once it has expired, before
\* it holds, or when its subject signed on longer ago than we allow, all by our own
\* clock and for any drift of the provider's within the skew (IDTokenVerifier.verify).
THEOREM HonestAccepted == Spec => []HonestTokenAccepted
<1>1. ASSUME LoginInv
      PROVE  HonestTokenAccepted
  <2> SUFFICES ASSUME NEW t \in Threads, call[t].step = "rejected",
                      call[t].token.nonce = call[t].state, Honest(call[t].token),
                      ~ (call[t].now >= call[t].token.minted + config.TokenLifetime),
                      ~ (/\ config.NotBefore # Absent
                         /\ call[t].now < call[t].token.minted + config.NotBefore),
                      ~ (/\ max_auth_age_seconds # Absent
                         /\ call[t].now > call[t].token.sign_on.at + max_auth_age_seconds)
               PROVE  FALSE
    BY DEF HonestTokenAccepted
  <2> DEFINE token == call[t].token
             now == call[t].now
             skew == clock_skew_seconds
  <2>1. /\ call[t] \in Calls /\ config \in Deployments
        /\ ~ verify(token, call[t].state, now) /\ Minted(token) /\ token.minted <= now
    BY <1>1 DEF LoginInv, TypeOK, CallsInv, CallInv
  <2>2. /\ now \in Int /\ token.iat \in Int /\ token.minted \in Int
        /\ token.sign_on # Absent =>
             token.sign_on.at \in Int /\ token.sign_on.auth_time \in Int
    BY <2>1, CallFields DEF Tokens, Times, SignOns
  <2>3. /\ skew \in Nat /\ max_token_age_seconds \in Nat
        /\ config.TokenLifetime \in Nat \ {0}
        /\ config.NotBefore # Absent => config.NotBefore \in Int
        /\ max_auth_age_seconds # Absent => max_auth_age_seconds \in Nat
    BY <2>1, Configured
  <2>4. /\ token.nonce = call[t].state
        /\ config.TokenLifetime <= max_token_age_seconds
        /\ now < token.minted + config.TokenLifetime
        /\ token.iat - token.minted <= skew /\ - skew <= token.iat - token.minted
    BY <2>2, <2>3 DEF Honest, WithinSkew
  <2>5. /\ token.exp = token.iat + config.TokenLifetime
        /\ token.nbf = IF config.NotBefore = Absent THEN Absent
                       ELSE token.iat + config.NotBefore
    BY <2>1 DEF Minted
  <2>6. token.sign_on # Absent =>
          /\ token.sign_on.auth_time - token.sign_on.at <= skew
          /\ - skew <= token.sign_on.auth_time - token.sign_on.at
          /\ token.sign_on.auth_time <= token.iat
    BY <2>2, <2>3 DEF Honest, WithinSkew
  <2>7. max_auth_age_seconds # Absent =>
          token.sign_on # Absent /\ now <= token.sign_on.at + max_auth_age_seconds
    BY <2>2, <2>3 DEF Honest
  <2>8. config.NotBefore # Absent => token.minted + config.NotBefore <= now
    BY <2>2, <2>3
  <2> HIDE DEF token, now
  <2>9. in_window(token, now)
    BY <2>1, <2>2, <2>3, <2>4, <2>5 DEF in_window
  <2>10. begun_to_hold(token, now)
    BY <2>1, <2>2, <2>3, <2>4, <2>5, <2>8 DEF begun_to_hold
  <2>11. signed_on_lately(token, now)
    BY <2>1, <2>2, <2>3, <2>4, <2>6, <2>7 DEF signed_on_lately
  <2> QED
    BY <2>1, <2>4, <2>9, <2>10, <2>11 DEF verify
<1> QED
  BY <1>1, InductiveInvariant, PTL

\* Nobody is verified on a token that had been expired for more than twice the
\* skew, for any lifetime and drift within the skew (IDTokenVerifier.verify).
THEOREM NoneStale == Spec => NoStaleToken
<1>1. ASSUME LoginInv, [Next]_vars, NEW t \in Threads,
             call[t].step = "verify", call'[t].step = "issue",
             WithinSkew(call[t].token.iat - call[t].token.minted)
      PROVE  clock < call[t].token.minted + config.TokenLifetime + 2 * clock_skew_seconds
  <2> DEFINE token == call[t].token
  <2>1. /\ call[t] \in Calls /\ config \in Deployments /\ clock \in Times
        /\ token.exp = token.iat + config.TokenLifetime
    <3>1. CallInv(call[t])
      BY <1>1 DEF LoginInv, CallsInv
    <3> QED
      BY <1>1, <3>1 DEF LoginInv, TypeOK, CallInv, Minted
  <2>2. token.iat \in Int /\ token.minted \in Int /\ clock \in Int
    BY <1>1, <2>1, CallFields DEF Tokens, Times
  <2>3. clock_skew_seconds \in Nat /\ config.TokenLifetime \in Nat
    BY <2>1, Configured
  <2>4. call'[t] # call[t]
    BY <1>1
  <2>5. Next /\ ~ restart
    BY <1>1, <2>4, CallTypes DEF vars, restart
  <2>6. Serve(t)
    <3>1. PICK u \in Threads : Serve(u)
      BY <2>4, <2>5 DEF Next, Step, authorize, tick
    <3> QED
      BY <1>1, <2>4, <3>1, Others DEF LoginInv
  <2>7. verify_token(t)
    <3>1. call[t] # Idle
      BY <1>1, CallTypes
    <3>2. call'[t] # Idle
      BY <1>1, CallTypes
    <3>3. CASE \E drift \in config.Drifts : exchange_code(t, drift)
      BY <1>1, <3>3 DEF exchange_code
    <3>4. CASE exchange_failed(t)
      BY <1>1, <3>4 DEF exchange_failed
    <3> QED
      BY <1>1, <2>6, <3>1, <3>3, <3>4 DEF Serve, begin, create, finish, consume, issue, reject
  <2>8. verify(token, call[t].state, clock)
    BY <1>1, <2>7, CallTypes DEF verify_token, goes, LoginInv, TypeOK
  <2>9. clock < token.exp + clock_skew_seconds
    BY <2>8 DEF verify, in_window
  <2>10. token.iat <= token.minted + clock_skew_seconds
    BY <1>1, <2>2, <2>3 DEF WithinSkew
  <2> QED
    BY <2>1, <2>2, <2>3, <2>9, <2>10
<1>2. LoginInv /\ [Next]_vars =>
        [\A t \in Threads :
           (/\ call[t].step = "verify" /\ call'[t].step = "issue"
            /\ WithinSkew(call[t].token.iat - call[t].token.minted))
           => clock < call[t].token.minted + config.TokenLifetime + 2 * clock_skew_seconds]_vars
  BY <1>1
<1> QED
  BY <1>2, InductiveInvariant, PTL DEF Spec, NoStaleToken
=============================================================================
