----------------------------- MODULE OidcLogin -----------------------------
(***************************************************************************)
(* OIDC code-flow sign-in: LoginService over InMemoryLoginTransactions and  *)
(* IDTokenVerifier, with the identity provider and the browsers around it.  *)
(*                                                                         *)
(* begin() draws a state, a binding, a nonce and a verifier that belong     *)
(* together and are never drawn again: the state names all four.  A browser *)
(* that comes back may do so twice, late, or, with several sign-ins open,   *)
(* with the parts of different ones: a callback is any state, binding and   *)
(* code that exist.  Signatures, issuer, audience and the fixed endpoints   *)
(* of the configuration are right; a token is its nonce, subject and times,  *)
(* and the provider may or may not honour the max_age that begin() asks for. *)
(***************************************************************************)
EXTENDS Integers, FiniteSets

CONSTANTS Threads,        \* request threads
          States,         \* the states that can be drawn in this instance
          Subjects,       \* who can sign in at the provider
          Codes,          \* the authorization codes the provider can hand out
          Deployments,    \* the configurations of the service and its provider
          Absent          \* no transaction, no code

ASSUME DeploymentsAssumption ==
    Deployments \subseteq
        [ttl_seconds : Nat \ {0}, capacity : Nat \ {0}, \* InMemoryLoginTransactions
         CodeRetention : Nat \ {0},             \* how long consume() remembers a code
         clock_skew_seconds : Nat, max_token_age_seconds : Nat \ {0},  \* ProviderConfig
         max_auth_age_seconds : (Nat \ {0}) \cup {Absent},
         TokenLifetime : Nat \ {0},             \* exp - iat of the provider's tokens
         NotBefore : Int \cup {Absent},         \* nbf - iat, if it states nbf
         StatesAuthTime : BOOLEAN,              \* does it state auth_time?
         SignedOnFor : SUBSET Nat,              \* how long subjects have been signed on
         Drifts : SUBSET Int,                   \* the provider's clock minus ours
         ChecksVerifier : BOOLEAN,              \* does it compare code_verifier?
         MaxClock : Nat]                        \* bound on the wall clock
ASSUME RetentionAssumption == \A d \in Deployments : d.ttl_seconds <= d.CodeRetention
SignOns == [at : Int, auth_time : Int] \* by our clock and by the provider's
Grants  == [state : States, subject : Subjects, sign_on : SignOns \cup {Absent}]
ASSUME AbsentAssumption == Absent \notin Int /\ Absent \notin SignOns /\ Absent \notin Grants
ASSUME InstanceAssumption == IsFiniteSet(States) /\ IsFiniteSet(Codes)

VARIABLES
    config,    \* the deployment
    clock,     \* utc now
    pending,   \* _pending: per state, the transaction's expires_at
    codes,     \* _codes: per code, until when it is remembered
    begun,     \* per state drawn, when begin() read the clock (history, too)
    presented, \* states presented to the store (a history variable)
    grants,    \* at the provider: per code, its state, subject and sign-on
    call,      \* per thread, the finish() it is in
    sessions   \* the sessions issued

vars == <<config, clock, pending, codes, begun, presented, grants, call, sessions>>

ttl_seconds           == config.ttl_seconds
capacity              == config.capacity
clock_skew_seconds    == config.clock_skew_seconds
max_token_age_seconds == config.max_token_age_seconds
max_auth_age_seconds  == config.max_auth_age_seconds

Times == 0..config.MaxClock
Idle  == [step |-> "idle"]

Tokens == [nonce : States, subject : Subjects, minted : Times, iat : Int, exp : Int,
           nbf : Int \cup {Absent}, sign_on : SignOns \cup {Absent}]
Calls  ==
    {Idle}
    \cup [step : {"begin"}, now : Times]
    \cup [step : {"finish"}, state : States, binding : States, code : Codes,
          now : Times]
    \cup [step : {"exchange"}, state : States, code : Codes, expires : Int,
          first : BOOLEAN]
    \cup [step : {"verify"}, state : States, code : Codes, expires : Int,
          first : BOOLEAN, token : Tokens]
    \cup [step : {"issue"}, state : States, code : Codes, subject : Subjects,
          verified : Times, first : BOOLEAN]
    \cup [step : {"rejected"}, state : States, token : Tokens, now : Times]
Sessions == [state : States, code : Codes, subject : Subjects, verified : Times,
             first : BOOLEAN]

-----------------------------------------------------------------------------
(* InMemoryLoginTransactions *)

kept(f, now) == [x \in DOMAIN f |-> IF f[x] # Absent /\ f[x] > now THEN f[x] ELSE Absent]
Held(f)      == {x \in DOMAIN f : f[x] # Absent}

admits(now) ==
    Cardinality(Held(kept(pending, now))) + Cardinality(Held(kept(codes, now))) < capacity

\* What consume() requires of a callback, after it has taken its transaction.
matches(c, transactions, remembered) ==
    /\ transactions[c.state] # Absent
    /\ c.binding = c.state
    /\ remembered[c.code] = Absent

-----------------------------------------------------------------------------
(* IDTokenVerifier *)

\* Mutants: no leeway for an issue time ahead of our clock, and no look at the age.
in_window_without_leeway(token, now) ==
    /\ token.iat <= now
    /\ now < token.exp + clock_skew_seconds
    /\ token.exp - token.iat <= max_token_age_seconds
    /\ now - token.iat <= max_token_age_seconds + clock_skew_seconds
in_window_any_age(token, now) == token.iat <= now + clock_skew_seconds

in_window(token, now) ==
    /\ token.iat <= now + clock_skew_seconds
    /\ now < token.exp + clock_skew_seconds
    /\ token.iat < token.exp
    /\ token.exp - token.iat <= max_token_age_seconds
    /\ now - token.iat <= max_token_age_seconds + clock_skew_seconds

\* The optional claim nbf.
begun_to_hold(token, now) ==
    token.nbf # Absent => token.nbf <= now + clock_skew_seconds /\ token.nbf < token.exp

\* Mutant: no leeway for the provider's clock.
signed_on_without_leeway(token, now) ==
    max_auth_age_seconds # Absent =>
        /\ token.sign_on # Absent
        /\ now - token.sign_on.auth_time <= max_auth_age_seconds

\* The claim auth_time, optional unless a maximum age is configured.
signed_on_lately(token, now) ==
    /\ token.sign_on # Absent =>
          /\ token.sign_on.auth_time <= now + clock_skew_seconds
          /\ token.sign_on.auth_time <= token.iat
    /\ max_auth_age_seconds # Absent =>
          /\ token.sign_on # Absent
          /\ now - token.sign_on.auth_time <= max_auth_age_seconds + clock_skew_seconds

\* Mutant: a token for another sign-in.
verify_any_nonce(token, nonce, now) ==
    in_window(token, now) /\ begun_to_hold(token, now) /\ signed_on_lately(token, now)

verify(token, nonce, now) ==
    /\ token.nonce = nonce
    /\ in_window(token, now)
    /\ begun_to_hold(token, now)
    /\ signed_on_lately(token, now)

-----------------------------------------------------------------------------
(* LoginService *)

goes(t, c) == call' = [call EXCEPT ![t] = c]

begin(t) ==
    /\ call[t] = Idle
    /\ goes(t, [step |-> "begin", now |-> clock])
    /\ UNCHANGED <<clock, pending, codes, begun, presented, grants, sessions>>

\* A full store rejects the sign-in; it has forgotten what expired all the same.
create(t) ==
    /\ call[t].step = "begin"
    /\ LET now == call[t].now
       IN  /\ codes' = kept(codes, now)
           /\ \/ /\ admits(now)
                 /\ \E s \in States :
                      /\ begun[s] = Absent
                      /\ pending' = [kept(pending, now) EXCEPT ![s] = now + ttl_seconds]
                      /\ begun' = [begun EXCEPT ![s] = now]
              \/ /\ ~admits(now)
                 /\ pending' = kept(pending, now)
                 /\ UNCHANGED begun
    /\ goes(t, Idle)
    /\ UNCHANGED <<clock, presented, grants, sessions>>

finish(t, s, binding, code) ==
    /\ call[t] = Idle
    /\ begun[s] # Absent /\ begun[binding] # Absent /\ grants[code] # Absent
    /\ goes(t, [step |-> "finish", state |-> s, binding |-> binding, code |-> code,
                now |-> clock])
    /\ UNCHANGED <<clock, pending, codes, begun, presented, grants, sessions>>

\* Mutant: the transaction stays.
never_taken(c, transactions, remembered) == transactions

\* The transaction is taken out whatever comes of the callback.
taken(c, transactions, remembered) == [transactions EXCEPT ![c.state] = Absent]

consume(t) ==
    /\ call[t].step = "finish"
    /\ LET c == call[t]
           transactions == kept(pending, c.now)
           remembered   == kept(codes, c.now)
       IN  /\ pending' = taken(c, transactions, remembered)
           /\ \/ /\ matches(c, transactions, remembered)
                 /\ codes' = [remembered EXCEPT ![c.code] = c.now + config.CodeRetention]
                 /\ goes(t, [step |-> "exchange", state |-> c.state, code |-> c.code,
                             expires |-> transactions[c.state],
                             first |-> c.state \notin presented])
              \/ /\ ~matches(c, transactions, remembered)
                 /\ codes' = remembered
                 /\ goes(t, Idle)
           /\ presented' = presented \cup {c.state}
    /\ UNCHANGED <<clock, begun, grants, sessions>>

\* The provider answers with a token for the sign-in the code was granted for.
exchange_code(t, drift) ==
    /\ call[t].step = "exchange"
    /\ LET c == call[t]
           grant == grants[c.code]
           iat == clock + drift
       IN  /\ config.ChecksVerifier => grant.state = c.state
           /\ goes(t, [step |-> "verify", state |-> c.state, code |-> c.code,
                       expires |-> c.expires, first |-> c.first,
                       token |-> [nonce |-> grant.state, subject |-> grant.subject,
                                  minted |-> clock, iat |-> iat,
                                  exp |-> iat + config.TokenLifetime,
                                  nbf |-> IF config.NotBefore = Absent THEN Absent
                                          ELSE iat + config.NotBefore,
                                  sign_on |-> grant.sign_on]])
    /\ UNCHANGED <<clock, pending, codes, begun, presented, grants, sessions>>

exchange_failed(t) ==
    /\ call[t].step = "exchange"
    /\ goes(t, Idle)
    /\ UNCHANGED <<clock, pending, codes, begun, presented, grants, sessions>>

\* Mutant: the transaction's deadline is not looked at after the exchange.
in_time_always(c) == TRUE

in_time(c) == clock < c.expires

\* The clock is read again after the exchange.
verify_token(t) ==
    /\ call[t].step = "verify"
    /\ LET c == call[t]
       IN  \/ /\ in_time(c) /\ verify(c.token, c.state, clock)
              /\ goes(t, [step |-> "issue", state |-> c.state, code |-> c.code,
                          subject |-> c.token.subject, verified |-> clock,
                          first |-> c.first])
           \/ /\ in_time(c) /\ ~verify(c.token, c.state, clock)
              /\ goes(t, [step |-> "rejected", state |-> c.state,
                          token |-> c.token, now |-> clock])
           \/ /\ ~in_time(c)
              /\ goes(t, Idle)
    /\ UNCHANGED <<clock, pending, codes, begun, presented, grants, sessions>>

\* SessionManager.issue() on the verified subject: it may have no room.
issue(t) ==
    /\ call[t].step = "issue"
    /\ LET c == call[t]
       IN  sessions' \in {sessions,
               sessions \cup {[state |-> c.state, code |-> c.code, subject |-> c.subject,
                               verified |-> c.verified, first |-> c.first]}}
    /\ goes(t, Idle)
    /\ UNCHANGED <<clock, pending, codes, begun, presented, grants>>

reject(t) ==
    /\ call[t].step = "rejected"
    /\ goes(t, Idle)
    /\ UNCHANGED <<clock, pending, codes, begun, presented, grants, sessions>>

-----------------------------------------------------------------------------
(* The environment *)

\* Somebody follows the authorization URL of state s and signs in, or has been
\* signed on at the provider for some time.
authorize(s, subject, code, age, drift) ==
    /\ begun[s] # Absent
    /\ grants[code] = Absent
    /\ grants' = [grants EXCEPT ![code] =
                    [state |-> s, subject |-> subject,
                     sign_on |-> IF config.StatesAuthTime
                                 THEN [at |-> clock - age, auth_time |-> clock - age + drift]
                                 ELSE Absent]]
    /\ UNCHANGED <<clock, pending, codes, begun, presented, call, sessions>>

tick ==
    /\ clock < config.MaxClock
    /\ clock' = clock + 1
    /\ UNCHANGED <<pending, codes, begun, presented, grants, call, sessions>>

\* Transactions and remembered codes live in memory only.
restart ==
    /\ pending' = [s \in States |-> Absent]
    /\ codes' = [c \in Codes |-> Absent]
    /\ call' = [t \in Threads |-> Idle]
    /\ UNCHANGED <<clock, begun, presented, grants, sessions>>

-----------------------------------------------------------------------------
Init ==
    /\ config \in Deployments
    /\ clock = 0
    /\ pending = [s \in States |-> Absent]
    /\ codes = [c \in Codes |-> Absent]
    /\ begun = [s \in States |-> Absent]
    /\ presented = {}
    /\ grants = [c \in Codes |-> Absent]
    /\ call = [t \in Threads |-> Idle]
    /\ sessions = {}

Serve(t) ==
    \/ begin(t) \/ create(t)
    \/ \E s, binding \in States, code \in Codes : finish(t, s, binding, code)
    \/ consume(t)
    \/ \E drift \in config.Drifts : exchange_code(t, drift)
    \/ exchange_failed(t) \/ verify_token(t) \/ issue(t) \/ reject(t)

Step ==
    \/ \E t \in Threads : Serve(t)
    \/ \E s \in States, subject \in Subjects, code \in Codes,
          age \in config.SignedOnFor, drift \in config.Drifts :
             authorize(s, subject, code, age, drift)
    \/ tick \/ restart

Next == Step /\ UNCHANGED config

Spec == Init /\ [][Next]_vars

-----------------------------------------------------------------------------
(* Properties *)

\* Every variable has the shape the service gives it.
TypeOK ==
    /\ config \in Deployments
    /\ clock \in Times
    /\ pending \in [States -> Int \cup {Absent}]
    /\ codes \in [Codes -> Int \cup {Absent}]
    /\ begun \in [States -> Times \cup {Absent}]
    /\ presented \subseteq States
    /\ grants \in [Codes -> Grants \cup {Absent}]
    /\ call \in [Threads -> Calls]
    /\ sessions \subseteq Sessions

\* One sign-in, one session: racing, repeated and late callbacks with the same
\* state or the same code never establish a second one, and a sign-in whose first
\* callback failed cannot be tried again with another.
OneSessionPerSignIn ==
    /\ \A x, y \in sessions : (x.state = y.state \/ x.code = y.code) => x = y
    /\ \A x \in sessions : x.first

For(grant, x) == grant # Absent /\ grant.state = x.state /\ grant.subject = x.subject

\* The session is for the subject who signed in at the provider for this very
\* sign-in, even if parts of several sign-ins arrive together.
SubjectOfThisSignIn ==
    \A x \in sessions : For(grants[x.code], x)

\* The subject is verified within the transaction's time to live.
VerifiedInTime ==
    \A x \in sessions : begun[x.state] <= x.verified /\ x.verified < begun[x.state] + ttl_seconds

WithinSkew(d) == d \in -clock_skew_seconds..clock_skew_seconds

\* Minted by a provider whose tokens live no longer than we allow, whose clock is
\* within the skew of ours and not set back between the sign-on and the token, and
\* that states when the subject signed on if we limit its age.
Honest(token) ==
    /\ config.TokenLifetime <= max_token_age_seconds
    /\ WithinSkew(token.iat - token.minted)
    /\ token.sign_on # Absent =>
          /\ WithinSkew(token.sign_on.auth_time - token.sign_on.at)
          /\ token.sign_on.auth_time <= token.iat
    /\ max_auth_age_seconds # Absent => token.sign_on # Absent

\* An honest token for this sign-in is turned away only when, by our own clock, it
\* has expired, does not hold yet, or its subject signed on too long ago: neither
\* the drift of the clocks nor the boundary of a window ever costs a sign-in.
HonestTokenAccepted ==
    \A t \in Threads : call[t].step = "rejected" =>
        LET token == call[t].token
            now   == call[t].now
        IN  token.nonce = call[t].state /\ Honest(token) =>
              \/ now >= token.minted + config.TokenLifetime
              \/ config.NotBefore # Absent /\ now < token.minted + config.NotBefore
              \/ /\ max_auth_age_seconds # Absent
                 /\ now > token.sign_on.at + max_auth_age_seconds

\* No subject is verified on a token that had expired more than twice the skew ago.
NoStaleToken ==
    [][\A t \in Threads :
         (/\ call[t].step = "verify" /\ call'[t].step = "issue"
          /\ WithinSkew(call[t].token.iat - call[t].token.minted))
         => clock < call[t].token.minted + config.TokenLifetime + 2 * clock_skew_seconds]_vars
=============================================================================
