-------------------------- MODULE RelayAuth_proofs --------------------------
(***************************************************************************)
(* Theorems about RelayAuth and RelayAccess: types, what a restart may     *)
(* bring back, whom the API and the address lists let in, and pending      *)
(* sessions.                                                               *)
(***************************************************************************)
EXTENDS RelayAccess, WellFoundedInduction, TLAPS

\* The tables that the methods pass to _save are tables.
LEMMA WithPasswordType ==
  ASSUME Memory \in Content, NEW u \in User, NEW p \in Password
  PROVE  WithPassword(u, p) \in Content
BY DEF WithPassword, Memory, Content, Entry

\* A method that saves keeps the types.
LEMMA ChangeType ==
  ASSUME AuthTypeOK, NEW c \in Content, Change(c)
  PROVE  AuthTypeOK'
<1>1. Unreadable \in Content
  BY DEF Unreadable, Content, Entry
<1>2. Memory' = c
  BY DEF Change, Memory, Content
<1> QED BY <1>1, <1>2 DEF AuthTypeOK, Change

\* A method on the pending sessions keeps the types.
LEMMA SetPendingType ==
  ASSUME AuthTypeOK, NEW q \in [SessionId -> Session], SetPending(q),
         consumed' \subseteq SessionId
  PROVE  AuthTypeOK'
BY DEF AuthTypeOK, SetPending, Memory

\* Dropping sessions leaves sessions.
LEMMA DroppingType ==
  ASSUME AuthTypeOK, NEW S
  PROVE  Dropping(S) \in [SessionId -> Session]
BY AuthTimes DEF AuthTypeOK, Dropping, Session, NoSession

\* Every step keeps the types.
LEMMA AuthNextType ==
  ASSUME AuthTypeOK, [Next]_vars
  PROVE  AuthTypeOK'
<1> USE DEF AuthTypeOK
<1>1. ASSUME NEW u \in User, NEW p \in Password, SetPassword(u, p)
      PROVE  AuthTypeOK'
  BY <1>1, WithPasswordType, ChangeType DEF SetPassword
<1>2. ASSUME NEW u \in User, Authenticate(u)
      PROVE  AuthTypeOK'
  <2>1. creds[u].password \in Password
    BY <1>2 DEF Authenticate, Memory, Content, Entry
  <2> QED BY <1>2, <2>1, WithPasswordType, ChangeType DEF Authenticate
<1>3. ASSUME NEW u \in User, RemoveUser(u)
      PROVE  AuthTypeOK'
  <2>1. [Memory EXCEPT !.creds = [@ EXCEPT ![u] = NoHash]] \in Content
    BY DEF Memory, Content, Entry
  <2> QED BY <1>3, <2>1, ChangeType DEF RemoveUser
<1>4. ASSUME NEW t \in Token, AddApiToken(t) \/ RemoveApiToken(t)
      PROVE  AuthTypeOK'
  <2>1. /\ [Memory EXCEPT !.tokens = @ \cup {t}] \in Content
        /\ [Memory EXCEPT !.tokens = @ \ {t}] \in Content
    BY DEF Memory, Content
  <2> QED BY <1>4, <2>1, ChangeType DEF AddApiToken, RemoveApiToken
<1>5. CASE SaveDone
  BY <1>5 DEF SaveDone, Memory, Content, Answers, Entry, NoHash
<1>6. ASSUME NEW s \in SessionId, NEW kind \in {"permanent", "one_time"},
             CreateSession(s, kind)
      PROVE  AuthTypeOK'
  <2>1. (IF kind = "one_time" THEN now + Validity ELSE 0) \in 0..(MaxTime + Validity)
    BY AuthTimes
  <2> DEFINE q == [pending EXCEPT ![s] =
                     [kind |-> kind,
                      expires_at |-> IF kind = "one_time" THEN now + Validity ELSE 0]]
  <2>2. q \in [SessionId -> Session]
    BY <2>1 DEF Session
  <2>3. SetPending(q) /\ consumed' \subseteq SessionId
    BY <1>6 DEF CreateSession
  <2> QED BY <2>2, <2>3, SetPendingType
<1>7. ASSUME NEW s \in SessionId, VerifySession(s) \/ VerifyExpired(s) \/ RemoveSession(s)
      PROVE  AuthTypeOK'
  <2>1. SetPending(Dropping({s})) /\ consumed' \subseteq SessionId
    BY <1>7 DEF VerifySession, VerifyExpired, RemoveSession
  <2> QED BY <2>1, DroppingType, SetPendingType
<1>8. CASE CleanupExpired
  BY <1>8, DroppingType, SetPendingType DEF CleanupExpired
<1>9. CASE Tick
  BY <1>9, AuthTimes DEF Tick, Memory
<1>10. CASE Crash
  BY <1>10, AuthTimes DEF Crash, Memory, Content, Unreadable, Entry, Session, NoSession
<1>11. CASE Restart
  BY <1>11 DEF Restart, Memory, Content
<1>12. CASE UNCHANGED vars
  BY <1>12 DEF vars, Memory
<1> QED
  BY <1>1, <1>2, <1>3, <1>4, <1>5, <1>6, <1>7, <1>8, <1>9, <1>10, <1>11, <1>12 DEF Next

\* Every variable of the authentication manager keeps its type.
THEOREM AuthTypeCorrect == Spec => []AuthTypeOK
<1>1. Init => AuthTypeOK
  BY AuthTimes DEF Init, AuthTypeOK, Memory, Content, Answers, Entry, NoHash, Session, NoSession
<1> QED BY <1>1, AuthNextType, PTL DEF Spec

-----------------------------------------------------------------------------
\* c holds nothing that the last method to return did not leave.
Within(c) ==
    /\ c.tokens \subseteq returned.tokens
    /\ \A u \in User : c.creds[u] # NoHash => c.creds[u].password = returned.password[u]

\* Neither does the file, at any time, nor the memory while no method runs.
AuthInv ==
    /\ Within(file)
    /\ phase = "idle" => Within(Memory)

\* A revoked password, user or token is never accepted again, over any number of
\* crashes and restarts: the file never holds more than was last returned, because
\* it is emptied before it is written.
THEOREM RevokedForGood == Spec => []NothingRevived
<1>1. Init => AuthInv
  <2> SUFFICES ASSUME Init PROVE AuthInv
    OBVIOUS
  <2>1. \A u \in User : returned.password[u] = file.creds[u].password
    BY DEF Init, Answers
  <2>2. returned.tokens = file.tokens
    BY DEF Init, Answers
  <2> QED BY <2>1, <2>2 DEF Init, AuthInv, Within, Memory
<1>2. AuthInv /\ [Next]_vars => AuthInv'
  <2> SUFFICES ASSUME AuthInv, [Next]_vars PROVE AuthInv'
    OBVIOUS
  <2>1. ASSUME NEW c, Change(c)
        PROVE  AuthInv'
    BY <2>1 DEF Change, AuthInv, Within, Unreadable
  <2>2. CASE SaveDone
    <3>1. \A u \in User : returned'.password[u] = Memory.creds[u].password
      BY <2>2 DEF SaveDone, Answers
    <3>2. returned'.tokens = Memory.tokens
      BY <2>2 DEF SaveDone, Answers
    <3>3. file' = Memory /\ Memory' = Memory
      BY <2>2 DEF SaveDone, Memory
    <3> QED BY <3>1, <3>2, <3>3 DEF AuthInv, Within
  <2>3. ASSUME NEW q, SetPending(q)
        PROVE  AuthInv'
    BY <2>3 DEF SetPending, AuthInv, Within, Memory
  <2>4. CASE Crash
    BY <2>4 DEF Crash, AuthInv, Within
  <2>5. CASE Restart
    BY <2>5 DEF Restart, AuthInv, Within, Memory
  <2>6. CASE Tick \/ UNCHANGED vars
    BY <2>6 DEF Tick, vars, AuthInv, Within, Memory
  <2> QED
    BY <2>1, <2>2, <2>3, <2>4, <2>5, <2>6
    DEF Next, SetPassword, Authenticate, RemoveUser, AddApiToken, RemoveApiToken,
        CreateSession, VerifySession, VerifyExpired, RemoveSession, CleanupExpired
<1>3. AuthInv => NothingRevived
  BY DEF AuthInv, Within, NothingRevived, Memory
<1> QED BY <1>1, <1>2, <1>3, PTL DEF Spec

-----------------------------------------------------------------------------
\* The address rules leave the authentication manager as it is.
LEMMA AccessRefines == AccessSpec => Spec
<1>1. AccessInit => Init
  BY DEF AccessInit
<1>2. [AccessNext]_accessVars => [Next]_vars
  BY DEF AccessNext, ConfigureIpRules, Next, accessVars
<1> QED BY <1>1, <1>2, PTL DEF AccessSpec, Spec

\* A token that was removed opens nothing of the API any more, for any users,
\* passwords and tokens, over any number of crashes and restarts, and whatever the
\* configuration of Basic auth and of the address rules.
THEOREM RemovedForGood == AccessSpec => []RemovedTokenRefused
<1>1. NothingRevived => RemovedTokenRefused
  <2> SUFFICES ASSUME NothingRevived,
                      phase = "idle",
                      NEW config \in AuthConfig, NEW r \in Request,
                      config.enabled,
                      r.bearer \in Token \ returned.tokens
               PROVE  ~ CheckAuth(config, r)
    BY DEF RemovedTokenRefused
  <2>1. r.bearer # None
    BY AccessAssumption
  <2>2. ~ VerifyApiToken(r.bearer)
    BY DEF NothingRevived, VerifyApiToken
  <2> QED BY <2>1, <2>2 DEF CheckAuth
<1> QED BY <1>1, RevokedForGood, AccessRefines, PTL

-----------------------------------------------------------------------------
\* A one-time session that was used is gone, until its id is given out again.
THEOREM OneTime == Spec => []UsedOnce
<1>1. Init => UsedOnce
  BY DEF Init, UsedOnce
<1>2. AuthTypeOK /\ UsedOnce /\ [Next]_vars => UsedOnce'
  <2> SUFFICES ASSUME AuthTypeOK, UsedOnce, [Next]_vars PROVE UsedOnce'
    OBVIOUS
  <2> USE DEF UsedOnce, AuthTypeOK
  <2>1. ASSUME NEW s \in SessionId, NEW kind, CreateSession(s, kind)
        PROVE  UsedOnce'
    BY <2>1 DEF CreateSession, SetPending
  <2>2. ASSUME NEW S, SetPending(Dropping(S)), consumed' \subseteq consumed \cup (S \cap SessionId)
        PROVE  UsedOnce'
    BY <2>2 DEF SetPending, Dropping
  <2>3. CASE Crash
    BY <2>3 DEF Crash
  <2>4. ASSUME NEW c, Change(c)
        PROVE  UsedOnce'
    BY <2>4 DEF Change
  <2>5. CASE SaveDone \/ Restart \/ Tick \/ UNCHANGED vars
    BY <2>5 DEF SaveDone, Restart, Tick, vars
  <2>6. ASSUME NEW s \in SessionId, VerifySession(s) \/ VerifyExpired(s) \/ RemoveSession(s)
        PROVE  UsedOnce'
    BY <2>2, <2>6 DEF VerifySession, VerifyExpired, RemoveSession
  <2>7. CASE CleanupExpired
    BY <2>2, <2>7 DEF CleanupExpired
  <2> QED
    BY <2>1, <2>3, <2>4, <2>5, <2>6, <2>7
    DEF Next, SetPassword, Authenticate, RemoveUser, AddApiToken, RemoveApiToken
<1> QED BY <1>1, <1>2, AuthTypeCorrect, PTL DEF Spec

-----------------------------------------------------------------------------
\* A pending session is kept until it is used, expires, is removed or the process
\* ends, for any number of sessions: creating one takes only a free id, and a pass of
\* cleanup_expired drops no permanent session and none that is still valid.
THEOREM SessionsKept == Spec => SessionKept
<1>1. AuthTypeOK /\ [Next]_vars =>
        [\A s \in SessionId :
           pending[s] # NoSession /\ pending'[s] # pending[s] =>
             /\ pending'[s] = NoSession
             /\ \/ /\ pending[s].kind = "one_time"
                   /\ s \in consumed' \/ now > pending[s].expires_at
                \/ RemoveSession(s)
                \/ phase' = "down"]_vars
  <2> SUFFICES ASSUME AuthTypeOK, Next, NEW s \in SessionId,
                      pending[s] # NoSession, pending'[s] # pending[s]
               PROVE  /\ pending'[s] = NoSession
                      /\ \/ /\ pending[s].kind = "one_time"
                            /\ s \in consumed' \/ now > pending[s].expires_at
                         \/ RemoveSession(s)
                         \/ phase' = "down"
    OBVIOUS
  <2>1. ASSUME NEW S, SetPending(Dropping(S))
        PROVE  s \in S /\ pending'[s] = NoSession
    BY <2>1 DEF SetPending, Dropping
  <2>2. ASSUME NEW t \in SessionId, NEW kind, CreateSession(t, kind)
        PROVE  FALSE
    BY <2>2 DEF CreateSession, SetPending, Unused, AuthTypeOK
  <2>3. ASSUME NEW t \in SessionId, VerifySession(t)
        PROVE  pending'[s] = NoSession /\ pending[s].kind = "one_time" /\ s \in consumed'
    BY <2>1, <2>3 DEF VerifySession
  <2>4. ASSUME NEW t \in SessionId, VerifyExpired(t)
        PROVE  /\ pending'[s] = NoSession
               /\ pending[s].kind = "one_time" /\ now > pending[s].expires_at
    BY <2>1, <2>4 DEF VerifyExpired, Expired
  <2>5. ASSUME NEW t \in SessionId, RemoveSession(t)
        PROVE  pending'[s] = NoSession /\ RemoveSession(s)
    BY <2>1, <2>5 DEF RemoveSession
  <2>6. CASE CleanupExpired
    <3>1. s \in {t \in SessionId : Expired(t)} /\ pending'[s] = NoSession
      BY <2>1, <2>6 DEF CleanupExpired
    <3> QED BY <3>1 DEF Expired
  <2>7. CASE Crash
    BY <2>7 DEF Crash
  <2>8. ASSUME UNCHANGED pending
        PROVE  FALSE
    BY <2>8
  <2>9. ASSUME NEW c, Change(c)
        PROVE  FALSE
    BY <2>8, <2>9 DEF Change
  <2>10. CASE SaveDone \/ Restart \/ Tick
    BY <2>8, <2>10 DEF SaveDone, Restart, Tick
  <2> QED
    BY <2>2, <2>3, <2>4, <2>5, <2>6, <2>7, <2>9, <2>10
    DEF Next, SetPassword, Authenticate, RemoveUser, AddApiToken, RemoveApiToken
<1> QED BY <1>1, AuthTypeCorrect, PTL DEF Spec, SessionKept

-----------------------------------------------------------------------------
(***************************************************************************)
(* The address lists.                                                      *)
(***************************************************************************)

\* A set of naturals that is not empty has a least element.
LEMMA Least ==
  ASSUME NEW T \in SUBSET Nat, T # {}
  PROVE  \E x \in T : \A y \in T : x <= y
<1>1. PICK x \in T : \A y \in T : ~ <<y, x>> \in OpToRel(<, Nat)
  BY NatLessThanWellFounded, WFMin, Zenon
<1>2. \A y \in T : ~ y < x
  BY <1>1 DEF OpToRel
<1> QED BY <1>2

\* The loop over a list of any length finds a network of the address if there is one.
\* The function F of what is left of the list satisfies the recursive equation, so
\* from does; then, by the least index at which from holds, or does not, it is F.
LEMMA MatchesSome ==
  ASSUME NEW n \in Nat, NEW list, Len(list) = n, NEW a
  PROVE  Matches(list, a) <=> \E k \in 1..n : list[k] # Malformed /\ a \in list[k]
<1> DEFINE Good(k) == list[k] # Malformed /\ a \in list[k]
           F == [i \in 1..(n + 1) |-> \E k \in i..n : Good(k)]
           from == CHOOSE f : f = [i \in 1..(n + 1) |-> i <= n /\ (Good(i) \/ f[i + 1])]
<1>1. F = [i \in 1..(n + 1) |-> i <= n /\ (Good(i) \/ F[i + 1])]
  <2>1. ASSUME NEW i \in 1..(n + 1)
        PROVE  (\E k \in i..n : Good(k)) <=> (i <= n /\ (Good(i) \/ F[i + 1]))
    <3> HIDE DEF Good
    <3>1. CASE i <= n
      <4>1. F[i + 1] <=> \E k \in (i + 1)..n : Good(k)
        BY <3>1
      <4>2. i..n = {i} \cup ((i + 1)..n)
        BY <3>1
      <4> QED BY <3>1, <4>1, <4>2
    <3>2. CASE ~ i <= n
      BY <3>2
    <3> QED BY <3>1, <3>2
  <2> QED BY <2>1
<1>2. from = [i \in 1..(n + 1) |-> i <= n /\ (Good(i) \/ from[i + 1])]
  <2> HIDE DEF F
  <2> QED BY <1>1
<1>3. Matches(list, a) <=> from[1]
  BY DEF Matches
<1> HIDE DEF F, from, Good
<1>4. \A i \in 1..(n + 1) : from[i] <=> (i <= n /\ (Good(i) \/ from[i + 1]))
  BY <1>2, Zenon
<1>5. ~ from[n + 1]
  BY <1>4
<1>6. ASSUME NEW i \in 1..n
      PROVE  from[i] <=> Good(i) \/ from[i + 1]
  BY <1>4
<1>7. ASSUME from[1], \A k \in 1..n : ~ Good(k)
      PROVE  FALSE
  <2>1. PICK i \in {j \in 1..(n + 1) : ~ from[j]} :
          \A j \in {j \in 1..(n + 1) : ~ from[j]} : i <= j
    <3>1. n + 1 \in {j \in 1..(n + 1) : ~ from[j]}
      BY <1>5
    <3>2. {j \in 1..(n + 1) : ~ from[j]} \in SUBSET Nat
      OBVIOUS
    <3> HIDE DEF from
    <3> QED BY <3>1, <3>2, Least, Zenon
  <2>2. i # 1 /\ i - 1 \in 1..n
    BY <1>7, <2>1
  <2>3. from[i - 1]
    BY <2>1, <2>2
  <2> QED BY <1>6, <1>7, <2>1, <2>2, <2>3
<1>8. ASSUME NEW k \in 1..n, Good(k), ~ from[1]
      PROVE  FALSE
  <2>1. PICK i \in {j \in 1..(n + 1) : from[j]} :
          \A j \in {j \in 1..(n + 1) : from[j]} : i <= j
    <3>1. k \in {j \in 1..(n + 1) : from[j]}
      BY <1>6, <1>8
    <3>2. {j \in 1..(n + 1) : from[j]} \in SUBSET Nat
      OBVIOUS
    <3> HIDE DEF from
    <3> QED BY <3>1, <3>2, Least, Zenon
  <2>2. i # 1 /\ i - 1 \in 1..n
    BY <1>8, <2>1
  <2>3. ~ from[i - 1]
    BY <2>1, <2>2
  <2>4. from[(i - 1) + 1]
    BY <2>1
  <2> QED BY <1>6, <2>2, <2>3, <2>4
<1>9. (\E k \in 1..n : list[k] # Malformed /\ a \in list[k]) <=> \E k \in 1..n : Good(k)
  BY DEF Good
<1> QED BY <1>3, <1>7, <1>8, <1>9

\* So a list matches the addresses of the networks it names.
LEMMA NamedSome ==
  ASSUME NEW list \in Lists, NEW a
  PROVE  /\ Matches(list, a) <=> a \in Named(list)
         /\ Named(list) \subseteq Address
         /\ list = <<>> => Named(list) = {}
<1>1. PICK n \in 0..MaxEntries : list \in [1..n -> Network \cup {Malformed}]
  BY DEF Lists
<1>2. n \in Nat /\ Len(list) = n /\ DOMAIN list = 1..n
  <2>1. n \in Nat
    BY <1>1, AccessAssumption
  <2> QED BY <1>1, <2>1
<1>3. Matches(list, a) <=> \E k \in 1..n : list[k] # Malformed /\ a \in list[k]
  BY <1>2, MatchesSome
<1>4. Named(list) \subseteq Address
  BY <1>1, <1>2, AccessAssumption DEF Named
<1>5. list = <<>> => Named(list) = {}
  BY DEF Named
<1> QED BY <1>2, <1>3, <1>4, <1>5 DEF Named

\* Whatever lists of whatever length the relay was started with, it admits exactly the
\* addresses that they name.
THEOREM RulesCorrect == AccessSpec => RulesMeanTheirNetworks
<1> DEFINE Listed == whitelist \in Lists /\ blacklist \in Lists
<1>1. AccessInit => Listed
  BY DEF AccessInit
<1>2. Listed /\ [AccessNext]_accessVars => Listed'
  BY DEF AccessNext, ConfigureIpRules, accessVars
<1>3. Listed /\ [AccessNext]_accessVars =>
        [{a \in Address \cup {Malformed} : IsIpAllowed(a)'}
           = (IF whitelist' = <<>> THEN Address ELSE Named(whitelist')) \ Named(blacklist')]_accessVars
  <2> SUFFICES ASSUME whitelist' \in Lists, blacklist' \in Lists
               PROVE  {a \in Address \cup {Malformed} : IsIpAllowed(a)'}
                        = (IF whitelist' = <<>> THEN Address ELSE Named(whitelist'))
                            \ Named(blacklist')
    BY <1>2
  <2>1. ASSUME NEW a \in Address \cup {Malformed}
        PROVE  IsIpAllowed(a)' <=> /\ a # Malformed
                                   /\ a \notin Named(blacklist')
                                   /\ whitelist' # <<>> => a \in Named(whitelist')
    BY NamedSome DEF IsIpAllowed
  <2>2. Named(whitelist') \subseteq Address /\ Malformed \notin Address
    BY NamedSome, AccessAssumption
  <2> QED BY <2>1, <2>2
<1> QED BY <1>1, <1>2, <1>3, PTL DEF AccessSpec, RulesMeanTheirNetworks
=============================================================================
