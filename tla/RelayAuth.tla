----------------------------- MODULE RelayAuth -----------------------------
(***************************************************************************)
(* The authentication manager, src/relay_server/auth.py: credentials and   *)
(* API tokens with their JSON file, and the pending sessions, which are    *)
(* kept in memory only.  Every method is synchronous; what can come        *)
(* between two of its steps is the end of the process.                     *)
(*                                                                         *)
(* A password hash is the password it was made from and whether it has the *)
(* current Argon2 parameters.  A pending session's own password is left    *)
(* out: a wrong one changes nothing.                                       *)
(***************************************************************************)
EXTENDS Integers, FiniteSets

CONSTANTS
    User, Password, Token, SessionId,
    None,       \* an absent value
    Validity,   \* _OTP_VALIDITY_SECONDS, in ticks
    MaxTime     \* bound on the clock

ASSUME AuthNone == None \notin Password
ASSUME AuthTimes == Validity \in Nat /\ MaxTime \in Nat

VARIABLES
    creds,      \* _credentials: the hash of each user, or None
    tokens,     \* _api_tokens
    file,       \* credentials.json
    phase,      \* the process: "idle", inside write_text ("saving"), or "down"
    returned,   \* the passwords and tokens when the last method call returned
    pending,    \* _pending_sessions
    consumed,   \* the one-time sessions verified since they were created
    now         \* time.time()

vars == <<creds, tokens, file, phase, returned, pending, consumed, now>>

NoHash == [password |-> None, current |-> FALSE]
Entry == {NoHash} \cup [password : Password, current : BOOLEAN]

\* What a file holds for _load.  A file that was cut short is not JSON: like one
\* that does not exist, it holds nothing.
Content == [creds : [User -> Entry], tokens : SUBSET Token]
Unreadable == [creds |-> [u \in User |-> NoHash], tokens |-> {}]

\* What the methods answer by: the password of each user, and the tokens.
Answers(c) == [password |-> [u \in User |-> c.creds[u].password], tokens |-> c.tokens]

NoSession == [kind |-> "none", expires_at |-> 0]
Session == [kind       : {"none", "permanent", "one_time"},
            expires_at : 0..(MaxTime + Validity)]

\* The first start: without a file, or with one of an earlier version.
Init ==
    /\ file \in Content
    /\ creds = file.creds
    /\ tokens = file.tokens
    /\ phase = "idle"
    /\ returned = Answers(file)
    /\ pending = [s \in SessionId |-> NoSession]
    /\ consumed = {}
    /\ now = 0

-----------------------------------------------------------------------------
(***************************************************************************)
(* Credentials and tokens.                                                 *)
(***************************************************************************)

Memory == [creds |-> creds, tokens |-> tokens]

\* A plausible fault of Change: the method returns without _save.
ChangeUnsaved(c) ==
    /\ phase = "idle"
    /\ creds' = c.creds
    /\ tokens' = c.tokens
    /\ returned' = Answers(c)
    /\ UNCHANGED <<file, phase, pending, consumed, now>>

\* A method changes the tables and calls _save, which empties the file first.
Change(c) ==
    /\ phase = "idle"
    /\ creds' = c.creds
    /\ tokens' = c.tokens
    /\ file' = Unreadable
    /\ phase' = "saving"
    /\ UNCHANGED <<returned, pending, consumed, now>>

\* write_text is over, and so is the method that called _save.
SaveDone ==
    /\ phase = "saving"
    /\ file' = Memory
    /\ phase' = "idle"
    /\ returned' = Answers(Memory)
    /\ UNCHANGED <<creds, tokens, pending, consumed, now>>

\* The tables with password p for u, hashed with the current parameters.
WithPassword(u, p) ==
    [Memory EXCEPT !.creds = [@ EXCEPT ![u] = [password |-> p, current |-> TRUE]]]

SetPassword(u, p) == Change(WithPassword(u, p))

\* authenticate with the right password: a hash of old parameters is renewed.
Authenticate(u) ==
    /\ creds[u] # NoHash
    /\ ~ creds[u].current
    /\ Change(WithPassword(u, creds[u].password))

\* A plausible fault of RemoveUser: the user stays, without a password.
RemoveUserBlanks(u) ==
    /\ creds[u] # NoHash
    /\ Change([Memory EXCEPT !.creds = [@ EXCEPT ![u] = [@ EXCEPT !.password = None]]])

RemoveUser(u) ==
    /\ creds[u] # NoHash
    /\ Change([Memory EXCEPT !.creds = [@ EXCEPT ![u] = NoHash]])

AddApiToken(t) ==
    /\ t \notin tokens
    /\ Change([Memory EXCEPT !.tokens = @ \cup {t}])

RemoveApiToken(t) ==
    /\ t \in tokens
    /\ Change([Memory EXCEPT !.tokens = @ \ {t}])

-----------------------------------------------------------------------------
(***************************************************************************)
(* Pending sessions.                                                       *)
(***************************************************************************)

\* A method that only changes the pending sessions.
SetPending(sessions) ==
    /\ phase = "idle"
    /\ pending' = sessions
    /\ UNCHANGED <<creds, tokens, file, phase, returned, now>>

\* create_session generates ids until one is not that of a pending session.
Unused(s) == pending[s] = NoSession

CreateSession(s, kind) ==
    /\ Unused(s)
    /\ SetPending([pending EXCEPT
         ![s] = [kind       |-> kind,
                 expires_at |-> IF kind = "one_time" THEN now + Validity ELSE 0]])
    /\ consumed' = consumed \ {s}

\* A plausible fault of Expired: the kind of the session is not looked at.
PastExpiry(s) == pending[s] # NoSession /\ now > pending[s].expires_at

Expired(s) == pending[s].kind = "one_time" /\ now > pending[s].expires_at

\* A plausible fault of Dropping: nothing is dropped.
DroppingNone(S) == pending

\* The pending sessions without those of S.
Dropping(S) == [s \in SessionId |-> IF s \in S THEN NoSession ELSE pending[s]]

\* verify_session with the right password, before the session expires: a one-time
\* session is used up, another one stays.
VerifySession(s) ==
    /\ pending[s].kind = "one_time"
    /\ ~ Expired(s)
    /\ SetPending(Dropping({s}))
    /\ consumed' = consumed \cup {s}

\* verify_session after that: the session is dropped, and the answer is no.
VerifyExpired(s) ==
    /\ Expired(s)
    /\ SetPending(Dropping({s}))
    /\ UNCHANGED consumed

RemoveSession(s) ==
    /\ pending[s] # NoSession
    /\ SetPending(Dropping({s}))
    /\ UNCHANGED consumed

\* cleanup_expired, which every cleanup pass of the server calls.
CleanupExpired ==
    /\ \E s \in SessionId : Expired(s)
    /\ SetPending(Dropping({s \in SessionId : Expired(s)}))
    /\ UNCHANGED consumed

-----------------------------------------------------------------------------
Tick ==
    /\ now < MaxTime
    /\ now' = now + 1
    /\ UNCHANGED <<creds, tokens, file, phase, returned, pending, consumed>>

\* The process ends, at any point: only the file is left.
Crash ==
    /\ phase # "down"
    /\ phase' = "down"
    /\ creds' = Unreadable.creds
    /\ tokens' = {}
    /\ pending' = [s \in SessionId |-> NoSession]
    /\ UNCHANGED <<file, returned, consumed, now>>

\* The constructor: _load.
Restart ==
    /\ phase = "down"
    /\ phase' = "idle"
    /\ creds' = file.creds
    /\ tokens' = file.tokens
    /\ UNCHANGED <<file, returned, pending, consumed, now>>

Next ==
    \/ \E u \in User :
         \/ \E p \in Password : SetPassword(u, p)
         \/ Authenticate(u)
         \/ RemoveUser(u)
    \/ \E t \in Token : AddApiToken(t) \/ RemoveApiToken(t)
    \/ SaveDone
    \/ \E s \in SessionId :
         \/ \E kind \in {"permanent", "one_time"} : CreateSession(s, kind)
         \/ VerifySession(s)
         \/ VerifyExpired(s)
         \/ RemoveSession(s)
    \/ CleanupExpired
    \/ Tick
    \/ Crash
    \/ Restart

Spec == Init /\ [][Next]_vars

-----------------------------------------------------------------------------
\* Every variable has its type.
AuthTypeOK ==
    /\ Memory \in Content
    /\ file \in Content
    /\ phase \in {"idle", "saving", "down"}
    /\ returned \in [password : [User -> Password \cup {None}], tokens : SUBSET Token]
    /\ pending \in [SessionId -> Session]
    /\ consumed \subseteq SessionId
    /\ now \in 0..MaxTime

\* A password that was replaced, a user or a token that was removed is never
\* accepted again once the method that did so has returned, whenever the process
\* ends and is started again: what is accepted is what the last method to return
\* left.
NothingRevived ==
    phase = "idle" =>
      /\ tokens \subseteq returned.tokens
      /\ \A u \in User : creds[u] # NoHash => creds[u].password = returned.password[u]

\* A pending session is neither replaced by another with its id nor dropped, but by
\* its use or its expiry if it is a one-time session, by remove_session, or by the
\* end of the process.
SessionKept ==
    [][\A s \in SessionId :
         pending[s] # NoSession /\ pending'[s] # pending[s] =>
           /\ pending'[s] = NoSession
           /\ \/ /\ pending[s].kind = "one_time"
                 /\ s \in consumed' \/ now > pending[s].expires_at
              \/ RemoveSession(s)
              \/ phase' = "down"]_vars

\* A one-time session opens once: after verify_session accepted it no call does,
\* until the id is that of a new session.
UsedOnce == \A s \in consumed : pending[s] = NoSession

\* Credentials and tokens persist (auth.py:8, "Credential store with JSON
\* persistence"): what a method left when it returned is what the process answers
\* by, also after a restart.  _save empties the file before it writes it, so a
\* process that ends in between leaves nothing of what was saved before.
Persistent == phase = "idle" => Answers(Memory) = returned
=============================================================================
