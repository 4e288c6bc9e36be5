---------------------------- MODULE RelayAccess ----------------------------
(***************************************************************************)
(* Who gets in: is_ip_allowed of src/relay_server/auth.py, which           *)
(* _handle_client asks of a new connection, and _check_auth of             *)
(* src/relay_server/web/api.py, which every request of the API under /api  *)
(* passes, as functions of the rules and of the state of RelayAuth.        *)
(***************************************************************************)
EXTENDS RelayAuth, Sequences

CONSTANTS
    Address,    \* the addresses a peer may have
    Network,    \* the networks that entries may name, as sets of addresses
    Malformed,  \* an entry that ip_network refuses, or an address that ip_address does
    MaxEntries  \* bound on the length of a list

ASSUME AccessAssumption ==
    /\ Network \subseteq SUBSET Address
    /\ Malformed \notin Address \cup Network
    /\ None \notin Token
    /\ MaxEntries \in Nat

VARIABLES
    whitelist,  \* _whitelist
    blacklist   \* _blacklist

accessVars == <<vars, whitelist, blacklist>>

Lists == UNION {[1..n -> Network \cup {Malformed}] : n \in 0..MaxEntries}

-----------------------------------------------------------------------------
(***************************************************************************)
(* Connections.                                                            *)
(***************************************************************************)

\* A plausible fault of Matches: a malformed entry ends the search.
MatchesUpToMalformed(list, a) ==
    LET from[i \in 1..(Len(list) + 1)] ==
          i <= Len(list) /\ list[i] # Malformed /\ (a \in list[i] \/ from[i + 1])
    IN from[1]

\* The loop over a list: an entry that is malformed is passed over.
Matches(list, a) ==
    LET from[i \in 1..(Len(list) + 1)] ==
          i <= Len(list) /\ ((list[i] # Malformed /\ a \in list[i]) \/ from[i + 1])
    IN from[1]

IsIpAllowed(a) ==
    /\ a # Malformed
    /\ ~ Matches(blacklist, a)
    /\ whitelist # <<>> => Matches(whitelist, a)

\* The constructor of the server, after that of the authentication manager: the
\* lists are those of its configuration, which may have changed since the last start.
ConfigureIpRules(w, b) ==
    /\ Restart
    /\ whitelist' = w
    /\ blacklist' = b

AccessInit ==
    /\ Init
    /\ whitelist \in Lists
    /\ blacklist \in Lists

AccessNext ==
    \/ Next /\ UNCHANGED <<whitelist, blacklist>>
    \/ \E w, b \in Lists : ConfigureIpRules(w, b)

AccessSpec == AccessInit /\ [][AccessNext]_accessVars

-----------------------------------------------------------------------------
(***************************************************************************)
(* Requests.                                                               *)
(***************************************************************************)

\* What a request may carry in its one Authorization header: a bearer token, or the
\* user name and the password of Basic auth; and what the configuration says of both.
Request ==
    {r \in [bearer : Token \cup {None}, user : User \cup {None}, password : Password] :
       r.bearer = None \/ r.user = None}
AuthConfig == [enabled : BOOLEAN, username : User, password_hash : Password \cup {None}]

\* verify_api_token.  (Nothing ever clears _auth_enabled.)
VerifyApiToken(t) == t \in tokens

\* Does _check_auth return?  (Otherwise it raises 401.)
CheckAuth(config, r) ==
    \/ ~ config.enabled
    \/ /\ r.bearer # None
       /\ VerifyApiToken(r.bearer)
    \/ /\ r.bearer = None
       /\ r.user = config.username
       /\ r.password = config.password_hash

-----------------------------------------------------------------------------
\* Who is admitted is always who the lists of the last start name, in whatever order
\* and with whatever malformed entries among the others: no one in a network of the
\* blacklist, and when there is a whitelist, even one of malformed entries only, no
\* one outside its networks.
Named(list) == UNION {list[i] : i \in {j \in DOMAIN list : list[j] # Malformed}}

RulesMeanTheirNetworks ==
    [][{a \in Address \cup {Malformed} : IsIpAllowed(a)'}
         = (IF whitelist' = <<>> THEN Address ELSE Named(whitelist')) \ Named(blacklist')]_accessVars

\* A token that was removed opens nothing any more, once the method that did so has
\* returned and whenever the process is started again: a request that carries it is
\* refused, whatever the configuration of Basic auth.
RemovedTokenRefused ==
    phase = "idle" =>
      \A config \in AuthConfig, r \in Request :
        /\ config.enabled
        /\ r.bearer \in Token \ returned.tokens
        => ~ CheckAuth(config, r)
=============================================================================
