------------------------------ MODULE Matching ------------------------------
(***************************************************************************)
(* What the relay promises of its pairings, whatever its tables and tasks: *)
(* the connected peers and a matching among them.                          *)
(***************************************************************************)
EXTENDS FiniteSets

CONSTANTS Peer, None

VARIABLES
    connected,   \* the peers the relay serves
    partner      \* partner[p]: the peer that p is matched with, or None

mvars == <<connected, partner>>

Init ==
    /\ connected = {}
    /\ partner = [p \in Peer |-> None]

Connect(p) ==
    /\ p \notin connected
    /\ connected' = connected \cup {p}
    /\ UNCHANGED partner

\* The matching once the peers of S have left.
Without(S) ==
    [p \in Peer |-> IF p \in S \/ partner[p] \in S THEN None ELSE partner[p]]

Leave(S) ==
    /\ S # {}
    /\ S \subseteq connected
    /\ connected' = connected \ S
    /\ partner' = Without(S)

\* c is matched with h.  Both are free, or h is after the peer it was matched with
\* has left in the same step.
Match(c, h) ==
    /\ c # h
    /\ {c, h} \subseteq connected
    /\ partner[c] = None
    /\ connected' = connected \ {partner[h]}
    /\ partner' = [Without({partner[h]} \ {None}) EXCEPT ![c] = h, ![h] = c]

Next ==
    \/ \E p \in Peer : Connect(p)
    \/ \E S \in SUBSET Peer : Leave(S)
    \/ \E c, h \in Peer : Match(c, h)

Spec == Init /\ [][Next]_mvars
=============================================================================
