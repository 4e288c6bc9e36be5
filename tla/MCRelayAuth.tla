---------------------------- MODULE MCRelayAuth ----------------------------
EXTENDS RelayAccess, TLC

CONSTANTS a1, a2, a3

Symmetry == Permutations(User) \cup Permutations(Password) \cup Permutations(SessionId)

\* Nothing but the address rules reads the lists, and no step but a start changes
\* them: a state is explored with those it is first reached with, and the property
\* about them is evaluated on every start.
RulesHidden == vars

\* A network, one inside it, and one beside it.
Networks == {{a1, a2}, {a1}, {a3}}
=============================================================================
