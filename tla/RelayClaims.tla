---------------------------- MODULE RelayClaims ----------------------------
(***************************************************************************)
(* What the manual of the relay (src/relay_server/README.md) promises of   *)
(* the notices to the peers and the code of server.py does not keep: each  *)
(* is refuted by a run of its own.                                         *)
(***************************************************************************)
EXTENDS RelayApi

\* Who stays is told (README.md:290, a 410 "al peer ancora connesso"): a peer
\* whose last notice named a partner that is gone, and which has lost it, has a
\* 410 on its way.
SurvivorTold ==
    \A p \in Listeners(srv) :
      /\ told[p].partner # None
      /\ told[p].partner \notin srv.peers
      /\ srv.paired_peer_id[p] = None
      => p \in srv.notify

\* A 410 says that the partner has left (README.md:427, "Il peer abbinato si è
\* disconnesso"): none is written to a peer with a working pairing.
DisconnectTrue ==
    [][\A p, q \in Peer :
         p \in srv.notify /\ p \notin srv'.notify => ~ Mutual(srv, p, q)]_vars
=============================================================================
