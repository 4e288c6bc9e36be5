--------------------------- MODULE RelayLiveness ---------------------------
(***************************************************************************)
(* What the relay gets done, under the fairness that the event loop grants *)
(* its tasks and that a live network grants its transports.                *)
(*                                                                         *)
(* A task that is ready is run: asyncio takes the ready tasks in turn, and *)
(* the cleanup pass, which runs in one go, only delays them.  A client in  *)
(* Slow need not read: a drain of its transport ends only when the         *)
(* transport fails.  Nothing is assumed of what clients send, of when they *)
(* leave or of when a connection fails.                                    *)
(***************************************************************************)
EXTENDS RelayServer

\* The buffer of p's transport is emptied, or the transport is done with: a client
\* that reads takes the bytes, and a lost transport raises.
Drains(p) == p \notin Slow \/ srv.link[p] = "lost"

\* The reader of c has come to its end: connection_lost follows the failure of the
\* transport, or its closing once the buffer is flushed.
AtEnd(c) ==
    \/ srv.link[c] = "lost"
    \/ srv.link[c] = "closing" /\ Drains(c)

\* The task of the handler of c goes on: after a drain, or at the end of its reader.
HandlerRuns(c) ==
    \/ \E p \in Peer : Drains(p) /\ Resume(c, p)
    \/ AtEnd(c) /\ HandlerExit(c)

\* The background tasks need no fairness for what is claimed below.  A handler needs
\* the strong kind: every pass of the cleanup task keeps it from running for a while.
Fairness ==
    /\ WF_vars(Tick)
    /\ WF_vars(CleanupTick)
    /\ WF_vars(\E p \in Peer : CleanupRemove(p))
    /\ \A c \in Peer : SF_vars(HandlerRuns(c))

FairSpec == Spec /\ Fairness

-----------------------------------------------------------------------------
\* A client that falls silent, half-open or held up by a partner that does not read,
\* is dropped in the end, and whoever was paired with it is free again: from time to
\* time it is heard of, or else it is gone and no listed peer has it as its partner.
SilentDropped ==
    \A p \in Peer :
      []<>(\/ age[p] = 0
           \/ /\ p \notin srv.peers
              /\ \A q \in srv.peers : srv.paired_peer_id[q] # p)

\* Only a client that does not read can hold up the handler of another: a handler
\* that waits for a drain reads its next frame in the end, or waits for such a client.
HeldUpOnlyBySlow ==
    \A c \in Peer : wait[c] # {} ~> (wait[c] = {} \/ wait[c] \cap Slow # {})

\* Whoever is taken out of the table, by stop() or by any removal, while its handler
\* runs does not linger: the handler ends too, if the client reads, or waits for one
\* that does not.
HandlersEnd ==
    \A c \in Peer \ Slow :
      (c \in running /\ c \notin srv.peers) ~> (c \notin running \/ wait[c] \cap Slow # {})
=============================================================================
