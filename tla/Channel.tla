------------------------------ MODULE Channel ------------------------------
(***************************************************************************)
(* What the framing of src/relay_server/protocol.py promises of one stream,*)
(* with no bytes in sight: messages are received in the order in which     *)
(* they were sent, each once; receiving ends only when all that arrived    *)
(* was received, unless the transport fails; and what arrived over a       *)
(* transport that does not fail is received in the end.                    *)
(***************************************************************************)
EXTENDS Naturals, Sequences

CONSTANT Message

VARIABLES
    sent,       \* the messages sent
    arrived,    \* how many of them arrived
    received,   \* the messages received
    link        \* "open", "eof": nothing more arrives, "reset": it failed; "closed"

vars == <<sent, arrived, received, link>>

Init ==
    /\ sent = <<>>
    /\ arrived = 0
    /\ received = <<>>
    /\ link = "open"

Send(m) ==
    /\ link = "open"
    /\ sent' = Append(sent, m)
    /\ UNCHANGED <<arrived, received, link>>

Arrive ==
    /\ link = "open"
    /\ \E n \in 1..(Len(sent) - arrived) : arrived' = arrived + n
    /\ UNCHANGED <<sent, received, link>>

Fail ==
    /\ \/ link = "open" /\ link' = "eof"
       \/ link \in {"open", "eof"} /\ link' = "reset"
    /\ UNCHANGED <<sent, arrived, received>>

\* The next message is received.  The last one to arrive may be the end.
Receive ==
    /\ link \in {"open", "eof"}
    /\ Len(received) < arrived
    /\ received' = Append(received, sent[Len(received) + 1])
    /\ \/ link' = link
       \/ Len(received') = arrived /\ link' = "closed"
    /\ UNCHANGED <<sent, arrived>>

Close ==
    /\ link = "reset" \/ (link # "closed" /\ Len(received) = arrived)
    /\ link' = "closed"
    /\ UNCHANGED <<sent, arrived, received>>

Next ==
    \/ \E m \in Message : Send(m)
    \/ Arrive
    \/ Fail
    \/ Receive
    \/ Close

\* What may happen, and what must happen in the end.
Spec == Init /\ [][Next]_vars

Fairness == WF_vars(Receive) /\ WF_vars(link # "open" /\ Close)
=============================================================================
