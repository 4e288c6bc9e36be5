-------------------------- MODULE MCRelayProtocol --------------------------
EXTENDS RelayProtocol, TLC

CONSTANTS m1, m2, bye

\* The body of m1 is the beginning of the other bodies, and m2 also has a body that
\* encode would not make.
PackOf == m1 :> <<1>> @@ m2 :> <<1, 0>> @@ bye :> <<1, 1>>
UnpackOf == PackOf[m1] :> m1 @@ PackOf[m2] :> m2 @@ <<0>> :> m2 @@ PackOf[bye] :> bye

\* What is written: every body of a message, two that are none (one is empty), and
\* a length that is too large by one.
Frames ==
    {FrameOf(b) : b \in DOMAIN UnpackOf \cup {<<>>, <<0, 0>>}}
    \cup {[len |-> MaxSize + 1, body |-> <<>>]}
=============================================================================
