--------------------------- MODULE MCRelayConfig ---------------------------
EXTENDS RelayConfig

CONSTANTS host, port, level, v1, v2

\* Two settings of one section and one of another, each with an option.
SectionOf == [k \in Setting |-> IF k = level THEN "logging" ELSE "server"]
Defaults == [k \in Setting |-> v1]
OptionOrder == <<host, port, level>>
=============================================================================
