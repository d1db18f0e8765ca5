----------------------------- MODULE MCSerialBus -----------------------------
\* Three interfaces that may contend for the bus, one of them twice in a row.
EXTENDS SerialBus

MCMaxPackets == [i \in Ids |-> IF i = 0 THEN 2 ELSE 1]
=============================================================================
