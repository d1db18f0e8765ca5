---------------------------- MODULE MCParallelBus ----------------------------
\* Three interfaces that all contend for the bus, one of them twice.
EXTENDS ParallelBus

MCMaxPackets == [i \in Ids |-> IF i = 0 THEN 2 ELSE 1]
=============================================================================
