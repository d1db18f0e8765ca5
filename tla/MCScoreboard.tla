---------------------------- MODULE MCScoreboard -----------------------------
\* Two terminals and four flits, two of which have one key: the words both drivers
\* start with, or flits of two scenarios with the same pkt_id.
EXTENDS Scoreboard

MCTerminals == 0 .. 1
MCFlits == 1 .. 4
MCKeys == 1 .. 3
MCKeyOf == [f \in MCFlits |-> IF f = 4 THEN 3 ELSE f]
=============================================================================
