----------------------------- MODULE MCTestFlow ------------------------------
\* Two terminals, two scenarios of two items each.  A flit of the second scenario
\* has the key of the one with its pkt_id in the first, and the initial words of
\* both terminals have one key.
EXTENDS TestFlow

MCTerminals == {1, 2}
MCFlits ==
  {Zero(t) : t \in MCTerminals}
    \union {Flit(t, s, n) : t \in MCTerminals, s \in 1 .. NumScenarios, n \in 1 .. 2}
MCKeyOf ==
  [f \in MCFlits |-> IF f.num = 0 THEN <<0, 0>> ELSE <<f.term, f.num>>]
MCKeys == {MCKeyOf[f] : f \in MCFlits}
=============================================================================
