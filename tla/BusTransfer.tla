----------------------------- MODULE BusTransfer -----------------------------
(***************************************************************************)
(* What a bus promises, whatever it does with its wires: an interface      *)
(* holds the packet it popped until all the addressees get it, at one      *)
(* edge, and no two packets change hands at one edge.                      *)
(***************************************************************************)
EXTENDS BusPackets

VARIABLE held   \* per interface: the packet it popped, or Zero

vars == <<sent, queue, got, held>>

Init == PacketsInit /\ held = [i \in Ids |-> Zero]

\* One edge: some interfaces pop, and one may hand its packet over.
Transfer(poppers, handing) ==
  /\ \A i \in poppers : Pndng(i) /\ held[i] = Zero
  /\ \A i \in handing : held[i] # Zero
  /\ \A i, j \in handing : i = j
  /\ PopAll(poppers)
  /\ held' = [i \in Ids |-> IF i \in poppers THEN Head(queue[i])
                            ELSE IF i \in handing THEN Zero ELSE held[i]]
  /\ got' = [j \in Ids |->
               IF \E i \in handing : j \in Addressed(held[i])
               THEN Append(got[j], held[CHOOSE i \in handing : TRUE]) ELSE got[j]]

Next ==
  \/ \E i \in Ids, d \in Headers : Send(i, d) /\ UNCHANGED held
  \/ \E poppers, handing \in SUBSET Ids : Transfer(poppers, handing)

Spec == Init /\ [][Next]_vars
=============================================================================
