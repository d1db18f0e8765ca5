----------------------------- MODULE FifoNoFull -----------------------------
(***************************************************************************)
(* fifo_flops_no_full (fifo.sv), the output FIFO of every router           *)
(* interface, edge by edge.  The registers capture on the rising edge of   *)
(* clk_gen = ~clk & push, in the second half of a cycle; the counter moves *)
(* on the rising edge of clk that ends the cycle.                          *)
(*                                                                         *)
(* The environment is the one the FIFO is sound in: push and pop change    *)
(* after a rising edge of clk, and in the second half of a cycle push may  *)
(* still rise but neither falls.  (In the mesh a router can break this     *)
(* rule; module RouterMesh shows what follows.)                            *)
(***************************************************************************)
EXTENDS FifoOps, Sequences

CONSTANTS
  Data,      \* the words pushed; Zero is one of them
  Nothing    \* value of `taken' before the first pop

ASSUME DataAssumption == Zero \in Data

VARIABLES
  q,       \* the registers, q[1] the newest
  count,   \* the pending counter
  clk,     \* FALSE in the second half of a cycle
  push,    \* input
  pop,     \* input
  taken    \* history: Dout as it stood when the last effective pop began

vars == <<q, count, clk, push, pop, taken>>

\* Reset leaves the registers and the counter at zero.
Init ==
  /\ q = Cleared
  /\ count = 0
  /\ clk = TRUE
  /\ push \in BOOLEAN
  /\ pop \in BOOLEAN
  /\ taken = Nothing

\* The word that leaves when the cycle pops, recorded for the specification.
Takes == pop /\ Pndng(count)

ClockFalls(din) ==
  /\ clk
  /\ clk' = FALSE
  /\ q' = IF push THEN Shifted(q, din) ELSE q
  /\ taken' = IF Takes THEN Dout(q, count) ELSE taken
  /\ UNCHANGED <<count, push, pop>>

\* push rises in the second half of the cycle, and clk_gen with it.
LatePush(din) ==
  /\ ~ clk
  /\ ~ push
  /\ push' = TRUE
  /\ q' = Shifted(q, din)
  /\ UNCHANGED <<count, clk, pop, taken>>

\* The counter moves, and the inputs of the next cycle arrive.
ClockRises(nextPush, nextPop) ==
  /\ ~ clk
  /\ clk' = TRUE
  /\ count' = NextCount(count, push, pop)
  /\ push' = nextPush
  /\ pop' = nextPop
  /\ UNCHANGED <<q, taken>>

\* rst is asynchronous; it is held over whole cycles and released before the
\* first push, with clk high.
Reset ==
  /\ clk' = TRUE
  /\ q' = Cleared
  /\ count' = 0
  /\ push' = FALSE
  /\ pop' = FALSE
  /\ taken' = Nothing

Next ==
  \/ \E din \in Data : ClockFalls(din) \/ LatePush(din)
  \/ \E nextPush, nextPop \in BOOLEAN : ClockRises(nextPush, nextPop)
  \/ Reset

Spec == Init /\ [][Next]_vars

-----------------------------------------------------------------------------
\* The registers and the counter keep their types: the saturation of NextCount
\* keeps the counter inside the shift register it indexes.
TypeOK ==
  /\ q \in [Cells -> Data]
  /\ count \in 0 .. Depth
  /\ clk \in BOOLEAN /\ push \in BOOLEAN /\ pop \in BOOLEAN
  /\ taken \in Data \union {Nothing}

\* How many words are pending, counting the cycle that has begun: its capture
\* happens in the second half, its count only at the end.
Pending == IF clk THEN count ELSE NextCount(count, push, pop)

\* The FIFO is a queue that loses a word only when it overflows, and then the
\* oldest: although capture and count are half a cycle apart, whatever the order
\* of pushes and pops, including a push and a pop in one cycle when it is full.
\* (A push in the cycle of a pop is not stored when it is empty.)
Queue == INSTANCE LossyQueue WITH
  Capacity <- Depth,
  items <- [i \in 1 .. Pending |-> q[Pending + 1 - i]]

IsQueue == Queue!Spec

=============================================================================
