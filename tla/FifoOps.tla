------------------------------- MODULE FifoOps ------------------------------
(***************************************************************************)
(* The combinational parts of fifo_flops_no_full (fifo.sv): a shift        *)
(* register of Depth cells, newest value first, and an up/down counter     *)
(* that says how many of them are pending.                                 *)
(***************************************************************************)
EXTENDS Integers

CONSTANTS
  Depth,   \* parameter depth
  Zero     \* the all-zero word the registers hold after reset

\* aux_mux_or is declared [depth-2:0]: the FIFO needs two cells to elaborate.
ASSUME DepthAssumption == Depth \in Nat /\ Depth > 1

Cells == 1 .. Depth

\* The registers after reset.
Cleared == [i \in Cells |-> Zero]

\* What a rising edge of clk_gen = ~clk & push does to the registers.
Shifted(q, din) == [i \in Cells |-> IF i = 1 THEN din ELSE q[i - 1]]

\* Mutant: the newest word instead of the oldest.
Dout_Newest(q, count) == IF count = 0 THEN Zero ELSE q[1]

\* Dout selects the cell the counter points at, and is zero when it is zero.
Dout(q, count) == IF count = 0 THEN Zero ELSE q[count]

Pndng(count) == count # 0

\* Mutant: a push wins over a pop.
NextCount_PushWins(count, push, pop) ==
  IF pop /\ ~ push /\ count > 0 THEN count - 1
  ELSE IF push /\ count < Depth THEN count + 1
  ELSE count

\* nxt_count: there is no full flag, so the counter saturates at both ends; a
\* push and a pop in one cycle leave it alone, even when it is zero.
NextCount(count, push, pop) ==
  IF pop /\ ~ push /\ count > 0 THEN count - 1
  ELSE IF push /\ ~ pop /\ count < Depth THEN count + 1
  ELSE count
=============================================================================
