---------------------------- MODULE RouterArbiter ---------------------------
(***************************************************************************)
(* The arbiter of a router (Router_arbiter, rtr_rbtr_cntrl, Counter_arb)   *)
(* and the interfaces it serves in turn.  One step is one rising edge of   *)
(* clk.  The arbiter copies the head of the interface whose turn it is     *)
(* into an output FIFO (psh1), pops it from its source (pop1), passes the  *)
(* turn on (cnt1) and starts again (rst).                                  *)
(*                                                                         *)
(* The clocks of the state machine and of the turn counter are gated in an *)
(* always_comb that reads what it assigns without being sensitive to it:   *)
(* the machine has no clock while nothing is pending, and the counter gets *)
(* a second edge when pndng_i changes just as the machine leaves cnt1.     *)
(***************************************************************************)
EXTENDS Integers, FiniteSets

CONSTANTS
  N,          \* number of interfaces (num_ntrfs)
  Fed,        \* the interfaces fed by a driver; the others by a router's FIFO
  Watched,    \* an interface whose waiting time is measured
  MaxWait,    \* the waiting time is not counted beyond this
  MaxSkips    \* nor are the skipped turns

ASSUME ArbiterAssumption ==
  /\ N \in Nat /\ N > 1
  /\ Fed \subseteq 0 .. N - 1
  /\ Watched \in 0 .. N - 1
  /\ MaxWait \in Nat \ {0} /\ MaxSkips \in Nat

Ntrfs == 0 .. N - 1

VARIABLES
  cur_st,    \* state of rtr_rbtr_cntrl
  trn,       \* whose turn it is
  pndng_i,   \* input: the interfaces with something to read
  popped,    \* the interfaces popped by the last edge
  wait,      \* history: cycles since pndng_i of Watched rose, 0 once popped
  skips      \* history: how often its turn was skipped meanwhile

vars == <<cur_st, trn, pndng_i, popped, wait, skips>>

-----------------------------------------------------------------------------
(***************************************************************************)
(* What the arbiter drives.                                                *)
(***************************************************************************)
\* popin of router_bus_interface: pre_pop & pop_i.
popin == IF cur_st = "pop1" THEN {trn} ELSE {}

\* Mutant: the machine does not look at pndng.
nxt_st_Unasked ==
  CASE cur_st = "rst"  -> "psh1"
    [] cur_st = "psh1" -> "pop1"
    [] cur_st = "pop1" -> "cnt1"
    [] cur_st = "cnt1" -> "rst"

\* The state machine, clocked only while something is pending.
nxt_st ==
  CASE cur_st = "rst"  -> IF trn \in pndng_i THEN "psh1" ELSE "cnt1"
    [] cur_st = "psh1" -> "pop1"
    [] cur_st = "pop1" -> "cnt1"
    [] cur_st = "cnt1" -> "rst"

Clocked == pndng_i # {}

\* Mutants: the counter enabled a state early; only after a pop.
TurnEdges_Early(nextPndng) == IF Clocked /\ nxt_st = "pop1" THEN 1 ELSE 0
TurnEdges_Popped(nextPndng) == IF Clocked /\ cur_st = "pop1" THEN 1 ELSE 0

\* Edges of clk_cntr = clk_rtr_rbtr_cntrl & cnt_en at this edge of clk: one as
\* cnt_en rises, and another one if pndng_i changes as it falls.
TurnEdges(nextPndng) ==
  IF ~ Clocked THEN 0
  ELSE IF nxt_st = "cnt1" THEN 1
  ELSE IF cur_st = "cnt1" /\ nextPndng # pndng_i THEN 1
  ELSE 0

\* Mutants: the counter wraps one too late; it counts in twos.
After_Late(i) == IF i = N THEN 0 ELSE i + 1
After_Twos(i) == (i + 2) % N

\* Counter_arb counts modulo the number of interfaces.
After(i) == (i + 1) % N

-----------------------------------------------------------------------------
(***************************************************************************)
(* What the interfaces may do.  A FIFO or a driver may get something to    *)
(* offer at any edge.  It keeps offering until it is popped: the pending   *)
(* bit of a FIFO falls with the pop, the one of a driver an edge later.    *)
(***************************************************************************)
MayFall == (popin \ Fed) \union (popped \intersect Fed)

NextPending == {s \in SUBSET Ntrfs : pndng_i \ MayFall \subseteq s}

\* The turn of Watched, when it waits, is over before the machine could see it.
SkipsWatched(nextPndng) ==
  /\ wait > 0
  /\ cur_st = "cnt1" /\ TurnEdges(nextPndng) = 1
  /\ trn = Watched

\* From the rise of pndng_i to the pop, as the assertion of router_if counts.
NextWait(nextPndng) ==
  IF Watched \in popin THEN 0
  ELSE IF wait > 0 THEN (IF wait < MaxWait THEN wait + 1 ELSE wait)
  ELSE IF Watched \in nextPndng \ pndng_i THEN 1
  ELSE 0

\* One rising edge of clk.
ControlEdge(nextPndng) ==
  /\ pndng_i' = nextPndng
  /\ cur_st' = IF Clocked THEN nxt_st ELSE cur_st
  /\ trn' = IF TurnEdges(nextPndng) = 1 THEN After(trn) ELSE trn
  /\ popped' = popin

\* The arbiter without the histories; every router of the mesh must implement it.
ControlInit == cur_st = "rst" /\ trn = 0 /\ pndng_i = {} /\ popped = {}

ControlStep ==
  \/ \E nextPndng \in NextPending : ControlEdge(nextPndng)
  \/ UNCHANGED <<cur_st, trn, pndng_i, popped>>

Init == ControlInit /\ wait = 0 /\ skips = 0

Edge(nextPndng) ==
  /\ ControlEdge(nextPndng)
  /\ wait' = NextWait(nextPndng)
  /\ skips' = IF NextWait(nextPndng) = 0 THEN 0
              ELSE IF SkipsWatched(nextPndng) /\ skips < MaxSkips THEN skips + 1
              ELSE skips

Next == \E nextPndng \in NextPending : Edge(nextPndng)

Spec == Init /\ [][Next]_vars

\* The clock does not stop.
FairSpec == Spec /\ WF_vars(Next)

-----------------------------------------------------------------------------
\* The machine stays in its four states and the turn with an existing interface: the
\* counter, clocked once or twice a rotation, wraps in time.
TypeOK ==
  /\ cur_st \in {"rst", "psh1", "pop1", "cnt1"}
  /\ trn \in Ntrfs
  /\ pndng_i \subseteq Ntrfs
  /\ popped \subseteq Ntrfs
  /\ wait \in 0 .. MaxWait
  /\ skips \in 0 .. MaxSkips

\* "popin |-> pndng_in" (router_if): from the push to the pop the interface whose
\* turn it is stays pending, so that the gated clock never freezes the machine
\* with push_i or pop_i up, and a pop never meets an empty source.
GrantIsPending == cur_st \in {"psh1", "pop1"} => trn \in pndng_i

\* A source is popped exactly in the cycle after its head was pushed: no edge of
\* the turn counter, the extra one included, comes between the two.
PopFollowsPush ==
  [][/\ cur_st' = "pop1" => cur_st = "psh1" /\ trn' = trn
     /\ cur_st = "psh1" => cur_st' = "pop1"]_vars

\* How long an interface waits for its pop, if its turn is never skipped: at most
\* one rotation in which all the others are served.  Every skipped turn costs it
\* at most another rotation.
Rotation == 4 * N

WaitIsBounded == skips < MaxSkips => wait <= Rotation * (skips + 1)

\* No interface waits for ever, provided that from some time on pndng_i does not
\* change as the machine leaves cnt1.
Quiet == [][cur_st = "cnt1" /\ cur_st' = "rst" => pndng_i' = pndng_i]_vars

ServedIfQuiet ==
  <>Quiet => \A i \in Ntrfs : []<>(i \notin pndng_i \/ i \in popin)

\* "IN: req->ack en <= MAX_IN_LAT" (router_if): the assertion allows popin in the
\* cycles 1 .. MAX_IN_LAT after the one that sees the rise, which ends the first
\* cycle of waiting.
MAX_IN_LAT == 64

InLatency == wait <= MAX_IN_LAT + 1
=============================================================================
