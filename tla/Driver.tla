------------------------------- MODULE Driver --------------------------------
(***************************************************************************)
(* The UVM driver of one terminal (Drivers.sv) and the handshake with the  *)
(* router interface it feeds.  Its two threads share the queue fifo_in:    *)
(* get_items appends the flits of the sequencer, drive_interface works on  *)
(* every rising edge of clk.  One step is one edge; the flits that arrive  *)
(* with it may be appended before or after drive_interface looks.          *)
(*                                                                         *)
(* The flits of the sequencer are the numbers 1, 2, ... in the order they  *)
(* are built; 0 is the word data_in is initialised with.                   *)
(***************************************************************************)
EXTENDS Integers, Sequences

CONSTANT MaxItems   \* how many flits the sequencer delivers

ASSUME ItemsAssumption == MaxItems \in Nat

VARIABLES
  fifo_in,    \* the flits not yet popped
  received,   \* how many flits get_items has appended
  pndng_in,   \* to the router: there is something to read
  data_in,    \* to the router: the flit to read
  grant,      \* what the router does with this interface (see Grant)
  accepted    \* history: the flits the router took (and the monitor saw as IN)

vars == <<fifo_in, received, pndng_in, data_in, grant, accepted>>

Init ==
  /\ fifo_in = <<>>
  /\ received = 0
  /\ pndng_in = FALSE
  /\ data_in = 0
  /\ grant = "idle"
  /\ accepted = <<>>

popin == grant = "pop"

\* Mutant: the machine does not pass through cnt1.
Grant_NoCnt ==
  \/ grant = "idle" /\ grant' = "idle"
  \/ grant = "idle" /\ pndng_in /\ grant' = "psh"
  \/ grant = "psh" /\ grant' = "pop"
  \/ grant = "pop" /\ grant' = "idle"

\* The router's side: psh1 is entered only if the interface is pending, pop1 and
\* cnt1 follow, and the gated clock may hold the machine in cnt1.  `idle' stands
\* for everything it does with its other interfaces.
Grant ==
  \/ grant = "idle" /\ grant' = "idle"
  \/ grant = "idle" /\ pndng_in /\ grant' = "psh"
  \/ grant = "psh" /\ grant' = "pop"
  \/ grant = "pop" /\ grant' = "cnt"
  \/ grant = "cnt" /\ grant' \in {"cnt", "idle"}

\* The flits that get_items appends: the next n ones.
NextItems(from, n) == [k \in 1 .. n |-> from + k]

\* Mutants of what data_in gets: the head whenever there is one, as the comment in
\* the source has it; the word behind the one that is popped.
Presented_Head(queue) == IF queue # <<>> THEN Head(queue) ELSE data_in
Presented_Second(queue) == IF popin /\ Len(queue) > 1 THEN queue[2] ELSE data_in

\* What drive_interface leaves on data_in: the else of `if (vif.popin)' puts back
\* the old value, so the head is presented only with the edge that pops it.
Presented(queue) == IF queue # <<>> /\ popin THEN Head(queue) ELSE data_in

Pops(queue) == queue # <<>> /\ popin

\* One rising edge: `before' flits arrive before drive_interface looks at the
\* queue, `after' flits once it is done.
Edge(before, after) ==
  LET queue == fifo_in \o NextItems(received, before)
  IN  /\ received + before + after <= MaxItems
      /\ received' = received + before + after
      /\ pndng_in' = (queue # <<>>)
      /\ data_in' = Presented(queue)
      /\ fifo_in' = (IF Pops(queue) THEN Tail(queue) ELSE queue)
                      \o NextItems(received + before, after)
      /\ accepted' = IF popin THEN Append(accepted, data_in) ELSE accepted
      /\ Grant

Next == \E before, after \in 0 .. MaxItems : Edge(before, after)

Spec == Init /\ [][Next]_vars

-----------------------------------------------------------------------------
\* Queue, port and history of the driver hold numbers of flits, and the grant one
\* of the phases of the router.
TypeOK ==
  /\ fifo_in \in Seq(1 .. MaxItems)
  /\ received \in 0 .. MaxItems
  /\ pndng_in \in BOOLEAN
  /\ data_in \in 0 .. MaxItems
  /\ grant \in {"idle", "psh", "pop", "cnt"}
  /\ accepted \in Seq(0 .. MaxItems)

\* pndng_in falls an edge after the queue ran empty, but no grant is given on that
\* stale bit: whenever the router is about to take a flit, the queue has one to
\* pop, so that no flit is taken twice.
GrantHasItem == grant \in {"psh", "pop"} => pndng_in /\ fifo_in # <<>>

\* No flit of the sequencer is lost, doubled or reordered inside the driver: what
\* the router took, the word on data_in and the queue make up the initial word
\* followed by all flits received.
NothingLost ==
  accepted \o <<data_in>> \o fifo_in = [k \in 1 .. received + 1 |-> k - 1]

\* "IN: data_in cambio indebidamente" (router_if): while the bit is up data_in
\* moves only with a pop.
StableWhilePending ==
  [][pndng_in /\ pndng_in' /\ ~ popin /\ ~ popin' => data_in' = data_in]_vars

\* "presentar la cabeza de la cola estable mientras esperamos el popin": what the
\* router takes is the head of the queue.
AcceptsHead == popin => data_in = Head(fifo_in)
=============================================================================
