----------------------------- MODULE RouterMesh ------------------------------
(***************************************************************************)
(* The whole mesh (mesh_gnrtr) between its drivers and monitors: every     *)
(* router with its arbiter, every interface with its output FIFO, half     *)
(* cycle by half cycle.                                                    *)
(*                                                                         *)
(*   clk high   the state machines have moved; the wires psh say which     *)
(*              FIFO each router in psh1 writes (pre_psh & push_i)         *)
(*   clk falls  those FIFOs capture what their router reads                *)
(*   clk low    a FIFO that captured shows another head (its counter has   *)
(*              not moved yet); a router that reads it in this cycle may   *)
(*              now raise psh of another FIFO, which captures as well      *)
(*   clk rises  counters, state machines, turn counters, drivers, monitors *)
(*                                                                         *)
(* A flit carries, besides its address, who sent it (src) and as how many- *)
(* eth (num), so that every copy of it can be told from the others.        *)
(***************************************************************************)
EXTENDS MeshTopology, Sequences, FiniteSets

CONSTANTS
  Depth,    \* fifo_depth
  Script    \* the flits the sequencer of each terminal delivers, in order

\* fifo_flops_no_full needs two cells to elaborate.
ASSUME DepthAssumption == Depth \in Nat /\ Depth > 1

ASSUME ScriptAssumption ==
  Script \in [Terminals -> Seq([row : Nat, col : Nat, mode : {0, 1}])]

\* The word on data_in of terminal t before its first flit, and an empty cell.
ZeroFlit(t) == [row |-> 0, col |-> 0, mode |-> 0, src |-> t, num |-> 0]
Zero == ZeroFlit(0)

\* The k-th flit of terminal t.
ScriptFlit(t, k) ==
  LET f == Script[t][k]
  IN  [row |-> f.row, col |-> f.col, mode |-> f.mode, src |-> t, num |-> k]

FlitsOf(t) == {ZeroFlit(t)} \union {ScriptFlit(t, k) : k \in 1 .. Len(Script[t])}

AllFlits == UNION {FlitsOf(t) : t \in Terminals}

Ports == Routers \X Interfaces

\* The port that faces a terminal, and the FIFO of another router that a port
\* reads: data_out_i_in, pndng_i_in and popin of the two are crossed.
PortOf == [t \in Terminals |->
            CHOOSE p \in Ports : FacesTerminal(p[1], p[2]) /\ TerminalOf(p[1], p[2]) = t]

Source(r, i) == <<Neighbour(r, i), Opposite(i)>>

VARIABLES
  clk,        \* FALSE in the second half of a cycle
  st,         \* per router: state of rtr_rbtr_cntrl
  trn,        \* per router: the turn counter
  psh,        \* the ports whose psh wire is high
  q,          \* per port: the registers of its FIFO, q[p][1] the newest
  count,      \* per port: the counter of its FIFO
  fifo_in,    \* per terminal: queue of its driver
  received,   \* per terminal: how many flits of its script the driver got
  pndng_in,   \* per terminal: the driver offers data_in
  data_in,    \* per terminal
  mon,        \* per terminal: the monitor waits, or holds pop up ("ack")
  popped,     \* history: per router, the interfaces popped by the last edge
  outs,       \* history: per terminal, the flits its monitor saw leave
  lost,       \* history: how many flits were overwritten in a full FIFO
  glitched    \* history: a psh wire changed while clk was low

fifos   == <<q, count>>
drivers == <<fifo_in, received, pndng_in, data_in>>
history == <<popped, outs, lost, glitched>>

vars == <<clk, st, trn, psh, fifos, drivers, mon, history>>

Fifo == INSTANCE FifoOps

-----------------------------------------------------------------------------
(***************************************************************************)
(* The wires.                                                              *)
(***************************************************************************)
PndngI(r) ==
  {i \in Interfaces :
     IF FacesTerminal(r, i) THEN pndng_in[TerminalOf(r, i)]
     ELSE Fifo!Pndng(count[Source(r, i)])}

Dout(p) == Fifo!Dout(q[p], count[p])

\* What router r reads: data_out_i of the interface whose turn it is.
DataIn(r) ==
  IF FacesTerminal(r, trn[r]) THEN data_in[TerminalOf(r, trn[r])]
  ELSE Dout(Source(r, trn[r]))

\* Mutant: without pre_psh every interface of a pushing router is written.
PshWires_All == {p \in Ports : st[p[1]] = "psh1"}

\* psh of an interface: its router pushes and the routing table names it.
PshWires == {p \in Ports : st[p[1]] = "psh1" /\ Jump(p[1], DataIn(p[1])) = p[2]}

\* Mutant: pop_i taken from the wrong state.
PoppedBy_Early(r) == IF st[r] = "psh1" THEN {trn[r]} ELSE {}

\* popin of an interface goes to the FIFO or the driver on its other side.
PoppedBy(r) == IF st[r] = "pop1" THEN {trn[r]} ELSE {}

PoppedTerminals ==
  {t \in Terminals : PortOf[t][2] \in PoppedBy(PortOf[t][1])}

PoppedPorts ==
  {Source(p[1], p[2]) : p \in {p \in Ports : /\ p[2] \in PoppedBy(p[1])
                                              /\ ~ FacesTerminal(p[1], p[2])}}
    \union {PortOf[t] : t \in {t \in Terminals : mon[t] = "ack"}}

\* The arbiter of router r.
FedInterfaces(r) == {i \in Interfaces : FacesTerminal(r, i)}

Arbiter(r) == INSTANCE RouterArbiter WITH
  N <- 4, Fed <- FedInterfaces(r), Watched <- 0, MaxWait <- 1, MaxSkips <- 0,
  cur_st <- st[r], trn <- trn[r], pndng_i <- PndngI(r), popped <- popped[r],
  wait <- 0, skips <- 0

\* The driver of terminal t, and where the router that reads it stands.
GrantOf(t) ==
  LET r == PortOf[t][1]
      i == PortOf[t][2]
  IN  IF trn[r] = i /\ st[r] = "psh1" THEN "psh"
      ELSE IF trn[r] = i /\ st[r] = "pop1" THEN "pop"
      ELSE IF i \in popped[r] THEN "cnt"
      ELSE "idle"

Driver(t) == INSTANCE Driver WITH
  MaxItems <- Len(Script[t]), fifo_in <- fifo_in[t], received <- received[t],
  pndng_in <- pndng_in[t], data_in <- data_in[t], grant <- GrantOf(t),
  accepted <- <<>>

-----------------------------------------------------------------------------
Init ==
  /\ clk = TRUE
  /\ st = [r \in Routers |-> "rst"]
  /\ trn = [r \in Routers |-> 0]
  /\ psh = {}
  /\ q = [p \in Ports |-> Fifo!Cleared]
  /\ count = [p \in Ports |-> 0]
  /\ fifo_in = [t \in Terminals |-> <<>>]
  /\ received = [t \in Terminals |-> 0]
  /\ pndng_in = [t \in Terminals |-> FALSE]
  /\ data_in = [t \in Terminals |-> ZeroFlit(t)]
  /\ mon = [t \in Terminals |-> "wait"]
  /\ popped = [r \in Routers |-> {}]
  /\ outs = [t \in Terminals |-> <<>>]
  /\ lost = 0
  /\ glitched = FALSE

\* get_items of the driver appends the next flit, at any time between two edges.
Offer(t) ==
  /\ clk
  /\ received[t] < Len(Script[t])
  /\ received' = [received EXCEPT ![t] = @ + 1]
  /\ fifo_in' = [fifo_in EXCEPT ![t] = Append(@, ScriptFlit(t, received[t] + 1))]
  /\ UNCHANGED <<clk, st, trn, psh, fifos, pndng_in, data_in, mon, history>>

\* The FIFOs whose clk_gen rises capture what their router reads.
Capture(rising) ==
  q' = [p \in Ports |-> IF p \in rising THEN Fifo!Shifted(q[p], DataIn(p[1])) ELSE q[p]]

ClockFalls ==
  /\ clk
  /\ clk' = FALSE
  /\ Capture(psh)
  /\ UNCHANGED <<st, trn, psh, count, drivers, mon, history>>

\* What a capture changed on the wires; the new psh wires clock their FIFOs.
Settle ==
  /\ ~ clk
  /\ psh # PshWires
  /\ psh' = PshWires
  /\ Capture(PshWires \ psh)
  /\ glitched' = TRUE
  /\ UNCHANGED <<clk, st, trn, count, drivers, mon, popped, outs, lost>>

NextCount(p) == Fifo!NextCount(count[p], p \in psh, p \in PoppedPorts)

\* Full FIFOs that were written and not read, and routers no interface of which
\* took the flit.
Overwritten == {p \in psh : count[p] = Depth /\ p \notin PoppedPorts}
Sinking == {r \in Routers : st[r] = "psh1" /\ Jump(r, DataIn(r)) \notin Interfaces}

DriversStep ==
  /\ pndng_in' = [t \in Terminals |-> fifo_in[t] # <<>>]
  /\ data_in' = [t \in Terminals |-> Driver(t)!Presented(fifo_in[t])]
  /\ fifo_in' = [t \in Terminals |->
                   IF Driver(t)!Pops(fifo_in[t]) THEN Tail(fifo_in[t]) ELSE fifo_in[t]]
  /\ UNCHANGED received

\* Mutants: the monitor does not look at pndng; it looks every other flit.
Sees_Blind(t) == mon[t] = "wait"
Sees_Second(t) == mon[t] = "wait" /\ count[PortOf[t]] > 1

\* consume_outputs: see a flit, hold pop up for a cycle, let go, look again.
Sees(t) == mon[t] = "wait" /\ Fifo!Pndng(count[PortOf[t]])

MonitorsStep ==
  /\ mon' = [t \in Terminals |-> IF Sees(t) THEN "ack" ELSE "wait"]
  /\ outs' = [t \in Terminals |->
                IF Sees(t) THEN Append(outs[t], Dout(PortOf[t])) ELSE outs[t]]

RoutersStep ==
  /\ st' = [r \in Routers |-> IF Arbiter(r)!Clocked THEN Arbiter(r)!nxt_st ELSE st[r]]
  /\ trn' = [r \in Routers |->
               IF Arbiter(r)!TurnEdges(PndngI(r)') = 1
               THEN Arbiter(r)!After(trn[r]) ELSE trn[r]]
  /\ popped' = [r \in Routers |-> PoppedBy(r)]

ClockRises ==
  /\ ~ clk
  /\ psh = PshWires
  /\ clk' = TRUE
  /\ count' = [p \in Ports |-> NextCount(p)]
  /\ lost' = lost + Cardinality(Overwritten) + Cardinality(Sinking)
  /\ DriversStep
  /\ MonitorsStep
  /\ RoutersStep
  /\ UNCHANGED <<q, glitched>>
  /\ psh' = PshWires'

Clock == ClockFalls \/ Settle \/ ClockRises

Next == Clock \/ \E t \in Terminals : Offer(t)

\* The clock does not stop.
Spec == Init /\ [][Next]_vars /\ WF_vars(Clock)

-----------------------------------------------------------------------------
\* Every router, FIFO, driver and monitor stays within its states; no FIFO counts
\* beyond its depth and every register holds a flit of some terminal.
TypeOK ==
  /\ clk \in BOOLEAN
  /\ st \in [Routers -> {"rst", "psh1", "pop1", "cnt1"}]
  /\ trn \in [Routers -> Interfaces]
  /\ psh \subseteq Ports
  /\ q \in [Ports -> [Fifo!Cells -> AllFlits]]
  /\ count \in [Ports -> 0 .. Depth]
  /\ \A t \in Terminals :
       /\ fifo_in[t] \in Seq(FlitsOf(t))
       /\ received[t] \in 0 .. Len(Script[t])
       /\ pndng_in[t] \in BOOLEAN
       /\ data_in[t] \in FlitsOf(t)
       /\ mon[t] \in {"wait", "ack"}
       /\ outs[t] \in Seq(AllFlits)
  /\ popped \in [Routers -> SUBSET Interfaces]
  /\ lost \in Nat
  /\ glitched \in BOOLEAN

-----------------------------------------------------------------------------
(***************************************************************************)
(* Safety.                                                                 *)
(***************************************************************************)
\* How many flits the routers took from a driver, and which.
Taken(t) == received[t] - Len(fifo_in[t])
Entries  == {f \in AllFlits : f.num < Taken(f.src)}

\* The cells the counters call filled, and the exits the monitors saw.
Filled == {c \in Ports \X Fifo!Cells : c[2] <= count[c[1]]}
Exits  == UNION {{t} \X DOMAIN outs[t] : t \in Terminals}

\* The counters of the FIFOs keep the books whatever the data does, overflows and
\* mid-cycle captures included: what was taken and has not left and was not
\* overwritten is pending in exactly one FIFO, or in two while a router pops what
\* it has copied, or in one although its monitor has seen it.
CountsBalance ==
  Cardinality(Filled) + lost + Cardinality(Exits)
  = Cardinality(Entries)
    + Cardinality({r \in Routers : st[r] = "pop1"})
    + Cardinality({t \in Terminals : mon[t] = "ack"})

\* Every pending flit lies in a FIFO its router may have put it into.
RoutedRight ==
  \A p \in Ports, k \in Fifo!Cells : k <= count[p] => Jump(p[1], q[p][k]) = p[2]

\* A FIFO is popped only while it is pending, by a router as well as by a monitor
\* ("pop |-> pndng" of router_if).
PopIsPending == \A p \in PoppedPorts : count[p] > 0

\* The monitor is as fast as any router: the FIFO of a terminal never holds a
\* second flit, and no router writes it in the cycle in which the monitor looks
\* at its output.
MonitorKeepsUp ==
  \A t \in Terminals :
    /\ count[PortOf[t]] <= 1
    /\ Sees(t) => PortOf[t] \notin psh

\* The copies of flit f in the mesh at the beginning of a cycle, the heads that are
\* being popped left out, and those the monitors saw.
Leaving(p, k) == k = count[p] /\ p \in PoppedPorts

Copies(f) ==
  Cardinality({c \in Filled : q[c[1]][c[2]] = f /\ ~ Leaving(c[1], c[2])})
  + Cardinality({x \in Exits : outs[x[1]][x[2]] = f})

\* Flit f was taken from its driver, or copied and about to be.
Entered(f) ==
  f.num < Taken(f.src) + (IF f.src \in PoppedTerminals THEN 1 ELSE 0)

\* "Se manejan colisiones [...] sin perdida ni duplicacion" (Informe Veri.pdf, I) is what
\* the mesh is meant to do, and what it does but for two hazards: as long as no psh wire
\* changed in mid cycle no flit is in the mesh twice, and if no FIFO overflowed
\* either, every flit that entered is there or has left.
ExactlyOnce ==
  clk /\ ~ glitched =>
    \A f \in AllFlits :
      /\ Copies(f) <= (IF Entered(f) THEN 1 ELSE 0)
      /\ lost = 0 /\ Entered(f) => Copies(f) = 1

SameRoute(f, g) ==
  f.src = g.src /\ f.row = g.row /\ f.col = g.col /\ f.mode = g.mode

\* Flits from one terminal with one address and mode stay in order, in spite of
\* overflows.
OrderKept ==
  ~ glitched =>
    \A t \in Terminals : \A j, k \in DOMAIN outs[t] :
      j < k /\ SameRoute(outs[t][j], outs[t][k]) => outs[t][j].num < outs[t][k].num

\* The routers give each other the environment the module RouterArbiter assumes.
ArbitersImplemented ==
  /\ \A r \in Routers : Arbiter(r)!ControlInit
  /\ [][\A r \in Routers : Arbiter(r)!ControlStep]_vars

\* And the drivers the environment the module Driver assumes: from the edge at which
\* a router decides for a terminal it pushes, pops and goes on, and it decides only
\* for one that is pending, although pndng_in falls late.
DriversImplemented ==
  [][ClockRises => \A t \in Terminals : Driver(t)!Grant]_vars

\* Once the sequencers are done the mesh runs empty: nothing waits for ever in a
\* router whose clock is gated or whose turns are skipped.
Drains == <>[](\A p \in Ports : count[p] = 0)

-----------------------------------------------------------------------------
(***************************************************************************)
(* What the scoreboard complains about.                                    *)
(***************************************************************************)
\* Sender and number are bits of the payload, and with it of its key: only the zero
\* words the drivers start with, which carry no sender, share one.
SameKey(f, g) == f = g \/ (f.num = 0 /\ g.num = 0)

Ins(f)  == Cardinality({g \in Entries : SameKey(f, g)})
Outs(f) == Cardinality({x \in Exits : SameKey(f, outs[x[1]][x[2]])})

\* "UNEXPECTED OUT" is an error: every flit that leaves matches one that was taken
\* and has not left before.
NoUnexpectedOut == \A f \in AllFlits : Outs(f) <= Ins(f)
=============================================================================
