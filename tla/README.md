# Verification of the router mesh and of its testbench

The repository holds a mesh of packet routers in SystemVerilog (`Router_library.sv`,
`fifo.sv`) and the UVM testbench that exercises a 4x4 instance of it. Beside
it lies a library of shared buses (`Library.sv`). This directory models all three in TLA+, checks
the models with TLC on small instances, and proves the main safety properties with TLAPS for every
value of the constants. All source paths below are
under `src/Archivos_Fuente/`.

Contents: [1 Inventory](#1-inventory) · [2 Plan](#2-plan) · [3 Time](#3-time-in-the-models) ·
[4 Modules](#4-modules-and-the-code-they-model) · [5 Runs](#5-runs) · [6 Fairness](#6-fairness) ·
[7 Findings](#7-findings) · [8 Proofs](#8-proofs) · [9 Not modelled](#9-what-is-not-modelled)

## 1 Inventory

A flit carries the row and the column it is addressed to, a mode bit (along which axis it is
routed first), a payload, and in its top byte the *next jump*, which each router rewrites. A
router has four interfaces (0 up, 1 right, 2 down, 3 left). An interface reads from the
output FIFO of the neighbour's interface on the other side, or from a driver on the border of the
mesh, and writes into its own output FIFO, which the neighbour or a monitor empties. There is no
back pressure anywhere.

| component (file) | state | operations | interacts with |
|---|---|---|---|
| routing table `s_routing_table` (`Router_library.sv`) | none | next jump of a flit at a router | the router writes the jump into the flit and decodes it in the same cycle |
| mesh wiring `mesh_gnrtr`, `router_bus_gnrtr`, `conector` | none | crosses `data_out`/`pndng`/`popin` of facing interfaces | everything |
| router interface `router_bus_interface` | none (wires) | `pre_psh & push_i`, `pre_pop & pop_i` | arbiter, FIFOs |
| arbiter `Router_arbiter`, `rtr_rbtr_cntrl`, `Counter_arb` | `cur_st`, `trn` | copy the head of the interface whose turn it is, pop it, pass the turn on | reads `pndng_i`, drives `push_i`, `pop_i`; both its clocks are gated |
| output FIFO `fifo_flops_no_full` (`fifo.sv`) | shift register `q`, `count` | push, pop | written by its router, popped by the neighbour or by a monitor |
| driver (`Drivers.sv`) | queue `fifo_in`, ports `pndng_in`, `data_in` | `get_items` appends, `drive_interface` pops | sequencer, router |
| monitor (`monitor.sv`) | field `item`, port `pop` | `watch_inputs` reports entries, `consume_outputs` takes and reports exits | router, scoreboard |
| scoreboard (`Scoreboard.sv`) | `exp_q[key]`, counters | queue an entry, match an exit, report the rest at the end | monitors |
| flit construction `drv_item` (`TypesandTransactions.sv`) | none | `term_to_rc`, `build_flit` | sequencer |
| assertions `router_if` (`TypesandTransactions.sv`) | none | latency, stability and pending checks | the ports of a terminal |
| sequences and test (`Secuencer.sv`, `test.sv`) | scenario, `pkt_id`, `num_items` | build and hand over an item, `wait fork`, pause of 1000 cycles, next scenario, drop the objection | drivers, scoreboard |
| environment, agent, top (`environment.sv`, `Agente.sv`, `tb_top.sv`) | none | construction, clock | |
| serial bus `bs_gnrtr` (`Library.sv`) | write and read state machine, bit counter and shift register of each interface; count of the arbiter | pop, request, write bit by bit, read, compare the header, push | FIFOs on both sides; `bs_bsy`, the bus |
| parallel bus `prll_bs_gnrtr_n_rbtr` (`Library.sv`) | write and read state machine, turn counter, grant, `D_reg_wt`, `D_reg_rd` of each interface | the same, a word at a time; pass the turn on | FIFOs on both sides; `trn_chng`, `wrt`, the bus |
| other FIFOs (`fifo.sv`), other buses (`Library.sv`, `Router_library.sv`) | several | instantiated neither by the mesh nor by the buses above | |
| `gen_plots.py`; simulator and debugger output | none | | |

What is hard about it, and what makes each part correct:

- **Routing.** The table of a border router mixes the inner table with four overlapping `if`s of
  which the last one wins. Right: every flit leaves where its address says, no flit circles, each
  flit turns once, nothing else is dropped.
- **FIFO.** Registers and counter are clocked half a cycle apart, and a push into a full FIFO is
  accepted. Right: a queue that loses its *oldest* word when it overflows, and nothing else.
- **Arbiter.** Its clock stops when nothing is pending, its turn counter may get two edges in a
  rotation, its inputs change under it. Right: it pops what it copied, never freezes with a grant
  out, and gets round to everybody.
- **Driver.** Two threads share a queue; `pndng_in` lags the queue by an edge and `data_in` by a
  pop. Right: no grant on the stale bit, nothing lost or doubled, data stable while pending.
- **Mesh.** Several routers copy, pop and overwrite at once, and a wire may change in the middle of
  a cycle because the FIFO it reads is being written. Right: exactly-once delivery in order as long
  as neither hazard strikes, and sound counters even when they do.
- **Monitors and scoreboard.** Two threads and a field shared across `#1step`; an exit may be seen at
  the very edge of its entry. Right: no false alarm, nothing unheard.
- **Test flow.** The scoreboard compares keys; the key holds sender and number of a flit but not the
  scenario, and the numbers start again with every one; a scenario ends when its items are queued, not when they
  have arrived. Right: the report shows the faults of the mesh, no more, and as much as it can.
- **Parallel bus.** Everybody counts the turns for himself with a clock that the holder of the turn
  drives; the grant lags behind the turn. Right: one writer, no swallowed change of turn.
- **Serial bus.** Gated clocks rise `n + 1` times in a state of `n` cycles, and writer and readers stay
  for different times; the arbiter counts in mid cycle. Right: words stay aligned, grants are kept.
- **Both buses.** A writer only asks whether *it* is ready to read. Right: everybody else is, so that
  each packet reaches its addressees once, in order, and every packet does.

`PROJECT.json` lists the hazards line by line, with the properties aimed at each.

## 2 Plan

Done, in this order:

1. `MeshTopology`, `MeshRouting`, `DrvItem`, `TestRouting`: the routing table as an operator, the walk
   of a flit, the addresses of the testbench; proofs.
2. `FifoOps`, `LossyQueue`, `FifoNoFull`: the FIFO and its abstract specification; refinement proof.
3. `RouterArbiter`: the arbiter in an open environment; latency; proofs.
4. `Driver`: the driver against the arbiter's grant cycle; proofs.
5. `RouterMesh`: composition of 1 to 4 with the monitors. Every router is shown to implement the
   control part of `RouterArbiter` (`ArbitersImplemented`), every terminal to give its driver the
   environment `Driver` assumes (`DriversImplemented`); proofs.
6. `Pairing`, `Scoreboard`: the threads of the monitors and the scoreboard; proofs.
7. `TestFlow`: the scenarios of `base_test` with their pauses, around the scoreboard and a faulty mesh;
   proofs.
8. `BusPackets`, `BusTransfer`, `ParallelBus`, `SerialBus`: the two shared buses, both shown to
   implement one abstract bus; proofs.

Every invariant and every safety action property that a run checks is also proved. What is left is
liveness, which stays with TLC (section 8).

Considered and left out: the FIFOs nobody instantiates (section 9).

## 3 Time in the models

The hardware model follows the event semantics of the language where it matters:

- `fifo_flops_no_full` clocks its registers with `clk_gen = ~clk & push`: they capture when `clk`
  **falls**, or later in the low half if `push` rises there. The counter moves at the next rising
  edge, so that in between `Dout` selects another cell than before.
- `psh` is combinational in `data_in_i`, which can be the `Dout` of such a FIFO. A capture can thus
  move the `psh` of the reading router in mid cycle (`Settle` in `RouterMesh`); the FIFO whose `psh`
  falls has already captured, the one whose `psh` rises captures now.
- `Router_arbiter` computes its gated clocks in an `always_comb` (lines 264-268) that assigns
  `clk_rtr_rbtr_cntrl` and reads it for `clk_cntr`. Such a block is not sensitive to what it assigns
  itself: it runs when `clk`, `cnt_en` or `pndng_i` change, and `clk_cntr` gets the value
  `clk_rtr_rbtr_cntrl` had before. So `clk_cntr` does not rise with `clk` but with the `cnt_en` that
  follows it as the machine enters `cnt1`. At the next edge of `clk` it falls first, and if
  `pndng_i` changes while `cnt_en` is still up it rises again: a second edge (`TurnEdges`).
- In the driver the `else` that restores `data_in` belongs to `if (vif.popin)`, so the head of the
  queue is presented with the edge that pops it.

These rules have been compared with the recorded simulation `router_report.csv`: a cycle-by-cycle
evaluation of them, given the flits of the first scenario, yields the 1,907 entries and exits
recorded up to time 12,000, each at its terminal and time. The file as a whole has
2,679 rows `OK`, 72 `UNEXPECTED_OUT` and 1,605 `NO_OUTPUT`; finding 1 and the
overflows described after the findings are how those come about.

In the buses (`Library.sv`) a step is one rising edge. State machines are flops of `clk`; the
registers of the serial bus hang on gated clocks (`clk && en`), which rise just after the edge when
`en` goes up with it and a last time with the edge that ends the state. The models let all flops of
`clk` sample before the gated clocks of the same edge move anything, and let wires settle before
anybody looks. Where that is not enough to fix the outcome both outcomes are allowed: a request that
comes with the edge at which the arbiter of the serial bus counts is granted for an instant, and
whether its clock rises a second time is left open (`NextTurns`).

The reset is not modelled: `Init` is the state after it. (`LossyQueue` and `FifoNoFull` have it as a
`Clear` step, since the FIFO's reset is asynchronous.) In RTL modules a step is an edge or half
cycle; in `MeshRouting` it is a hop; in `Scoreboard` it is the turn of one thread, in `TestFlow` one
item, phase or flit.

## 4 Modules and the code they model

`PROJECT.json` maps each definition to its lines.

**`MeshTopology`** (no state): `FacesTerminal`, `TerminalOf`, `Neighbour`, `Opposite` are the wiring
that the generate blocks of `mesh_gnrtr` spell out; `Jump` is `s_routing_table`, with the exit
cases in the priority that the last assignment gives them.

**`MeshRouting`**: `flit`, `at`, `where`, `exit`. `Hop`, `Leave` and `Sink` are the three things that can
happen to a flit at a router: a FIFO facing a router takes it, a FIFO facing a terminal takes it,
or none does (code 4). `DrvItem` gives the flits the testbench can build, with the 5-bit
truncation of `dest_addr` and the two-bit truncation of the side. `TestRouting` joins both and asks
whether they number the terminals alike.

**`FifoOps`** (no state): registers, `Dout`, `Pndng` and counter of `fifo_flops_no_full`.
**`FifoNoFull`** steps it edge by edge: `ClockFalls`, `LatePush`, `ClockRises`, `Reset`, with inputs
`push`, `pop` that obey the contract in which the FIFO is sound. **`LossyQueue`** is the abstract
specification: `Put`, `Take`, `TakeAndPut`, `Overflow`, `Clear` on a sequence.

**`RouterArbiter`**: `cur_st`, `trn`, with `pndng_i` an input that may rise at any edge and falls only
for an interface that was popped (at once for a FIFO, an edge later for a driver). `Edge` is one
rising edge: state machine, turn counter, inputs. `wait` and `skips` are histories that measure one
interface; they influence nothing.

**`Driver`**: `fifo_in`, `pndng_in`, `data_in`; `grant` is the router's side. `Edge(before, after)` is one
turn of `drive_interface`, with the flits that `get_items` appends before and after it in the same
time step. `accepted` is a history.

**`RouterMesh`**: everything between drivers and monitors. `clk` high, then `ClockFalls` (captures),
`Settle` as often as wires change, `ClockRises` (counters, state machines, turns, drivers, monitors);
`Offer(t)` is the sequencer of a terminal handing over its next flit at any time. It uses the
operators of `FifoOps`, `RouterArbiter` and `Driver` by `INSTANCE`, once per port, router and
terminal. A flit carries its sender and number so that copies can be told apart: `outs`, `lost`,
`popped` and `glitched` are histories (`popped` is read only by the arbiter's refinement and by
`GrantOf`, which no guard uses).

**`Pairing`**: `exp_q`, the counters and the last row of the report. `StoreIn` and `MatchOut` are the two
branches of the scoreboard's `write`. `Scoreboard` and `TestFlow` share it. So that one module of proofs
can extend these and `Driver` as well, each names its own variables and specification: `BoardSpec`
with `in_mesh` and `MeshEdge`, `FlowSpec` with `fifos` and `ports` (the drivers' `fifo_in` and `data_in`).

**`Scoreboard`**: the mesh is abstract (a set of flits inside, entering and leaving at each edge, neither
lost nor doubled), the threads are not. `Watch(t)`, `Consume(t)` and `OneStep(t)` are `watch_inputs`,
`consume_outputs` up to its `#1step`, and its rest. The order of the threads at an edge, which the
language leaves open, is free; `overwritten` counts the exits an entry displaced in `item`.

**`TestFlow`**: `phase`, `scenario`, `pkt_id`, `num_items` are the test and its sequences; `Deliver`,
`WaitFork`, `NextScenario`, `Finish` their steps. `Take` is the driver at a `popin` with the report of
its monitor, `Leave` an exit with its report. The mesh is a sequence of flits per terminal, and may
`Lose` and `Double` some: here the question is not why, but what the report makes of it. A pause may
end with the mesh empty or not (`drained`). `made`, `lost`, `doubled` are histories for the properties.

**`BusPackets`**: what the buses see of the world, an input and an output FIFO per interface, and
`Delivered`. **`BusTransfer`**: the abstract bus; an interface holds what it popped until all addressees
get it at one edge, one packet at a time. **`ParallelBus`** and **`SerialBus`**: one action `Edge` with the
next state of each register, `nxt_wt` and `nxt_rd` for the state machines. The turn counters of all
interfaces of the parallel bus have one clock and one start, and are one variable.

## 5 Runs

| run | shows | bounds, and why they are enough |
|---|---|---|
| `routing` | each flit leaves at the terminal of its address, approaches it at every hop and turns once; only flits for inner routers sink | the real 4x4 mesh, all flits the testbench builds (invalid addresses and injected errors included), from all routers with a terminal; nothing is bounded |
| `fifo` | the FIFO implements `LossyQueue` | depth 4, as in `tb_top`; three words tell order, loss and duplication apart |
| `arbiter` | grants are clean, a pop follows its push, waiting is bounded by a rotation per skipped turn, everybody is served | 4 interfaces as in the mesh, two of them fed by drivers (a corner router); `MaxWait` 70 exceeds four rotations of 16, `MaxSkips` 3 lets three skips happen |
| `arbiter_latency` | finding 2 | `MaxSkips` 5, `MaxWait` 70 > `MAX_IN_LAT` |
| `driver` | no stale grant, nothing lost, data stable | 8 flits, arriving in bursts of any size: the queue passes through empty, one and many several times |
| `driver_head` | finding 3 | 3 flits |
| `mesh` | the books of the counters balance, flits lie where the table says, monitors keep up, exactly once, in order, routers and drivers implement their modules, the mesh drains | 2x2, depth 2, five flits at two terminals, offered at any time. The script is chosen so that a FIFO can overflow, a mid-cycle capture can occur (`mesh_duplicate` is one), and routes of both modes cross |
| `mesh_duplicate` | finding 1 | as `mesh` |
| `scoreboard` | no false alarm, nothing unheard but what `item` lost | 2 terminals, 4 flits, two of them with one key; every assignment of entries and exits to edges, terminals and thread orders |
| `test_flow` | the report is the difference of the faults, its rows are right without faults, the lag of the drivers does not show, the test ends | 2 terminals, 2 scenarios of 2 items, at most one flit lost and one doubled: enough for a loss in one scenario to meet a duplicate in the other with the same key |
| `parallel_bus` | one writer, no turn lost, transfers and deliveries right, all arrives | 3 interfaces that all send (any header, at any time), one of them twice: everybody may contend, and be busy with its own reading as another writes |
| `serial_bus` | words aligned, grants kept, transfers right, all arrives | 3 interfaces, one sends twice; words of 3 bits have a first, a middle and a last bit, so that a shift too few or too many shows |

Deadlock is checked in every run but `routing`, where a flit that has left has nothing more to do, and
`test_flow`, which ends with the test. The clock of the other modules never stops, and in `scoreboard`
every thread gets its turn.

What the deeper properties say:

- `FlitsReachAddress` (routing): the testbench numbers the terminals as the mesh wires them, and an invalid
  address is an alias of a valid one, not an error.
- `CountsBalance` (mesh): flits taken = pending + lost + seen by a monitor, up to the ones being
  popped. It holds through overflows *and* mid-cycle captures: those corrupt data, never the counters. This
  is why the mesh always drains.
- `ExactlyOnce` (mesh): without mid-cycle change no flit is in the mesh twice; without overflow as
  well, every flit that entered is there or has left. Finding 1 and an overflow are therefore the
  only two ways in which this mesh loses or doubles a flit in the checked instance.
- `MonitorKeepsUp` (mesh): a terminal's FIFO never holds two flits, and is never written in the
  cycle in which the monitor samples it, so the half-cycle skew of FIFO and counter never
  reaches the monitor.
- `WaitIsBounded` (arbiter): `16 * (skips + 1)` cycles. Together with finding 2 it says that the
  assertion on `MAX_IN_LAT` fails only through the second edge of the turn counter.
- `ArbitersImplemented`, `DriversImplemented` (mesh): the open modules `RouterArbiter` and `Driver`
  assume things about their surroundings (a pending bit falls only after a pop, a grant runs
  through). These two show that the mesh keeps to them, so that what holds of the parts holds in it.
- `NoFalseAlarm` and `HearsAll` (scoreboard): what the scoreboard complains about is the mesh's fault,
  and what it does not hear of is exactly what the threads of a monitor overwrote in `item`.
- `ReportIsNet` (test flow): pending entries less misses are the lost flits less the doubled ones, plus
  what is still inside. The converse side is what the report cannot tell: a loss in one scenario and
  a duplicate in a later one, with one key, cancel out.
- `CountHidesLag` (test flow): the totals agree although the flits are not the ones that were made; the
  initial zero word of each driver stands in for the last item. This is why finding 3 goes unseen.
- `RowsAreRight` (test flow): without faults each OK row of the report pairs a flit with itself, even if
  a pause is too short and flits of two scenarios with equal keys are in the mesh together.
- `WriterAlone`, `TurnIsPassedOn` (parallel bus): the old holder still has the grant when the turn is
  already the next one's, and a holder that gets the turn with its `trn_chng_pre` up would swallow it.
- `WordIsAligned` (serial bus): whoever compares a header has a whole packet of another interface, each
  bit in its place. `GrantIsKept`: the arbiter's counter stops in time, although it counts in mid cycle.
- `TransfersPackets` (both buses): the refinement of `BusTransfer`; `Delivered` follows from it.

## 6 Fairness

In the hardware the only fairness assumed is that the clock does not stop: `WF_vars(Next)` in
`RouterArbiter`, whose every step is an edge, `WF_vars(Clock)` in `RouterMesh`, `WF_vars(Edge)` in the
buses; `tb_top` generates the clock with an `always`. Nothing is assumed of those who send: `Offer` and
`Send` may stop at any point, and `Drains` and `AllArrive` hold all the same. `ServedIfQuiet` has a
hypothesis in place of fairness: from some time on `pndng_i` does not change as the machine leaves
`cnt1`. Without it the claim is false: the second counter edge may skip the same interface for ever,
which is what finding 2 is about.

In `TestFlow` the sequences, `wait fork` and the pauses go on (`WF_vars` of `Deliver`, `WaitFork`,
`NextScenario`, `Finish`): a sequence waits for nothing but its driver, whose `get_items` is a `forever`
that calls `item_done` at once, and a pause is counted in cycles of the clock. The mesh has no fairness: `Terminates` says that a
test ends even if no flit ever comes out.

## 7 Findings

1. **A flit leaves twice** (`mesh_duplicate`). `psh` (`Router_library.sv:131`) follows data that a FIFO
   may change in the low half of the cycle; two FIFOs then capture the same flit.
2. **An interface can wait longer than 64 cycles** (`arbiter_latency`). `Router_library.sv:265`: the second
   edge of the turn counter skips an interface, repeatedly.
3. **The driver is one flit behind** (`driver_head`). `Drivers.sv:79`: the `else` is bound to the inner
   `if`. The first word each terminal sends is the initial zero, the last flit is never sent.

The models show more behaviour that a user of the code should know. It is stated in the properties, as
the exceptions they make, so that the passing runs and the theorems say it is all there is. Four times it
disagrees with what the code or its report (`Informe Veri.pdf`) says:

- **Overflow loses flits.** A push into a full FIFO drops the oldest word, and nobody looks for a full flag
  (`fifo.sv:298`); a flit is then never delivered. The report says that collisions are handled "sin
  pérdida ni duplicación" (section I), and `Scoreboard.sv:156` calls an entry without exit an error. `ExactlyOnce`
  says "if `lost = 0`". The recorded `router_report.csv` has 1,605 `NO_OUTPUT` rows.
- **An exit can be overwritten.** If `consume_outputs` runs before `watch_inputs` at an edge with both an
  entry and an exit, the entry is reported twice and the exit never (`monitor.sv:57`, `:101`), although
  `monitor.sv:100` "garantiza que el OUT siempre llegue al SCB después del IN". `HearsAll` counts these
  cases in `overwritten`.
- **Invalid addresses are delivered.** 16..31 alias 0..15 and 32 aliases 0 (`TypesandTransactions.sv:212`),
  so that what `c_dest_addr` calls "Inválidas" is routed like valid traffic, neither discarded nor
  flagged as section I of the report wants ("descartes/flags"). `FlitsReachAddress` says where these flits go.
- **A pause does not drain.** The last flit of each terminal stays on the port through every "pausa de
  drenaje" (`test.sv:61`) and enters as the first of the next scenario (`CountHidesLag`; a consequence of finding 3).

These are not findings of their own: finding 1 already refutes the sentence of the report on collisions, and
finding 3 covers the pauses. Two more disagree with nothing that is written down:

- A lost flit and a doubled one with the same key cancel out, even in different scenarios
  (`Scoreboard.sv:52`, `:90`): the report is the *net* of the faults (`ReportIsNet`).
- The parameter `broadcast` of `bs_gnrtr` does not reach the header check, which compares with `8'hFF`
  (`Library.sv:388`). `Bcast` in the models is any header that is no interface's number.

## 8 Proofs

The theorems hold for every value of the constants, from the assumptions the modules state:
`MeshAssumption` (at least two rows and columns, as the generate blocks need), `FlitsAssumption`
and `ScriptAssumption` (rows and columns of addresses are naturals), `DepthAssumption` (depth at
least 2, as `fifo.sv` needs to elaborate), `KeysAssumption` (finitely many terminals, flits and keys: vectors of bits), `NoneAssumption`,
`PayloadAssumption` (sender and number are part of a flit's key), `FlowAssumption` (the flits of the
scenarios are flits), `DataAssumption` (zero is a word), `ArbiterAssumption` (at
least two interfaces), `ItemsAssumption`, `BusAssumption` (at least two interfaces; the broadcast header
is none of them) and `SizeAssumption` (a packet has at least two bits).

| module | theorem | argument |
|---|---|---|
| `MeshRoutingProofs` | `TypeCorrect` | by cases on the jump: each inner jump leads to a router, since the exit cases catch the border |
| | `DeliveryCorrect`, `SinksCorrect` | `ExitsAtTarget /\ OnlyInnerFlitsSink` is inductive given the types: each is decided by the jump of the step that leaves or sinks |
| | `FlitsReachAddressCorrect` | for `ROWS = COLUMNS = 4`, the mesh `term_to_rc` is written for: the row and column it computes depend on the lowest four bits of the address only (`AddressAliases`) and have the terminal of that number as their `TargetTerminal`, side by side (`AddressTargets`); the rest is `DeliveryCorrect` |
| | `AlwaysApproaches`, `AlwaysTurnsOnce` | action properties from the types and lemmas about `Jump`; the first bounds the hops by the distance, so no flit circles. Lemmas on the path (`OnPath`) serve `RouterMeshProofs` |
| `FifoNoFullProofs` | `TypeCorrect` | the counter saturates |
| | `ImplementsQueue` | refinement mapping: the queue is the pending cells read backwards, with the register that was captured but not yet counted already included; each edge maps to one step of `LossyQueue` or a stutter |
| `RouterArbiterProofs` | `TypeCorrect` | the turn wraps |
| | `GrantCorrect` | `GrantIsPending` is not inductive: the pending bit of a driver falls an edge after its pop. `GrantInv` adds that something was just popped only in `cnt1`, so no bit falls on the way to a push |
| | `PopFollowsPushCorrect` | from `GrantInv`: the gated clock cannot stop between `psh1` and `pop1`, and no counter edge falls between them |
| | `WaitIsBoundedCorrect` | `WaitInv`: cycles waited plus cycles that remain until the turn comes round (`Remaining`, from the `Distance` of the turn and the phase of the machine) never exceed `Rotation * (skips + 1)`. Each edge of the clock trades one for the other, a skip adds at most a rotation |
| `RouterMeshProofs` | `TypeCorrect` | the `Dout` of a FIFO is the flit of some terminal, even between capture and count |
| | `PopIsPendingCorrect`, `MonitorKeepsUpCorrect`, `ArbitersImplementedCorrect`, `DriversImplementedCorrect` | one invariant for the four, `InStep`: a grant is on a pending interface (`GrantPending`); a driver whose bit is stale is not granted (`EmptiedDriver`); what was just popped (`JustPopped`) keeps the arbiter in `cnt1`; a monitor and the FIFO it empties alternate (`MonitorInStep`). Arbiter, driver and monitor each rely on the others' part |
| | `RoutedRightCorrect` | `Placed`: what a FIFO holds, the capture not yet counted included (`Held`), its router would put there. A word pushed by a wire that has since fallen was right when it was captured |
| | `OrderKeptCorrect` | `InOrder` orders every two flits of one sender and address: the nearer to its exit (`Way`), or the deeper in one FIFO, the older (`Ordered`); what left is older than what is in the mesh (`OutsFirst`), that is older than what the driver shows (`DriversLast`), and the queue numbers on (`Numbered`). The head a router has copied but not popped is left out (`Live`). A falling edge copies live cells one router further (`FallOrigin`), a rising one only takes cells away (`RiseLive`). That two such flits at the same distance share a FIFO needs their path in closed form (`OnTheWay`; `PathContinues` and `PathIsUnique` of `MeshRoutingProofs`) |
| | `CountsBalanceCorrect` | `CountsBalance` is inductive with `InOrder`. A rising edge moves each counter by what is pushed and popped (`Gaining`, `Losing`), and every router that pushes raises exactly one `psh` wire or sinks (`PushersCount`), so that captures in mid cycle change which counter moves, never how many; then every router in `psh1` is in `pop1`, and adds one on each side |
| | `ExactlyOnceCorrect` | at most once: two live copies of one flit would be in an order (`InOrder`), and nothing is before itself. At least once: `AllPresent`, whatever a driver no longer shows is in a live cell or has left, as long as nothing is or is about to be overwritten (`Kept`); `OutsPlaced` says where a flit leaves, so that its two exits would be at one terminal |
| `BusTransferProofs` | `DeliveredCorrect` | what is held was popped in order, so whatever implements the abstract bus delivers in order, without gap or copy |
| `TestbenchProofs` | `TypeCorrect` | of the driver: types, the length of the queue included |
| | `GrantHasItemCorrect` | `ItemInv` adds that in `idle` a raised bit means a queue that is not empty; in `cnt` the bit may be stale, and no grant starts there |
| | `NothingLostCorrect` | history, port and queue count on from one another, whatever is appended before or after the driver's turn |
| | `StableWhilePendingCorrect` | without a pop every edge puts the old word back |
| | `FlowTypesCorrect`, `ReportIsNetCorrect` | `FlowTypes`: types, and the flits in a terminal's queue, port and part of the mesh are its own. `Net`: the balance of the report, and for each key the flits in the mesh beyond those expected (`Surplus`) are, with the misses, no more than those doubled. Without the second part an exit could miss that no duplicate explains |
| | `CountHidesLagCorrect` | `Lag`: what is made is queued or has been counted in, and mesh, port and queue of a terminal are in the order of their making (`InTurn`), so that the last item is still on the port, or behind it, when everything before it has entered |
| | `RowsAreRightCorrect` | `Rows`: entries wait under their key, and without faults what is in the mesh is what is expected, in the same order, but for the initial words (`InLine`). Flits of one key, the initial words apart, come from one terminal (`PayloadAssumption`), and those are in the order of `Lag` |
| | `BoardInvCorrect`, `NoFalseAlarmCorrect`, `HearsAllCorrect` | `BoardInv` holds between any two turns of the threads, where `HearsAll` only speaks of the time between edges. `Once`: a flit is in one place. `Threads`: what a thread is about to report is the flit it was shown, or the entry that replaced it in `item`. `Heard`: the counts, with what waits to be reported (`WaitIn`, `WaitOut`) and what will be reported as an entry instead (`Doomed`). `Expected`: at least one entry for each flit that is due (`Due`), exactly one as long as nothing was overwritten. Hence an exit always finds an entry of its key |
| `ParallelBusProofs` | `WriterAloneCorrect`, `TurnIsPassedOnCorrect` | `Running`: grant lags turn by at most one edge (`GrantLags`), and all readers are in one of three phases together: comparing, storing or resetting |
| | `TransfersPacketsCorrect`, `DeliveredCorrect` | step by step from `Running`; then `BusTransferProofs` |
| `SerialBusProofs` | `WordIsAlignedCorrect`, `GrantIsKeptCorrect` | `Inv`: besides the types, registers are loaded or cleared as the machines say (`Loaded`, `Clean`), at most the owner of the turn is on the bus (`Owner`), and the bus as a whole is in one phase (`InStep`): starting, ready, sending bit `p` of the packet of `s`, storing it, or resetting. In `Sending(s, p)` writer and readers hold the `Rest` and the `Part` of one word, whatever its size |
| | `TransfersPacketsCorrect`, `DeliveredCorrect` | step by step from `Inv`; then `BusTransferProofs` |

`TestbenchProofs` is the three last modules of the testbench in one, since they share `Pairing` and the
lemmas about it.

Several properties count: flits in a mesh, entries in the queues, exits at the terminals. They are
stated by the cardinality of a set of places (a cell of a FIFO, an index in a queue), never by a sum
over a function. The proofs then need no induction: a step adds places or takes some away, and the
lemmas on disjoint unions and on bijections of `FiniteSetTheorems` say what that does to the count. This is why the proofs ask
for finite sets of terminals, flits and keys.

Each invariant named above was checked with TLC, as an invariant of the run of its module, before it was
proved. `Threads` was first too weak to be inductive: without `t \notin watch` it allows a second entry to
overwrite `item` at the same edge.

Only model-checked:

- liveness (`ServedIfQuiet`, `Drains`, `AllArrive`, `Terminates`): under fairness, and with it ENABLED,
  it is beyond the prover;
- the three findings: each is a counterexample TLC finds.

No module uses a recursive operator.

## 9 What is not modelled

- Simulator and debugger output: `csrc/`, `salida.daidir/`, `vc_hdrs.*` (the C files of the repository: stubs and
  headers the simulator generates when it compiles the SystemVerilog), `salida.*`, logs, coverage databases.
  They are products of the sources that are modelled and hold no logic of their own, so no definition refers to them.
- `gen_plots.py`: draws the report.
- UVM construction, configuration and messages, covergroups, the CSV report's latencies:
  no control depends on them.
- Buses that neither a test nor the mesh instantiates and that the two models nearly cover:
  `prll_bus_gnrtr_cn_rbtr` (`Router_library.sv`) is the arbiter of a router between interfaces without routing
  table, which `RouterArbiter` covers; `bs_gnrtr_n_rbtr` assigns `bs_grnt_pre` with a blocking assignment at the edge at
  which a flop samples it (`Library.sv:703-707`), so that each grant is one or two edges late, as the simulator
  likes; `prll_bs_gnrtr_n_rbtr_fifo` connects the output of its input FIFOs to the `pop` wires
  (`Library.sv:1170`) and leaves the data input of the bus open.
- `fifo_ltch`, `fifo_ltch_no_rst`, `ntrpt_cam_fifo`, the latch memories and edge detectors: nothing
  instantiates them, so there is no environment to say in which states they are used. `fifo_flops` is
  instantiated only by `prll_bs_gnrtr_n_rbtr_fifo`.
- The FIFOs at the interfaces of a bus, which the library does not contain: they take and give any
  packet at any time.
- The bits of payloads: flits and packets are records, the payload is the pair of sender and number.
  The weights of the random tests: inputs are nondeterministic.
- The broadcast code of `router_bus_interface`: the routing table overwrites the jump and never produces it.
