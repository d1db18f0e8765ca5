------------------------------ MODULE TestFlow -------------------------------
(***************************************************************************)
(* A whole test (base_test of test.sv): the scenarios one after the other, *)
(* in each of them one sequence per terminal (gen_item_seq), the drivers,  *)
(* and the scoreboard of Pairing around a mesh that may lose or double a   *)
(* flit.  Why and where it does is the subject of RouterMesh; here a fault *)
(* may meet any flit, MaxLost and MaxDoubled times in a test, and a pause  *)
(* of 1000 cycles may or may not be enough to drain the mesh.              *)
(*                                                                         *)
(* A flit is known by terminal, scenario and pkt_id; the initial words on  *)
(* the ports have scenario and pkt_id 0.  pkt_id starts again with every   *)
(* scenario and the scenario is no part of a flit, so that in the worst    *)
(* case, modelled here, the randomised rest is equal as well.              *)
(***************************************************************************)
EXTENDS Pairing, SequencesExt

CONSTANTS
  NumScenarios,         \* the length of scenarios[$]
  NumItems,             \* the range of num_items
  MaxLost, MaxDoubled   \* bounds on the faults of the mesh

Flit(t, s, n) == [term |-> t, scn |-> s, num |-> n]
Zero(t) == Flit(t, 0, 0)

ASSUME FlowAssumption ==
  /\ NumScenarios \in Nat \ {0}
  /\ NumItems \subseteq Nat \ {0}
  /\ MaxLost \in Nat /\ MaxDoubled \in Nat
  /\ \A t \in Terminals :
       /\ Zero(t) \in Flits
       /\ \A s \in 1 .. NumScenarios, m \in NumItems :
            \A n \in 1 .. m : Flit(t, s, n) \in Flits

\* src_id and pkt_id are bits of the payload, and with it of the key.
ASSUME PayloadAssumption ==
  \A f, g \in Flits :
    KeyOf[f] = KeyOf[g] => f.num = g.num /\ (f.num # 0 => f.term = g.term)

VARIABLES
  phase,     \* of the test: "run", "pause" after `wait fork', "done"
  scenario,  \* the scenario that runs, or ran last
  pkt_id,    \* per sequence: the last pkt_id it used
  num_items, \* per sequence: how many items it makes in this scenario
  fifos,     \* per driver: the queue, fifo_in
  ports,     \* per driver: the word on the port, data_in
  inside,    \* per terminal: the flits from it that are in the mesh
  made,      \* history: how many flits the sequences have delivered
  drained,   \* history: every pause was long enough to empty queues and mesh
  lost,      \* history: the flits the mesh has lost
  doubled    \* history: how many flits the mesh has doubled

counts == <<pkt_id, num_items, made>>
test == <<phase, scenario, counts, drained>>
mesh == <<inside, lost, doubled>>
flow_vars == <<test, fifos, ports, mesh, scoreboard>>

FlowInit ==
  /\ phase = "run"
  /\ scenario = 1
  /\ pkt_id = [t \in Terminals |-> 0]
  /\ num_items \in [Terminals -> NumItems]
  /\ fifos = [t \in Terminals |-> <<>>]
  /\ ports = [t \in Terminals |-> Zero(t)]
  /\ inside = [t \in Terminals |-> <<>>]
  /\ made = 0
  /\ drained = TRUE
  /\ lost = <<>> /\ doubled = 0
  /\ ScoreboardInit

-----------------------------------------------------------------------------
\* gen_item_seq.body and get_items: the next item is built and queued.
Deliver(t) ==
  /\ phase = "run"
  /\ pkt_id[t] < num_items[t]
  /\ pkt_id' = [pkt_id EXCEPT ![t] = @ + 1]
  /\ fifos' = [fifos EXCEPT ![t] = Append(@, Flit(t, scenario, pkt_id[t] + 1))]
  /\ made' = made + 1
  /\ UNCHANGED <<phase, scenario, num_items, drained, ports, mesh, scoreboard>>

\* Mutant: the scenario ends only once the drivers have nothing left.
WaitFork_Drained ==
  /\ phase = "run"
  /\ pkt_id = num_items
  /\ \A t \in Terminals : fifos[t] = <<>>
  /\ phase' = "pause"
  /\ UNCHANGED <<scenario, counts, drained, fifos, ports, mesh, scoreboard>>

\* wait fork: every sequence has handed its last item over, which the driver has
\* only queued by then.
WaitFork ==
  /\ phase = "run"
  /\ pkt_id = num_items
  /\ phase' = "pause"
  /\ UNCHANGED <<scenario, counts, drained, fifos, ports, mesh, scoreboard>>

\* repeat (1000) @(posedge vif.clk)
PauseIsOver ==
  drained' = (drained /\ \A t \in Terminals : fifos[t] = <<>> /\ inside[t] = <<>>)

\* The next scenario starts all sequences anew.
NextScenario ==
  /\ phase = "pause" /\ PauseIsOver
  /\ scenario < NumScenarios
  /\ scenario' = scenario + 1
  /\ phase' = "run"
  /\ pkt_id' = [t \in Terminals |-> 0]
  /\ num_items' \in [Terminals -> NumItems]
  /\ UNCHANGED <<made, fifos, ports, mesh, scoreboard>>

\* drop_objection after the last pause: run_phase is over for everybody.
Finish ==
  /\ phase = "pause" /\ PauseIsOver
  /\ scenario = NumScenarios
  /\ phase' = "done"
  /\ UNCHANGED <<scenario, counts, fifos, ports, mesh, scoreboard>>

-----------------------------------------------------------------------------
\* Mutant: the driver presents the head before it is popped.
Take_Head(t) ==
  /\ phase # "done"
  /\ fifos[t] # <<>>
  /\ inside' = [inside EXCEPT ![t] = Append(@, Head(fifos[t]))]
  /\ StoreIn(Head(fifos[t]))
  /\ ports' = [ports EXCEPT ![t] = Head(fifos[t])]
  /\ fifos' = [fifos EXCEPT ![t] = Tail(@)]
  /\ UNCHANGED <<test, lost, doubled>>

\* popin: the word on the port enters the mesh and is reported, and the head of the
\* queue takes its place on the port.
Take(t) ==
  /\ phase # "done"
  /\ fifos[t] # <<>>
  /\ inside' = [inside EXCEPT ![t] = Append(@, ports[t])]
  /\ StoreIn(ports[t])
  /\ ports' = [ports EXCEPT ![t] = Head(fifos[t])]
  /\ fifos' = [fifos EXCEPT ![t] = Tail(@)]
  /\ UNCHANGED <<test, lost, doubled>>

\* Flits of one terminal with one key have the same way to go and do not overtake
\* each other (OrderKept of RouterMesh).
MayLeave(t, i) ==
  \A j \in 1 .. i - 1 : KeyOf[inside[t][j]] # KeyOf[inside[t][i]]

\* A flit leaves at some terminal and is reported.
Leave(t, i) ==
  /\ phase # "done"
  /\ MayLeave(t, i)
  /\ MatchOut(inside[t][i])
  /\ inside' = [inside EXCEPT ![t] = RemoveAt(@, i)]
  /\ UNCHANGED <<test, fifos, ports, lost, doubled>>

\* A flit is shifted out of a full output FIFO.
Lose(t, i) ==
  /\ phase # "done"
  /\ Len(lost) < MaxLost
  /\ lost' = Append(lost, inside[t][i])
  /\ inside' = [inside EXCEPT ![t] = RemoveAt(@, i)]
  /\ UNCHANGED <<test, fifos, ports, doubled, scoreboard>>

\* A flit is captured by two output FIFOs.
Double(t, i) ==
  /\ phase # "done"
  /\ doubled < MaxDoubled
  /\ doubled' = doubled + 1
  /\ inside' = [inside EXCEPT ![t] = InsertAt(@, i, @[i])]
  /\ UNCHANGED <<test, fifos, ports, lost, scoreboard>>

Mesh(t) ==
  \/ Take(t)
  \/ \E i \in DOMAIN inside[t] : Leave(t, i) \/ Lose(t, i) \/ Double(t, i)

FlowNext ==
  \/ WaitFork \/ NextScenario \/ Finish
  \/ \E t \in Terminals : Deliver(t) \/ Mesh(t)

FlowSpec == FlowInit /\ [][FlowNext]_flow_vars

\* The sequences run on and the pause ends by the clock; nothing is asked of the
\* mesh.
FairFlow ==
  /\ FlowSpec
  /\ \A t \in Terminals : WF_flow_vars(Deliver(t))
  /\ WF_flow_vars(WaitFork) /\ WF_flow_vars(NextScenario) /\ WF_flow_vars(Finish)

-----------------------------------------------------------------------------
\* How many elements the sequences of a function hold together.
TotalLen(f) == Cardinality(UNION {{x} \X DOMAIN f[x] : x \in DOMAIN f})

\* report_phase: the entries without an exit.
pending == TotalLen(exp_q)

\* Every error reported is one, and what the report shows is the difference of the
\* faults and no more: an UNEXPECTED_OUT row takes a flit doubled, and a lost flit
\* cancels out with one doubled that shares its key, even across scenarios.  A test
\* without faults has a clean report as soon as nothing is left in the mesh.
ReportIsNet ==
  /\ n_miss <= doubled
  /\ pending - n_miss = Len(lost) - doubled + TotalLen(inside)

\* At the end of a test whose pauses were long enough n_in is the number of items
\* made, although they are not the same flits: the initial word of every terminal
\* entered, and its last item of the last scenario never does.
CountHidesLag ==
  /\ phase = "done" /\ drained => n_in = made
  /\ scenario = NumScenarios =>
       \A t \in Terminals : Flit(t, scenario, num_items[t]) \notin ToSet(inside[t])

\* As long as the mesh has no fault every OK row of the report is about one flit,
\* entry and exit, even if flits of a scenario meet those of the next with the same
\* key after a pause too short; only the initial words of two terminals may be
\* confused.
RowsAreRight ==
  lost = <<>> /\ doubled = 0 /\ Len(row) = 2 =>
    row[1] = row[2] \/ {row[1].scn, row[2].scn} = {0}

\* A test ends, whatever the mesh does with the flits: nothing in the flow waits for
\* an exit.
Terminates == <>(phase = "done")
=============================================================================
