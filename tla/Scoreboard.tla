----------------------------- MODULE Scoreboard ------------------------------
(***************************************************************************)
(* The checking side of the testbench: the two threads of every monitor    *)
(* (monitor.sv) and the scoreboard they report to (Scoreboard.sv), around  *)
(* a mesh that neither loses nor doubles a flit.                           *)
(*                                                                         *)
(* Both threads of a monitor wake up at a rising edge of clk; the language *)
(* does not say which runs first.  They share the field `item':            *)
(* watch_inputs fills and reports it at once, consume_outputs fills it and *)
(* reports it one time step later, whatever is in it by then.              *)
(***************************************************************************)
EXTENDS Pairing

CONSTANT None   \* no flit

ASSUME NoneAssumption == None \notin Flits

VARIABLES
  outside,    \* flits the mesh has not taken yet
  in_mesh,    \* flits in the mesh
  taking,     \* per terminal: the flit under popin at this edge, or None
  showing,    \* per terminal: the flit under pndng at this edge, or None
  watch,      \* the terminals whose watch_inputs has not run at this edge
  consume,    \* the terminals whose consume_outputs has not run at this edge
  loc,        \* where consume_outputs is: "look", "write" (in #1step), "ack"
  item,       \* per terminal: the field shared by the two threads
  overwritten \* history: how many exits an entry took the place of in item

flits      == <<outside, in_mesh, taking, showing>>
monitors   == <<watch, consume, loc, item, overwritten>>
board_vars == <<flits, monitors, scoreboard>>

BoardInit ==
  /\ outside = Flits
  /\ in_mesh = {}
  /\ taking = [t \in Terminals |-> None]
  /\ showing = [t \in Terminals |-> None]
  /\ watch = {} /\ consume = {}
  /\ loc = [t \in Terminals |-> "look"]
  /\ item = [t \in Terminals |-> None]
  /\ overwritten = 0
  /\ ScoreboardInit

-----------------------------------------------------------------------------
(***************************************************************************)
(* The mesh at a rising edge: every terminal may have a flit taken and may *)
(* show one.  A flit may leave at the very edge at which it is taken: it   *)
(* was copied a cycle before it is popped.                                 *)
(***************************************************************************)
Picks(S) ==
  {g \in [Terminals -> S \union {None}] :
     \A t, u \in Terminals : g[t] = g[u] /\ g[t] # None => t = u}

PickedBy(g) == {g[t] : t \in Terminals} \ {None}

\* Every thread has run and nobody is within #1step.
Quiet == watch = {} /\ consume = {} /\ \A t \in Terminals : loc[t] # "write"

MeshEdge ==
  /\ Quiet
  /\ taking' \in Picks(outside)
  /\ outside' = outside \ PickedBy(taking')
  /\ showing' \in Picks(in_mesh \union PickedBy(taking'))
  /\ \A t \in Terminals : loc[t] = "ack" => showing'[t] = None
  /\ in_mesh' = (in_mesh \union PickedBy(taking')) \ PickedBy(showing')
  /\ watch' = Terminals /\ consume' = Terminals
  /\ UNCHANGED <<loc, item, overwritten, scoreboard>>

-----------------------------------------------------------------------------
\* watch_inputs: report the flit under popin at once.  If consume_outputs was first
\* it loses the exit it is about to report.
Watch(t) ==
  /\ t \in watch
  /\ watch' = watch \ {t}
  /\ IF taking[t] # None
     THEN /\ item' = [item EXCEPT ![t] = In(taking[t])]
          /\ Write(In(taking[t]))
          /\ overwritten' = overwritten + (IF loc[t] = "write" THEN 1 ELSE 0)
     ELSE UNCHANGED <<item, overwritten, scoreboard>>
  /\ UNCHANGED <<flits, consume, loc>>

\* Mutant: the exit is reported without waiting.
Consume_AtOnce(t) ==
  /\ t \in consume
  /\ consume' = consume \ {t}
  /\ IF loc[t] = "look" /\ showing[t] # None
     THEN /\ item' = [item EXCEPT ![t] = Out(showing[t])]
          /\ loc' = [loc EXCEPT ![t] = "ack"]
          /\ Write(Out(showing[t]))
     ELSE loc' = [loc EXCEPT ![t] = "look"] /\ UNCHANGED <<item, scoreboard>>
  /\ UNCHANGED <<flits, watch, overwritten>>

\* consume_outputs up to #1step, or its second edge, which lowers pop.
Consume(t) ==
  /\ t \in consume
  /\ consume' = consume \ {t}
  /\ IF loc[t] = "look" /\ showing[t] # None
     THEN /\ item' = [item EXCEPT ![t] = Out(showing[t])]
          /\ loc' = [loc EXCEPT ![t] = "write"]
     ELSE loc' = [loc EXCEPT ![t] = "look"] /\ UNCHANGED item
  /\ UNCHANGED <<flits, watch, overwritten, scoreboard>>

\* The step of time after which consume_outputs reports `item', once no thread has
\* anything left to do at the edge.
OneStep(t) ==
  /\ watch = {} /\ consume = {}
  /\ loc[t] = "write"
  /\ Write(item[t])
  /\ loc' = [loc EXCEPT ![t] = "ack"]
  /\ UNCHANGED <<flits, watch, consume, item, overwritten>>

BoardNext == MeshEdge \/ \E t \in Terminals : Watch(t) \/ Consume(t) \/ OneStep(t)

BoardSpec == BoardInit /\ [][BoardNext]_board_vars

-----------------------------------------------------------------------------
\* The scoreboard raises no false alarm: around a mesh that is right no exit is
\* unexpected, not even one reported at the edge that reports its entry, in whatever
\* order the threads run.
NoFalseAlarm == n_miss = 0

\* "#1step; // REQ: garantiza que el OUT siempre llegue al SCB despues del IN": it does,
\* unless an entry at the same edge overwrote it in item, and then it is reported as
\* that entry, a second time.  Apart from that the scoreboard has heard, between two
\* edges, of every flit once when it was taken and once when it left, and expects as
\* much as the mesh holds, key by key, although flits of one key are not told apart.
HearsAll ==
  Quiet =>
    /\ n_in = Cardinality(Flits \ outside) + overwritten
    /\ n_out = Cardinality(Flits \ (outside \union in_mesh)) - overwritten
    /\ overwritten = 0 =>
         \A k \in Keys : Len(exp_q[k]) = Cardinality({f \in in_mesh : KeyOf[f] = k})
=============================================================================
