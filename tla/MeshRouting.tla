---------------------------- MODULE MeshRouting -----------------------------
(***************************************************************************)
(* The walk of one flit through the mesh, one router at a time, as the     *)
(* routing tables and the wiring decide it.  Queueing and timing are left  *)
(* to module RouterMesh: here a step is the push of the flit from router   *)
(* `at' into the output FIFO of the interface that Jump names, which the   *)
(* router or the terminal on the other side reads next.                    *)
(***************************************************************************)
EXTENDS MeshTopology

CONSTANT Flits   \* the flits the terminals may offer

ASSUME FlitsAssumption == Flits \subseteq [row : Nat, col : Nat, mode : {0, 1}, dst : Nat]

VARIABLES
  flit,    \* the flit that travels
  at,      \* the router that reads it
  where,   \* "mesh"; "out" once a terminal has it; "sunk" if no FIFO took it
  exit     \* the terminal it left through, when where = "out"

vars == <<flit, at, where, exit>>

\* A terminal offers a flit to the router interface it is wired to.
Init ==
  /\ flit \in Flits
  /\ at \in {r \in Routers : \E i \in Interfaces : FacesTerminal(r, i)}
  /\ where = "mesh"
  /\ exit = 0

\* The FIFO of interface Jump(at, flit) faces another router.
Hop ==
  /\ where = "mesh"
  /\ Jump(at, flit) \in Interfaces
  /\ ~ FacesTerminal(at, Jump(at, flit))
  /\ at' = Neighbour(at, Jump(at, flit))
  /\ UNCHANGED <<flit, where, exit>>

\* The FIFO of interface Jump(at, flit) faces a terminal.
Leave ==
  /\ where = "mesh"
  /\ Jump(at, flit) \in Interfaces
  /\ FacesTerminal(at, Jump(at, flit))
  /\ where' = "out"
  /\ exit' = TerminalOf(at, Jump(at, flit))
  /\ UNCHANGED <<flit, at>>

\* No interface has number NONE: no psh rises, the source is popped all the same.
Sink ==
  /\ where = "mesh"
  /\ Jump(at, flit) = NONE
  /\ where' = "sunk"
  /\ UNCHANGED <<flit, at, exit>>

Next == Hop \/ Leave \/ Sink

Spec == Init /\ [][Next]_vars

-----------------------------------------------------------------------------
(***************************************************************************)
(* Where a flit should end, from its address alone.                        *)
(***************************************************************************)
Clamp(n, max) == IF n < 1 THEN 1 ELSE IF n > max THEN max ELSE n

\* The router of the mesh nearest to the address.
LastRouter(f) == <<Clamp(f.row, ROWS), Clamp(f.col, COLUMNS)>>

InsideMesh(f) == f.row \in 1 .. ROWS /\ f.col \in 1 .. COLUMNS

\* The terminal of the side the address lies beyond; an address beyond a corner
\* counts as above or below, not as left or right.
TargetTerminal(f) ==
  IF f.row < 1 THEN Clamp(f.col, COLUMNS) - 1
  ELSE IF f.row > ROWS THEN COLUMNS + ROWS - 1 + Clamp(f.col, COLUMNS)
  ELSE IF f.col < 1 THEN COLUMNS + f.row - 1
  ELSE 2 * COLUMNS + ROWS - 1 + f.row

Abs(n) == IF n < 0 THEN -n ELSE n

Distance(r, f) == Abs(r[1] - LastRouter(f)[1]) + Abs(r[2] - LastRouter(f)[2])

-----------------------------------------------------------------------------
\* The variables keep their types; in particular no hop walks out of the mesh
\* over a side without a terminal (s_routing_table, mesh_gnrtr).
TypeOK ==
  /\ flit \in Flits
  /\ at \in Routers
  /\ where \in {"mesh", "out", "sunk"}
  /\ exit \in Terminals

\* A flit that leaves the mesh leaves through the terminal its address names,
\* whichever terminal it came from and whichever axis it is routed along first;
\* the order of the four exit cases of s_routing_table decides the corners.
ExitsAtTarget == where = "out" => exit = TargetTerminal(flit)

\* Only a flit addressed to a router of the mesh is dropped, and only there.
OnlyInnerFlitsSink ==
  where = "sunk" => InsideMesh(flit) /\ at = <<flit.row, flit.col>>

\* Every hop brings the flit one router nearer to the last one, so that no
\* mixture of the inner table and the exit cases sends it in circles.
HopsApproach ==
  [][at' # at => Distance(at', flit) = Distance(at, flit) - 1]_vars

\* A flit turns only once: in mode 1 it moves along a row only when its row is
\* final, in mode 0 along a column only when its column is final, the exit cases
\* included (comments on s_routing_table: "rutea primero fila / columna").
TurnsOnce ==
  [][IF flit.mode = 1
     THEN at'[2] # at[2] => at[1] = LastRouter(flit)[1]
     ELSE at'[1] # at[1] => at[2] = LastRouter(flit)[2]]_vars
=============================================================================
