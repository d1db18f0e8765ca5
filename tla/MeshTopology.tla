---------------------------- MODULE MeshTopology ----------------------------
(***************************************************************************)
(* The static part of the router mesh: where every router interface is     *)
(* wired (mesh_gnrtr) and which interface a router sends a flit to         *)
(* (s_routing_table).  Routers are numbered <<row, column>> from <<1, 1>>  *)
(* (upper left); a flit carries the row and the column it is addressed to, *)
(* which lie outside 1..ROWS or 1..COLUMNS when it must leave the mesh.    *)
(***************************************************************************)
EXTENDS Integers

CONSTANTS
  ROWS,     \* rows of routers (parameter ROWS of mesh_gnrtr)
  COLUMNS   \* columns of routers (parameter COLUMS of mesh_gnrtr)

\* The generate blocks of mesh_gnrtr tell the first row from the last one and
\* the first column from the last one, so the mesh has at least two of each.
ASSUME MeshAssumption == /\ ROWS \in Nat /\ COLUMNS \in Nat
                         /\ ROWS > 1 /\ COLUMNS > 1

Routers == (1 .. ROWS) \X (1 .. COLUMNS)

\* The interfaces of a router, numbered as in the source; NONE is the jump
\* code of no interface.
UP    == 0
RIGHT == 1
DOWN  == 2
LEFT  == 3
NONE == 4

Interfaces == 0 .. 3

Terminals == 0 .. (2 * ROWS + 2 * COLUMNS - 1)

-----------------------------------------------------------------------------
(***************************************************************************)
(* Wiring.  Interface i of router r faces either another router or one of  *)
(* the terminals, which are numbered along the top, the left, the bottom   *)
(* and the right side.                                                     *)
(***************************************************************************)
FacesTerminal_NoLeft(r, i) ==   \* mutant: the left side is not wired
  \/ i = UP    /\ r[1] = 1
  \/ i = RIGHT /\ r[2] = COLUMNS
  \/ i = DOWN  /\ r[1] = ROWS

FacesTerminal(r, i) ==
  \/ i = UP    /\ r[1] = 1
  \/ i = RIGHT /\ r[2] = COLUMNS
  \/ i = DOWN  /\ r[1] = ROWS
  \/ i = LEFT  /\ r[2] = 1

TerminalOf(r, i) ==
  CASE i = UP    -> r[2] - 1
    [] i = LEFT  -> COLUMNS + r[1] - 1
    [] i = DOWN  -> COLUMNS + ROWS - 1 + r[2]
    [] i = RIGHT -> 2 * COLUMNS + ROWS - 1 + r[1]

Neighbour(r, i) ==
  CASE i = UP    -> <<r[1] - 1, r[2]>>
    [] i = RIGHT -> <<r[1], r[2] + 1>>
    [] i = DOWN  -> <<r[1] + 1, r[2]>>
    [] i = LEFT  -> <<r[1], r[2] - 1>>

\* The interface of the neighbour that faces interface i.
Opposite(i) == (i + 2) % 4

-----------------------------------------------------------------------------
(***************************************************************************)
(* The routing table.  A flit is a record with (at least) the fields row,  *)
(* col and mode; mode 1 routes along the column until the row is right     *)
(* ("row first"), mode 0 the other way round.                              *)
(***************************************************************************)

\* Mutant: left and right exchanged.
AlongRow_Swapped(r, f, there) ==
  IF f.col < r[2] THEN RIGHT ELSE IF f.col > r[2] THEN LEFT ELSE there

\* Move along the row (to the right column) or, once there, do as `there' says.
AlongRow(r, f, there) ==
  IF f.col < r[2] THEN LEFT ELSE IF f.col > r[2] THEN RIGHT ELSE there

\* Move along the column (to the right row) or, once there, do as `there' says.
AlongColumn(r, f, there) ==
  IF f.row < r[1] THEN UP ELSE IF f.row > r[1] THEN DOWN ELSE there

\* Mutant: done as soon as the row is right.
RowFirst_RowOnly(r, f) == AlongColumn(r, f, NONE)

RowFirst(r, f)    == AlongColumn(r, f, AlongRow(r, f, NONE))
ColumnFirst(r, f) == AlongRow(r, f, AlongColumn(r, f, NONE))

\* The exit cases: router r is on the side of the mesh the target lies beyond.
OutTop(r, f)    == f.row < r[1] /\ r[1] = 1
OutBottom(r, f) == f.row > r[1] /\ r[1] = ROWS
OutLeft(r, f)   == f.col < r[2] /\ r[2] = 1
OutRight(r, f)  == f.col > r[2] /\ r[2] = COLUMNS

IsExitCase(r, f) == \/ OutTop(r, f)  \/ OutBottom(r, f)
                    \/ OutLeft(r, f) \/ OutRight(r, f)

\* Mutant: the first of the four ifs decides.
ExitJump_FirstWins(r, f) ==
  IF OutTop(r, f) THEN AlongRow(r, f, UP)
  ELSE IF OutBottom(r, f) THEN AlongRow(r, f, DOWN)
  ELSE IF OutLeft(r, f) THEN AlongColumn(r, f, LEFT)
  ELSE AlongColumn(r, f, RIGHT)

\* The four ifs of the exit case come one after the other and the last one that
\* applies decides: right over left over bottom over top.
ExitJump(r, f) ==
  IF OutRight(r, f) THEN AlongColumn(r, f, RIGHT)
  ELSE IF OutLeft(r, f) THEN AlongColumn(r, f, LEFT)
  ELSE IF OutBottom(r, f) THEN AlongRow(r, f, DOWN)
  ELSE AlongRow(r, f, UP)

OnBorder(r) == r[1] \in {1, ROWS} \/ r[2] \in {1, COLUMNS}

\* Mutant: the mode bit is ignored.
Jump_NoMode(r, f) ==
  IF OnBorder(r) /\ IsExitCase(r, f) THEN ExitJump(r, f) ELSE ColumnFirst(r, f)

\* The next jump that the table of router r writes into the head of flit f.
Jump(r, f) ==
  IF OnBorder(r) /\ IsExitCase(r, f) THEN ExitJump(r, f)
  ELSE IF f.mode = 1 THEN RowFirst(r, f)
  ELSE ColumnFirst(r, f)
=============================================================================
