------------------------- MODULE MeshRoutingProofs --------------------------
(***************************************************************************)
(* Proofs about module MeshRouting, for meshes of every size and flits     *)
(* with every address.                                                     *)
(***************************************************************************)
EXTENDS TestRouting, TLAPS

\* All the table reads of a flit.
HasAddress(f) == f.row \in Nat /\ f.col \in Nat /\ f.mode \in {0, 1}

\* The table of every router assigns every flit one of the five jumps.
LEMMA JumpType ==
  ASSUME NEW r \in Routers, NEW f
  PROVE  Jump(r, f) \in Interfaces \union {NONE}
BY DEF Jump, ExitJump, RowFirst, ColumnFirst, AlongRow, AlongColumn, Interfaces,
       UP, RIGHT, DOWN, LEFT, NONE

\* What each jump tells of the flit: it only ever moves towards the last router,
\* and it moves along its second axis only when the first is done.
LEMMA JumpDirection ==
  ASSUME NEW r \in Routers, NEW f, HasAddress(f)
  PROVE  /\ Jump(r, f) = UP    => f.row < r[1]
         /\ Jump(r, f) = DOWN  => f.row > r[1]
         /\ Jump(r, f) = LEFT  => f.col < r[2]
         /\ Jump(r, f) = RIGHT => f.col > r[2]
         /\ Jump(r, f) = NONE  => f.row = r[1] /\ f.col = r[2]
<1>1. r[1] \in 1 .. ROWS /\ r[2] \in 1 .. COLUMNS
  BY DEF Routers
<1>2. f.row \in Nat /\ f.col \in Nat
  BY DEF HasAddress
<1>. QED
  BY <1>1, <1>2, MeshAssumption
     DEF Jump, ExitJump, RowFirst, ColumnFirst, AlongRow, AlongColumn, IsExitCase,
         OutTop, OutBottom, OutLeft, OutRight, OnBorder, UP, RIGHT, DOWN, LEFT, NONE

\* A jump to a router: the neighbour is in the mesh, and one nearer the last router.
LEMMA JumpApproaches ==
  ASSUME NEW r \in Routers, NEW f, HasAddress(f),
         Jump(r, f) \in Interfaces, ~ FacesTerminal(r, Jump(r, f))
  PROVE  /\ Neighbour(r, Jump(r, f)) \in Routers
         /\ Distance(Neighbour(r, Jump(r, f)), f) = Distance(r, f) - 1
<1>1. /\ r[1] \in 1 .. ROWS /\ r[2] \in 1 .. COLUMNS
      /\ f.row \in Nat /\ f.col \in Nat
  BY DEF Routers, HasAddress
<1>2. CASE Jump(r, f) = UP
  <2>1. f.row < r[1] /\ r[1] # 1 /\ Neighbour(r, Jump(r, f)) = <<r[1] - 1, r[2]>>
    BY <1>2, JumpDirection DEF FacesTerminal, Neighbour, UP, RIGHT, DOWN, LEFT
  <2>. QED
    BY <1>1, <2>1, MeshAssumption DEF Routers, Distance, LastRouter, Clamp, Abs
<1>3. CASE Jump(r, f) = RIGHT
  <2>1. f.col > r[2] /\ r[2] # COLUMNS /\ Neighbour(r, Jump(r, f)) = <<r[1], r[2] + 1>>
    BY <1>3, JumpDirection DEF FacesTerminal, Neighbour, UP, RIGHT, DOWN, LEFT
  <2>. QED
    BY <1>1, <2>1, MeshAssumption DEF Routers, Distance, LastRouter, Clamp, Abs
<1>4. CASE Jump(r, f) = DOWN
  <2>1. f.row > r[1] /\ r[1] # ROWS /\ Neighbour(r, Jump(r, f)) = <<r[1] + 1, r[2]>>
    BY <1>4, JumpDirection DEF FacesTerminal, Neighbour, UP, RIGHT, DOWN, LEFT
  <2>. QED
    BY <1>1, <2>1, MeshAssumption DEF Routers, Distance, LastRouter, Clamp, Abs
<1>5. CASE Jump(r, f) = LEFT
  <2>1. f.col < r[2] /\ r[2] # 1 /\ Neighbour(r, Jump(r, f)) = <<r[1], r[2] - 1>>
    BY <1>5, JumpDirection DEF FacesTerminal, Neighbour, UP, RIGHT, DOWN, LEFT
  <2>. QED
    BY <1>1, <2>1, MeshAssumption DEF Routers, Distance, LastRouter, Clamp, Abs
<1>. QED
  BY <1>2, <1>3, <1>4, <1>5 DEF Interfaces, UP, RIGHT, DOWN, LEFT

\* A jump to a terminal is made by the last router, to the terminal of the address.
LEMMA JumpLeaves ==
  ASSUME NEW r \in Routers, NEW f, HasAddress(f),
         Jump(r, f) \in Interfaces, FacesTerminal(r, Jump(r, f))
  PROVE  /\ TerminalOf(r, Jump(r, f)) = TargetTerminal(f)
         /\ TerminalOf(r, Jump(r, f)) \in Terminals
<1>1. /\ r[1] \in 1 .. ROWS /\ r[2] \in 1 .. COLUMNS
      /\ f.row \in Nat /\ f.col \in Nat
  BY DEF Routers, HasAddress
<1>2. TerminalOf(r, Jump(r, f)) \in Terminals
  BY <1>1, MeshAssumption
     DEF TerminalOf, FacesTerminal, Terminals, Interfaces, UP, RIGHT, DOWN, LEFT
<1>3. TerminalOf(r, Jump(r, f)) = TargetTerminal(f)
  <2>1. CASE Jump(r, f) = UP
    <3>1. r[1] = 1 /\ f.row < 1 /\ TerminalOf(r, Jump(r, f)) = r[2] - 1
      BY <2>1, <1>1, MeshAssumption, JumpDirection
         DEF FacesTerminal, TerminalOf, UP, RIGHT, DOWN, LEFT
    <3>2. Clamp(f.col, COLUMNS) = r[2]
      BY <2>1, <3>1, <1>1, MeshAssumption
         DEF Jump, ExitJump, AlongRow, AlongColumn, IsExitCase, OutTop, OutBottom,
             OutLeft, OutRight, OnBorder, Clamp, UP, RIGHT, DOWN, LEFT, NONE
    <3>. QED
      BY <3>1, <3>2 DEF TargetTerminal
  <2>2. CASE Jump(r, f) = DOWN
    <3>1. /\ r[1] = ROWS /\ f.row > ROWS
          /\ TerminalOf(r, Jump(r, f)) = COLUMNS + ROWS - 1 + r[2]
      BY <2>2, <1>1, MeshAssumption, JumpDirection
         DEF FacesTerminal, TerminalOf, UP, RIGHT, DOWN, LEFT
    <3>2. Clamp(f.col, COLUMNS) = r[2]
      BY <2>2, <3>1, <1>1, MeshAssumption
         DEF Jump, ExitJump, AlongRow, AlongColumn, IsExitCase, OutTop, OutBottom,
             OutLeft, OutRight, OnBorder, Clamp, UP, RIGHT, DOWN, LEFT, NONE
    <3>. QED
      BY <3>1, <3>2, <1>1, MeshAssumption DEF TargetTerminal
  <2>3. CASE Jump(r, f) = LEFT
    <3>1. /\ r[2] = 1 /\ f.col < 1
          /\ TerminalOf(r, Jump(r, f)) = COLUMNS + r[1] - 1
      BY <2>3, <1>1, MeshAssumption, JumpDirection
         DEF FacesTerminal, TerminalOf, UP, RIGHT, DOWN, LEFT
    <3>2. f.row = r[1]
      BY <2>3, <3>1, <1>1, MeshAssumption
         DEF Jump, ExitJump, AlongRow, AlongColumn, IsExitCase, OutTop, OutBottom,
             OutLeft, OutRight, OnBorder, UP, RIGHT, DOWN, LEFT, NONE
    <3>. QED
      BY <3>1, <3>2, <1>1, MeshAssumption DEF TargetTerminal
  <2>4. CASE Jump(r, f) = RIGHT
    <3>1. /\ r[2] = COLUMNS /\ f.col > COLUMNS
          /\ TerminalOf(r, Jump(r, f)) = 2 * COLUMNS + ROWS - 1 + r[1]
      BY <2>4, <1>1, MeshAssumption, JumpDirection
         DEF FacesTerminal, TerminalOf, UP, RIGHT, DOWN, LEFT
    <3>2. f.row = r[1]
      BY <2>4, <3>1, <1>1, MeshAssumption
         DEF Jump, ExitJump, AlongRow, AlongColumn, IsExitCase, OutTop, OutBottom,
             OutLeft, OutRight, OnBorder, UP, RIGHT, DOWN, LEFT, NONE
    <3>. QED
      BY <3>1, <3>2, <1>1, MeshAssumption DEF TargetTerminal
  <2>. QED
    BY <2>1, <2>2, <2>3, <2>4 DEF Interfaces, UP, RIGHT, DOWN, LEFT
<1>. QED
  BY <1>2, <1>3

\* A jump along the second axis of the mode is made when the first axis is final.
LEMMA JumpKeepsMode ==
  ASSUME NEW r \in Routers, NEW f, HasAddress(f)
  PROVE  /\ f.mode = 1 /\ Jump(r, f) \in {LEFT, RIGHT} => r[1] = LastRouter(f)[1]
         /\ f.mode = 0 /\ Jump(r, f) \in {UP, DOWN} => r[2] = LastRouter(f)[2]
<1>1. /\ r[1] \in 1 .. ROWS /\ r[2] \in 1 .. COLUMNS
      /\ f.row \in Nat /\ f.col \in Nat
  BY DEF Routers, HasAddress
<1>2. ASSUME f.mode = 1, Jump(r, f) \in {LEFT, RIGHT}
      PROVE  r[1] = Clamp(f.row, ROWS)
  BY <1>1, <1>2, MeshAssumption
     DEF Jump, ExitJump, RowFirst, AlongRow, AlongColumn, IsExitCase, OutTop, OutBottom,
         OutLeft, OutRight, OnBorder, Clamp, UP, RIGHT, DOWN, LEFT, NONE
<1>3. ASSUME f.mode = 0, Jump(r, f) \in {UP, DOWN}
      PROVE  r[2] = Clamp(f.col, COLUMNS)
  BY <1>1, <1>3, MeshAssumption
     DEF Jump, ExitJump, ColumnFirst, AlongRow, AlongColumn, IsExitCase, OutTop, OutBottom,
         OutLeft, OutRight, OnBorder, Clamp, UP, RIGHT, DOWN, LEFT, NONE
<1>. QED
  BY <1>2, <1>3 DEF LastRouter
\* The address names one router to leave from: whoever jumps to a terminal is it.
LEMMA LeavesLast ==
  ASSUME NEW r \in Routers, NEW f, HasAddress(f),
         Jump(r, f) \in Interfaces, FacesTerminal(r, Jump(r, f))
  PROVE  Distance(r, f) = 0
<1>1. /\ r[1] \in 1 .. ROWS /\ r[2] \in 1 .. COLUMNS
      /\ f.row \in Nat /\ f.col \in Nat
  BY DEF Routers, HasAddress
<1>2. CASE Jump(r, f) \in {UP, DOWN}
  <2>1. r[1] = Clamp(f.row, ROWS)
    BY <1>1, <1>2, MeshAssumption, JumpDirection
       DEF FacesTerminal, Clamp, UP, RIGHT, DOWN, LEFT
  <2>2. r[2] = Clamp(f.col, COLUMNS)
    BY <1>1, <1>2, MeshAssumption, JumpDirection
       DEF FacesTerminal, Jump, ExitJump, AlongRow, AlongColumn, IsExitCase, OutTop,
           OutBottom, OutLeft, OutRight, OnBorder, Clamp, UP, RIGHT, DOWN, LEFT, NONE
  <2>. QED
    BY <1>1, <2>1, <2>2 DEF Distance, LastRouter, Abs
<1>3. CASE Jump(r, f) \in {LEFT, RIGHT}
  <2>1. r[2] = Clamp(f.col, COLUMNS)
    BY <1>1, <1>3, MeshAssumption, JumpDirection
       DEF FacesTerminal, Clamp, UP, RIGHT, DOWN, LEFT
  <2>2. r[1] = Clamp(f.row, ROWS)
    BY <1>1, <1>3, MeshAssumption, JumpDirection
       DEF FacesTerminal, Jump, ExitJump, AlongRow, AlongColumn, IsExitCase, OutTop,
           OutBottom, OutLeft, OutRight, OnBorder, Clamp, UP, RIGHT, DOWN, LEFT, NONE
  <2>. QED
    BY <1>1, <2>1, <2>2 DEF Distance, LastRouter, Abs
<1>. QED
  BY <1>2, <1>3 DEF Interfaces, UP, RIGHT, DOWN, LEFT

-----------------------------------------------------------------------------
(***************************************************************************)
(* The path of a flit.                                                     *)
(***************************************************************************)
Between(a, b, c) == (a <= b /\ b <= c) \/ (c <= b /\ b <= a)

\* Router r is on the path of flit f from router e on: first along one axis, then,
\* once the flit is level with its last router, along the other.
OnPath(e, r, f) ==
  LET last == LastRouter(f)
  IN  /\ Between(e[1], r[1], last[1]) /\ Between(e[2], r[2], last[2])
      /\ IF f.mode = 1 THEN r[2] = e[2] \/ r[1] = last[1]
                       ELSE r[1] = e[1] \/ r[2] = last[2]

LEMMA LastRouterType ==
  ASSUME NEW f, HasAddress(f)
  PROVE  LastRouter(f)[1] \in 1 .. ROWS /\ LastRouter(f)[2] \in 1 .. COLUMNS
BY MeshAssumption DEF HasAddress, LastRouter, Clamp

\* The path begins where the flit enters, and leads nowhere farther away.
LEMMA PathStarts ==
  ASSUME NEW e \in Routers, NEW f, HasAddress(f)
  PROVE  OnPath(e, e, f)
<1>1. e[1] \in Int /\ e[2] \in Int /\ LastRouter(f)[1] \in Int /\ LastRouter(f)[2] \in Int
  BY LastRouterType, MeshAssumption DEF Routers
<1>. QED
  BY <1>1 DEF OnPath, Between

LEMMA PathApproaches ==
  ASSUME NEW e \in Routers, NEW r \in Routers, NEW f, HasAddress(f), OnPath(e, r, f)
  PROVE  Distance(r, f) \in Nat /\ Distance(e, f) \in Nat
         /\ Distance(r, f) <= Distance(e, f)
<1>1. /\ e[1] \in Int /\ e[2] \in Int /\ LastRouter(f)[1] \in Int
      /\ LastRouter(f)[2] \in Int /\ r[1] \in Int /\ r[2] \in Int
  BY LastRouterType, MeshAssumption DEF Routers
<1>. QED
  BY <1>1 DEF OnPath, Between, Distance, Abs

\* Every jump to a router follows the path.
LEMMA PathContinues ==
  ASSUME NEW e \in Routers, NEW r \in Routers, NEW f, HasAddress(f), OnPath(e, r, f),
         Jump(r, f) \in Interfaces, ~ FacesTerminal(r, Jump(r, f))
  PROVE  OnPath(e, Neighbour(r, Jump(r, f)), f)
<1>1. /\ e[1] \in Int /\ e[2] \in Int
      /\ r[1] \in 1 .. ROWS /\ r[2] \in 1 .. COLUMNS /\ r[1] \in Int /\ r[2] \in Int
      /\ f.row \in Nat /\ f.col \in Nat /\ f.mode \in {0, 1}
  BY MeshAssumption DEF Routers, HasAddress
<1>2. PICK a, b : a = LastRouter(f)[1] /\ b = LastRouter(f)[2]
  OBVIOUS
<1>3. a \in Int /\ b \in Int /\ a = Clamp(f.row, ROWS) /\ b = Clamp(f.col, COLUMNS)
  BY <1>2, LastRouterType, MeshAssumption DEF LastRouter
<1>4. /\ f.mode = 1 /\ Jump(r, f) \in {LEFT, RIGHT} => r[1] = a
      /\ f.mode = 0 /\ Jump(r, f) \in {UP, DOWN} => r[2] = b
  BY <1>2, JumpKeepsMode
<1>5. PICK n : n = Neighbour(r, Jump(r, f))
  OBVIOUS
<1>6. \/ /\ Jump(r, f) = UP /\ n[1] = r[1] - 1 /\ n[2] = r[2] /\ a <= r[1] - 1
      \/ /\ Jump(r, f) = DOWN /\ n[1] = r[1] + 1 /\ n[2] = r[2] /\ r[1] + 1 <= a
      \/ /\ Jump(r, f) = LEFT /\ n[1] = r[1] /\ n[2] = r[2] - 1 /\ b <= r[2] - 1
      \/ /\ Jump(r, f) = RIGHT /\ n[1] = r[1] /\ n[2] = r[2] + 1 /\ r[2] + 1 <= b
  <2>1. CASE Jump(r, f) = UP
    <3>1. f.row < r[1] /\ r[1] # 1 /\ n = <<r[1] - 1, r[2]>>
      BY <2>1, <1>5, JumpDirection DEF FacesTerminal, Neighbour, UP, RIGHT, DOWN, LEFT
    <3>. QED
      BY <1>1, <1>3, <2>1, <3>1, MeshAssumption DEF Clamp
  <2>2. CASE Jump(r, f) = DOWN
    <3>1. f.row > r[1] /\ r[1] # ROWS /\ n = <<r[1] + 1, r[2]>>
      BY <2>2, <1>5, JumpDirection DEF FacesTerminal, Neighbour, UP, RIGHT, DOWN, LEFT
    <3>. QED
      BY <1>1, <1>3, <2>2, <3>1, MeshAssumption DEF Clamp
  <2>3. CASE Jump(r, f) = LEFT
    <3>1. f.col < r[2] /\ r[2] # 1 /\ n = <<r[1], r[2] - 1>>
      BY <2>3, <1>5, JumpDirection DEF FacesTerminal, Neighbour, UP, RIGHT, DOWN, LEFT
    <3>. QED
      BY <1>1, <1>3, <2>3, <3>1, MeshAssumption DEF Clamp
  <2>4. CASE Jump(r, f) = RIGHT
    <3>1. f.col > r[2] /\ r[2] # COLUMNS /\ n = <<r[1], r[2] + 1>>
      BY <2>4, <1>5, JumpDirection DEF FacesTerminal, Neighbour, UP, RIGHT, DOWN, LEFT
    <3>. QED
      BY <1>1, <1>3, <2>4, <3>1, MeshAssumption DEF Clamp
  <2>. QED
    BY <2>1, <2>2, <2>3, <2>4 DEF Interfaces, UP, RIGHT, DOWN, LEFT
<1>7. /\ Between(e[1], r[1], a) /\ Between(e[2], r[2], b)
      /\ IF f.mode = 1 THEN r[2] = e[2] \/ r[1] = a ELSE r[1] = e[1] \/ r[2] = b
  BY <1>2 DEF OnPath
<1>8. /\ Between(e[1], n[1], a) /\ Between(e[2], n[2], b)
      /\ IF f.mode = 1 THEN n[2] = e[2] \/ n[1] = a ELSE n[1] = e[1] \/ n[2] = b
  BY <1>1, <1>3, <1>4, <1>6, <1>7 DEF Between, UP, RIGHT, DOWN, LEFT
<1>. QED
  BY <1>2, <1>5, <1>8 DEF OnPath

\* No two routers of a path are equally far from its end.
LEMMA PathIsUnique ==
  ASSUME NEW e \in Routers, NEW r \in Routers, NEW s \in Routers, NEW f, HasAddress(f),
         OnPath(e, r, f), OnPath(e, s, f), Distance(r, f) = Distance(s, f)
  PROVE  r = s
<1>1. /\ e[1] \in Int /\ e[2] \in Int /\ LastRouter(f)[1] \in Int
      /\ LastRouter(f)[2] \in Int /\ r[1] \in Int /\ r[2] \in Int
      /\ s[1] \in Int /\ s[2] \in Int /\ r = <<r[1], r[2]>> /\ s = <<s[1], s[2]>>
  BY LastRouterType, MeshAssumption DEF Routers
<1>2. r[1] = s[1] /\ r[2] = s[2]
  BY <1>1 DEF OnPath, Between, Distance, Abs
<1>. QED
  BY <1>1, <1>2
-----------------------------------------------------------------------------
\* The variables keep their types, and the walk stays inside the mesh, whatever
\* the size of the mesh and the addresses of the flits.
THEOREM TypeCorrect == Spec => []TypeOK
<1>1. Init => TypeOK
  BY MeshAssumption DEF Init, TypeOK, Terminals
<1>2. TypeOK /\ [Next]_vars => TypeOK'
  <2>. SUFFICES ASSUME TypeOK, [Next]_vars PROVE TypeOK'
    OBVIOUS
  <2>1. HasAddress(flit)
    BY FlitsAssumption DEF TypeOK, HasAddress
  <2>2. CASE Hop
    BY <2>1, <2>2, JumpApproaches DEF TypeOK, Hop
  <2>3. CASE Leave
    BY <2>1, <2>3, JumpLeaves DEF TypeOK, Leave
  <2>4. CASE Sink
    BY <2>4 DEF TypeOK, Sink
  <2>5. CASE UNCHANGED vars
    BY <2>5 DEF TypeOK, vars
  <2>. QED
    BY <2>2, <2>3, <2>4, <2>5 DEF Next
<1>. QED
  BY <1>1, <1>2, PTL DEF Spec

\* Every flit that leaves the mesh leaves at the terminal its address names, and
\* only flits addressed to a router of the mesh are dropped.
THEOREM DeliveryCorrect == Spec => [](ExitsAtTarget /\ OnlyInnerFlitsSink)
<1>. DEFINE Inv == ExitsAtTarget /\ OnlyInnerFlitsSink
<1>1. Init => Inv
  BY DEF Init, ExitsAtTarget, OnlyInnerFlitsSink
<1>2. TypeOK /\ Inv /\ [Next]_vars => Inv'
  <2>. SUFFICES ASSUME TypeOK, Inv, [Next]_vars PROVE Inv'
    OBVIOUS
  <2>1. HasAddress(flit) /\ at \in Routers
    BY FlitsAssumption DEF TypeOK, HasAddress
  <2>2. CASE Hop
    BY <2>2 DEF Hop, ExitsAtTarget, OnlyInnerFlitsSink
  <2>3. CASE Leave
    BY <2>1, <2>3, JumpLeaves DEF Leave, ExitsAtTarget, OnlyInnerFlitsSink
  <2>4. CASE Sink
    <3>1. flit.row = at[1] /\ flit.col = at[2]
      BY <2>1, <2>4, JumpDirection DEF Sink
    <3>. QED
      BY <2>1, <2>4, <3>1
         DEF Sink, ExitsAtTarget, OnlyInnerFlitsSink, InsideMesh, Routers
  <2>5. CASE UNCHANGED vars
    BY <2>5 DEF vars, ExitsAtTarget, OnlyInnerFlitsSink
  <2>. QED
    BY <2>2, <2>3, <2>4, <2>5 DEF Next
<1>. QED
  BY <1>1, <1>2, TypeCorrect, PTL DEF Spec

\* No flit for a terminal is dropped: code 4 is given to flits for inner routers only.
THEOREM SinksCorrect == Spec => []OnlyInnerFlitsSink
  BY DeliveryCorrect, PTL

\* No flit ever turns back: every hop is one step of a shortest path.
THEOREM AlwaysApproaches == Spec => HopsApproach
<1>1. TypeOK /\ [Next]_vars
      => [at' # at => Distance(at', flit) = Distance(at, flit) - 1]_vars
  <2>. SUFFICES ASSUME TypeOK, Next, at' # at
                PROVE  Distance(at', flit) = Distance(at, flit) - 1
    OBVIOUS
  <2>1. HasAddress(flit) /\ at \in Routers
    BY FlitsAssumption DEF TypeOK, HasAddress
  <2>2. Hop
    BY DEF Next, Leave, Sink
  <2>. QED
    BY <2>1, <2>2, JumpApproaches DEF Hop
<1>. QED
  BY <1>1, TypeCorrect, PTL DEF Spec, HopsApproach

\* The mode bit of a flit is respected on every hop, the exit cases included.
THEOREM AlwaysTurnsOnce == Spec => TurnsOnce
<1>. DEFINE Turn == IF flit.mode = 1
                    THEN at'[2] # at[2] => at[1] = LastRouter(flit)[1]
                    ELSE at'[1] # at[1] => at[2] = LastRouter(flit)[2]
<1>1. TypeOK /\ [Next]_vars => [Turn]_vars
  <2>. SUFFICES ASSUME TypeOK, Next PROVE Turn
    OBVIOUS
  <2>1. HasAddress(flit) /\ at \in Routers
    BY FlitsAssumption DEF TypeOK, HasAddress
  <2>2. CASE Hop
    <3>1. /\ at'[2] # at[2] => Jump(at, flit) \in {LEFT, RIGHT}
          /\ at'[1] # at[1] => Jump(at, flit) \in {UP, DOWN}
      BY <2>1, <2>2 DEF Hop, Neighbour, Interfaces, Routers, UP, RIGHT, DOWN, LEFT
    <3>. QED
      BY <2>1, <3>1, JumpKeepsMode DEF HasAddress
  <2>3. CASE Leave \/ Sink
    BY <2>3 DEF Leave, Sink
  <2>. QED
    BY <2>2, <2>3 DEF Next
<1>. QED
  BY <1>1, TypeCorrect, PTL DEF Spec, TurnsOnce

-----------------------------------------------------------------------------
(***************************************************************************)
(* The numbering of the testbench against that of the mesh.                *)
(***************************************************************************)
\* The side and the position of an address depend on its lowest four bits only.
LEMMA AddressAliases ==
  ASSUME NEW a \in DestAddresses
  PROVE  /\ a % 16 \in 0 .. 15
         /\ (a % 32) % 4 = (a % 16) % 4
         /\ SideOf(a % 32) = (a % 16) \div 4
<1>1. a \in 0 .. 15 \/ a \in 16 .. 31 \/ a = 32
  BY DEF DestAddresses
<1>2. CASE a \in 0 .. 15
  <2>1. a % 16 = a /\ a % 32 = a /\ (a \div 4) % 4 = a \div 4
    BY <1>2
  <2>. QED
    BY <1>2, <2>1 DEF SideOf
<1>3. CASE a \in 16 .. 31
  <2>1. a % 16 = a - 16 /\ a % 32 = a
    BY <1>3
  <2>2. a % 4 = (a - 16) % 4 /\ (a \div 4) % 4 = (a - 16) \div 4
    BY <1>3
  <2>. QED
    BY <1>3, <2>1, <2>2 DEF SideOf
<1>4. CASE a = 32
  BY <1>4 DEF SideOf
<1>. QED
  BY <1>1, <1>2, <1>3, <1>4

LEMMA AddressSides ==
  ASSUME NEW a \in DestAddresses, NEW b, b = a % 16
  PROVE  /\ b \in 0 .. 3   => TermToRC(a) = <<0, b + 1>>
         /\ b \in 4 .. 7   => TermToRC(a) = <<b - 3, 0>>
         /\ b \in 8 .. 11  => TermToRC(a) = <<5, b - 7>>
         /\ b \in 12 .. 15 => TermToRC(a) = <<b - 11, 5>>
<1>1. (a % 32) % 4 = b % 4 /\ SideOf(a % 32) = b \div 4
  BY AddressAliases
<1>2. ASSUME b \in 0 .. 3 PROVE TermToRC(a) = <<0, b + 1>>
  <2>1. b % 4 = b /\ b \div 4 = 0
    BY <1>2
  <2>. QED
    BY <1>1, <2>1 DEF TermToRC
<1>3. ASSUME b \in 4 .. 7 PROVE TermToRC(a) = <<b - 3, 0>>
  <2>1. b % 4 = b - 4 /\ b \div 4 = 1
    BY <1>3
  <2>. QED
    BY <1>1, <1>3, <2>1 DEF TermToRC
<1>4. ASSUME b \in 8 .. 11 PROVE TermToRC(a) = <<5, b - 7>>
  <2>1. b % 4 = b - 8 /\ b \div 4 = 2
    BY <1>4
  <2>. QED
    BY <1>1, <1>4, <2>1 DEF TermToRC
<1>5. ASSUME b \in 12 .. 15 PROVE TermToRC(a) = <<b - 11, 5>>
  <2>1. b % 4 = b - 12 /\ b \div 4 = 3
    BY <1>5
  <2>. QED
    BY <1>1, <1>5, <2>1 DEF TermToRC
<1>. QED
  BY <1>2, <1>3, <1>4, <1>5

\* In the 4x4 mesh the row and the column of an address lie just beyond the terminal
\* that its lowest four bits number.
LEMMA AddressTargets ==
  ASSUME ROWS = 4, COLUMNS = 4,
         NEW a \in DestAddresses, NEW m \in {0, 1}, NEW f \in BuildFlit(a, FALSE, m)
  PROVE  TargetTerminal(f) = a % 16
<1>1. f.row = TermToRC(a)[1] /\ f.col = TermToRC(a)[2]
  BY DEF BuildFlit
<1>2. PICK b : b = a % 16
  OBVIOUS
<1>3. b \in 0 .. 3 \/ b \in 4 .. 7 \/ b \in 8 .. 11 \/ b \in 12 .. 15
  BY <1>2, AddressAliases
<1>4. CASE b \in 0 .. 3
  <2>1. f.row = 0 /\ f.col = b + 1
    BY <1>1, <1>2, <1>4, AddressSides
  <2>. QED
    BY <2>1, <1>2, <1>4 DEF TargetTerminal, Clamp
<1>5. CASE b \in 4 .. 7
  <2>1. f.row = b - 3 /\ f.col = 0
    BY <1>1, <1>2, <1>5, AddressSides
  <2>. QED
    BY <2>1, <1>2, <1>5 DEF TargetTerminal, Clamp
<1>6. CASE b \in 8 .. 11
  <2>1. f.row = 5 /\ f.col = b - 7
    BY <1>1, <1>2, <1>6, AddressSides
  <2>. QED
    BY <2>1, <1>2, <1>6 DEF TargetTerminal, Clamp
<1>7. CASE b \in 12 .. 15
  <2>1. f.row = b - 11 /\ f.col = 5
    BY <1>1, <1>2, <1>7, AddressSides
  <2>. QED
    BY <2>1, <1>2, <1>7 DEF TargetTerminal, Clamp
<1>. QED
  BY <1>3, <1>4, <1>5, <1>6, <1>7

\* In the 4x4 mesh for which the testbench is written, whatever other flits travel,
\* a flit that build_flit addresses to a without an injected error and that leaves the
\* mesh leaves it through terminal a % 16, for valid and invalid addresses.  It is
\* DeliveryCorrect read with the numbering of term_to_rc.
THEOREM FlitsReachAddressCorrect ==
  (ROWS = 4 /\ COLUMNS = 4) => (Spec => []FlitsReachAddress)
<1>. SUFFICES ASSUME ROWS = 4, COLUMNS = 4 PROVE Spec => []FlitsReachAddress
  OBVIOUS
<1>1. ExitsAtTarget => FlitsReachAddress
  <2>. SUFFICES ASSUME ExitsAtTarget, NEW a \in DestAddresses, NEW m \in {0, 1},
                       where = "out", flit \in BuildFlit(a, FALSE, m)
                PROVE  exit = a % 16
    BY Zenon DEF FlitsReachAddress
  <2>1. exit = TargetTerminal(flit)
    BY DEF ExitsAtTarget
  <2>2. TargetTerminal(flit) = a % 16
    BY AddressTargets, Zenon
  <2>. QED
    BY <2>1, <2>2
<1>. QED
  BY <1>1, DeliveryCorrect, PTL
=============================================================================
