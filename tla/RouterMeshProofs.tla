-------------------------- MODULE RouterMeshProofs --------------------------
(***************************************************************************)
(* The mesh at work, for every size of mesh, depth of its FIFOs and script *)
(* of its terminals: routers pop only what is pending, monitors keep up,   *)
(* and every pending flit lies where the routing table says.               *)
(***************************************************************************)
EXTENDS RouterMesh, TLAPS, FiniteSetTheorems

-----------------------------------------------------------------------------
(***************************************************************************)
(* The wiring.                                                             *)
(***************************************************************************)
\* A port that faces no terminal reads the FIFO of a port of the neighbour that
\* faces none either.
LEMMA SourceIsInner ==
  ASSUME NEW r \in Routers, NEW i \in Interfaces, ~ FacesTerminal(r, i)
  PROVE  /\ Source(r, i) \in Ports
         /\ ~ FacesTerminal(Source(r, i)[1], Source(r, i)[2])
<1>1. r[1] \in 1 .. ROWS /\ r[2] \in 1 .. COLUMNS /\ i \in {0, 1, 2, 3}
  BY DEF Routers, Interfaces
<1>2. /\ Neighbour(r, i) \in Routers /\ Opposite(i) \in Interfaces
      /\ ~ FacesTerminal(Neighbour(r, i), Opposite(i))
  <2>1. CASE i = UP
    <3>1. r[1] # 1 /\ Neighbour(r, i) = <<r[1] - 1, r[2]>> /\ Opposite(i) = DOWN
      BY <2>1 DEF FacesTerminal, Neighbour, Opposite, UP, RIGHT, DOWN, LEFT
    <3>. QED
      BY <1>1, <3>1, MeshAssumption
         DEF Routers, Interfaces, FacesTerminal, UP, RIGHT, DOWN, LEFT
  <2>2. CASE i = RIGHT
    <3>1. r[2] # COLUMNS /\ Neighbour(r, i) = <<r[1], r[2] + 1>> /\ Opposite(i) = LEFT
      BY <2>2 DEF FacesTerminal, Neighbour, Opposite, UP, RIGHT, DOWN, LEFT
    <3>. QED
      BY <1>1, <3>1, MeshAssumption
         DEF Routers, Interfaces, FacesTerminal, UP, RIGHT, DOWN, LEFT
  <2>3. CASE i = DOWN
    <3>1. r[1] # ROWS /\ Neighbour(r, i) = <<r[1] + 1, r[2]>> /\ Opposite(i) = UP
      BY <2>3 DEF FacesTerminal, Neighbour, Opposite, UP, RIGHT, DOWN, LEFT
    <3>. QED
      BY <1>1, <3>1, MeshAssumption
         DEF Routers, Interfaces, FacesTerminal, UP, RIGHT, DOWN, LEFT
  <2>4. CASE i = LEFT
    <3>1. r[2] # 1 /\ Neighbour(r, i) = <<r[1], r[2] - 1>> /\ Opposite(i) = RIGHT
      BY <2>4 DEF FacesTerminal, Neighbour, Opposite, UP, RIGHT, DOWN, LEFT
    <3>. QED
      BY <1>1, <3>1, MeshAssumption
         DEF Routers, Interfaces, FacesTerminal, UP, RIGHT, DOWN, LEFT
  <2>. QED
    BY <1>1, <2>1, <2>2, <2>3, <2>4 DEF UP, RIGHT, DOWN, LEFT
<1>. QED
  BY <1>2 DEF Source, Ports

\* No two ports read the same FIFO.
LEMMA SourceIsInjective ==
  ASSUME NEW r \in Routers, NEW i \in Interfaces, NEW s \in Routers, NEW j \in Interfaces,
         Source(r, i) = Source(s, j)
  PROVE  r = s /\ i = j
<1>1. /\ r[1] \in 1 .. ROWS /\ r[2] \in 1 .. COLUMNS /\ i \in {0, 1, 2, 3}
      /\ s[1] \in 1 .. ROWS /\ s[2] \in 1 .. COLUMNS /\ j \in {0, 1, 2, 3}
      /\ r = <<r[1], r[2]>> /\ s = <<s[1], s[2]>>
  BY DEF Routers, Interfaces
<1>2. Neighbour(r, i) = Neighbour(s, j) /\ Opposite(i) = Opposite(j)
  BY DEF Source
<1>3. i = j
  BY <1>1, <1>2 DEF Opposite
<1>4. r[1] = s[1] /\ r[2] = s[2]
  <2>1. CASE i = UP
    BY <1>1, <1>2, <1>3, <2>1, MeshAssumption DEF Neighbour, UP
  <2>2. CASE i = RIGHT
    BY <1>1, <1>2, <1>3, <2>2, MeshAssumption DEF Neighbour, UP, RIGHT
  <2>3. CASE i = DOWN
    BY <1>1, <1>2, <1>3, <2>3, MeshAssumption DEF Neighbour, UP, RIGHT, DOWN
  <2>4. CASE i = LEFT
    BY <1>1, <1>2, <1>3, <2>4, MeshAssumption DEF Neighbour, UP, RIGHT, DOWN, LEFT
  <2>. QED
    BY <1>1, <2>1, <2>2, <2>3, <2>4 DEF UP, RIGHT, DOWN, LEFT
<1>. QED
  BY <1>1, <1>3, <1>4

\* Ports that face a terminal and terminals correspond.
LEMMA TerminalType ==
  ASSUME NEW r \in Routers, NEW i \in Interfaces, FacesTerminal(r, i)
  PROVE  TerminalOf(r, i) \in Terminals
<1>1. r[1] \in 1 .. ROWS /\ r[2] \in 1 .. COLUMNS
  BY DEF Routers
<1>. QED
  BY <1>1, MeshAssumption
     DEF FacesTerminal, TerminalOf, Terminals, UP, RIGHT, DOWN, LEFT

LEMMA TerminalIsInjective ==
  ASSUME NEW r \in Routers, NEW i \in Interfaces, NEW s \in Routers, NEW j \in Interfaces,
         FacesTerminal(r, i), FacesTerminal(s, j), TerminalOf(r, i) = TerminalOf(s, j)
  PROVE  r = s /\ i = j
<1>1. /\ r[1] \in 1 .. ROWS /\ r[2] \in 1 .. COLUMNS
      /\ s[1] \in 1 .. ROWS /\ s[2] \in 1 .. COLUMNS
      /\ r = <<r[1], r[2]>> /\ s = <<s[1], s[2]>>
  BY DEF Routers
<1>2. i = j /\ r[1] = s[1] /\ r[2] = s[2]
  BY <1>1, MeshAssumption DEF FacesTerminal, TerminalOf, UP, RIGHT, DOWN, LEFT
<1>. QED
  BY <1>1, <1>2

LEMMA PortOfTerminal ==
  ASSUME NEW t \in Terminals
  PROVE  /\ PortOf[t] \in Ports /\ PortOf[t] = <<PortOf[t][1], PortOf[t][2]>>
         /\ PortOf[t][1] \in Routers /\ PortOf[t][2] \in Interfaces
         /\ FacesTerminal(PortOf[t][1], PortOf[t][2])
         /\ TerminalOf(PortOf[t][1], PortOf[t][2]) = t
<1>1. \E r \in Routers, i \in Interfaces : FacesTerminal(r, i) /\ TerminalOf(r, i) = t
  <2>1. t \in 0 .. 2 * ROWS + 2 * COLUMNS - 1
    BY DEF Terminals
  <2>2. CASE t < COLUMNS
    <3>1. PICK r : r = <<1, t + 1>>
      OBVIOUS
    <3>2. r[1] = 1 /\ r[2] = t + 1
      BY <3>1
    <3>3. 1 \in 1 .. ROWS /\ t + 1 \in 1 .. COLUMNS
      BY <2>1, <2>2, MeshAssumption
    <3>4. r \in Routers /\ FacesTerminal(r, UP) /\ UP \in Interfaces
      BY <3>1, <3>2, <3>3
         DEF Routers, Interfaces, FacesTerminal, UP, RIGHT, DOWN, LEFT
    <3>5. TerminalOf(r, UP) = t
      BY <2>1, <3>2, MeshAssumption DEF TerminalOf, UP, RIGHT, DOWN, LEFT
    <3>. QED
      BY <3>4, <3>5
  <2>3. CASE t >= COLUMNS /\ t < COLUMNS + ROWS
    <3>1. PICK r : r = <<t - COLUMNS + 1, 1>>
      OBVIOUS
    <3>2. r[1] = t - COLUMNS + 1 /\ r[2] = 1
      BY <3>1
    <3>3. t - COLUMNS + 1 \in 1 .. ROWS /\ 1 \in 1 .. COLUMNS
      BY <2>1, <2>3, MeshAssumption
    <3>4. r \in Routers /\ FacesTerminal(r, LEFT) /\ LEFT \in Interfaces
      BY <3>1, <3>2, <3>3
         DEF Routers, Interfaces, FacesTerminal, UP, RIGHT, DOWN, LEFT
    <3>5. TerminalOf(r, LEFT) = t
      BY <2>1, <3>2, MeshAssumption DEF TerminalOf, UP, RIGHT, DOWN, LEFT
    <3>. QED
      BY <3>4, <3>5
  <2>4. CASE t >= COLUMNS + ROWS /\ t < 2 * COLUMNS + ROWS
    <3>1. PICK r : r = <<ROWS, t - COLUMNS - ROWS + 1>>
      OBVIOUS
    <3>2. r[1] = ROWS /\ r[2] = t - COLUMNS - ROWS + 1
      BY <3>1
    <3>3. ROWS \in 1 .. ROWS /\ t - COLUMNS - ROWS + 1 \in 1 .. COLUMNS
      BY <2>1, <2>4, MeshAssumption
    <3>4. r \in Routers /\ FacesTerminal(r, DOWN) /\ DOWN \in Interfaces
      BY <3>1, <3>2, <3>3
         DEF Routers, Interfaces, FacesTerminal, UP, RIGHT, DOWN, LEFT
    <3>5. TerminalOf(r, DOWN) = t
      BY <2>1, <3>2, MeshAssumption DEF TerminalOf, UP, RIGHT, DOWN, LEFT
    <3>. QED
      BY <3>4, <3>5
  <2>5. CASE t >= 2 * COLUMNS + ROWS
    <3>1. PICK r : r = <<t - 2 * COLUMNS - ROWS + 1, COLUMNS>>
      OBVIOUS
    <3>2. r[1] = t - 2 * COLUMNS - ROWS + 1 /\ r[2] = COLUMNS
      BY <3>1
    <3>3. t - 2 * COLUMNS - ROWS + 1 \in 1 .. ROWS /\ COLUMNS \in 1 .. COLUMNS
      BY <2>1, <2>5, MeshAssumption
    <3>4. r \in Routers /\ FacesTerminal(r, RIGHT) /\ RIGHT \in Interfaces
      BY <3>1, <3>2, <3>3
         DEF Routers, Interfaces, FacesTerminal, UP, RIGHT, DOWN, LEFT
    <3>5. TerminalOf(r, RIGHT) = t
      BY <2>1, <3>2, MeshAssumption DEF TerminalOf, UP, RIGHT, DOWN, LEFT
    <3>. QED
      BY <3>4, <3>5
  <2>6. t \in Nat /\ ROWS \in Nat /\ COLUMNS \in Nat
    BY <2>1, MeshAssumption
  <2>. QED
    BY <2>2, <2>3, <2>4, <2>5, <2>6
<1>2. \E p \in Ports : FacesTerminal(p[1], p[2]) /\ TerminalOf(p[1], p[2]) = t
  <2>1. PICK r \in Routers, i \in Interfaces : FacesTerminal(r, i) /\ TerminalOf(r, i) = t
    BY <1>1
  <2>2. PICK p : p = <<r, i>>
    OBVIOUS
  <2>3. p \in Ports /\ p[1] = r /\ p[2] = i
    BY <2>2 DEF Ports
  <2>. QED
    BY <2>1, <2>3
<1>3. PortOf[t] = CHOOSE p \in Ports : FacesTerminal(p[1], p[2])
                                       /\ TerminalOf(p[1], p[2]) = t
  BY DEF PortOf
<1>4. /\ PortOf[t] \in Ports /\ FacesTerminal(PortOf[t][1], PortOf[t][2])
      /\ TerminalOf(PortOf[t][1], PortOf[t][2]) = t
  BY <1>2, <1>3
<1>. QED
  BY <1>4 DEF Ports

LEMMA TerminalOfPort ==
  ASSUME NEW r \in Routers, NEW i \in Interfaces, FacesTerminal(r, i)
  PROVE  PortOf[TerminalOf(r, i)] = <<r, i>>
BY TerminalType, TerminalIsInjective, PortOfTerminal
-----------------------------------------------------------------------------
(***************************************************************************)
(* Types.                                                                  *)
(***************************************************************************)
\* The queues that Offer updates in place have an entry per terminal.
Types == TypeOK /\ DOMAIN fifo_in = Terminals /\ DOMAIN received = Terminals

LEMMA FlitTypes ==
  /\ \A t \in Terminals : FlitsOf(t) \subseteq AllFlits /\ ZeroFlit(t) \in FlitsOf(t)
  /\ Zero \in AllFlits
<1>1. 0 \in Terminals
  BY MeshAssumption DEF Terminals
<1>2. \A t \in Terminals : FlitsOf(t) \subseteq AllFlits /\ ZeroFlit(t) \in FlitsOf(t)
  BY DEF AllFlits, FlitsOf
<1>. QED
  BY <1>1, <1>2 DEF Zero

\* What a router reads is a flit.
LEMMA DataInType ==
  ASSUME Types, NEW r \in Routers
  PROVE  DataIn(r) \in AllFlits
<1>1. trn[r] \in Interfaces
  BY DEF Types, TypeOK
<1>2. CASE FacesTerminal(r, trn[r])
  BY <1>1, <1>2, TerminalType, FlitTypes DEF DataIn, Types, TypeOK
<1>3. CASE ~ FacesTerminal(r, trn[r])
  <2>1. PICK s : s = Source(r, trn[r])
    OBVIOUS
  <2>2. s \in Ports
    BY <1>1, <1>3, <2>1, SourceIsInner
  <2>3. count[s] \in 0 .. Depth /\ q[s] \in [1 .. Depth -> AllFlits]
    BY <2>2 DEF Types, TypeOK, Fifo!Cells
  <2>4. Dout(s) \in AllFlits
    BY <2>3, FlitTypes, DepthAssumption DEF Dout, Fifo!Dout
  <2>. QED
    BY <1>3, <2>1, <2>4 DEF DataIn
<1>. QED
  BY <1>2, <1>3

\* What a capture leaves in the registers are flits.
LEMMA CaptureType ==
  ASSUME Types, NEW rising, Capture(rising)
  PROVE  q' \in [Ports -> [Fifo!Cells -> AllFlits]]
<1>1. ASSUME NEW p \in Ports
      PROVE  Fifo!Shifted(q[p], DataIn(p[1])) \in [1 .. Depth -> AllFlits]
  <2>1. DataIn(p[1]) \in AllFlits
    BY DataInType DEF Ports
  <2>2. q[p] \in [1 .. Depth -> AllFlits]
    BY DEF Types, TypeOK, Fifo!Cells
  <2>. QED
    BY <2>1, <2>2, DepthAssumption DEF Fifo!Shifted, Fifo!Cells
<1>. QED
  BY <1>1 DEF Capture, Types, TypeOK, Fifo!Cells

LEMMA PortsFinite == IsFiniteSet(Routers) /\ IsFiniteSet(Ports)
<1>1. IsFiniteSet(1 .. ROWS) /\ IsFiniteSet(1 .. COLUMNS) /\ IsFiniteSet(0 .. 3)
  <2>1. ROWS \in Int /\ COLUMNS \in Int /\ 0 \in Int /\ 1 \in Int /\ 3 \in Int
    BY MeshAssumption
  <2>2. IsFiniteSet(1 .. ROWS)
    BY <2>1, FS_Interval
  <2>3. IsFiniteSet(1 .. COLUMNS)
    BY <2>1, FS_Interval
  <2>4. IsFiniteSet(0 .. 3)
    BY <2>1, FS_Interval
  <2>. QED
    BY <2>2, <2>3, <2>4
<1>2. IsFiniteSet(Routers)
  BY <1>1, FS_Product DEF Routers
<1>. QED
  BY <1>1, <1>2, FS_Product DEF Ports, Interfaces

\* What a rising edge does with a router.
LEMMA RouterEdge ==
  ASSUME Types, RoutersStep, NEW r \in Routers
  PROVE  /\ st'[r] = IF PndngI(r) = {} THEN st[r]
                     ELSE IF st[r] = "rst"
                          THEN IF trn[r] \in PndngI(r) THEN "psh1" ELSE "cnt1"
                     ELSE IF st[r] = "psh1" THEN "pop1"
                     ELSE IF st[r] = "pop1" THEN "cnt1" ELSE "rst"
         /\ st'[r] \in {"rst", "psh1", "pop1", "cnt1"}
         /\ trn'[r] \in Interfaces
         /\ \/ st[r] = "psh1"
            \/ st[r] = "rst" /\ trn[r] \in PndngI(r)
            => trn'[r] = trn[r]
<1>1. st[r] \in {"rst", "psh1", "pop1", "cnt1"} /\ trn[r] \in {0, 1, 2, 3}
  BY DEF Types, TypeOK, Interfaces
<1>2. st'[r] = IF PndngI(r) # {} THEN Arbiter(r)!nxt_st ELSE st[r]
  BY DEF RoutersStep, Arbiter!Clocked
<1>3. Arbiter(r)!nxt_st = IF st[r] = "rst"
                          THEN IF trn[r] \in PndngI(r) THEN "psh1" ELSE "cnt1"
                          ELSE IF st[r] = "psh1" THEN "pop1"
                          ELSE IF st[r] = "pop1" THEN "cnt1" ELSE "rst"
  BY <1>1 DEF Arbiter!nxt_st
<1>4. trn'[r] = IF Arbiter(r)!TurnEdges(PndngI(r)') = 1
                THEN Arbiter(r)!After(trn[r]) ELSE trn[r]
  BY DEF RoutersStep
<1>5. Arbiter(r)!After(trn[r]) \in 0 .. 3
  BY <1>1 DEF Arbiter!After
<1>6. st[r] = "psh1" \/ (st[r] = "rst" /\ trn[r] \in PndngI(r))
        => Arbiter(r)!TurnEdges(PndngI(r)') = 0
  BY <1>1, <1>3 DEF Arbiter!TurnEdges, Arbiter!Clocked
<1>. QED
  BY <1>1, <1>2, <1>3, <1>4, <1>5, <1>6 DEF Interfaces

LEMMA InitTypes == Init => Types
<1>. SUFFICES ASSUME Init PROVE Types
  OBVIOUS
<1>1. q \in [Ports -> [Fifo!Cells -> AllFlits]] /\ count \in [Ports -> 0 .. Depth]
  BY FlitTypes, DepthAssumption DEF Init, Fifo!Cleared
<1>2. /\ st \in [Routers -> {"rst", "psh1", "pop1", "cnt1"}]
      /\ trn \in [Routers -> Interfaces] /\ popped \in [Routers -> SUBSET Interfaces]
  BY DEF Init, Interfaces
<1>3. ASSUME NEW t \in Terminals
      PROVE  /\ fifo_in[t] \in Seq(FlitsOf(t)) /\ received[t] \in 0 .. Len(Script[t])
             /\ pndng_in[t] \in BOOLEAN /\ data_in[t] \in FlitsOf(t)
             /\ mon[t] \in {"wait", "ack"} /\ outs[t] \in Seq(AllFlits)
  <2>1. Len(Script[t]) \in Nat
    BY ScriptAssumption
  <2>. QED
    BY <2>1, FlitTypes DEF Init
<1>. QED
  BY <1>1, <1>2, <1>3 DEF Types, TypeOK, Init

LEMMA OfferTypes ==
  ASSUME Types, NEW t \in Terminals, Offer(t)
  PROVE  Types'
<1>1. Len(Script[t]) \in Nat /\ received[t] \in Nat /\ received[t] < Len(Script[t])
  BY ScriptAssumption DEF Types, TypeOK, Offer
<1>2. ScriptFlit(t, received[t] + 1) \in FlitsOf(t)
  BY <1>1 DEF FlitsOf
<1>3. \A u \in Terminals : u # t => fifo_in'[u] = fifo_in[u] /\ received'[u] = received[u]
  BY DEF Offer, Types
<1>4. /\ fifo_in'[t] = Append(fifo_in[t], ScriptFlit(t, received[t] + 1))
      /\ received'[t] = received[t] + 1
  BY DEF Offer, Types
<1>5. fifo_in'[t] \in Seq(FlitsOf(t)) /\ received'[t] \in 0 .. Len(Script[t])
  BY <1>1, <1>2, <1>4 DEF Types, TypeOK
<1>6. DOMAIN fifo_in' = Terminals /\ DOMAIN received' = Terminals
  BY DEF Offer, Types
<1>7. UNCHANGED <<clk, st, trn, psh, q, count, pndng_in, data_in, mon, popped, outs, lost,
                  glitched>>
  BY DEF Offer, fifos, history
<1>. QED
  BY <1>3, <1>5, <1>6, <1>7 DEF Types, TypeOK

LEMMA ClockRisesTypes ==
  ASSUME Types, ClockRises
  PROVE  Types'
<1>1. count' \in [Ports -> 0 .. Depth]
  <2>1. ASSUME NEW p \in Ports PROVE NextCount(p) \in 0 .. Depth
    <3>1. count[p] \in 0 .. Depth
      BY DEF Types, TypeOK
    <3>. QED
      BY <3>1, DepthAssumption DEF NextCount, Fifo!NextCount
  <2>. QED
    BY <2>1 DEF ClockRises
<1>2. lost' \in Nat
  <2>1. IsFiniteSet(Overwritten) /\ IsFiniteSet(Sinking)
    BY PortsFinite, FS_Subset DEF Overwritten, Sinking, Types, TypeOK
  <2>2. Cardinality(Overwritten) \in Nat /\ Cardinality(Sinking) \in Nat
    BY <2>1, FS_CardinalityType
  <2>. QED
    BY <2>2 DEF ClockRises, Types, TypeOK
<1>3. /\ st' \in [Routers -> {"rst", "psh1", "pop1", "cnt1"}]
      /\ trn' \in [Routers -> Interfaces] /\ popped' \in [Routers -> SUBSET Interfaces]
  <2>1. RoutersStep
    BY DEF ClockRises
  <2>2. \A r \in Routers : PoppedBy(r) \in SUBSET Interfaces
    BY DEF PoppedBy, Types, TypeOK
  <2>. QED
    BY <2>1, <2>2, RouterEdge DEF RoutersStep
<1>4. ASSUME NEW t \in Terminals
      PROVE  /\ fifo_in'[t] \in Seq(FlitsOf(t)) /\ received'[t] \in 0 .. Len(Script[t])
             /\ pndng_in'[t] \in BOOLEAN /\ data_in'[t] \in FlitsOf(t)
             /\ mon'[t] \in {"wait", "ack"} /\ outs'[t] \in Seq(AllFlits)
  <2>1. DriversStep /\ MonitorsStep
    BY DEF ClockRises
  <2>2. fifo_in[t] \in Seq(FlitsOf(t)) /\ data_in[t] \in FlitsOf(t)
    BY DEF Types, TypeOK
  <2>3. fifo_in'[t] \in Seq(FlitsOf(t))
    BY <2>1, <2>2 DEF DriversStep, Driver!Pops
  <2>4. data_in'[t] \in FlitsOf(t)
    BY <2>1, <2>2 DEF DriversStep, Driver!Presented
  <2>5. Dout(PortOf[t]) \in AllFlits
    <3>1. PortOf[t] \in Ports
      BY PortOfTerminal
    <3>2. count[PortOf[t]] \in 0 .. Depth /\ q[PortOf[t]] \in [1 .. Depth -> AllFlits]
      BY <3>1 DEF Types, TypeOK, Fifo!Cells
    <3>. QED
      BY <3>2, FlitTypes, DepthAssumption DEF Dout, Fifo!Dout
  <2>6. outs'[t] \in Seq(AllFlits) /\ mon'[t] \in {"wait", "ack"}
    BY <2>1, <2>5 DEF MonitorsStep, Types, TypeOK
  <2>7. received'[t] \in 0 .. Len(Script[t]) /\ pndng_in'[t] \in BOOLEAN
    BY <2>1 DEF DriversStep, Types, TypeOK
  <2>. QED
    BY <2>3, <2>4, <2>6, <2>7
<1>5. psh' \subseteq Ports /\ clk' = TRUE /\ glitched' = glitched /\ q' = q
  BY DEF ClockRises, PshWires
<1>6. DOMAIN fifo_in' = Terminals /\ DOMAIN received' = Terminals
  BY DEF ClockRises, DriversStep, Types
<1>. QED
  BY <1>1, <1>2, <1>3, <1>4, <1>5, <1>6 DEF Types, TypeOK

LEMMA TypesStep == Types /\ [Next]_vars => Types'
<1>. SUFFICES ASSUME Types, [Next]_vars PROVE Types'
  OBVIOUS
<1>1. CASE ClockFalls
  <2>1. q' \in [Ports -> [Fifo!Cells -> AllFlits]]
    BY <1>1, CaptureType DEF ClockFalls
  <2>. QED
    BY <1>1, <2>1 DEF ClockFalls, drivers, history, Types, TypeOK
<1>2. CASE Settle
  <2>1. q' \in [Ports -> [Fifo!Cells -> AllFlits]]
    BY <1>2, CaptureType DEF Settle
  <2>2. psh' \subseteq Ports
    BY <1>2 DEF Settle, PshWires
  <2>. QED
    BY <1>2, <2>1, <2>2 DEF Settle, drivers, Types, TypeOK
<1>3. CASE ClockRises
  BY <1>3, ClockRisesTypes
<1>4. CASE \E t \in Terminals : Offer(t)
  BY <1>4, OfferTypes
<1>5. CASE UNCHANGED vars
  BY <1>5 DEF vars, fifos, drivers, history, Types, TypeOK
<1>. QED
  BY <1>1, <1>2, <1>3, <1>4, <1>5 DEF Next, Clock

\* Every state of the mesh is one its registers can hold, whatever the size of the
\* mesh, the depth of the FIFOs and the flits offered.
THEOREM TypeCorrect == Spec => []TypeOK
<1>1. Types => TypeOK
  BY DEF Types
<1>. QED
  BY <1>1, InitTypes, TypesStep, PTL DEF Spec

-----------------------------------------------------------------------------
(***************************************************************************)
(* Who pops whom.                                                          *)
(***************************************************************************)
\* The FIFO of a terminal is popped by its monitor only.
LEMMA MonitorPops ==
  ASSUME NEW t \in Terminals
  PROVE  PortOf[t] \in PoppedPorts <=> mon[t] = "ack"
<1>1. mon[t] = "ack" => PortOf[t] \in PoppedPorts
  BY DEF PoppedPorts
<1>2. ASSUME NEW p \in Ports, ~ FacesTerminal(p[1], p[2]), PortOf[t] = Source(p[1], p[2])
      PROVE  FALSE
  <2>1. p[1] \in Routers /\ p[2] \in Interfaces
    BY DEF Ports
  <2>2. ~ FacesTerminal(PortOf[t][1], PortOf[t][2])
    BY <1>2, <2>1, SourceIsInner
  <2>. QED
    BY <2>2, PortOfTerminal
<1>3. ASSUME NEW u \in Terminals, PortOf[t] = PortOf[u]
      PROVE  t = u
  BY <1>3, PortOfTerminal
<1>. QED
  BY <1>1, <1>2, <1>3 DEF PoppedPorts

\* Any other FIFO is popped by the router that reads it only.
LEMMA RouterPops ==
  ASSUME NEW r \in Routers, NEW i \in Interfaces, ~ FacesTerminal(r, i)
  PROVE  Source(r, i) \in PoppedPorts <=> st[r] = "pop1" /\ trn[r] = i
<1>1. PICK p : p = <<r, i>>
  OBVIOUS
<1>2. p \in Ports /\ p[1] = r /\ p[2] = i
  BY <1>1 DEF Ports
<1>3. st[r] = "pop1" /\ trn[r] = i => Source(r, i) \in PoppedPorts
  BY <1>2 DEF PoppedPorts, PoppedBy
<1>4. ASSUME NEW t \in Terminals, Source(r, i) = PortOf[t]
      PROVE  FALSE
  BY <1>4, SourceIsInner, PortOfTerminal
<1>5. ASSUME NEW o \in Ports, Source(r, i) = Source(o[1], o[2]), o[2] \in PoppedBy(o[1])
      PROVE  st[r] = "pop1" /\ trn[r] = i
  <2>1. o[1] \in Routers /\ o[2] \in Interfaces
    BY DEF Ports
  <2>2. o[1] = r /\ o[2] = i
    BY <1>5, <2>1, SourceIsInjective
  <2>. QED
    BY <1>5, <2>2 DEF PoppedBy
<1>. QED
  BY <1>3, <1>4, <1>5 DEF PoppedPorts

\* What is popped is the FIFO of a terminal or one a router reads.
LEMMA PoppedSource ==
  ASSUME NEW p \in PoppedPorts
  PROVE  \/ \E t \in Terminals : p = PortOf[t] /\ mon[t] = "ack"
         \/ \E r \in Routers, i \in Interfaces :
              /\ ~ FacesTerminal(r, i) /\ p = Source(r, i)
              /\ st[r] = "pop1" /\ trn[r] = i
<1>1. ASSUME NEW o \in Ports, p = Source(o[1], o[2]), o[2] \in PoppedBy(o[1]),
             ~ FacesTerminal(o[1], o[2])
      PROVE  \E r \in Routers, i \in Interfaces :
              /\ ~ FacesTerminal(r, i) /\ p = Source(r, i)
              /\ st[r] = "pop1" /\ trn[r] = i
  <2>1. o[1] \in Routers /\ o[2] \in Interfaces
    BY DEF Ports
  <2>2. st[o[1]] = "pop1" /\ trn[o[1]] = o[2]
    BY <1>1 DEF PoppedBy
  <2>. QED
    BY <1>1, <2>1, <2>2
<1>. QED
  BY <1>1 DEF PoppedPorts

-----------------------------------------------------------------------------
(***************************************************************************)
(* Routers and monitors at work.                                           *)
(***************************************************************************)
\* psh is up only at routers that push.
PushingOnly == \A p \in psh : st[p[1]] = "psh1"

\* From push to pop the source stays pending.
GrantPending == \A r \in Routers : st[r] \in {"psh1", "pop1"} => trn[r] \in PndngI(r)

\* The router whose pop emptied a driver is in cnt1 as long as the driver still
\* shows the old pndng_in, and only such a router has just popped.
EmptiedDriver ==
  \A t \in Terminals :
    pndng_in[t] /\ fifo_in[t] = <<>> => PortOf[t][2] \in popped[PortOf[t][1]]

JustPopped == \A r \in Routers : popped[r] # {} => st[r] = "cnt1"

\* A monitor sees a flit in the cycle in which the router that wrote it pops its
\* source, and takes it in the next one, while the router does nothing.
MonitorInStep ==
  \A t \in Terminals :
    LET p == PortOf[t]
    IN  /\ mon[t] = "ack" => count[p] = 1 /\ st[p[1]] = "cnt1"
        /\ mon[t] = "wait" /\ count[p] # 0 => count[p] = 1 /\ st[p[1]] = "pop1"

InStep == /\ Types /\ PushingOnly /\ GrantPending /\ EmptiedDriver
          /\ JustPopped /\ MonitorInStep

LEMMA InitInStep == Init => InStep
<1>. SUFFICES ASSUME Init PROVE InStep
  OBVIOUS
<1>1. Types
  BY InitTypes
<1>2. PushingOnly /\ GrantPending /\ EmptiedDriver /\ JustPopped
  BY DEF Init, PushingOnly, GrantPending, EmptiedDriver, JustPopped
<1>3. ASSUME NEW t \in Terminals
      PROVE  mon[t] = "wait" /\ count[PortOf[t]] = 0
  BY PortOfTerminal DEF Init
<1>4. MonitorInStep
  BY <1>3 DEF MonitorInStep
<1>. QED
  BY <1>1, <1>2, <1>4 DEF InStep

\* Between two rising edges nothing pending changes.
LEMMA PndngIUnchanged ==
  ASSUME UNCHANGED <<count, pndng_in>>
  PROVE  \A r \in Routers : PndngI(r)' = PndngI(r)
BY DEF PndngI, Fifo!Pndng

\* At a rising edge an interface fed by a router that was not popped stays pending.
LEMMA InnerStaysPending ==
  ASSUME Types, ClockRises, NEW r \in Routers, NEW i \in PndngI(r),
         ~ FacesTerminal(r, i), ~ (st[r] = "pop1" /\ trn[r] = i)
  PROVE  i \in PndngI(r)'
<1>1. i \in Interfaces
  BY DEF PndngI
<1>2. PICK s : s = Source(r, i)
  OBVIOUS
<1>3. s \in Ports /\ s \notin PoppedPorts
  <2>1. s \in Ports
    BY <1>1, <1>2, SourceIsInner
  <2>2. s \notin PoppedPorts
    BY <1>1, <1>2, RouterPops
  <2>. QED
    BY <2>1, <2>2
<1>4. count[s] \in 0 .. Depth /\ count[s] # 0
  BY <1>2, <1>3 DEF PndngI, Fifo!Pndng, Types, TypeOK
<1>5. count'[s] = NextCount(s)
  BY <1>3 DEF ClockRises
<1>6. count'[s] # 0
  BY <1>3, <1>4, <1>5, DepthAssumption DEF NextCount, Fifo!NextCount
<1>. QED
  BY <1>1, <1>2, <1>6 DEF PndngI, Fifo!Pndng

\* And one fed by a driver, unless the router has just popped it.
LEMMA FedStaysPending ==
  ASSUME InStep, ClockRises, NEW r \in Routers, NEW i \in PndngI(r),
         FacesTerminal(r, i), i \notin popped[r]
  PROVE  i \in PndngI(r)'
<1>1. i \in Interfaces
  BY DEF PndngI
<1>2. PICK t : t = TerminalOf(r, i)
  OBVIOUS
<1>3. t \in Terminals /\ PortOf[t] = <<r, i>>
  BY <1>1, <1>2, TerminalType, TerminalOfPort
<1>4. pndng_in[t] /\ PortOf[t][1] = r /\ PortOf[t][2] = i
  BY <1>2, <1>3 DEF PndngI
<1>5. fifo_in[t] # <<>>
  BY <1>3, <1>4 DEF InStep, EmptiedDriver
<1>6. pndng_in'[t]
  BY <1>3, <1>5 DEF ClockRises, DriversStep
<1>. QED
  BY <1>1, <1>2, <1>6 DEF PndngI

LEMMA ClockRisesInStep ==
  ASSUME InStep, ClockRises
  PROVE  InStep'
<1>1. Types /\ RoutersStep /\ DriversStep /\ MonitorsStep
  BY DEF InStep, ClockRises
<1>2. Types'
  BY <1>1, ClockRisesTypes
<1>3. PushingOnly'
  BY DEF ClockRises, PushingOnly, PshWires
<1>4. ASSUME NEW r \in Routers, st'[r] \in {"psh1", "pop1"}
      PROVE  /\ trn[r] \in PndngI(r) /\ trn'[r] = trn[r]
             /\ st[r] = (IF st'[r] = "psh1" THEN "rst" ELSE "psh1")
  BY <1>1, <1>4, RouterEdge DEF InStep, GrantPending, Types, TypeOK
<1>5. GrantPending'
  <2>1. ASSUME NEW r \in Routers, st'[r] \in {"psh1", "pop1"}
        PROVE  trn'[r] \in PndngI(r)'
    <3>1. st[r] # "pop1" /\ st[r] # "cnt1" /\ trn[r] \in PndngI(r) /\ trn'[r] = trn[r]
      BY <1>4, <2>1
    <3>2. trn[r] \notin popped[r]
      BY <3>1 DEF InStep, JustPopped
    <3>3. CASE FacesTerminal(r, trn[r])
      BY <3>1, <3>2, <3>3, FedStaysPending
    <3>4. CASE ~ FacesTerminal(r, trn[r])
      BY <3>1, <3>4, InnerStaysPending DEF InStep
    <3>. QED
      BY <3>1, <3>3, <3>4
  <2>. QED
    BY <2>1 DEF GrantPending
<1>6. ASSUME NEW r \in Routers, st[r] = "pop1"
      PROVE  st'[r] = "cnt1"
  BY <1>1, <1>6, RouterEdge DEF InStep, GrantPending
<1>7. JustPopped'
  BY <1>1, <1>6 DEF JustPopped, RoutersStep, PoppedBy
<1>8. EmptiedDriver'
  <2>1. ASSUME NEW t \in Terminals, pndng_in'[t], fifo_in'[t] = <<>>
        PROVE  PortOf[t][2] \in popped'[PortOf[t][1]]
    <3>1. fifo_in[t] # <<>>
      BY <1>1, <2>1 DEF DriversStep
    <3>2. Driver(t)!Pops(fifo_in[t])
      BY <1>1, <2>1, <3>1 DEF DriversStep
    <3>3. GrantOf(t) = "pop"
      BY <3>2 DEF Driver!Pops, Driver!popin
    <3>4. st[PortOf[t][1]] = "pop1" /\ trn[PortOf[t][1]] = PortOf[t][2]
      BY <3>3 DEF GrantOf
    <3>. QED
      BY <1>1, <3>4, PortOfTerminal DEF RoutersStep, PoppedBy
  <2>. QED
    BY <2>1 DEF EmptiedDriver
<1>9. MonitorInStep'
  <2>1. ASSUME NEW t \in Terminals, NEW p, p = PortOf[t]
        PROVE  /\ mon'[t] = "ack" => count'[p] = 1 /\ st'[p[1]] = "cnt1"
               /\ mon'[t] = "wait" /\ count'[p] # 0
                    => count'[p] = 1 /\ st'[p[1]] = "pop1"
    <3>1. p \in Ports /\ p[1] \in Routers
      BY <2>1, PortOfTerminal
    <3>2. mon'[t] = IF mon[t] = "wait" /\ count[p] # 0 THEN "ack" ELSE "wait"
      BY <1>1, <2>1 DEF MonitorsStep, Sees, Fifo!Pndng
    <3>3. /\ count[p] \in 0 .. Depth /\ mon[t] \in {"wait", "ack"}
          /\ count'[p] = NextCount(p)
      BY <3>1 DEF InStep, Types, TypeOK, ClockRises
    <3>4. p \in PoppedPorts <=> mon[t] = "ack"
      BY <2>1, MonitorPops
    <3>5. p \in psh => st[p[1]] = "psh1"
      BY DEF InStep, PushingOnly
    <3>6. CASE mon[t] = "ack"
      <4>1. count[p] = 1 /\ st[p[1]] = "cnt1"
        BY <2>1, <3>6 DEF InStep, MonitorInStep
      <4>2. count'[p] = 0
        BY <3>3, <3>4, <3>5, <3>6, <4>1 DEF NextCount, Fifo!NextCount
      <4>. QED
        BY <3>2, <3>6, <4>2
    <3>7. CASE mon[t] = "wait" /\ count[p] = 0
      <4>1. count'[p] = IF p \in psh THEN 1 ELSE 0
        BY <3>3, <3>4, <3>7, DepthAssumption DEF NextCount, Fifo!NextCount
      <4>2. ASSUME p \in psh PROVE st'[p[1]] = "pop1"
        <5>1. st[p[1]] = "psh1" /\ PndngI(p[1]) # {}
          BY <3>1, <3>5, <4>2 DEF InStep, GrantPending
        <5>. QED
          BY <1>1, <3>1, <5>1, RouterEdge
      <4>. QED
        BY <3>2, <3>7, <4>1, <4>2
    <3>8. CASE mon[t] = "wait" /\ count[p] # 0
      <4>1. count[p] = 1 /\ st[p[1]] = "pop1"
        BY <2>1, <3>8 DEF InStep, MonitorInStep
      <4>2. count'[p] = 1
        BY <3>3, <3>4, <3>5, <3>8, <4>1 DEF NextCount, Fifo!NextCount
      <4>. QED
        BY <1>6, <3>1, <3>2, <3>8, <4>1, <4>2
    <3>. QED
      BY <3>3, <3>6, <3>7, <3>8
  <2>. QED
    BY <2>1 DEF MonitorInStep
<1>. QED
  BY <1>2, <1>3, <1>5, <1>7, <1>8, <1>9 DEF InStep

LEMMA InStepStep == InStep /\ [Next]_vars => InStep'
<1>. SUFFICES ASSUME InStep, [Next]_vars PROVE InStep'
  OBVIOUS
<1>1. Types'
  BY TypesStep DEF InStep
<1>2. CASE ClockRises
  BY <1>2, ClockRisesInStep
<1>3. ASSUME UNCHANGED <<st, trn, count, pndng_in, popped, mon>>, PushingOnly',
             EmptiedDriver'
      PROVE  InStep'
  <2>1. GrantPending'
    BY <1>3, PndngIUnchanged DEF InStep, GrantPending
  <2>2. JustPopped' /\ MonitorInStep'
    BY <1>3 DEF InStep, JustPopped, MonitorInStep
  <2>. QED
    BY <1>1, <1>3, <2>1, <2>2 DEF InStep
<1>4. CASE ClockFalls
  BY <1>3, <1>4 DEF ClockFalls, drivers, history, InStep, PushingOnly, EmptiedDriver
<1>5. CASE Settle
  <2>1. UNCHANGED <<st, trn, count, pndng_in, popped, mon, fifo_in>> /\ psh' = PshWires
    BY <1>5 DEF Settle, drivers
  <2>2. PushingOnly'
    BY <2>1 DEF PushingOnly, PshWires
  <2>3. EmptiedDriver'
    BY <2>1 DEF InStep, EmptiedDriver
  <2>. QED
    BY <1>3, <2>1, <2>2, <2>3
<1>6. CASE \E t \in Terminals : Offer(t)
  <2>1. PICK t \in Terminals : Offer(t)
    BY <1>6
  <2>2. UNCHANGED <<st, trn, count, pndng_in, popped, mon, psh>>
    BY <2>1 DEF Offer, history, fifos
  <2>3. \A u \in Terminals : fifo_in'[u] = <<>> => fifo_in[u] = <<>>
    <3>1. \A u \in Terminals : u # t => fifo_in'[u] = fifo_in[u]
      BY <2>1 DEF Offer, InStep, Types
    <3>2. fifo_in'[t] = Append(fifo_in[t], ScriptFlit(t, received[t] + 1))
      BY <2>1 DEF Offer, InStep, Types
    <3>3. fifo_in'[t] # <<>>
      <4>1. Len(Script[t]) \in Nat /\ received[t] \in Nat /\ received[t] < Len(Script[t])
        BY <2>1, ScriptAssumption DEF Offer, InStep, Types, TypeOK
      <4>2. PICK f : f = ScriptFlit(t, received[t] + 1)
        OBVIOUS
      <4>3. f \in FlitsOf(t) /\ fifo_in[t] \in Seq(FlitsOf(t))
        BY <4>1, <4>2 DEF FlitsOf, InStep, Types, TypeOK
      <4>4. Len(Append(fifo_in[t], f)) > 0
        BY <4>3
      <4>5. Len(fifo_in'[t]) > 0
        BY <3>2, <4>2, <4>4
      <4>6. Len(<<>>) = 0
        OBVIOUS
      <4>. QED
        BY <4>5, <4>6
    <3>. QED
      BY <3>1, <3>3
  <2>4. PushingOnly' /\ EmptiedDriver'
    BY <2>2, <2>3 DEF InStep, PushingOnly, EmptiedDriver
  <2>. QED
    BY <1>3, <2>2, <2>4
<1>7. CASE UNCHANGED vars
  BY <1>3, <1>7 DEF vars, fifos, drivers, history, InStep, PushingOnly, EmptiedDriver
<1>. QED
  BY <1>2, <1>4, <1>5, <1>6, <1>7 DEF Next, Clock

\* "pop |-> pndng" (router_if), for every mesh: neither a router nor a monitor ever
\* pops an empty FIFO.
THEOREM PopIsPendingCorrect == Spec => []PopIsPending
<1>1. InStep => PopIsPending
  <2>. SUFFICES ASSUME InStep, NEW p \in PoppedPorts PROVE count[p] > 0
    BY DEF PopIsPending
  <2>1. CASE \E t \in Terminals : p = PortOf[t] /\ mon[t] = "ack"
    BY <2>1 DEF InStep, MonitorInStep
  <2>2. CASE \E r \in Routers, i \in Interfaces :
               /\ ~ FacesTerminal(r, i) /\ p = Source(r, i)
               /\ st[r] = "pop1" /\ trn[r] = i
    <3>1. PICK r \in Routers, i \in Interfaces :
               /\ ~ FacesTerminal(r, i) /\ p = Source(r, i)
               /\ st[r] = "pop1" /\ trn[r] = i
      BY <2>2
    <3>2. p \in Ports
      BY <3>1, SourceIsInner
    <3>3. count[p] \in 0 .. Depth /\ count[p] # 0
      BY <3>1, <3>2 DEF InStep, GrantPending, PndngI, Fifo!Pndng, Types, TypeOK
    <3>. QED
      BY <3>3, DepthAssumption
  <2>. QED
    BY <2>1, <2>2, PoppedSource
<1>. QED
  BY <1>1, InitInStep, InStepStep, PTL DEF Spec

\* The monitor keeps up in every mesh: the FIFO of its terminal never holds a second
\* flit, and no router writes it in the cycle in which the monitor looks.
THEOREM MonitorKeepsUpCorrect == Spec => []MonitorKeepsUp
<1>1. InStep => MonitorKeepsUp
  <2>. SUFFICES ASSUME InStep, NEW t \in Terminals
                PROVE  count[PortOf[t]] <= 1 /\ (Sees(t) => PortOf[t] \notin psh)
    BY DEF MonitorKeepsUp
  <2>1. PICK p : p = PortOf[t]
    OBVIOUS
  <2>2. p \in Ports /\ count[p] \in 0 .. Depth /\ mon[t] \in {"wait", "ack"}
    BY <2>1, PortOfTerminal DEF InStep, Types, TypeOK
  <2>3. count[p] = 0 \/ count[p] = 1
    BY <2>1, <2>2 DEF InStep, MonitorInStep
  <2>4. mon[t] = "wait" /\ count[p] # 0 => st[p[1]] = "pop1"
    BY <2>1 DEF InStep, MonitorInStep
  <2>5. Sees(t) => p \notin psh
    BY <2>1, <2>4 DEF InStep, PushingOnly, Sees, Fifo!Pndng
  <2>. QED
    BY <2>1, <2>3, <2>5
<1>. QED
  BY <1>1, InitInStep, InStepStep, PTL DEF Spec

-----------------------------------------------------------------------------
(***************************************************************************)
(* What lies in the FIFOs.                                                 *)
(***************************************************************************)
\* While clk is low a FIFO that captured holds one flit more than its counter says.
Held(p) == count[p] + (IF ~ clk /\ p \in psh THEN 1 ELSE 0)

Placed ==
  /\ Types
  /\ clk => psh = PshWires
  /\ \A p \in Ports : \A k \in 1 .. Depth : k <= Held(p) => Jump(p[1], q[p][k]) = p[2]

LEMMA InitPlaced == Init => Placed
<1>. SUFFICES ASSUME Init PROVE Placed
  OBVIOUS
<1>1. PshWires = {}
  <2>1. \A p \in Ports : st[p[1]] = "rst"
    BY DEF Init, Ports
  <2>. QED
    BY <2>1 DEF PshWires
<1>2. \A p \in Ports : Held(p) = 0
  BY DEF Init, Held
<1>3. \A k \in 1 .. Depth : ~ (k <= 0)
  BY DepthAssumption
<1>. QED
  BY <1>1, <1>2, <1>3, InitTypes DEF Init, Placed

\* A port whose psh wire rises shifts in a flit that belongs there.
LEMMA CapturePlaces ==
  ASSUME Placed, NEW rising, Capture(rising), NEW p \in Ports, NEW k \in 1 .. Depth,
         p \in rising, p \in PshWires, k <= count[p] + 1
  PROVE  Jump(p[1], q'[p][k]) = p[2]
<1>1. q'[p] = Fifo!Shifted(q[p], DataIn(p[1]))
  BY DEF Capture
<1>2. q'[p][k] = IF k = 1 THEN DataIn(p[1]) ELSE q[p][k - 1]
  BY <1>1 DEF Fifo!Shifted, Fifo!Cells
<1>3. CASE k = 1
  BY <1>2, <1>3 DEF PshWires
<1>4. CASE k # 1
  <2>1. count[p] \in Nat /\ Depth \in Nat
    BY DepthAssumption DEF Placed, Types, TypeOK
  <2>2. k - 1 \in 1 .. Depth /\ k - 1 <= count[p]
    BY <1>4, <2>1
  <2>3. k - 1 <= Held(p)
    BY <2>1, <2>2 DEF Held
  <2>. QED
    BY <1>2, <1>4, <2>2, <2>3 DEF Placed
<1>. QED
  BY <1>3, <1>4

LEMMA PlacedStep == Placed /\ [Next]_vars => Placed'
<1>. SUFFICES ASSUME Placed, [Next]_vars PROVE Placed'
  OBVIOUS
<1>1. Types'
  BY TypesStep DEF Placed
<1>2. \A p \in Ports : count[p] \in 0 .. Depth
  BY DEF Placed, Types, TypeOK
<1>3. CASE ClockFalls
  <2>1. clk /\ psh = PshWires /\ ~ clk' /\ psh' = psh /\ count' = count /\ Capture(psh)
    BY <1>3 DEF ClockFalls, Placed
  <2>2. ASSUME NEW p \in Ports, NEW k \in 1 .. Depth, k <= Held(p)'
        PROVE  Jump(p[1], q'[p][k]) = p[2]
    <3>1. CASE p \in psh
      <4>1. k <= count[p] + 1
        BY <2>1, <2>2, <3>1 DEF Held
      <4>. QED
        BY <2>1, <3>1, <4>1, CapturePlaces
    <3>2. CASE p \notin psh
      <4>1. q'[p] = q[p] /\ k <= Held(p)
        BY <2>1, <2>2, <3>2 DEF Held, Capture
      <4>. QED
        BY <4>1 DEF Placed
    <3>. QED
      BY <3>1, <3>2
  <2>. QED
    BY <1>1, <2>1, <2>2 DEF Placed
<1>4. CASE Settle
  <2>1. /\ ~ clk /\ ~ clk' /\ psh' = PshWires /\ count' = count
        /\ Capture(PshWires \ psh)
    BY <1>4 DEF Settle, Placed, Types, TypeOK
  <2>2. ASSUME NEW p \in Ports, NEW k \in 1 .. Depth, k <= Held(p)'
        PROVE  Jump(p[1], q'[p][k]) = p[2]
    <3>1. CASE p \in PshWires \ psh
      <4>1. k <= count[p] + 1
        BY <2>1, <2>2, <3>1 DEF Held
      <4>. QED
        BY <2>1, <3>1, <4>1, CapturePlaces
    <3>2. CASE p \notin PshWires \ psh
      <4>1. q'[p] = q[p]
        BY <2>1, <3>2 DEF Capture
      <4>2. k <= Held(p)
        BY <1>2, <2>1, <2>2, <3>2 DEF Held
      <4>. QED
        BY <4>1, <4>2 DEF Placed
    <3>. QED
      BY <3>1, <3>2
  <2>. QED
    BY <1>1, <2>1, <2>2 DEF Placed
<1>5. CASE ClockRises
  <2>1. /\ ~ clk /\ clk' /\ psh' = PshWires' /\ q' = q
        /\ \A p \in Ports : count'[p] = NextCount(p)
    BY <1>5 DEF ClockRises
  <2>2. ASSUME NEW p \in Ports, NEW k \in 1 .. Depth, k <= Held(p)'
        PROVE  Jump(p[1], q'[p][k]) = p[2]
    <3>1. k <= NextCount(p)
      <4>1. NextCount(p) \in Int
        BY <1>2, DepthAssumption DEF NextCount, Fifo!NextCount
      <4>. QED
        BY <2>1, <2>2, <4>1 DEF Held
    <3>2. NextCount(p) <= Held(p)
      BY <1>2, <2>1 DEF NextCount, Fifo!NextCount, Held
    <3>3. k <= Held(p)
      <4>1. NextCount(p) \in Int /\ Held(p) \in Int
        BY <1>2, DepthAssumption DEF NextCount, Fifo!NextCount, Held
      <4>. QED
        BY <3>1, <3>2, <4>1
    <3>. QED
      BY <2>1, <3>3 DEF Placed
  <2>. QED
    BY <1>1, <2>1, <2>2 DEF Placed
<1>6. ASSUME UNCHANGED <<clk, st, trn, psh, q, count, pndng_in, data_in>>
      PROVE  Placed'
  <2>1. \A r \in Routers : DataIn(r)' = DataIn(r)
    BY <1>6 DEF DataIn, Dout
  <2>2. PshWires' = PshWires
    BY <1>6, <2>1 DEF PshWires, Ports
  <2>3. \A p \in Ports : Held(p)' = Held(p)
    BY <1>6 DEF Held
  <2>. QED
    BY <1>1, <1>6, <2>2, <2>3 DEF Placed
<1>7. CASE \E t \in Terminals : Offer(t)
  BY <1>6, <1>7 DEF Offer, fifos
<1>8. CASE UNCHANGED vars
  BY <1>6, <1>8 DEF vars, fifos, drivers
<1>. QED
  BY <1>3, <1>4, <1>5, <1>7, <1>8 DEF Next, Clock

\* In every mesh a pending flit lies in the FIFO the routing table names, although
\* the heads that routers read may change in mid cycle.
THEOREM RoutedRightCorrect == Spec => []RoutedRight
<1>1. Placed => RoutedRight
  <2>. SUFFICES ASSUME Placed, NEW p \in Ports, NEW k \in 1 .. Depth, k <= count[p]
                PROVE  Jump(p[1], q[p][k]) = p[2]
    BY DEF RoutedRight, Fifo!Cells
  <2>1. count[p] \in Nat
    BY DepthAssumption DEF Placed, Types, TypeOK
  <2>2. k <= Held(p)
    BY <2>1 DEF Held
  <2>. QED
    BY <2>2 DEF Placed
<1>. QED
  BY <1>1, InitPlaced, PlacedStep, PTL DEF Spec

-----------------------------------------------------------------------------
(***************************************************************************)
(* The environments that the modules of the arbiter and the driver assume. *)
(***************************************************************************)
LEMMA ArbiterEdge ==
  ASSUME InStep, ClockRises, NEW r \in Routers
  PROVE  Arbiter(r)!ControlStep
<1>1. /\ st'[r] = IF Arbiter(r)!Clocked THEN Arbiter(r)!nxt_st ELSE st[r]
      /\ trn'[r] = IF Arbiter(r)!TurnEdges(PndngI(r)') = 1
                   THEN Arbiter(r)!After(trn[r]) ELSE trn[r]
      /\ popped'[r] = Arbiter(r)!popin
  BY DEF ClockRises, RoutersStep, PoppedBy, Arbiter!popin
<1>2. Arbiter(r)!ControlEdge(PndngI(r)')
  BY <1>1 DEF Arbiter!ControlEdge
<1>3. PndngI(r)' \in Arbiter(r)!NextPending
  <2>1. PndngI(r)' \subseteq Arbiter(r)!Ntrfs
    BY DEF PndngI, Interfaces, Arbiter!Ntrfs
  <2>2. ASSUME NEW i \in PndngI(r), i \notin Arbiter(r)!MayFall
        PROVE  i \in PndngI(r)'
    <3>1. i \in Interfaces
      BY DEF PndngI
    <3>2. CASE FacesTerminal(r, i)
      <4>1. i \notin popped[r]
        BY <2>2, <3>1, <3>2 DEF Arbiter!MayFall, FedInterfaces
      <4>. QED
        BY <3>2, <4>1, FedStaysPending
    <3>3. CASE ~ FacesTerminal(r, i)
      <4>1. ~ (st[r] = "pop1" /\ trn[r] = i)
        BY <2>2, <3>3 DEF Arbiter!MayFall, Arbiter!popin, FedInterfaces
      <4>. QED
        BY <3>3, <4>1, InnerStaysPending DEF InStep
    <3>. QED
      BY <3>2, <3>3
  <2>. QED
    BY <2>1, <2>2 DEF Arbiter!NextPending
<1>. QED
  BY <1>2, <1>3 DEF Arbiter!ControlStep

\* The routers of every mesh give each other the environment under which the module
\* RouterArbiter is proved right.
THEOREM ArbitersImplementedCorrect == Spec => ArbitersImplemented
<1>1. Init => \A r \in Routers : Arbiter(r)!ControlInit
  <2>. SUFFICES ASSUME Init, NEW r \in Routers PROVE Arbiter(r)!ControlInit
    OBVIOUS
  <2>1. ASSUME NEW i \in Interfaces PROVE i \notin PndngI(r)
    <3>1. CASE FacesTerminal(r, i)
      BY <3>1, TerminalType DEF Init, PndngI
    <3>2. CASE ~ FacesTerminal(r, i)
      <4>1. count[Source(r, i)] = 0
        BY <3>2, SourceIsInner DEF Init
      <4>. QED
        BY <3>2, <4>1 DEF PndngI, Fifo!Pndng
    <3>. QED
      BY <3>1, <3>2
  <2>2. PndngI(r) = {}
    BY <2>1 DEF PndngI
  <2>. QED
    BY <2>2 DEF Init, Arbiter!ControlInit
<1>2. InStep /\ [Next]_vars => [\A r \in Routers : Arbiter(r)!ControlStep]_vars
  <2>. SUFFICES ASSUME InStep, [Next]_vars
                PROVE  (\A r \in Routers : Arbiter(r)!ControlStep) \/ UNCHANGED vars
    OBVIOUS
  <2>1. CASE ClockRises
    BY <2>1, ArbiterEdge
  <2>2. ASSUME UNCHANGED <<st, trn, count, pndng_in, popped>>
        PROVE  \A r \in Routers : Arbiter(r)!ControlStep
    BY <2>2, PndngIUnchanged DEF Arbiter!ControlStep
  <2>3. CASE ClockFalls \/ Settle \/ \E t \in Terminals : Offer(t)
    BY <2>2, <2>3 DEF ClockFalls, Settle, Offer, drivers, history, fifos
  <2>. QED
    BY <2>1, <2>3 DEF Next, Clock
<1>. QED
  BY <1>1, <1>2, InitInStep, InStepStep, PTL DEF Spec, ArbitersImplemented

\* And they give the drivers the one under which Driver is proved right.
THEOREM DriversImplementedCorrect == Spec => DriversImplemented
<1>1. ASSUME InStep, ClockRises, NEW t \in Terminals
      PROVE  Driver(t)!Grant
  <2>1. PICK r, i : r = PortOf[t][1] /\ i = PortOf[t][2]
    OBVIOUS
  <2>2. r \in Routers /\ i \in Interfaces /\ FacesTerminal(r, i) /\ TerminalOf(r, i) = t
    BY <2>1, PortOfTerminal
  <2>3. /\ st[r] \in {"rst", "psh1", "pop1", "cnt1"} /\ popped'[r] = PoppedBy(r)
        /\ Types /\ RoutersStep
    BY <1>1, <2>2 DEF InStep, Types, TypeOK, ClockRises, RoutersStep
  <2>4. GrantOf(t) = IF trn[r] = i /\ st[r] = "psh1" THEN "psh"
                     ELSE IF trn[r] = i /\ st[r] = "pop1" THEN "pop"
                     ELSE IF i \in popped[r] THEN "cnt" ELSE "idle"
    BY <2>1 DEF GrantOf
  <2>5. GrantOf(t)' = IF trn'[r] = i /\ st'[r] = "psh1" THEN "psh"
                      ELSE IF trn'[r] = i /\ st'[r] = "pop1" THEN "pop"
                      ELSE IF i \in popped'[r] THEN "cnt" ELSE "idle"
    BY <2>1 DEF GrantOf
  <2>6. CASE st[r] = "pop1"
    <3>1. st'[r] = "cnt1"
      BY <1>1, <2>2, <2>3, <2>6, RouterEdge DEF InStep, GrantPending
    <3>2. popped[r] = {} /\ popped'[r] = {trn[r]}
      BY <1>1, <2>2, <2>3, <2>6 DEF InStep, JustPopped, PoppedBy
    <3>. QED
      BY <2>4, <2>5, <2>6, <3>1, <3>2 DEF Driver!Grant
  <2>7. CASE st[r] = "psh1"
    <3>1. st'[r] = "pop1" /\ trn'[r] = trn[r]
      BY <1>1, <2>2, <2>3, <2>7, RouterEdge DEF InStep, GrantPending
    <3>2. popped[r] = {} /\ popped'[r] = {}
      BY <1>1, <2>2, <2>3, <2>7 DEF InStep, JustPopped, PoppedBy
    <3>. QED
      BY <2>4, <2>5, <2>7, <3>1, <3>2 DEF Driver!Grant
  <2>8. CASE st[r] = "rst"
    <3>1. popped[r] = {} /\ popped'[r] = {}
      BY <1>1, <2>2, <2>3, <2>8 DEF InStep, JustPopped, PoppedBy
    <3>2. st'[r] # "pop1"
      BY <2>2, <2>3, <2>8, RouterEdge
    <3>3. st'[r] = "psh1" => trn[r] \in PndngI(r) /\ trn'[r] = trn[r]
      BY <2>2, <2>3, <2>8, RouterEdge
    <3>4. i \in PndngI(r) => pndng_in[t]
      BY <2>2 DEF PndngI
    <3>5. GrantOf(t) = "idle"
      BY <2>4, <2>8, <3>1
    <3>6. GrantOf(t)' = "idle" \/ (GrantOf(t)' = "psh" /\ pndng_in[t])
      BY <2>5, <3>1, <3>2, <3>3, <3>4
    <3>. QED
      BY <3>5, <3>6 DEF Driver!Grant
  <2>9. CASE st[r] = "cnt1"
    <3>1. popped'[r] = {} /\ st'[r] # "psh1" /\ st'[r] # "pop1"
      BY <2>2, <2>3, <2>9, RouterEdge DEF PoppedBy
    <3>2. GrantOf(t)' = "idle"
      BY <2>5, <3>1
    <3>3. GrantOf(t) \in {"idle", "cnt"}
      BY <2>4, <2>9
    <3>. QED
      BY <3>2, <3>3 DEF Driver!Grant
  <2>. QED
    BY <2>3, <2>6, <2>7, <2>8, <2>9
<1>2. InStep /\ [Next]_vars
        => [ClockRises => \A t \in Terminals : Driver(t)!Grant]_vars
  BY <1>1
<1>. QED
  BY <1>2, InitInStep, InStepStep, PTL DEF Spec, DriversImplemented

-----------------------------------------------------------------------------
(***************************************************************************)
(* The way of a flit, taken from the proofs about a single one.            *)
(***************************************************************************)
Path == INSTANCE MeshRoutingProofs
          WITH Flits <- {}, flit <- 0, at <- 0, where <- "out", exit <- 0

\* How far a flit that router r has is from its last router, and whether r is one of
\* the routers it is to pass.
Way(r, f) == Path!Distance(r, f)
Follows(r, f) == Path!OnPath(PortOf[f.src][1], r, f)

LEMMA SameTopology ==
  /\ Path!Routers = Routers /\ Path!Interfaces = Interfaces
  /\ \A r \in Routers : \A f : Path!Jump(r, f) = Jump(r, f)
  /\ \A r \in Routers : \A i : Path!FacesTerminal(r, i) = FacesTerminal(r, i)
  /\ \A r \in Routers : \A i : Path!Neighbour(r, i) = Neighbour(r, i)
<1>1. /\ Path!Routers = Routers /\ Path!Interfaces = Interfaces
      /\ Path!UP = UP /\ Path!RIGHT = RIGHT /\ Path!DOWN = DOWN /\ Path!LEFT = LEFT
      /\ Path!NONE = NONE
  BY DEF Path!Routers, Routers, Path!Interfaces, Interfaces, Path!UP, UP, Path!RIGHT,
         RIGHT, Path!DOWN, DOWN, Path!LEFT, LEFT, Path!NONE, NONE
<1>2. ASSUME NEW r \in Routers, NEW f PROVE Path!Jump(r, f) = Jump(r, f)
  <2>1. /\ Path!OutTop(r, f) = OutTop(r, f) /\ Path!OutBottom(r, f) = OutBottom(r, f)
        /\ Path!OutLeft(r, f) = OutLeft(r, f) /\ Path!OutRight(r, f) = OutRight(r, f)
        /\ Path!OnBorder(r) = OnBorder(r)
    BY DEF Path!OutTop, OutTop, Path!OutBottom, OutBottom, Path!OutLeft, OutLeft,
           Path!OutRight, OutRight, Path!OnBorder, OnBorder
  <2>2. \A there : /\ Path!AlongRow(r, f, there) = AlongRow(r, f, there)
                   /\ Path!AlongColumn(r, f, there) = AlongColumn(r, f, there)
    BY <1>1 DEF Path!AlongRow, AlongRow, Path!AlongColumn, AlongColumn
  <2>3. /\ Path!ExitJump(r, f) = ExitJump(r, f) /\ Path!IsExitCase(r, f) = IsExitCase(r, f)
        /\ Path!RowFirst(r, f) = RowFirst(r, f)
        /\ Path!ColumnFirst(r, f) = ColumnFirst(r, f)
    BY <1>1, <2>1, <2>2
       DEF Path!ExitJump, ExitJump, Path!IsExitCase, IsExitCase, Path!RowFirst, RowFirst,
           Path!ColumnFirst, ColumnFirst
  <2>. QED
    BY <2>1, <2>3 DEF Path!Jump, Jump
<1>3. ASSUME NEW r \in Routers, NEW i
      PROVE  /\ Path!FacesTerminal(r, i) = FacesTerminal(r, i)
             /\ Path!Neighbour(r, i) = Neighbour(r, i)
  BY <1>1 DEF Path!FacesTerminal, FacesTerminal, Path!Neighbour, Neighbour
<1>. QED
  BY <1>1, <1>2, <1>3

LEMMA FlitFacts ==
  ASSUME NEW f \in AllFlits
  PROVE  f.src \in Terminals /\ f.num \in Nat /\ f \in FlitsOf(f.src)
         /\ Path!HasAddress(f)
<1>1. PICK t \in Terminals : f \in FlitsOf(t)
  BY DEF AllFlits
<1>2. CASE f = ZeroFlit(t)
  BY <1>1, <1>2 DEF ZeroFlit, Path!HasAddress
<1>3. CASE \E k \in 1 .. Len(Script[t]) : f = ScriptFlit(t, k)
  <2>1. PICK k \in 1 .. Len(Script[t]) : f = ScriptFlit(t, k)
    BY <1>3
  <2>2. PICK s : s = Script[t]
    OBVIOUS
  <2>3. s \in Seq([row : Nat, col : Nat, mode : {0, 1}]) /\ k \in 1 .. Len(s)
    BY <2>2, ScriptAssumption
  <2>4. s[k] \in [row : Nat, col : Nat, mode : {0, 1}] /\ k \in Nat
    <3>1. PICK S : S = [row : Nat, col : Nat, mode : {0, 1}]
      OBVIOUS
    <3>2. s \in Seq(S) /\ k \in 1 .. Len(s)
      BY <2>3, <3>1
    <3>3. s[k] \in S
      BY <3>2
    <3>4. Len(s) \in Nat
      BY <3>2
    <3>. QED
      BY <3>1, <3>2, <3>3, <3>4
  <2>. QED
    BY <1>1, <2>1, <2>2, <2>4 DEF ScriptFlit, Path!HasAddress
<1>. QED
  BY <1>1, <1>2, <1>3 DEF FlitsOf

\* Flits with one source and address have one way.
LEMMA SameWay ==
  ASSUME NEW f, NEW g, SameRoute(f, g), NEW r
  PROVE  Way(r, f) = Way(r, g) /\ Follows(r, f) = Follows(r, g) /\ Jump(r, f) = Jump(r, g)
<1>1. f.src = g.src /\ f.row = g.row /\ f.col = g.col /\ f.mode = g.mode
  BY DEF SameRoute
<1>2. Path!LastRouter(f) = Path!LastRouter(g)
  BY <1>1 DEF Path!LastRouter
<1>3. Way(r, f) = Way(r, g) /\ Follows(r, f) = Follows(r, g)
  BY <1>1, <1>2 DEF Way, Follows, Path!Distance, Path!OnPath
<1>4. Jump(r, f) = Jump(r, g)
  BY <1>1 DEF Jump, ExitJump, IsExitCase, OutTop, OutBottom, OutLeft, OutRight, RowFirst,
              ColumnFirst, AlongRow, AlongColumn
<1>. QED
  BY <1>3, <1>4

LEMMA WayIn ==
  ASSUME NEW f \in AllFlits, NEW r, r = PortOf[f.src][1]
  PROVE  r \in Routers /\ Follows(r, f) /\ Way(r, f) \in Nat
<1>1. r \in Routers /\ Path!HasAddress(f)
  BY FlitFacts, PortOfTerminal
<1>2. Follows(r, f)
  BY <1>1, SameTopology, MeshAssumption, Path!PathStarts
     DEF Follows, Path!MeshAssumption, Path!FlitsAssumption
<1>. QED
  BY <1>1, <1>2, SameTopology, MeshAssumption, Path!PathApproaches DEF Follows, Way

LEMMA WayBounded ==
  ASSUME NEW f \in AllFlits, NEW r \in Routers, Follows(r, f)
  PROVE  /\ Way(r, f) \in Nat
         /\ Way(r, f) <= Way(PortOf[f.src][1], f)
<1>1. PortOf[f.src][1] \in Routers /\ Path!HasAddress(f)
  BY FlitFacts, PortOfTerminal
<1>. QED
  BY <1>1, SameTopology, MeshAssumption, Path!PathApproaches DEF Follows, Way

\* A router lies behind the port it reads.
LEMMA SourceLeads ==
  ASSUME NEW r \in Routers, NEW i \in Interfaces, ~ FacesTerminal(r, i)
  PROVE  Neighbour(Source(r, i)[1], Source(r, i)[2]) = r
<1>1. PICK a, b : r = <<a, b>>
  BY DEF Routers
<1>2. a \in 1 .. ROWS /\ b \in 1 .. COLUMNS /\ i \in {0, 1, 2, 3}
  BY <1>1 DEF Routers, Interfaces
<1>3. a \in Int /\ b \in Int
  BY <1>2, MeshAssumption
<1>4. (a - 1) + 1 = a /\ (a + 1) - 1 = a /\ (b - 1) + 1 = b /\ (b + 1) - 1 = b
  BY <1>3
<1>5. CASE i = UP
  <2>1. Source(r, i) = <<<<a - 1, b>>, DOWN>>
    BY <1>1, <1>5 DEF Source, Neighbour, Opposite, UP, RIGHT, DOWN, LEFT
  <2>. QED
    BY <1>1, <1>4, <2>1 DEF Neighbour, UP, RIGHT, DOWN, LEFT
<1>6. CASE i = RIGHT
  <2>1. Source(r, i) = <<<<a, b + 1>>, LEFT>>
    BY <1>1, <1>6 DEF Source, Neighbour, Opposite, UP, RIGHT, DOWN, LEFT
  <2>. QED
    BY <1>1, <1>4, <2>1 DEF Neighbour, UP, RIGHT, DOWN, LEFT
<1>7. CASE i = DOWN
  <2>1. Source(r, i) = <<<<a + 1, b>>, UP>>
    BY <1>1, <1>7 DEF Source, Neighbour, Opposite, UP, RIGHT, DOWN, LEFT
  <2>. QED
    BY <1>1, <1>4, <2>1 DEF Neighbour, UP, RIGHT, DOWN, LEFT
<1>8. CASE i = LEFT
  <2>1. Source(r, i) = <<<<a, b - 1>>, RIGHT>>
    BY <1>1, <1>8 DEF Source, Neighbour, Opposite, UP, RIGHT, DOWN, LEFT
  <2>. QED
    BY <1>1, <1>4, <2>1 DEF Neighbour, UP, RIGHT, DOWN, LEFT
<1>. QED
  BY <1>2, <1>5, <1>6, <1>7, <1>8 DEF UP, RIGHT, DOWN, LEFT

\* A flit that lies where it belongs goes one router on when it is read.
LEMMA WayOn ==
  ASSUME NEW f \in AllFlits, NEW r \in Routers, NEW i \in Interfaces,
         ~ FacesTerminal(r, i), NEW s, s = Source(r, i),
         Follows(s[1], f), Jump(s[1], f) = s[2]
  PROVE  /\ Follows(r, f) /\ Way(r, f) \in Nat
         /\ Way(s[1], f) = Way(r, f) + 1
<1>1. s \in Ports /\ ~ FacesTerminal(s[1], s[2]) /\ Neighbour(s[1], s[2]) = r
  BY SourceIsInner, SourceLeads
<1>2. s[1] \in Routers /\ s[2] \in Interfaces
  BY <1>1 DEF Ports
<1>3. Path!HasAddress(f) /\ PortOf[f.src][1] \in Routers
  BY FlitFacts, PortOfTerminal
<1>4. /\ Path!Jump(s[1], f) = s[2] /\ Path!Jump(s[1], f) \in Path!Interfaces
      /\ ~ Path!FacesTerminal(s[1], Path!Jump(s[1], f))
      /\ Path!Neighbour(s[1], Path!Jump(s[1], f)) = r
      /\ s[1] \in Path!Routers /\ PortOf[f.src][1] \in Path!Routers /\ r \in Path!Routers
  BY <1>1, <1>2, <1>3, SameTopology
<1>5. Path!OnPath(PortOf[f.src][1], r, f)
  BY <1>3, <1>4, MeshAssumption, Path!PathContinues
     DEF Follows, Path!MeshAssumption, Path!FlitsAssumption
<1>6. Path!Distance(r, f) = Path!Distance(s[1], f) - 1
  BY <1>3, <1>4, MeshAssumption, Path!JumpApproaches
     DEF Path!MeshAssumption, Path!FlitsAssumption
<1>7. Follows(r, f)
  BY <1>5 DEF Follows
<1>8. Way(r, f) \in Nat /\ Way(s[1], f) \in Nat
  BY <1>2, <1>7, WayBounded
<1>. QED
  BY <1>6, <1>7, <1>8 DEF Way

LEMMA WayEnds ==
  ASSUME NEW f \in AllFlits, NEW r \in Routers, NEW i \in Interfaces, Jump(r, f) = i,
         FacesTerminal(r, i)
  PROVE  Way(r, f) = 0
<1>1. Path!HasAddress(f)
  BY FlitFacts
<1>2. /\ Path!Jump(r, f) \in Path!Interfaces /\ r \in Path!Routers
      /\ Path!FacesTerminal(r, Path!Jump(r, f))
  BY SameTopology
<1>. QED
  BY <1>1, <1>2, MeshAssumption, Path!LeavesLast
     DEF Way, Path!MeshAssumption, Path!FlitsAssumption

\* Two flits with one way that lie equally far from its end lie in one FIFO.
LEMMA WayIsUnique ==
  ASSUME NEW f \in AllFlits, NEW g, SameRoute(f, g), NEW p \in Ports, NEW o \in Ports,
         Follows(p[1], f), Follows(o[1], g), Jump(p[1], f) = p[2], Jump(o[1], g) = o[2],
         Way(p[1], f) = Way(o[1], f)
  PROVE  p = o
<1>1. p[1] \in Routers /\ o[1] \in Routers /\ p = <<p[1], p[2]>> /\ o = <<o[1], o[2]>>
  BY DEF Ports
<1>2. Path!HasAddress(f) /\ PortOf[f.src][1] \in Routers
  BY FlitFacts, PortOfTerminal
<1>3. Follows(o[1], f) /\ Jump(o[1], f) = o[2]
  BY SameWay
<1>4. p[1] = o[1]
  BY <1>1, <1>2, <1>3, SameTopology, MeshAssumption, Path!PathIsUnique
     DEF Follows, Way, Path!MeshAssumption, Path!FlitsAssumption
<1>. QED
  BY <1>1, <1>3, <1>4

-----------------------------------------------------------------------------
(***************************************************************************)
(* The order of the flits.                                                 *)
(***************************************************************************)
\* A router that has gone past the falling edge of its push has copied what it reads.
Copied(r) == st[r] = "pop1" \/ (st[r] = "psh1" /\ ~ clk)

\* The head of port p was copied by the router that reads it, or seen by the monitor;
\* the flit on data_in of terminal t was copied.
Departs(p) ==
  \/ \E r \in Routers : /\ Copied(r) /\ ~ FacesTerminal(r, trn[r])
                        /\ p = Source(r, trn[r])
  \/ \E t \in Terminals : mon[t] = "ack" /\ p = PortOf[t]

Handed(t) == Copied(PortOf[t][1]) /\ trn[PortOf[t][1]] = PortOf[t][2]

\* The cells that count: the head that departs is represented by its copy.
Live(p, k) == k <= Held(p) /\ ~ (k = Held(p) /\ Departs(p))

OnTheWay ==
  \A p \in Ports : \A k \in 1 .. Depth : Live(p, k) => Follows(p[1], q[p][k])

\* Of two flits with one way the one nearer its end is the older.
Ordered ==
  \A p, o \in Ports : \A k, l \in 1 .. Depth :
    /\ Live(p, k) /\ Live(o, l) /\ SameRoute(q[p][k], q[o][l])
    /\ Way(p[1], q[p][k]) < Way(o[1], q[p][k]) \/ (p = o /\ k > l)
    => q[p][k].num < q[o][l].num

\* Those that have left are older than those in the mesh, and these older than those
\* their driver has not handed over.
OutsFirst ==
  \A t \in Terminals : \A j \in DOMAIN outs[t] : \A p \in Ports : \A k \in 1 .. Depth :
    Live(p, k) /\ SameRoute(outs[t][j], q[p][k]) => outs[t][j].num < q[p][k].num

Behind(f) == \/ f.num < data_in[f.src].num
             \/ f.num = data_in[f.src].num /\ Handed(f.src)

DriversLast ==
  /\ \A p \in Ports : \A k \in 1 .. Depth : Live(p, k) => Behind(q[p][k])
  /\ \A t \in Terminals : \A j \in DOMAIN outs[t] : Behind(outs[t][j])

OutsOrdered ==
  \A t \in Terminals : \A j, k \in DOMAIN outs[t] :
    j < k /\ SameRoute(outs[t][j], outs[t][k]) => outs[t][j].num < outs[t][k].num

\* The queue of a driver continues the numbering of what it has presented.
Numbered ==
  \A t \in Terminals :
    /\ data_in[t].num = Taken(t)
    /\ \A k \in 1 .. Len(fifo_in[t]) : fifo_in[t][k].num = Taken(t) + k

InOrder ==
  /\ InStep /\ Placed /\ Numbered
  /\ ~ glitched => OnTheWay /\ Ordered /\ OutsFirst /\ DriversLast /\ OutsOrdered

\* What the registers hold.
LEMMA CellFacts ==
  ASSUME Types, NEW p \in Ports, NEW k \in 1 .. Depth
  PROVE  /\ q[p][k] \in AllFlits /\ p[1] \in Routers /\ p[2] \in Interfaces
         /\ p = <<p[1], p[2]>>
         /\ count[p] \in 0 .. Depth /\ count[p] \in Nat /\ k \in Nat /\ Depth \in Nat
         /\ (Held(p) = count[p] \/ Held(p) = count[p] + 1)
         /\ Held(p) = (IF ~ clk /\ p \in psh THEN count[p] + 1 ELSE count[p])
<1>1. q[p] \in [1 .. Depth -> AllFlits] /\ count[p] \in 0 .. Depth
  BY DEF Types, TypeOK, Fifo!Cells
<1>2. count[p] \in Nat /\ k \in Nat /\ Depth \in Nat
  BY <1>1, DepthAssumption
<1>. QED
  BY <1>1, <1>2 DEF Held, Ports

LEMMA OutFacts ==
  ASSUME Types, NEW t \in Terminals, NEW j \in DOMAIN outs[t]
  PROVE  outs[t][j] \in AllFlits
BY DEF Types, TypeOK

LEMMA DataFacts ==
  ASSUME Types, NEW t \in Terminals
  PROVE  /\ data_in[t] \in AllFlits /\ data_in[t].src = t /\ data_in[t].num \in Nat
<1>1. data_in[t] \in FlitsOf(t)
  BY DEF Types, TypeOK
<1>2. data_in[t] \in AllFlits
  BY <1>1, FlitTypes
<1>3. data_in[t].src = t
  BY <1>1 DEF FlitsOf, ZeroFlit, ScriptFlit
<1>. QED
  BY <1>2, <1>3, FlitFacts

LEMMA InitInOrder == Init => InOrder
<1>. SUFFICES ASSUME Init PROVE InOrder
  OBVIOUS
<1>1. InStep /\ Placed
  BY InitInStep, InitPlaced
<1>2. ASSUME NEW p \in Ports, NEW k \in 1 .. Depth
      PROVE  ~ Live(p, k)
  <2>1. Held(p) = 0 /\ k > 0
    BY DepthAssumption DEF Init, Held
  <2>. QED
    BY <2>1, DepthAssumption DEF Live
<1>3. \A t \in Terminals : outs[t] = <<>> /\ DOMAIN outs[t] = {}
  BY DEF Init
<1>4. Numbered
  <2>1. ASSUME NEW t \in Terminals
        PROVE  data_in[t].num = 0 /\ received[t] = 0 /\ Len(fifo_in[t]) = 0
    BY DEF Init, ZeroFlit
  <2>. QED
    BY <2>1 DEF Numbered, Taken
<1>5. OnTheWay /\ Ordered /\ OutsFirst /\ DriversLast /\ OutsOrdered
  BY <1>2, <1>3 DEF OnTheWay, Ordered, OutsFirst, DriversLast, OutsOrdered
<1>. QED
  BY <1>1, <1>4, <1>5 DEF InOrder

-----------------------------------------------------------------------------
(***************************************************************************)
(* The falling edge copies.                                                *)
(***************************************************************************)
LEMMA FallFacts ==
  ASSUME ClockFalls
  PROVE  /\ \A r : Copied(r) => Copied(r)'
         /\ \A p : Departs(p) => Departs(p)'
         /\ \A t : Handed(t) => Handed(t)'
<1>1. clk /\ ~ clk' /\ st' = st /\ trn' = trn /\ mon' = mon
  BY DEF ClockFalls, history
<1>2. \A r : Copied(r) => Copied(r)'
  BY <1>1 DEF Copied
<1>. QED
  BY <1>1, <1>2 DEF Departs, Handed

\* A router that pushes does so from the port it reads.
LEMMA FallHead ==
  ASSUME InStep, ClockFalls, NEW r \in Routers, st[r] = "psh1",
         ~ FacesTerminal(r, trn[r]), NEW s, s = Source(r, trn[r])
  PROVE  /\ s \in Ports /\ count[s] \in 1 .. Depth /\ Live(s, count[s])
         /\ Departs(s)' /\ DataIn(r) = q[s][count[s]]
<1>1. trn[r] \in Interfaces /\ trn[r] \in PndngI(r) /\ Types
  BY DEF InStep, Types, TypeOK, GrantPending
<1>2. s \in Ports /\ ~ FacesTerminal(s[1], s[2])
  BY <1>1, SourceIsInner
<1>3. count[s] # 0 /\ count[s] \in 0 .. Depth
  BY <1>1, <1>2 DEF PndngI, Fifo!Pndng, Types, TypeOK
<1>4. count[s] \in 1 .. Depth
  BY <1>3, DepthAssumption
<1>5. clk /\ ~ clk' /\ st' = st /\ trn' = trn
  BY DEF ClockFalls
<1>6. Departs(s)'
  <2>1. Copied(r)'
    BY <1>5 DEF Copied
  <2>. QED
    BY <1>5, <2>1 DEF Departs
<1>7. ~ Departs(s)
  <2>1. ASSUME NEW o \in Routers, Copied(o), ~ FacesTerminal(o, trn[o]),
               s = Source(o, trn[o])
        PROVE  FALSE
    <3>1. trn[o] \in Interfaces
      BY <1>1 DEF Types, TypeOK
    <3>2. o = r
      BY <1>1, <2>1, <3>1, SourceIsInjective
    <3>. QED
      BY <1>5, <2>1, <3>2 DEF Copied
  <2>2. ASSUME NEW t \in Terminals, s = PortOf[t]
        PROVE  FALSE
    BY <1>2, <2>2, PortOfTerminal
  <2>. QED
    BY <2>1, <2>2 DEF Departs
<1>8. Live(s, count[s])
  BY <1>2, <1>4, <1>7, CellFacts, <1>1, <1>5 DEF Live
<1>9. DataIn(r) = q[s][count[s]]
  BY <1>3 DEF DataIn, Dout, Fifo!Dout
<1>. QED
  BY <1>2, <1>4, <1>6, <1>8, <1>9

\* Where a cell comes from: it was there, or it is the copy of a head, or of what a
\* driver shows.
Stayed(p, k, o, l) ==
  /\ o = p /\ k = (IF p \in psh THEN l + 1 ELSE l)
  /\ l = count[p] => ~ Departs(p)'

Hopped(p, k, o, l) ==
  /\ p \in psh /\ k = 1 /\ ~ FacesTerminal(p[1], trn[p[1]])
  /\ o = Source(p[1], trn[p[1]]) /\ l = count[o] /\ Departs(o)'

Entering(p, k, t) ==
  /\ p \in psh /\ k = 1 /\ p[1] = PortOf[t][1]
  /\ ~ Handed(t) /\ Handed(t)' /\ q'[p][k] = data_in[t]

LEMMA FallOrigin ==
  ASSUME InStep, Placed, ClockFalls, NEW p \in Ports, NEW k \in 1 .. Depth, Live(p, k)'
  PROVE  \/ \E o \in Ports : \E l \in 1 .. Depth :
              /\ Live(o, l) /\ q'[p][k] = q[o][l]
              /\ Stayed(p, k, o, l) \/ Hopped(p, k, o, l)
         \/ \E t \in Terminals : Entering(p, k, t)
<1>1. /\ clk /\ ~ clk' /\ st' = st /\ trn' = trn /\ psh' = psh /\ count' = count
      /\ Capture(psh) /\ psh = PshWires /\ Types
  BY DEF ClockFalls, Placed
<1>2. /\ p[1] \in Routers /\ count[p] \in Nat /\ k \in Nat /\ Depth \in Nat
      /\ k >= 1 /\ k <= Depth
      /\ Held(p) = count[p] /\ Held(p)' = (IF p \in psh THEN count[p] + 1 ELSE count[p])
  BY <1>1, CellFacts DEF Held
<1>3. k <= Held(p)' /\ ~ (k = Held(p)' /\ Departs(p)')
  BY DEF Live
<1>4. CASE p \notin psh
  <2>1. q'[p] = q[p] /\ k <= Held(p) /\ (k = count[p] => ~ Departs(p)')
    BY <1>1, <1>2, <1>3, <1>4 DEF Capture
  <2>2. Live(p, k)
    BY <1>2, <2>1, FallFacts DEF Live
  <2>3. Stayed(p, k, p, k)
    BY <1>4, <2>1 DEF Stayed
  <2>. QED
    BY <2>1, <2>2, <2>3
<1>5. CASE p \in psh /\ k # 1
  <2>1. PICK l : l = k - 1
    OBVIOUS
  <2>2. l \in 1 .. Depth /\ k = l + 1 /\ l <= count[p]
    BY <1>2, <1>3, <1>5, <2>1
  <2>3. q'[p][k] = q[p][l]
    BY <1>1, <1>5, <2>1 DEF Capture, Fifo!Shifted, Fifo!Cells
  <2>4. l = count[p] => ~ Departs(p)'
    BY <1>2, <1>3, <1>5, <2>2
  <2>5. Live(p, l)
    BY <1>2, <2>2, <2>4, FallFacts DEF Live
  <2>6. Stayed(p, k, p, l)
    BY <1>5, <2>2, <2>4 DEF Stayed
  <2>. QED
    BY <2>2, <2>3, <2>5, <2>6
<1>6. CASE p \in psh /\ k = 1
  <2>1. st[p[1]] = "psh1" /\ q'[p][k] = DataIn(p[1]) /\ trn[p[1]] \in Interfaces
    <3>1. st[p[1]] = "psh1" /\ trn[p[1]] \in Interfaces
      BY <1>1, <1>2, <1>6 DEF PshWires, Types, TypeOK
    <3>2. q'[p][k] = DataIn(p[1])
      BY <1>1, <1>6 DEF Capture, Fifo!Shifted, Fifo!Cells
    <3>. QED
      BY <3>1, <3>2
  <2>2. CASE ~ FacesTerminal(p[1], trn[p[1]])
    <3>1. PICK s : s = Source(p[1], trn[p[1]])
      OBVIOUS
    <3>2. /\ s \in Ports /\ count[s] \in 1 .. Depth /\ Live(s, count[s])
          /\ Departs(s)' /\ DataIn(p[1]) = q[s][count[s]]
      BY <1>2, <2>1, <2>2, <3>1, FallHead
    <3>3. Hopped(p, k, s, count[s])
      BY <1>6, <2>2, <3>1, <3>2 DEF Hopped
    <3>. QED
      BY <2>1, <3>2, <3>3
  <2>3. CASE FacesTerminal(p[1], trn[p[1]])
    <3>1. PICK t : t = TerminalOf(p[1], trn[p[1]])
      OBVIOUS
    <3>2. t \in Terminals /\ PortOf[t] = <<p[1], trn[p[1]]>>
      BY <1>2, <2>1, <2>3, <3>1, TerminalType, TerminalOfPort
    <3>3. PortOf[t][1] = p[1] /\ PortOf[t][2] = trn[p[1]]
      BY <3>2
    <3>4. ~ Copied(p[1]) /\ Copied(p[1])'
      BY <1>1, <2>1 DEF Copied
    <3>5. ~ Handed(t) /\ Handed(t)'
      BY <1>1, <3>3, <3>4 DEF Handed
    <3>6. q'[p][k] = data_in[t]
      BY <2>1, <2>3, <3>1 DEF DataIn
    <3>. QED
      BY <1>6, <3>2, <3>3, <3>5, <3>6 DEF Entering
  <2>. QED
    BY <2>2, <2>3
<1>. QED
  BY <1>4, <1>5, <1>6

\* A copied flit is one router further.
LEMMA FallWay ==
  ASSUME InStep, Placed, OnTheWay, NEW p \in Ports, NEW k \in 1 .. Depth,
         NEW o \in Ports, NEW l \in 1 .. Depth, NEW f, f = q[o][l], Live(o, l),
         Stayed(p, k, o, l) \/ Hopped(p, k, o, l)
  PROVE  /\ f \in AllFlits /\ Follows(p[1], f) /\ Follows(o[1], f) /\ Jump(o[1], f) = o[2]
         /\ Way(p[1], f) \in Nat /\ Way(o[1], f) \in Nat
         /\ Stayed(p, k, o, l) => Way(o[1], f) = Way(p[1], f)
         /\ Hopped(p, k, o, l) => Way(o[1], f) = Way(p[1], f) + 1
<1>1. f \in AllFlits /\ o[1] \in Routers /\ p[1] \in Routers
  BY CellFacts DEF Placed
<1>2. Follows(o[1], f)
  BY DEF OnTheWay
<1>3. Jump(o[1], f) = o[2]
  BY DEF Placed, Live
<1>4. Way(o[1], f) \in Nat
  BY <1>1, <1>2, WayBounded
<1>5. CASE Stayed(p, k, o, l)
  <2>1. o = p
    BY <1>5 DEF Stayed
  <2>2. ~ Hopped(p, k, o, l)
    <3>1. SUFFICES ASSUME Hopped(p, k, o, l) PROVE FALSE
      OBVIOUS
    <3>2. k = l + 1 /\ k = 1 /\ l \in Nat /\ l >= 1
      BY <1>5, <3>1, CellFacts DEF Stayed, Hopped, Placed
    <3>. QED
      BY <3>2
  <2>. QED
    BY <1>1, <1>2, <1>3, <1>4, <2>1, <2>2
<1>6. CASE Hopped(p, k, o, l) /\ ~ Stayed(p, k, o, l)
  <2>1. /\ trn[p[1]] \in Interfaces /\ ~ FacesTerminal(p[1], trn[p[1]])
        /\ o = Source(p[1], trn[p[1]])
    BY <1>1, <1>6 DEF Hopped, Placed, Types, TypeOK
  <2>2. Follows(p[1], f) /\ Way(p[1], f) \in Nat /\ Way(o[1], f) = Way(p[1], f) + 1
    BY <1>1, <1>2, <1>3, <2>1, WayOn
  <2>. QED
    BY <1>1, <1>2, <1>3, <1>4, <1>6, <2>2
<1>. QED
  BY <1>5, <1>6

LEMMA FallOnTheWay ==
  ASSUME InStep, Placed, OnTheWay, ClockFalls
  PROVE  OnTheWay'
<1>1. ASSUME NEW p \in Ports, NEW k \in 1 .. Depth, Live(p, k)'
      PROVE  Follows(p[1], q'[p][k])
  <2>1. CASE \E o \in Ports : \E l \in 1 .. Depth :
               /\ Live(o, l) /\ q'[p][k] = q[o][l]
               /\ Stayed(p, k, o, l) \/ Hopped(p, k, o, l)
    BY <2>1, FallWay
  <2>2. CASE \E t \in Terminals : Entering(p, k, t)
    <3>1. PICK t \in Terminals : Entering(p, k, t)
      BY <2>2
    <3>2. q'[p][k] = data_in[t] /\ p[1] = PortOf[t][1]
      BY <3>1 DEF Entering
    <3>3. data_in[t] \in AllFlits /\ data_in[t].src = t
      BY DataFacts DEF Placed
    <3>. QED
      BY <3>2, <3>3, WayIn
  <2>. QED
    BY <1>1, <2>1, <2>2, FallOrigin
<1>. QED
  BY <1>1 DEF OnTheWay

LEMMA FallDriversLast ==
  ASSUME InStep, Placed, DriversLast, ClockFalls
  PROVE  DriversLast'
<1>1. data_in' = data_in /\ outs' = outs
  BY DEF ClockFalls, drivers, history
<1>2. ASSUME NEW f, Behind(f) PROVE Behind(f)'
  BY <1>1, <1>2, FallFacts DEF Behind
<1>3. ASSUME NEW p \in Ports, NEW k \in 1 .. Depth, Live(p, k)'
      PROVE  Behind(q[p][k])'
  <2>1. CASE \E o \in Ports : \E l \in 1 .. Depth :
               /\ Live(o, l) /\ q'[p][k] = q[o][l]
               /\ Stayed(p, k, o, l) \/ Hopped(p, k, o, l)
    <3>1. PICK o \in Ports, l \in 1 .. Depth : Live(o, l) /\ q'[p][k] = q[o][l]
      BY <2>1
    <3>2. PICK f : f = q[o][l]
      OBVIOUS
    <3>3. Behind(f)
      BY <3>1, <3>2 DEF DriversLast
    <3>4. /\ \/ f.num < data_in'[f.src].num
             \/ f.num = data_in'[f.src].num /\ Handed(f.src)'
          /\ q'[p][k] = f
      BY <1>2, <3>1, <3>2, <3>3 DEF Behind
    <3>. QED
      BY <3>4 DEF Behind
  <2>2. CASE \E t \in Terminals : Entering(p, k, t)
    <3>1. PICK t \in Terminals : Entering(p, k, t)
      BY <2>2
    <3>2. q'[p][k] = data_in[t] /\ Handed(t)' /\ data_in[t].src = t
      BY <3>1, DataFacts DEF Entering, Placed
    <3>. QED
      BY <1>1, <3>2 DEF Behind
  <2>. QED
    BY <1>3, <2>1, <2>2, FallOrigin
<1>4. ASSUME NEW t \in Terminals, NEW j \in DOMAIN outs'[t]
      PROVE  Behind(outs[t][j])'
  <2>1. PICK f : f = outs[t][j]
    OBVIOUS
  <2>2. Behind(f)
    BY <1>1, <1>4, <2>1 DEF DriversLast
  <2>3. /\ \/ f.num < data_in'[f.src].num
           \/ f.num = data_in'[f.src].num /\ Handed(f.src)'
        /\ outs'[t][j] = f
    BY <1>1, <1>2, <2>1, <2>2 DEF Behind
  <2>. QED
    BY <2>3 DEF Behind
<1>. QED
  BY <1>3, <1>4 DEF DriversLast

\* What a driver hands over is younger than all it has handed over before.
LEMMA EnteringIsLast ==
  ASSUME Types, NEW p, NEW k, NEW t \in Terminals, Entering(p, k, t),
         NEW f \in AllFlits, Behind(f), f.src = t
  PROVE  f.num < q'[p][k].num
BY DEF Entering, Behind

LEMMA FallOutsFirst ==
  ASSUME InStep, Placed, OutsFirst, DriversLast, ClockFalls
  PROVE  OutsFirst'
<1>1. outs' = outs
  BY DEF ClockFalls, history
<1>2. ASSUME NEW t \in Terminals, NEW j \in DOMAIN outs[t], NEW p \in Ports,
             NEW k \in 1 .. Depth, Live(p, k)', SameRoute(outs[t][j], q'[p][k])
      PROVE  outs[t][j].num < q'[p][k].num
  <2>1. CASE \E o \in Ports : \E l \in 1 .. Depth :
               /\ Live(o, l) /\ q'[p][k] = q[o][l]
               /\ Stayed(p, k, o, l) \/ Hopped(p, k, o, l)
    BY <1>2, <2>1 DEF OutsFirst
  <2>2. CASE \E u \in Terminals : Entering(p, k, u)
    <3>1. PICK u \in Terminals : Entering(p, k, u)
      BY <2>2
    <3>2. q'[p][k].src = u
      BY <3>1, DataFacts DEF Entering, Placed
    <3>3. PICK f : f = outs[t][j]
      OBVIOUS
    <3>4. f \in AllFlits /\ Behind(f) /\ f.src = u
      BY <1>2, <3>2, <3>3, OutFacts DEF DriversLast, Placed, SameRoute
    <3>. QED
      BY <3>1, <3>3, <3>4, EnteringIsLast DEF Placed
  <2>. QED
    BY <1>2, <2>1, <2>2, FallOrigin
<1>. QED
  BY <1>1, <1>2 DEF OutsFirst

\* Flits copied from live cells keep the order of their originals.
LEMMA FallPair ==
  ASSUME InStep, Placed, OnTheWay, Ordered, ClockFalls,
         NEW p \in Ports, NEW k \in 1 .. Depth, NEW o \in Ports, NEW l \in 1 .. Depth,
         NEW pp \in Ports, NEW kk \in 1 .. Depth, NEW oo \in Ports, NEW ll \in 1 .. Depth,
         NEW f, NEW g, f = q[pp][kk], g = q[oo][ll], Live(pp, kk), Live(oo, ll),
         Stayed(p, k, pp, kk) \/ Hopped(p, k, pp, kk),
         Stayed(o, l, oo, ll) \/ Hopped(o, l, oo, ll),
         SameRoute(f, g), Way(p[1], f) < Way(o[1], f) \/ (p = o /\ k > l)
  PROVE  f.num < g.num
<1>1. /\ f \in AllFlits /\ Follows(pp[1], f) /\ Jump(pp[1], f) = pp[2]
      /\ Way(p[1], f) \in Nat /\ Way(pp[1], f) \in Nat
      /\ Stayed(p, k, pp, kk) => Way(pp[1], f) = Way(p[1], f)
      /\ Hopped(p, k, pp, kk) => Way(pp[1], f) = Way(p[1], f) + 1
  BY FallWay
<1>2. /\ Follows(oo[1], g) /\ Jump(oo[1], g) = oo[2]
      /\ Way(o[1], g) \in Nat /\ Way(oo[1], g) \in Nat
      /\ Stayed(o, l, oo, ll) => Way(oo[1], g) = Way(o[1], g)
      /\ Hopped(o, l, oo, ll) => Way(oo[1], g) = Way(o[1], g) + 1
  BY FallWay
<1>3. Way(o[1], f) = Way(o[1], g) /\ Way(oo[1], f) = Way(oo[1], g)
  BY SameWay
<1>4. /\ k \in Nat /\ l \in Nat /\ kk \in Nat /\ ll \in Nat /\ k >= 1 /\ l >= 1
      /\ kk >= 1 /\ ll >= 1 /\ count[oo] \in Nat /\ count[pp] \in Nat
      /\ Held(oo) = count[oo]
  BY CellFacts DEF Placed, ClockFalls
<1>5. Way(pp[1], f) < Way(oo[1], f) \/ (pp = oo /\ kk > ll)
  <2>1. CASE Stayed(p, k, pp, kk) /\ Stayed(o, l, oo, ll)
    <3>1. pp = p /\ oo = o /\ (p = o /\ k > l => kk > ll)
      BY <1>4, <2>1 DEF Stayed
    <3>. QED
      BY <1>1, <1>2, <1>3, <2>1, <3>1
  <2>2. CASE Stayed(p, k, pp, kk) /\ Hopped(o, l, oo, ll)
    <3>1. Way(p[1], f) <= Way(o[1], f)
      BY <1>1, <1>2, <1>3
    <3>. QED
      BY <1>1, <1>2, <1>3, <2>2, <3>1
  <2>3. CASE Hopped(p, k, pp, kk) /\ Hopped(o, l, oo, ll)
    <3>1. ~ (p = o /\ k > l)
      BY <2>3 DEF Hopped
    <3>. QED
      BY <1>1, <1>2, <1>3, <2>3, <3>1
  <2>4. CASE Hopped(p, k, pp, kk) /\ Stayed(o, l, oo, ll)
    <3>1. ~ (p = o /\ k > l)
      BY <1>4, <2>4 DEF Hopped
    <3>2. Way(pp[1], f) <= Way(oo[1], f)
      BY <1>1, <1>2, <1>3, <2>4, <3>1
    <3>3. CASE Way(pp[1], f) = Way(oo[1], f)
      <4>1. pp = oo
        BY <1>1, <1>2, <3>3, WayIsUnique
      <4>2. kk = count[pp] /\ Departs(pp)'
        BY <2>4 DEF Hopped
      <4>3. ll # count[oo] /\ ll <= count[oo]
        BY <1>4, <2>4, <4>1, <4>2 DEF Stayed, Live
      <4>. QED
        BY <1>4, <4>1, <4>2, <4>3
    <3>. QED
      BY <1>1, <1>2, <1>3, <3>2, <3>3
  <2>. QED
    BY <2>1, <2>2, <2>3, <2>4
<1>. QED
  BY <1>5 DEF Ordered

LEMMA FallOrdered ==
  ASSUME InStep, Placed, OnTheWay, Ordered, DriversLast, ClockFalls
  PROVE  Ordered'
<1>1. ASSUME NEW p \in Ports, NEW k \in 1 .. Depth, NEW o \in Ports, NEW l \in 1 .. Depth,
             Live(p, k)', Live(o, l)', SameRoute(q'[p][k], q'[o][l]),
             Way(p[1], q'[p][k]) < Way(o[1], q'[p][k]) \/ (p = o /\ k > l)
      PROVE  q'[p][k].num < q'[o][l].num
  <2>1. PICK f, g : f = q'[p][k] /\ g = q'[o][l]
    OBVIOUS
  <2>2. /\ SameRoute(f, g) /\ f.src = g.src
        /\ Way(p[1], f) < Way(o[1], f) \/ (p = o /\ k > l)
    BY <1>1, <2>1 DEF SameRoute
  <2>3. CASE \E t \in Terminals : Entering(p, k, t)
    <3>1. PICK t \in Terminals : Entering(p, k, t)
      BY <2>3
    <3>2. f \in AllFlits /\ f.src = t /\ k = 1 /\ p[1] = PortOf[f.src][1]
      BY <2>1, <3>1, DataFacts DEF Entering, Placed
    <3>3. ~ (k > l)
      BY <3>2, CellFacts DEF Placed
    <3>4. Follows(o[1], g) /\ o[1] \in Routers
      BY <1>1, <2>1, FallOnTheWay, CellFacts DEF OnTheWay, Placed
    <3>5. Follows(o[1], f)
      BY <2>2, <3>4, SameWay
    <3>6. Way(o[1], f) <= Way(p[1], f) /\ Way(o[1], f) \in Nat /\ Way(p[1], f) \in Nat
      BY <3>2, <3>4, <3>5, WayBounded, WayIn
    <3>. QED
      BY <2>2, <3>3, <3>6
  <2>4. CASE \E pp \in Ports : \E kk \in 1 .. Depth :
               /\ Live(pp, kk) /\ q'[p][k] = q[pp][kk]
               /\ Stayed(p, k, pp, kk) \/ Hopped(p, k, pp, kk)
    <3>1. PICK pp \in Ports, kk \in 1 .. Depth :
               /\ Live(pp, kk) /\ q'[p][k] = q[pp][kk]
               /\ Stayed(p, k, pp, kk) \/ Hopped(p, k, pp, kk)
      BY <2>4
    <3>2. CASE \E t \in Terminals : Entering(o, l, t)
      <4>1. PICK t \in Terminals : Entering(o, l, t)
        BY <3>2
      <4>2. g.src = t
        BY <2>1, <4>1, DataFacts DEF Entering, Placed
      <4>3. f \in AllFlits /\ Behind(f) /\ f.src = t
        BY <2>1, <2>2, <3>1, <4>2, CellFacts DEF DriversLast, Placed
      <4>. QED
        BY <2>1, <4>1, <4>3, EnteringIsLast DEF Placed
    <3>3. CASE \E oo \in Ports : \E ll \in 1 .. Depth :
               /\ Live(oo, ll) /\ q'[o][l] = q[oo][ll]
               /\ Stayed(o, l, oo, ll) \/ Hopped(o, l, oo, ll)
      <4>1. PICK oo \in Ports, ll \in 1 .. Depth :
               /\ Live(oo, ll) /\ q'[o][l] = q[oo][ll]
               /\ Stayed(o, l, oo, ll) \/ Hopped(o, l, oo, ll)
        BY <3>3
      <4>2. f = q[pp][kk] /\ g = q[oo][ll]
        BY <2>1, <3>1, <4>1
      <4>3. f.num < g.num
        BY <2>2, <3>1, <4>1, <4>2, FallPair
      <4>. QED
        BY <2>1, <4>3
    <3>. QED
      BY <1>1, <3>2, <3>3, FallOrigin
  <2>. QED
    BY <1>1, <2>3, <2>4, FallOrigin
<1>. QED
  BY <1>1 DEF Ordered

LEMMA FallInOrder ==
  ASSUME InOrder, ClockFalls
  PROVE  InOrder'
<1>1. InStep' /\ Placed'
  BY InStepStep, PlacedStep DEF InOrder, Next, Clock
<1>2. /\ outs' = outs /\ glitched' = glitched /\ data_in' = data_in
      /\ fifo_in' = fifo_in /\ received' = received
  BY DEF ClockFalls, drivers, history
<1>3. Numbered'
  BY <1>2 DEF InOrder, Numbered, Taken
<1>4. OutsOrdered => OutsOrdered'
  BY <1>2 DEF OutsOrdered
<1>. QED
  BY <1>1, <1>2, <1>3, <1>4, FallOnTheWay, FallOrdered, FallOutsFirst, FallDriversLast
     DEF InOrder

-----------------------------------------------------------------------------
(***************************************************************************)
(* The rising edge pops what was copied.                                   *)
(***************************************************************************)
LEMMA RiseCopied ==
  ASSUME InStep, ClockRises, NEW r \in Routers, Copied(r)
  PROVE  \/ st[r] = "pop1"
         \/ Copied(r)' /\ trn'[r] = trn[r] /\ st[r] = "psh1"
<1>1. Types /\ RoutersStep
  BY DEF InStep, ClockRises
<1>2. CASE st[r] = "psh1"
  <2>1. trn[r] \in PndngI(r)
    BY <1>2 DEF InStep, GrantPending
  <2>2. st'[r] = "pop1" /\ trn'[r] = trn[r]
    BY <1>1, <1>2, <2>1, RouterEdge
  <2>. QED
    BY <1>2, <2>2 DEF Copied
<1>. QED
  BY <1>2 DEF Copied

\* A head that departs is popped by this edge or goes on departing.
LEMMA RiseDeparts ==
  ASSUME InStep, ClockRises, NEW p \in Ports, Departs(p), p \notin PoppedPorts
  PROVE  Departs(p)'
<1>1. CASE \E r \in Routers : /\ Copied(r) /\ ~ FacesTerminal(r, trn[r])
                              /\ p = Source(r, trn[r])
  <2>1. PICK r \in Routers : /\ Copied(r) /\ ~ FacesTerminal(r, trn[r])
                             /\ p = Source(r, trn[r])
    BY <1>1
  <2>2. trn[r] \in Interfaces
    BY DEF InStep, Types, TypeOK
  <2>3. st[r] # "pop1"
    BY <2>1, <2>2, RouterPops
  <2>4. Copied(r)' /\ trn'[r] = trn[r]
    BY <2>1, <2>3, RiseCopied
  <2>. QED
    BY <2>1, <2>4 DEF Departs
<1>2. CASE \E t \in Terminals : mon[t] = "ack" /\ p = PortOf[t]
  BY <1>2, MonitorPops
<1>. QED
  BY <1>1, <1>2 DEF Departs

LEMMA RiseLive ==
  ASSUME InStep, ClockRises, NEW p \in Ports, NEW k \in 1 .. Depth, Live(p, k)'
  PROVE  Live(p, k)
<1>1. /\ count[p] \in Nat /\ count[p] <= Depth /\ k \in Nat /\ Depth \in Nat /\ k <= Depth
      /\ Held(p) = (IF p \in psh THEN count[p] + 1 ELSE count[p])
  BY CellFacts DEF InStep, ClockRises
<1>2. clk' /\ count'[p] = NextCount(p)
  BY DEF ClockRises
<1>3. count'[p] = IF p \in PoppedPorts /\ p \notin psh /\ count[p] > 0 THEN count[p] - 1
                  ELSE IF p \in psh /\ p \notin PoppedPorts /\ count[p] < Depth
                       THEN count[p] + 1
                  ELSE count[p]
  BY <1>2 DEF NextCount, Fifo!NextCount
<1>4. count'[p] \in Int
  BY <1>1, <1>3
<1>5. Held(p)' = count'[p]
  BY <1>2, <1>4 DEF Held
<1>6. k <= count'[p] /\ ~ (k = count'[p] /\ Departs(p)')
  BY <1>5 DEF Live
<1>7. p \in PoppedPorts => count[p] > 0
  <2>1. ASSUME p \in PoppedPorts PROVE count[p] # 0
    <3>1. CASE \E t \in Terminals : p = PortOf[t] /\ mon[t] = "ack"
      BY <3>1 DEF InStep, MonitorInStep
    <3>2. CASE \E r \in Routers, i \in Interfaces :
                 /\ ~ FacesTerminal(r, i) /\ p = Source(r, i)
                 /\ st[r] = "pop1" /\ trn[r] = i
      BY <3>2 DEF InStep, GrantPending, PndngI, Fifo!Pndng
    <3>. QED
      BY <2>1, <3>1, <3>2, PoppedSource
  <2>. QED
    BY <1>1, <2>1
<1>8. CASE p \in PoppedPorts
  <2>1. k < Held(p)
    BY <1>1, <1>3, <1>6, <1>7, <1>8
  <2>. QED
    BY <1>1, <2>1 DEF Live
<1>9. CASE p \notin PoppedPorts
  <2>1. Departs(p) => Departs(p)'
    BY <1>9, RiseDeparts
  <2>2. k <= Held(p) /\ (k = Held(p) => k = count'[p])
    BY <1>1, <1>3, <1>6, <1>9
  <2>. QED
    BY <1>6, <2>1, <2>2 DEF Live
<1>. QED
  BY <1>8, <1>9

\* A driver presents the next flit once the router has copied the one before.
LEMMA RiseBehind ==
  ASSUME InStep, Numbered, ClockRises, NEW f \in AllFlits, Behind(f)
  PROVE  Behind(f)'
<1>1. PICK t : t = f.src
  OBVIOUS
<1>2. t \in Terminals /\ f.num \in Nat /\ data_in[t].num \in Nat
  BY <1>1, FlitFacts, DataFacts DEF InStep
<1>3. PICK r, i : r = PortOf[t][1] /\ i = PortOf[t][2]
  OBVIOUS
<1>4. r \in Routers /\ i \in Interfaces /\ FacesTerminal(r, i) /\ TerminalOf(r, i) = t
  BY <1>2, <1>3, PortOfTerminal
<1>5. data_in'[t] = Driver(t)!Presented(fifo_in[t])
  BY <1>2 DEF ClockRises, DriversStep
<1>6. GrantOf(t) = "pop" <=> st[r] = "pop1" /\ trn[r] = i
  BY <1>3 DEF GrantOf
<1>7. CASE GrantOf(t) = "pop" /\ fifo_in[t] # <<>>
  <2>1. data_in'[t] = Head(fifo_in[t])
    BY <1>5, <1>7 DEF Driver!Presented, Driver!popin
  <2>2. PICK s : s = fifo_in[t]
    OBVIOUS
  <2>3. s \in Seq(FlitsOf(t)) /\ s # <<>>
    BY <1>2, <1>7, <2>2 DEF InStep, Types, TypeOK
  <2>4. Len(s) \in Nat /\ Len(s) # 0 /\ Head(s) = s[1]
    BY <2>3
  <2>5. 1 \in 1 .. Len(s)
    BY <2>4
  <2>6. data_in'[t].num = Taken(t) + 1 /\ Taken(t) = data_in[t].num
    BY <1>2, <2>1, <2>2, <2>4, <2>5 DEF Numbered
  <2>7. f.num < data_in'[t].num
    BY <1>1, <1>2, <2>6 DEF Behind
  <2>. QED
    BY <1>1, <2>7 DEF Behind
<1>8. CASE ~ (GrantOf(t) = "pop" /\ fifo_in[t] # <<>>)
  <2>1. data_in'[t] = data_in[t]
    BY <1>5, <1>8 DEF Driver!Presented, Driver!popin
  <2>2. CASE f.num < data_in[t].num
    BY <1>1, <2>1, <2>2 DEF Behind
  <2>3. CASE f.num = data_in[t].num /\ Handed(t)
    <3>1. Copied(r) /\ trn[r] = i
      BY <1>3, <2>3 DEF Handed
    <3>2. st[r] # "pop1"
      <4>1. SUFFICES ASSUME st[r] = "pop1" PROVE FALSE
        OBVIOUS
      <4>2. i \in PndngI(r) /\ fifo_in[t] = <<>>
        BY <1>4, <1>6, <1>8, <3>1, <4>1 DEF InStep, GrantPending
      <4>3. pndng_in[t]
        BY <1>4, <4>2 DEF PndngI
      <4>4. i \in popped[r]
        BY <1>2, <1>3, <4>2, <4>3 DEF InStep, EmptiedDriver
      <4>. QED
        BY <1>4, <4>1, <4>4 DEF InStep, JustPopped
    <3>3. Copied(r)' /\ trn'[r] = trn[r]
      BY <1>4, <3>1, <3>2, RiseCopied
    <3>4. Handed(t)'
      BY <1>3, <3>1, <3>3 DEF Handed
    <3>. QED
      BY <1>1, <2>1, <2>3, <3>4 DEF Behind
  <2>. QED
    BY <1>1, <2>2, <2>3 DEF Behind
<1>. QED
  BY <1>7, <1>8

LEMMA RiseNumbered ==
  ASSUME InStep, Numbered, ClockRises
  PROVE  Numbered'
<1>1. ASSUME NEW t \in Terminals
      PROVE  /\ data_in'[t].num = Taken(t)'
             /\ \A k \in 1 .. Len(fifo_in'[t]) : fifo_in'[t][k].num = Taken(t)' + k
  <2>1. /\ data_in'[t] = Driver(t)!Presented(fifo_in[t])
        /\ fifo_in'[t] = IF Driver(t)!Pops(fifo_in[t]) THEN Tail(fifo_in[t])
                         ELSE fifo_in[t]
        /\ received'[t] = received[t]
    BY DEF ClockRises, DriversStep
  <2>2. PICK s : s = fifo_in[t]
    OBVIOUS
  <2>3. PICK S : S = FlitsOf(t)
    OBVIOUS
  <2>4. s \in Seq(S) /\ received[t] \in Int
    <3>1. Len(Script[t]) \in Nat
      BY ScriptAssumption
    <3>. QED
      BY <2>2, <2>3, <3>1 DEF InStep, Types, TypeOK
  <2>5. /\ data_in[t].num = received[t] - Len(s)
        /\ \A k \in 1 .. Len(s) : s[k].num = received[t] - Len(s) + k
    BY <2>2 DEF Numbered, Taken
  <2>6. CASE GrantOf(t) = "pop" /\ s # <<>>
    <3>1. data_in'[t] = Head(s) /\ fifo_in'[t] = Tail(s)
      BY <2>1, <2>2, <2>6 DEF Driver!Presented, Driver!Pops, Driver!popin
    <3>2. Len(s) \in Nat /\ Len(s) # 0 /\ Head(s) = s[1] /\ Len(Tail(s)) = Len(s) - 1
      BY <2>4, <2>6
    <3>3. \A k \in 1 .. Len(Tail(s)) : Tail(s)[k] = s[k + 1]
      BY <2>4, <2>6
    <3>4. Taken(t)' = received[t] - Len(s) + 1
      <4>1. Taken(t)' = received[t] - Len(Tail(s))
        BY <2>1, <3>1 DEF Taken
      <4>. QED
        BY <2>4, <3>2, <4>1
    <3>5. data_in'[t].num = Taken(t)'
      <4>1. 1 \in 1 .. Len(s)
        BY <3>2
      <4>. QED
        BY <2>5, <3>1, <3>2, <3>4, <4>1
    <3>6. ASSUME NEW k \in 1 .. Len(fifo_in'[t])
          PROVE  fifo_in'[t][k].num = Taken(t)' + k
      <4>1. k \in Nat /\ k + 1 \in 1 .. Len(s) /\ fifo_in'[t][k] = s[k + 1]
        BY <3>1, <3>2, <3>3, <3>6
      <4>2. fifo_in'[t][k].num = received[t] - Len(s) + (k + 1)
        BY <2>5, <4>1
      <4>. QED
        BY <2>4, <3>2, <3>4, <4>1, <4>2
    <3>. QED
      BY <3>5, <3>6
  <2>7. CASE ~ (GrantOf(t) = "pop" /\ s # <<>>)
    <3>1. data_in'[t] = data_in[t] /\ fifo_in'[t] = s
      BY <2>1, <2>2, <2>7 DEF Driver!Presented, Driver!Pops, Driver!popin
    <3>2. Taken(t)' = received[t] - Len(s)
      BY <2>1, <3>1 DEF Taken
    <3>. QED
      BY <2>5, <3>1, <3>2
  <2>. QED
    BY <2>6, <2>7
<1>. QED
  BY <1>1 DEF Numbered

\* What a monitor sees is a live cell, the last of its way, and departs.
LEMMA RiseSeen ==
  ASSUME InStep, Placed, ClockRises, NEW t \in Terminals, Sees(t), NEW p, p = PortOf[t]
  PROVE  /\ p \in Ports /\ 1 \in 1 .. Depth /\ Live(p, 1) /\ Dout(p) = q[p][1]
         /\ Way(p[1], q[p][1]) = 0
         /\ \A k \in 1 .. Depth : ~ Live(p, k)'
<1>1. /\ p \in Ports /\ p[1] \in Routers /\ p[2] \in Interfaces
      /\ FacesTerminal(p[1], p[2]) /\ Types
  BY PortOfTerminal DEF Placed
<1>2. 1 \in 1 .. Depth
  BY DepthAssumption
<1>3. mon[t] = "wait" /\ count[p] = 1 /\ st[p[1]] = "pop1"
  BY DEF Sees, Fifo!Pndng, InStep, MonitorInStep
<1>4. p \notin psh /\ p \notin PoppedPorts
  BY <1>3, MonitorPops DEF InStep, PushingOnly
<1>5. ~ Departs(p)
  <2>1. ASSUME NEW r \in Routers, ~ FacesTerminal(r, trn[r]), p = Source(r, trn[r])
        PROVE  FALSE
    <3>1. trn[r] \in Interfaces
      BY <1>1 DEF Types, TypeOK
    <3>. QED
      BY <1>1, <2>1, <3>1, SourceIsInner
  <2>2. ASSUME NEW u \in Terminals, p = PortOf[u] PROVE mon[u] # "ack"
    <3>1. u = t
      BY <2>2, PortOfTerminal
    <3>. QED
      BY <1>3, <3>1
  <2>. QED
    BY <2>1, <2>2 DEF Departs
<1>6. Held(p) = 1
  BY <1>3, <1>4 DEF Held
<1>7. Live(p, 1)
  BY <1>5, <1>6 DEF Live
<1>8. Way(p[1], q[p][1]) = 0
  <2>1. q[p][1] \in AllFlits /\ Jump(p[1], q[p][1]) = p[2]
    BY <1>1, <1>2, <1>6, CellFacts DEF Placed
  <2>. QED
    BY <1>1, <2>1, WayEnds
<1>9. Departs(p)'
  <2>1. mon'[t] = "ack"
    BY DEF ClockRises, MonitorsStep
  <2>. QED
    BY <2>1 DEF Departs
<1>10. Held(p)' = 1
  <2>1. count'[p] = 1 /\ clk'
    BY <1>1, <1>3, <1>4 DEF ClockRises, NextCount, Fifo!NextCount
  <2>. QED
    BY <2>1 DEF Held
<1>11. ASSUME NEW k \in 1 .. Depth PROVE ~ Live(p, k)'
  <2>1. k \in Nat /\ k >= 1
    BY DepthAssumption
  <2>. QED
    BY <1>9, <1>10, <2>1 DEF Live
<1>12. Dout(p) = q[p][1]
  BY <1>3 DEF Dout, Fifo!Dout
<1>. QED
  BY <1>1, <1>2, <1>7, <1>8, <1>11, <1>12

\* What an edge adds to the history of a terminal.
LEMMA RiseOuts ==
  ASSUME Types, ClockRises, NEW t \in Terminals
  PROVE  /\ ~ Sees(t) => outs'[t] = outs[t]
         /\ Sees(t) =>
              /\ DOMAIN outs'[t] = DOMAIN outs[t] \union {Len(outs[t]) + 1}
              /\ \A j \in DOMAIN outs[t] : /\ outs'[t][j] = outs[t][j]
                                           /\ j \in Nat /\ j < Len(outs[t]) + 1
              /\ outs'[t][Len(outs[t]) + 1] = Dout(PortOf[t])
              /\ Len(outs[t]) \in Nat
<1>1. outs'[t] = IF Sees(t) THEN Append(outs[t], Dout(PortOf[t])) ELSE outs[t]
  BY DEF ClockRises, MonitorsStep
<1>2. PICK s, S, d : s = outs[t] /\ S = AllFlits /\ d = Dout(PortOf[t])
  OBVIOUS
<1>3. s \in Seq(S) /\ d \in S
  <2>1. PortOf[t] \in Ports
    BY PortOfTerminal
  <2>2. PICK p : p = PortOf[t]
    OBVIOUS
  <2>3. count[p] = 0 \/ count[p] \in 1 .. Depth
    BY <2>1, <2>2, DepthAssumption DEF Types, TypeOK
  <2>4. count[p] \in 1 .. Depth => q[p][count[p]] \in AllFlits
    BY <2>1, <2>2, CellFacts
  <2>5. Dout(p) \in AllFlits
    BY <2>3, <2>4, FlitTypes DEF Dout, Fifo!Dout
  <2>. QED
    BY <1>2, <2>2, <2>5 DEF Types, TypeOK
<1>4. Len(s) \in Nat /\ DOMAIN s = 1 .. Len(s)
  BY <1>3
<1>5. Len(Append(s, d)) = Len(s) + 1 /\ DOMAIN Append(s, d) = 1 .. (Len(s) + 1)
  BY <1>3
<1>6. \A j \in DOMAIN s : Append(s, d)[j] = s[j]
  BY <1>3
<1>7. Append(s, d)[Len(s) + 1] = d
  BY <1>3
<1>8. DOMAIN Append(s, d) = DOMAIN s \union {Len(s) + 1}
  BY <1>4, <1>5
<1>9. \A j \in DOMAIN s : j \in Nat /\ j < Len(s) + 1
  BY <1>4
<1>. QED
  BY <1>1, <1>2, <1>4, <1>6, <1>7, <1>8, <1>9

LEMMA RiseCells ==
  ASSUME InStep, OnTheWay, Ordered, ClockRises
  PROVE  OnTheWay' /\ Ordered'
<1>1. q' = q
  BY DEF ClockRises
<1>2. OnTheWay'
  BY <1>1, RiseLive DEF OnTheWay
<1>3. ASSUME NEW p \in Ports, NEW k \in 1 .. Depth, NEW o \in Ports, NEW l \in 1 .. Depth,
             Live(p, k)', Live(o, l)', SameRoute(q[p][k], q[o][l]),
             Way(p[1], q[p][k]) < Way(o[1], q[p][k]) \/ (p = o /\ k > l)
      PROVE  q[p][k].num < q[o][l].num
  BY <1>3, RiseLive DEF Ordered
<1>4. Ordered'
  BY <1>1, <1>3 DEF Ordered
<1>. QED
  BY <1>2, <1>4

\* Whatever is live and shares the way of a flit that a monitor sees is younger.
LEMMA SeenIsOldest ==
  ASSUME InStep, Placed, OnTheWay, Ordered, ClockRises, NEW t \in Terminals, Sees(t),
         NEW p \in Ports, NEW k \in 1 .. Depth, Live(p, k)',
         NEW f, f = Dout(PortOf[t]), SameRoute(f, q[p][k])
  PROVE  f.num < q[p][k].num
<1>1. PICK o : o = PortOf[t]
  OBVIOUS
<1>2. /\ o \in Ports /\ 1 \in 1 .. Depth /\ Live(o, 1) /\ f = q[o][1] /\ Way(o[1], f) = 0
      /\ p # o
  BY <1>1, RiseSeen
<1>3. PICK g : g = q[p][k]
  OBVIOUS
<1>4. Live(p, k) /\ Follows(p[1], g) /\ g \in AllFlits /\ f \in AllFlits /\ p[1] \in Routers
  BY <1>2, <1>3, RiseLive, CellFacts DEF OnTheWay, Placed
<1>5. Jump(p[1], g) = p[2] /\ Jump(o[1], f) = o[2] /\ Follows(o[1], f)
  BY <1>2, <1>3, <1>4 DEF Live, Placed, OnTheWay
<1>6. SameRoute(f, g) /\ Way(p[1], f) = Way(p[1], g) /\ Way(p[1], g) \in Nat
  BY <1>3, <1>4, SameWay, WayBounded
<1>7. Way(o[1], f) # Way(p[1], f)
  BY <1>2, <1>4, <1>5, <1>6, WayIsUnique
<1>8. Way(o[1], f) < Way(p[1], f)
  BY <1>2, <1>6, <1>7
<1>. QED
  BY <1>2, <1>3, <1>4, <1>6, <1>8 DEF Ordered

LEMMA RiseOutsOrdered ==
  ASSUME InStep, Placed, OutsFirst, OutsOrdered, ClockRises
  PROVE  OutsOrdered'
<1>1. ASSUME NEW t \in Terminals, NEW j \in DOMAIN outs'[t], NEW k \in DOMAIN outs'[t],
             j < k, SameRoute(outs'[t][j], outs'[t][k])
      PROVE  outs'[t][j].num < outs'[t][k].num
  <2>1. CASE ~ Sees(t)
    BY <1>1, <2>1, RiseOuts DEF OutsOrdered, Placed
  <2>2. CASE Sees(t)
    <3>1. PICK n, p : n = Len(outs[t]) + 1 /\ p = PortOf[t]
      OBVIOUS
    <3>2. /\ DOMAIN outs'[t] = DOMAIN outs[t] \union {n} /\ outs'[t][n] = Dout(p)
          /\ \A i \in DOMAIN outs[t] : outs'[t][i] = outs[t][i] /\ i \in Nat /\ i < n
          /\ n \in Nat
      BY <2>2, <3>1, RiseOuts DEF Placed
    <3>3. j \in DOMAIN outs[t]
      BY <1>1, <3>2
    <3>4. CASE k \in DOMAIN outs[t]
      BY <1>1, <3>2, <3>3, <3>4 DEF OutsOrdered
    <3>5. CASE k = n
      <4>1. p \in Ports /\ 1 \in 1 .. Depth /\ Live(p, 1) /\ Dout(p) = q[p][1]
        BY <2>2, <3>1, RiseSeen
      <4>2. SameRoute(outs[t][j], q[p][1])
        BY <1>1, <3>2, <3>3, <3>5, <4>1
      <4>3. outs[t][j].num < q[p][1].num
        BY <3>3, <4>1, <4>2 DEF OutsFirst
      <4>. QED
        BY <3>2, <3>3, <3>5, <4>1, <4>3
    <3>. QED
      BY <3>2, <3>4, <3>5
  <2>. QED
    BY <2>1, <2>2
<1>. QED
  BY <1>1 DEF OutsOrdered

LEMMA RiseOutsFirst ==
  ASSUME InStep, Placed, OnTheWay, Ordered, OutsFirst, ClockRises
  PROVE  OutsFirst'
<1>1. q' = q
  BY DEF ClockRises
<1>2. ASSUME NEW t \in Terminals, NEW j \in DOMAIN outs'[t], NEW p \in Ports,
             NEW k \in 1 .. Depth, Live(p, k)', SameRoute(outs'[t][j], q[p][k])
      PROVE  outs'[t][j].num < q[p][k].num
  <2>1. Live(p, k)
    BY <1>2, RiseLive
  <2>2. CASE j \in DOMAIN outs[t] /\ outs'[t][j] = outs[t][j]
    BY <1>2, <2>1, <2>2 DEF OutsFirst
  <2>3. CASE Sees(t) /\ outs'[t][j] = Dout(PortOf[t])
    BY <1>2, <2>3, SeenIsOldest
  <2>4. \/ j \in DOMAIN outs[t] /\ outs'[t][j] = outs[t][j]
        \/ Sees(t) /\ outs'[t][j] = Dout(PortOf[t])
    BY <1>2, RiseOuts DEF Placed
  <2>. QED
    BY <2>2, <2>3, <2>4
<1>. QED
  BY <1>1, <1>2 DEF OutsFirst

LEMMA RiseDriversLast ==
  ASSUME InStep, Placed, Numbered, DriversLast, ClockRises
  PROVE  DriversLast'
<1>1. q' = q
  BY DEF ClockRises
<1>2. ASSUME NEW f \in AllFlits, NEW g, g = f, Behind(f)
      PROVE  \/ g.num < data_in'[g.src].num
             \/ g.num = data_in'[g.src].num /\ Handed(g.src)'
  BY <1>2, RiseBehind DEF Behind
<1>3. ASSUME NEW p \in Ports, NEW k \in 1 .. Depth, Live(p, k)'
      PROVE  Behind(q[p][k])'
  <2>1. PICK f : f = q[p][k]
    OBVIOUS
  <2>2. f \in AllFlits /\ Behind(f) /\ q'[p][k] = f
    BY <1>1, <1>3, <2>1, RiseLive, CellFacts DEF DriversLast, Placed
  <2>3. \/ f.num < data_in'[f.src].num
        \/ f.num = data_in'[f.src].num /\ Handed(f.src)'
    BY <1>2, <2>2
  <2>. QED
    BY <2>2, <2>3 DEF Behind
<1>4. ASSUME NEW t \in Terminals, NEW j \in DOMAIN outs'[t]
      PROVE  Behind(outs[t][j])'
  <2>1. PICK f : f = outs'[t][j]
    OBVIOUS
  <2>2. f \in AllFlits /\ Behind(f)
    <3>1. CASE j \in DOMAIN outs[t] /\ outs'[t][j] = outs[t][j]
      BY <2>1, <3>1, OutFacts DEF DriversLast, Placed
    <3>2. CASE Sees(t) /\ outs'[t][j] = Dout(PortOf[t])
      <4>1. PICK p : p = PortOf[t]
        OBVIOUS
      <4>2. p \in Ports /\ 1 \in 1 .. Depth /\ Live(p, 1) /\ Dout(p) = q[p][1]
        BY <3>2, <4>1, RiseSeen
      <4>. QED
        BY <2>1, <3>2, <4>1, <4>2, CellFacts DEF DriversLast, Placed
    <3>. QED
      BY <1>4, <3>1, <3>2, RiseOuts DEF Placed
  <2>3. \/ f.num < data_in'[f.src].num
        \/ f.num = data_in'[f.src].num /\ Handed(f.src)'
    BY <1>2, <2>2
  <2>. QED
    BY <2>1, <2>3 DEF Behind
<1>. QED
  BY <1>3, <1>4, <1>1 DEF DriversLast

LEMMA RiseInOrder ==
  ASSUME InOrder, ClockRises
  PROVE  InOrder'
<1>1. InStep' /\ Placed'
  BY InStepStep, PlacedStep DEF InOrder, Next, Clock
<1>2. glitched' = glitched
  BY DEF ClockRises
<1>. QED
  BY <1>1, <1>2, RiseNumbered, RiseCells, RiseOutsFirst, RiseDriversLast, RiseOutsOrdered
     DEF InOrder

-----------------------------------------------------------------------------
\* The other steps move no flit, or are glitches.
LEMMA OfferNumbered ==
  ASSUME Types, Numbered, NEW t \in Terminals, Offer(t)
  PROVE  Numbered'
<1>1. data_in' = data_in
  BY DEF Offer
<1>2. ASSUME NEW u \in Terminals, u # t
      PROVE  fifo_in'[u] = fifo_in[u] /\ Taken(u)' = Taken(u)
  BY <1>2 DEF Offer, Types, Taken
<1>3. PICK s, S, n, f : /\ s = fifo_in[t] /\ S = FlitsOf(t) /\ n = received[t]
                        /\ f = ScriptFlit(t, n + 1)
  OBVIOUS
<1>4. s \in Seq(S) /\ n \in Int /\ f \in S
  <2>1. Len(Script[t]) \in Nat /\ n \in Nat /\ n < Len(Script[t])
    BY <1>3, ScriptAssumption DEF Types, TypeOK, Offer
  <2>2. n + 1 \in 1 .. Len(Script[t])
    BY <2>1
  <2>. QED
    BY <1>3, <2>1, <2>2 DEF FlitsOf, Types, TypeOK
<1>5. fifo_in'[t] = Append(s, f) /\ received'[t] = n + 1
  BY <1>3 DEF Offer, Types
<1>6. Len(s) \in Nat /\ Len(Append(s, f)) = Len(s) + 1 /\ Append(s, f)[Len(s) + 1] = f
  BY <1>4
<1>7. \A k \in 1 .. Len(s) : Append(s, f)[k] = s[k]
  BY <1>4
<1>8. Taken(t) = n - Len(s) /\ Taken(t)' = n - Len(s)
  <2>1. Taken(t) = n - Len(s)
    BY <1>3 DEF Taken
  <2>2. Taken(t)' = (n + 1) - Len(Append(s, f))
    BY <1>5 DEF Taken
  <2>. QED
    BY <1>4, <1>6, <2>1, <2>2
<1>9. data_in[t].num = n - Len(s) /\ \A k \in 1 .. Len(s) : s[k].num = n - Len(s) + k
  BY <1>3, <1>8 DEF Numbered
<1>10. ASSUME NEW k \in 1 .. (Len(s) + 1)
       PROVE  Append(s, f)[k].num = n - Len(s) + k
  <2>1. CASE k = Len(s) + 1
    <3>1. f.num = n + 1
      BY <1>3 DEF ScriptFlit
    <3>. QED
      BY <1>4, <1>6, <2>1, <3>1
  <2>2. CASE k # Len(s) + 1
    <3>1. k \in 1 .. Len(s)
      BY <1>6, <2>2
    <3>. QED
      BY <1>7, <1>9, <3>1
  <2>. QED
    BY <2>1, <2>2
<1>. QED
  BY <1>1, <1>2, <1>5, <1>6, <1>8, <1>9, <1>10 DEF Numbered

LEMMA NothingMoves ==
  ASSUME InOrder, InStep', Placed', Numbered',
         UNCHANGED <<clk, st, trn, psh, q, count, data_in, mon, outs, glitched>>
  PROVE  InOrder'
<1>1. /\ \A p : \A k : Live(p, k)' <=> Live(p, k)
      /\ \A t : Handed(t)' <=> Handed(t)
  <2>1. \A r : Copied(r)' <=> Copied(r)
    BY DEF Copied
  <2>2. \A p : Departs(p)' <=> Departs(p)
    BY <2>1 DEF Departs
  <2>3. \A p : Held(p)' = Held(p)
    BY DEF Held
  <2>. QED
    BY <2>1, <2>2, <2>3 DEF Live, Handed
<1>2. OnTheWay => OnTheWay'
  BY <1>1 DEF OnTheWay
<1>3. Ordered => Ordered'
  BY <1>1 DEF Ordered
<1>4. OutsFirst => OutsFirst'
  BY <1>1 DEF OutsFirst
<1>5. DriversLast => DriversLast'
  BY <1>1 DEF DriversLast, Behind
<1>6. OutsOrdered => OutsOrdered'
  BY DEF OutsOrdered
<1>. QED
  BY <1>2, <1>3, <1>4, <1>5, <1>6 DEF InOrder

LEMMA InOrderStep == InOrder /\ [Next]_vars => InOrder'
<1>. SUFFICES ASSUME InOrder, [Next]_vars PROVE InOrder'
  OBVIOUS
<1>1. InStep' /\ Placed'
  BY InStepStep, PlacedStep DEF InOrder
<1>2. CASE Settle
  <2>1. glitched' /\ data_in' = data_in /\ fifo_in' = fifo_in /\ received' = received
    BY <1>2 DEF Settle, drivers
  <2>2. Numbered'
    BY <2>1 DEF InOrder, Numbered, Taken
  <2>. QED
    BY <1>1, <2>1, <2>2 DEF InOrder
<1>3. CASE \E t \in Terminals : Offer(t)
  <2>1. PICK t \in Terminals : Offer(t)
    BY <1>3
  <2>2. UNCHANGED <<clk, st, trn, psh, q, count, data_in, mon, outs, glitched>>
    BY <2>1 DEF Offer, fifos, history
  <2>3. Numbered'
    BY <2>1, OfferNumbered DEF InOrder, Placed
  <2>. QED
    BY <1>1, <2>2, <2>3, NothingMoves
<1>4. CASE UNCHANGED vars
  <2>1. /\ UNCHANGED <<clk, st, trn, psh, q, count, data_in, mon, outs, glitched>>
        /\ fifo_in' = fifo_in /\ received' = received
    BY <1>4 DEF vars, fifos, drivers, history
  <2>2. Numbered'
    BY <2>1 DEF InOrder, Numbered, Taken
  <2>. QED
    BY <1>1, <2>1, <2>2, NothingMoves
<1>. QED
  BY <1>2, <1>3, <1>4, FallInOrder, RiseInOrder DEF Next, Clock

\* In every mesh, and whatever it overwrites, flits from one terminal with one address
\* and mode leave in the order their driver presented them, as long as no psh wire
\* changes in mid cycle: every router is at most one push ahead of its pops, and all
\* of them follow one path.
THEOREM OrderKeptCorrect == Spec => []OrderKept
<1>1. InOrder => OrderKept
  BY DEF InOrder, OutsOrdered, OrderKept
<1>. QED
  BY <1>1, InitInOrder, InOrderStep, PTL DEF Spec

-----------------------------------------------------------------------------
(***************************************************************************)
(* Counting.                                                               *)
(***************************************************************************)
\* Two sets have as many elements as each other if one function pairs them.
LEMMA SameCount ==
  ASSUME NEW S, NEW T, IsFiniteSet(S), NEW f \in [S -> T],
         \A x, y \in S : f[x] = f[y] => x = y,
         \A y \in T : \E x \in S : f[x] = y
  PROVE  IsFiniteSet(T) /\ Cardinality(T) = Cardinality(S)
<1>1. f \in Bijection(S, T)
  BY DEF Bijection, Injection, IsInjective, Surjection
<1>. QED
  BY <1>1, FS_Bijection DEF ExistsBijection

\* A set is as large as two parts that share nothing.
LEMMA TwoParts ==
  ASSUME NEW S, NEW T, NEW U, IsFiniteSet(S), IsFiniteSet(T),
         S \cap T = {}, U = S \union T
  PROVE  /\ IsFiniteSet(U) /\ Cardinality(U) = Cardinality(S) + Cardinality(T)
         /\ Cardinality(S) \in Nat /\ Cardinality(T) \in Nat
<1>1. Cardinality(S \cap T) = 0
  BY FS_EmptySet
<1>2. /\ IsFiniteSet(S \union T)
      /\ Cardinality(S \union T) = Cardinality(S) + Cardinality(T) - Cardinality(S \cap T)
  BY FS_Union
<1>3. Cardinality(S) \in Nat /\ Cardinality(T) \in Nat
  BY FS_CardinalityType
<1>. QED
  BY <1>1, <1>2, <1>3

\* A set changes by what it gains and what it loses.
LEMMA GainAndLoss ==
  ASSUME NEW S, NEW T, NEW g, NEW h, IsFiniteSet(S), IsFiniteSet(T),
         g = T \ S, h = S \ T
  PROVE  /\ Cardinality(T) + Cardinality(h) = Cardinality(S) + Cardinality(g)
         /\ IsFiniteSet(g) /\ IsFiniteSet(h)
         /\ Cardinality(S) \in Nat /\ Cardinality(T) \in Nat
         /\ Cardinality(g) \in Nat /\ Cardinality(h) \in Nat
<1>1. PICK c : c = S \cap T
  OBVIOUS
<1>2. IsFiniteSet(c) /\ IsFiniteSet(g) /\ IsFiniteSet(h)
  BY <1>1, FS_Intersection, FS_Difference
<1>3. Cardinality(S) = Cardinality(c) + Cardinality(h)
  <2>1. c \cap h = {} /\ S = c \union h
    BY <1>1
  <2>. QED
    BY <1>2, <2>1, TwoParts
<1>4. Cardinality(T) = Cardinality(c) + Cardinality(g)
  <2>1. c \cap g = {} /\ T = c \union g
    BY <1>1
  <2>. QED
    BY <1>2, <2>1, TwoParts
<1>5. /\ Cardinality(c) \in Nat /\ Cardinality(g) \in Nat /\ Cardinality(h) \in Nat
      /\ Cardinality(S) \in Nat /\ Cardinality(T) \in Nat
  BY <1>2, FS_CardinalityType
<1>. QED
  BY <1>2, <1>3, <1>4, <1>5

\* A terminal has one flit of each number.
LEMMA FlitByNumber ==
  ASSUME NEW f \in AllFlits, NEW g \in AllFlits, f.src = g.src, f.num = g.num
  PROVE  f = g
<1>1. PICK t : t = f.src
  OBVIOUS
<1>2. t \in Terminals /\ f \in FlitsOf(t) /\ g \in FlitsOf(t)
  BY <1>1, FlitFacts
<1>3. ASSUME NEW h \in FlitsOf(t)
      PROVE  h = IF h.num = 0 THEN ZeroFlit(t) ELSE ScriptFlit(t, h.num)
  <2>1. CASE h = ZeroFlit(t)
    BY <2>1 DEF ZeroFlit
  <2>2. CASE \E k \in 1 .. Len(Script[t]) : h = ScriptFlit(t, k)
    <3>1. PICK k \in 1 .. Len(Script[t]) : h = ScriptFlit(t, k)
      BY <2>2
    <3>2. Len(Script[t]) \in Nat
      BY <1>2, ScriptAssumption
    <3>3. h.num = k /\ k # 0
      BY <3>1, <3>2 DEF ScriptFlit
    <3>. QED
      BY <3>1, <3>3
  <2>. QED
    BY <1>3, <2>1, <2>2 DEF FlitsOf
<1>. QED
  BY <1>2, <1>3

LEMMA FlitsFinite == IsFiniteSet(Terminals) /\ IsFiniteSet(AllFlits)
<1>1. IsFiniteSet(Terminals)
  <2>1. 0 \in Int /\ 2 * ROWS + 2 * COLUMNS - 1 \in Int
    BY MeshAssumption
  <2>. QED
    BY <2>1, FS_Interval DEF Terminals
<1>2. ASSUME NEW t \in Terminals PROVE IsFiniteSet(FlitsOf(t))
  <2>1. PICK n : n = Len(Script[t])
    OBVIOUS
  <2>2. n \in Nat
    BY <2>1, ScriptAssumption
  <2>3. IsFiniteSet(1 .. n)
    BY <2>2, FS_Interval
  <2>4. PICK T : T = {ScriptFlit(t, k) : k \in 1 .. n}
    OBVIOUS
  <2>5. PICK f : f = [k \in 1 .. n |-> ScriptFlit(t, k)]
    OBVIOUS
  <2>6. f \in Surjection(1 .. n, T)
    BY <2>4, <2>5 DEF Surjection
  <2>7. IsFiniteSet(T)
    BY <2>3, <2>6, FS_Surjection
  <2>8. FlitsOf(t) = T \union {ZeroFlit(t)}
    BY <2>1, <2>4 DEF FlitsOf
  <2>. QED
    BY <2>7, <2>8, FS_AddElement
<1>3. PICK S : S = {FlitsOf(t) : t \in Terminals}
  OBVIOUS
<1>4. PICK f : f = [t \in Terminals |-> FlitsOf(t)]
  OBVIOUS
<1>5. f \in Surjection(Terminals, S)
  BY <1>3, <1>4 DEF Surjection
<1>6. IsFiniteSet(S)
  BY <1>1, <1>5, FS_Surjection
<1>7. \A T \in S : IsFiniteSet(T)
  BY <1>2, <1>3
<1>8. IsFiniteSet(UNION S)
  BY <1>6, <1>7, FS_UNION
<1>. QED
  BY <1>1, <1>3, <1>8 DEF AllFlits

\* What is counted is finite.
LEMMA BooksFinite ==
  ASSUME Types
  PROVE  IsFiniteSet(Filled) /\ IsFiniteSet(Exits) /\ IsFiniteSet(Entries)
<1>1. IsFiniteSet(Entries)
  BY FlitsFinite, FS_Subset DEF Entries
<1>2. IsFiniteSet(Filled)
  <2>1. Depth \in Int /\ 1 \in Int
    BY DepthAssumption
  <2>2. IsFiniteSet(1 .. Depth)
    BY <2>1, FS_Interval
  <2>3. IsFiniteSet(Ports \X (1 .. Depth))
    BY <2>2, PortsFinite, FS_Product
  <2>4. Filled \subseteq Ports \X (1 .. Depth)
    BY DEF Filled, Fifo!Cells
  <2>. QED
    BY <2>3, <2>4, FS_Subset
<1>3. IsFiniteSet(Exits)
  <2>1. ASSUME NEW t \in Terminals PROVE IsFiniteSet({t} \X DOMAIN outs[t])
    <3>1. PICK s, S : s = outs[t] /\ S = AllFlits
      OBVIOUS
    <3>2. s \in Seq(S)
      BY <3>1 DEF Types, TypeOK
    <3>3. Len(s) \in Nat /\ DOMAIN s = 1 .. Len(s)
      BY <3>2
    <3>4. IsFiniteSet(1 .. Len(s))
      BY <3>3, FS_Interval
    <3>5. IsFiniteSet({t})
      BY FS_Singleton
    <3>. QED
      BY <3>1, <3>3, <3>4, <3>5, FS_Product
  <2>2. PICK S : S = {{t} \X DOMAIN outs[t] : t \in Terminals}
    OBVIOUS
  <2>3. PICK f : f = [t \in Terminals |-> {t} \X DOMAIN outs[t]]
    OBVIOUS
  <2>4. f \in Surjection(Terminals, S)
    BY <2>2, <2>3 DEF Surjection
  <2>5. IsFiniteSet(S)
    BY <2>4, FlitsFinite, FS_Surjection
  <2>6. \A T \in S : IsFiniteSet(T)
    BY <2>1, <2>2
  <2>7. IsFiniteSet(UNION S)
    BY <2>5, <2>6, FS_UNION
  <2>. QED
    BY <2>2, <2>7 DEF Exits
<1>. QED
  BY <1>1, <1>2, <1>3

-----------------------------------------------------------------------------
(***************************************************************************)
(* The books are balanced.                                                 *)
(***************************************************************************)
\* Which counters a rising edge moves.
Gaining == {p \in psh : p \notin PoppedPorts /\ count[p] < Depth}
Losing  == PoppedPorts \ psh

LEMMA PoppedAreFilled ==
  ASSUME InStep, NEW p \in PoppedPorts
  PROVE  p \in Ports /\ count[p] \in 1 .. Depth
<1>1. p \in Ports
  <2>1. CASE \E t \in Terminals : p = PortOf[t] /\ mon[t] = "ack"
    BY <2>1, PortOfTerminal
  <2>2. CASE \E r \in Routers, i \in Interfaces :
               /\ ~ FacesTerminal(r, i) /\ p = Source(r, i)
               /\ st[r] = "pop1" /\ trn[r] = i
    BY <2>2, SourceIsInner
  <2>. QED
    BY <2>1, <2>2, PoppedSource
<1>2. count[p] # 0
  <2>1. CASE \E t \in Terminals : p = PortOf[t] /\ mon[t] = "ack"
    BY <2>1 DEF InStep, MonitorInStep
  <2>2. CASE \E r \in Routers, i \in Interfaces :
               /\ ~ FacesTerminal(r, i) /\ p = Source(r, i)
               /\ st[r] = "pop1" /\ trn[r] = i
    BY <2>2 DEF InStep, GrantPending, PndngI, Fifo!Pndng
  <2>. QED
    BY <2>1, <2>2, PoppedSource
<1>. QED
  BY <1>1, <1>2, DepthAssumption DEF InStep, Types, TypeOK

LEMMA CountMoves ==
  ASSUME InStep, ClockRises, NEW p \in Ports
  PROVE  /\ count'[p] = IF p \in Gaining THEN count[p] + 1
                        ELSE IF p \in Losing THEN count[p] - 1
                        ELSE count[p]
         /\ count[p] \in 0 .. Depth
<1>1. count[p] \in 0 .. Depth
  BY DEF InStep, Types, TypeOK
<1>2. count'[p] = NextCount(p)
  BY DEF ClockRises
<1>3. p \in PoppedPorts => count[p] > 0
  BY PoppedAreFilled, DepthAssumption
<1>. QED
  BY <1>1, <1>2, <1>3 DEF NextCount, Fifo!NextCount, Gaining, Losing

LEMMA FilledFinite ==
  /\ Types => IsFiniteSet(Filled)
  /\ (Types => IsFiniteSet(Filled))'
<1>1. Types => IsFiniteSet(Filled)
  BY BooksFinite
<1>. QED
  BY <1>1, PTL

\* One cell is filled, or freed, for every counter that moves.
LEMMA FilledMoves ==
  ASSUME InStep, ClockRises
  PROVE  Cardinality(Filled') + Cardinality(Losing) = Cardinality(Filled) + Cardinality(Gaining)
<1>1. Types /\ Types' /\ psh \subseteq Ports /\ PoppedPorts \subseteq Ports
  BY ClockRisesInStep, PoppedAreFilled DEF InStep, Types, TypeOK
<1>2. IsFiniteSet(Filled) /\ IsFiniteSet(Filled')
  BY <1>1, FilledFinite
<1>3. Gaining \subseteq Ports /\ Losing \subseteq Ports
  BY <1>1 DEF Gaining, Losing
<1>4. IsFiniteSet(Gaining) /\ IsFiniteSet(Losing)
  BY <1>3, PortsFinite, FS_Subset
<1>5. PICK g, h : g = Filled' \ Filled /\ h = Filled \ Filled'
  OBVIOUS
<1>6. ASSUME NEW p \in Ports, NEW k \in 1 .. Depth
      PROVE  /\ <<p, k>> \in Filled <=> k <= count[p]
             /\ <<p, k>> \in Filled' <=> k <= count'[p]
  BY DEF Filled, Fifo!Cells
<1>7. \A c \in Filled \union Filled' : \E p \in Ports, k \in 1 .. Depth : c = <<p, k>>
  BY DEF Filled, Fifo!Cells
<1>8. Cardinality(g) = Cardinality(Gaining)
  <2>1. PICK f : f = [p \in Gaining |-> <<p, count[p] + 1>>]
    OBVIOUS
  <2>2. ASSUME NEW p \in Gaining PROVE <<p, count[p] + 1>> \in g
    <3>1. p \in Ports /\ count[p] \in 0 .. Depth /\ count'[p] = count[p] + 1 /\ count[p] < Depth
      BY <1>3, CountMoves DEF Gaining
    <3>2. count[p] + 1 \in 1 .. Depth /\ ~ (count[p] + 1 <= count[p])
      BY <3>1, DepthAssumption
    <3>3. count[p] + 1 <= count'[p]
      BY <3>1, <3>2
    <3>4. <<p, count[p] + 1>> \notin Filled /\ <<p, count[p] + 1>> \in Filled'
      BY <1>6, <3>1, <3>2, <3>3
    <3>. QED
      BY <1>5, <3>4
  <2>3. ASSUME NEW c \in g PROVE \E p \in Gaining : f[p] = c
    <3>1. PICK p \in Ports, k \in 1 .. Depth : c = <<p, k>>
      BY <1>5, <1>7
    <3>2. k <= count'[p] /\ ~ (k <= count[p])
      BY <1>5, <1>6, <3>1
    <3>3. p \in Gaining /\ k = count[p] + 1
      BY <3>2, CountMoves, DepthAssumption
    <3>. QED
      BY <2>1, <3>1, <3>3
  <2>4. f \in [Gaining -> g]
    BY <2>1, <2>2
  <2>5. \A x, y \in Gaining : f[x] = f[y] => x = y
    BY <2>1
  <2>. QED
    BY <1>4, <2>3, <2>4, <2>5, SameCount
<1>9. Cardinality(h) = Cardinality(Losing)
  <2>1. PICK f : f = [p \in Losing |-> <<p, count[p]>>]
    OBVIOUS
  <2>2. ASSUME NEW p \in Losing PROVE <<p, count[p]>> \in h
    <3>1. p \in Ports /\ count[p] \in 1 .. Depth /\ p \notin Gaining
      BY PoppedAreFilled DEF Losing, Gaining
    <3>2. count'[p] = count[p] - 1
      BY <3>1, CountMoves
    <3>3. count[p] <= count[p] /\ ~ (count[p] <= count'[p])
      BY <3>1, <3>2, DepthAssumption
    <3>4. <<p, count[p]>> \in Filled /\ <<p, count[p]>> \notin Filled'
      BY <1>6, <3>1, <3>3
    <3>. QED
      BY <1>5, <3>4
  <2>3. ASSUME NEW c \in h PROVE \E p \in Losing : f[p] = c
    <3>1. PICK p \in Ports, k \in 1 .. Depth : c = <<p, k>>
      BY <1>5, <1>7
    <3>2. k <= count[p] /\ ~ (k <= count'[p])
      BY <1>5, <1>6, <3>1
    <3>3. p \in Losing /\ k = count[p]
      BY <3>2, CountMoves, DepthAssumption
    <3>. QED
      BY <2>1, <3>1, <3>3
  <2>4. f \in [Losing -> h]
    BY <2>1, <2>2
  <2>5. \A x, y \in Losing : f[x] = f[y] => x = y
    BY <2>1
  <2>. QED
    BY <1>4, <2>3, <2>4, <2>5, SameCount
<1>. QED
  BY <1>2, <1>5, <1>8, <1>9, GainAndLoss

\* The counters that rise and fall, from the wires.
LEMMA WiresCount ==
  ASSUME InStep
  PROVE  /\ Cardinality(psh) + Cardinality(Losing)
              = Cardinality(Gaining) + Cardinality(Overwritten) + Cardinality(PoppedPorts)
         /\ Cardinality(psh) \in Nat /\ Cardinality(PoppedPorts) \in Nat
         /\ Cardinality(Losing) \in Nat /\ Cardinality(Gaining) \in Nat
         /\ Cardinality(Overwritten) \in Nat
<1>1. psh \subseteq Ports /\ PoppedPorts \subseteq Ports
  BY PoppedAreFilled DEF InStep, Types, TypeOK
<1>2. IsFiniteSet(psh) /\ IsFiniteSet(PoppedPorts)
  BY <1>1, PortsFinite, FS_Subset
<1>3. PICK b : b = psh \ PoppedPorts
  OBVIOUS
<1>4. Losing = PoppedPorts \ psh /\ IsFiniteSet(Losing)
  BY <1>2, FS_Difference DEF Losing
<1>5. /\ Cardinality(psh) + Cardinality(Losing) = Cardinality(PoppedPorts) + Cardinality(b)
      /\ IsFiniteSet(b) /\ Cardinality(b) \in Nat
      /\ Cardinality(psh) \in Nat /\ Cardinality(PoppedPorts) \in Nat
      /\ Cardinality(Losing) \in Nat
  BY <1>2, <1>3, <1>4, GainAndLoss
<1>6. Gaining \cap Overwritten = {} /\ b = Gaining \union Overwritten
  <2>1. ASSUME NEW p \in b PROVE p \in Gaining \union Overwritten
    <3>1. p \in psh /\ p \notin PoppedPorts /\ count[p] \in 0 .. Depth
      BY <1>1, <1>3 DEF InStep, Types, TypeOK
    <3>2. count[p] < Depth \/ count[p] = Depth
      BY <3>1, DepthAssumption
    <3>. QED
      BY <3>1, <3>2 DEF Gaining, Overwritten
  <2>2. Gaining \cap Overwritten = {}
    BY DepthAssumption DEF Gaining, Overwritten
  <2>3. Gaining \subseteq b /\ Overwritten \subseteq b
    BY <1>3 DEF Gaining, Overwritten
  <2>. QED
    BY <2>1, <2>2, <2>3
<1>7. IsFiniteSet(Gaining) /\ IsFiniteSet(Overwritten)
  BY <1>5, <1>6, FS_Subset
<1>8. /\ Cardinality(b) = Cardinality(Gaining) + Cardinality(Overwritten)
      /\ Cardinality(Gaining) \in Nat /\ Cardinality(Overwritten) \in Nat
  BY <1>6, <1>7, TwoParts
<1>. QED
  BY <1>5, <1>8

\* The routers in a state.
At(s) == {r \in Routers : st[r] = s}
Acking == {t \in Terminals : mon[t] = "ack"}

\* Every router that pushes raises one psh wire, or sinks what it reads.
LEMMA PushersCount ==
  ASSUME InStep, ClockRises
  PROVE  /\ Cardinality(psh) + Cardinality(Sinking) = Cardinality(At("psh1"))
         /\ Cardinality(Sinking) \in Nat
<1>1. psh = PshWires
  BY DEF ClockRises
<1>2. PICK S : S = {r \in Routers : st[r] = "psh1" /\ Jump(r, DataIn(r)) \in Interfaces}
  OBVIOUS
<1>3. IsFiniteSet(S) /\ IsFiniteSet(Sinking)
  BY <1>2, PortsFinite, FS_Subset DEF Sinking
<1>4. S \cap Sinking = {} /\ At("psh1") = S \union Sinking
  BY <1>2 DEF Sinking, At
<1>5. PICK f : f = [r \in S |-> <<r, Jump(r, DataIn(r))>>]
  OBVIOUS
<1>6. ASSUME NEW r \in S PROVE f[r] \in psh
  <2>1. PICK i : i = Jump(r, DataIn(r))
    OBVIOUS
  <2>2. r \in Routers /\ st[r] = "psh1" /\ i \in Interfaces /\ f[r] = <<r, i>>
    BY <1>2, <1>5, <2>1
  <2>3. <<r, i>> \in Ports
    BY <2>2 DEF Ports
  <2>. QED
    BY <1>1, <2>1, <2>2, <2>3 DEF PshWires
<1>7. ASSUME NEW p \in psh PROVE \E r \in S : f[r] = p
  <2>1. p \in Ports /\ st[p[1]] = "psh1" /\ Jump(p[1], DataIn(p[1])) = p[2]
    BY <1>1 DEF PshWires
  <2>2. p[1] \in Routers /\ p[2] \in Interfaces /\ p = <<p[1], p[2]>>
    BY <2>1 DEF Ports
  <2>3. p[1] \in S
    BY <1>2, <2>1, <2>2
  <2>. QED
    BY <1>5, <2>1, <2>2, <2>3
<1>8. f \in [S -> psh]
  BY <1>5, <1>6
<1>9. \A x, y \in S : f[x] = f[y] => x = y
  BY <1>5
<1>10. Cardinality(psh) = Cardinality(S)
  BY <1>3, <1>7, <1>8, <1>9, SameCount
<1>11. /\ Cardinality(At("psh1")) = Cardinality(S) + Cardinality(Sinking)
       /\ Cardinality(S) \in Nat /\ Cardinality(Sinking) \in Nat
  BY <1>3, <1>4, TwoParts
<1>. QED
  BY <1>10, <1>11

\* Every router that pops, pops a FIFO or a driver; the other pops are those of the
\* monitors.
LEMMA PoppersCount ==
  ASSUME InStep
  PROVE  /\ Cardinality(PoppedPorts) + Cardinality(PoppedTerminals)
              = Cardinality(At("pop1")) + Cardinality(Acking)
         /\ Cardinality(PoppedTerminals) \in Nat /\ IsFiniteSet(PoppedTerminals)
         /\ Cardinality(At("pop1")) \in Nat /\ Cardinality(Acking) \in Nat
<1>1. PICK A, B : /\ A = {r \in At("pop1") : ~ FacesTerminal(r, trn[r])}
                  /\ B = {r \in At("pop1") : FacesTerminal(r, trn[r])}
  OBVIOUS
<1>2. /\ \A r \in A : r \in Routers /\ st[r] = "pop1" /\ ~ FacesTerminal(r, trn[r])
      /\ \A r \in B : r \in Routers /\ st[r] = "pop1" /\ FacesTerminal(r, trn[r])
      /\ \A r \in Routers : trn[r] \in Interfaces
  BY <1>1 DEF At, InStep, Types, TypeOK
<1>3. IsFiniteSet(A) /\ IsFiniteSet(B) /\ IsFiniteSet(Acking)
  <2>1. A \subseteq Routers /\ B \subseteq Routers /\ Acking \subseteq Terminals
    BY <1>2 DEF Acking
  <2>. QED
    BY <2>1, PortsFinite, FlitsFinite, FS_Subset
<1>4. A \cap B = {} /\ At("pop1") = A \union B
  BY <1>1
<1>5. /\ Cardinality(At("pop1")) = Cardinality(A) + Cardinality(B)
      /\ Cardinality(A) \in Nat /\ Cardinality(B) \in Nat
  BY <1>3, <1>4, TwoParts
<1>6. PICK S, T : S = {Source(r, trn[r]) : r \in A} /\ T = {PortOf[t] : t \in Acking}
  OBVIOUS
<1>7. IsFiniteSet(S) /\ Cardinality(S) = Cardinality(A)
  <2>1. PICK f : f = [r \in A |-> Source(r, trn[r])]
    OBVIOUS
  <2>2. ASSUME NEW r \in A, NEW u \in A, f[r] = f[u] PROVE r = u
    <3>1. Source(r, trn[r]) = Source(u, trn[u])
      BY <2>1, <2>2
    <3>. QED
      BY <1>2, <3>1, SourceIsInjective
  <2>3. f \in [A -> S] /\ \A p \in S : \E r \in A : f[r] = p
    BY <1>6, <2>1
  <2>. QED
    BY <1>3, <2>2, <2>3, SameCount
<1>8. IsFiniteSet(T) /\ Cardinality(T) = Cardinality(Acking)
  <2>1. PICK f : f = [t \in Acking |-> PortOf[t]]
    OBVIOUS
  <2>2. ASSUME NEW t \in Acking, NEW u \in Acking, f[t] = f[u] PROVE t = u
    <3>1. PortOf[t] = PortOf[u] /\ t \in Terminals /\ u \in Terminals
      BY <2>1, <2>2 DEF Acking
    <3>. QED
      BY <3>1, PortOfTerminal
  <2>3. f \in [Acking -> T] /\ \A p \in T : \E t \in Acking : f[t] = p
    BY <1>6, <2>1
  <2>. QED
    BY <1>3, <2>2, <2>3, SameCount
<1>9. S \cap T = {}
  <2>1. SUFFICES ASSUME NEW p \in S, p \in T PROVE FALSE
    OBVIOUS
  <2>2. PICK r \in A : p = Source(r, trn[r])
    BY <1>6
  <2>3. PICK t \in Terminals : p = PortOf[t]
    BY <1>6, <2>1 DEF Acking
  <2>4. ~ FacesTerminal(p[1], p[2])
    BY <1>2, <2>2, SourceIsInner
  <2>. QED
    BY <2>3, <2>4, PortOfTerminal
<1>10. PoppedPorts = S \union T
  <2>1. ASSUME NEW p \in PoppedPorts PROVE p \in S \union T
    <3>1. CASE \E t \in Terminals : p = PortOf[t] /\ mon[t] = "ack"
      BY <1>6, <3>1 DEF Acking
    <3>2. CASE \E r \in Routers, i \in Interfaces :
                 /\ ~ FacesTerminal(r, i) /\ p = Source(r, i)
                 /\ st[r] = "pop1" /\ trn[r] = i
      BY <1>1, <1>6, <3>2 DEF At
    <3>. QED
      BY <3>1, <3>2, PoppedSource
  <2>2. ASSUME NEW r \in A PROVE Source(r, trn[r]) \in PoppedPorts
    BY <1>2, RouterPops
  <2>3. ASSUME NEW t \in Acking PROVE PortOf[t] \in PoppedPorts
    BY MonitorPops DEF Acking
  <2>. QED
    BY <1>6, <2>1, <2>2, <2>3
<1>11. /\ Cardinality(PoppedPorts) = Cardinality(A) + Cardinality(Acking)
       /\ Cardinality(Acking) \in Nat
  <2>1. /\ Cardinality(PoppedPorts) = Cardinality(S) + Cardinality(T)
        /\ Cardinality(T) \in Nat
    BY <1>7, <1>8, <1>9, <1>10, TwoParts
  <2>. QED
    BY <1>7, <1>8, <2>1
<1>12. IsFiniteSet(PoppedTerminals) /\ Cardinality(PoppedTerminals) = Cardinality(B)
  <2>1. PICK f : f = [r \in B |-> TerminalOf(r, trn[r])]
    OBVIOUS
  <2>2. ASSUME NEW r \in B
        PROVE  f[r] \in Terminals /\ PortOf[f[r]] = <<r, trn[r]>> /\ f[r] \in PoppedTerminals
    <3>1. f[r] = TerminalOf(r, trn[r]) /\ f[r] \in Terminals
      BY <1>2, <2>1, TerminalType
    <3>2. PortOf[f[r]] = <<r, trn[r]>>
      BY <1>2, <3>1, TerminalOfPort
    <3>. QED
      BY <1>2, <3>1, <3>2 DEF PoppedTerminals, PoppedBy
  <2>3. ASSUME NEW t \in PoppedTerminals PROVE \E r \in B : f[r] = t
    <3>1. PICK r, i : r = PortOf[t][1] /\ i = PortOf[t][2]
      OBVIOUS
    <3>2. t \in Terminals /\ i \in PoppedBy(r)
      BY <3>1 DEF PoppedTerminals
    <3>3. r \in Routers /\ FacesTerminal(r, i) /\ TerminalOf(r, i) = t
      BY <3>1, <3>2, PortOfTerminal
    <3>4. st[r] = "pop1" /\ trn[r] = i
      BY <3>2 DEF PoppedBy
    <3>. QED
      BY <1>1, <2>1, <3>3, <3>4 DEF At
  <2>4. f \in [B -> PoppedTerminals]
    BY <2>1, <2>2
  <2>5. ASSUME NEW r \in B, NEW u \in B, f[r] = f[u] PROVE r = u
    <3>1. PortOf[f[r]] = <<r, trn[r]>> /\ PortOf[f[r]] = <<u, trn[u]>>
      BY <2>2, <2>5
    <3>. QED
      BY <3>1
  <2>. QED
    BY <1>3, <2>3, <2>4, <2>5, SameCount
<1>. QED
  BY <1>5, <1>11, <1>12

\* A router that pops a driver takes the flit on data_in, and only then is one taken.
LEMMA RiseTaken ==
  ASSUME InStep, ClockRises, NEW t \in Terminals
  PROVE  /\ Taken(t)' = IF t \in PoppedTerminals THEN Taken(t) + 1 ELSE Taken(t)
         /\ Taken(t) \in Int
<1>1. /\ fifo_in'[t] = IF Driver(t)!Pops(fifo_in[t]) THEN Tail(fifo_in[t]) ELSE fifo_in[t]
      /\ received'[t] = received[t]
  BY DEF ClockRises, DriversStep
<1>2. PICK s, S : s = fifo_in[t] /\ S = FlitsOf(t)
  OBVIOUS
<1>3. s \in Seq(S) /\ received[t] \in Int
  <2>1. Len(Script[t]) \in Nat
    BY ScriptAssumption
  <2>. QED
    BY <1>2, <2>1 DEF InStep, Types, TypeOK
<1>4. Len(s) \in Nat /\ (s # <<>> => Len(Tail(s)) = Len(s) - 1)
  BY <1>3
<1>5. PICK r, i : r = PortOf[t][1] /\ i = PortOf[t][2]
  OBVIOUS
<1>6. r \in Routers /\ i \in Interfaces /\ FacesTerminal(r, i) /\ TerminalOf(r, i) = t
  BY <1>5, PortOfTerminal
<1>7. t \in PoppedTerminals <=> st[r] = "pop1" /\ trn[r] = i
  BY <1>5 DEF PoppedTerminals, PoppedBy
<1>8. GrantOf(t) = "pop" <=> st[r] = "pop1" /\ trn[r] = i
  BY <1>5 DEF GrantOf
<1>9. ASSUME t \in PoppedTerminals PROVE s # <<>>
  <2>1. st[r] = "pop1" /\ trn[r] = i
    BY <1>7, <1>9
  <2>2. SUFFICES ASSUME s = <<>> PROVE FALSE
    OBVIOUS
  <2>3. i \in PndngI(r)
    BY <1>6, <2>1 DEF InStep, GrantPending
  <2>4. pndng_in[t]
    BY <1>6, <2>3 DEF PndngI
  <2>5. i \in popped[r]
    BY <1>2, <1>5, <2>2, <2>4 DEF InStep, EmptiedDriver
  <2>. QED
    BY <1>6, <2>1, <2>5 DEF InStep, JustPopped
<1>10. fifo_in'[t] = IF t \in PoppedTerminals THEN Tail(s) ELSE s
  BY <1>1, <1>2, <1>7, <1>8, <1>9 DEF Driver!Pops, Driver!popin
<1>11. Taken(t) = received[t] - Len(s)
  BY <1>2 DEF Taken
<1>12. Taken(t)' = received[t] - Len(fifo_in'[t])
  BY <1>1 DEF Taken
<1>. QED
  BY <1>3, <1>4, <1>9, <1>10, <1>11, <1>12

LEMMA EntriesCount ==
  ASSUME InStep, Numbered, ClockRises
  PROVE  Cardinality(Entries') = Cardinality(Entries) + Cardinality(PoppedTerminals)
<1>1. PICK f, N : /\ f = [t \in PoppedTerminals |-> data_in[t]]
                  /\ N = {data_in[t] : t \in PoppedTerminals}
  OBVIOUS
<1>2. PoppedTerminals \subseteq Terminals
  BY DEF PoppedTerminals
<1>3. ASSUME NEW t \in Terminals
      PROVE  /\ data_in[t] \in AllFlits /\ data_in[t].src = t
             /\ data_in[t].num = Taken(t)
             /\ Taken(t)' = IF t \in PoppedTerminals THEN Taken(t) + 1 ELSE Taken(t)
             /\ Taken(t) \in Int
  BY DataFacts, RiseTaken DEF InStep, Numbered
<1>4. f \in [PoppedTerminals -> N] /\ \A g \in N : \E t \in PoppedTerminals : f[t] = g
  BY <1>1
<1>5. ASSUME NEW t \in PoppedTerminals, NEW u \in PoppedTerminals, f[t] = f[u]
      PROVE  t = u
  <2>1. data_in[t] = data_in[u] /\ t \in Terminals /\ u \in Terminals
    BY <1>1, <1>2, <1>5
  <2>. QED
    BY <1>3, <2>1
<1>6. IsFiniteSet(N) /\ Cardinality(N) = Cardinality(PoppedTerminals)
  BY <1>4, <1>5, PoppersCount, SameCount
<1>7. Entries \cap N = {}
  <2>1. SUFFICES ASSUME NEW t \in PoppedTerminals, data_in[t] \in Entries PROVE FALSE
    BY <1>1
  <2>2. data_in[t].num < Taken(t) /\ data_in[t].num = Taken(t) /\ Taken(t) \in Int
    BY <1>2, <1>3, <2>1 DEF Entries
  <2>. QED
    BY <2>2
<1>8. Entries' = Entries \union N
  <2>1. Entries' = {g \in AllFlits : g.num < Taken(g.src)'}
    BY DEF Entries
  <2>2. ASSUME NEW g \in AllFlits
        PROVE  g.num < Taken(g.src)' <=> g.num < Taken(g.src) \/ g \in N
    <3>1. PICK t, d : t = g.src /\ d = data_in[t]
      OBVIOUS
    <3>2. t \in Terminals /\ g.num \in Nat
      BY <3>1, FlitFacts
    <3>3. /\ d \in AllFlits /\ d.src = t /\ d.num = Taken(t) /\ Taken(t) \in Int
          /\ Taken(t)' = IF t \in PoppedTerminals THEN Taken(t) + 1 ELSE Taken(t)
      BY <1>3, <3>1, <3>2
    <3>4. g.num = Taken(t) => g = d
      BY <3>1, <3>3, FlitByNumber
    <3>5. g \in N <=> t \in PoppedTerminals /\ g = d
      <4>1. ASSUME NEW u \in PoppedTerminals, g = data_in[u] PROVE u = t
        BY <1>2, <1>3, <3>1, <4>1
      <4>. QED
        BY <1>1, <3>1, <4>1
    <3>. QED
      BY <3>1, <3>2, <3>3, <3>4, <3>5
  <2>3. ASSUME NEW g \in N PROVE g \in AllFlits
    BY <1>1, <1>2, <1>3, <2>3
  <2>. QED
    BY <2>1, <2>2, <2>3 DEF Entries
<1>9. IsFiniteSet(Entries)
  BY BooksFinite DEF InStep
<1>10. Cardinality(Entries') = Cardinality(Entries) + Cardinality(N)
  BY <1>6, <1>7, <1>8, <1>9, TwoParts
<1>. QED
  BY <1>6, <1>10

LEMMA ExitsCount ==
  ASSUME Types, ClockRises
  PROVE  Cardinality(Exits') = Cardinality(Exits) + Cardinality(Acking')
<1>1. PICK f, N, S : /\ S = {t \in Terminals : Sees(t)}
                     /\ f = [t \in S |-> <<t, Len(outs[t]) + 1>>]
                     /\ N = {<<t, Len(outs[t]) + 1>> : t \in S}
  OBVIOUS
<1>2. Acking' = S
  BY <1>1 DEF Acking, ClockRises, MonitorsStep
<1>3. IsFiniteSet(S)
  BY <1>1, FlitsFinite, FS_Subset
<1>4. f \in [S -> N] /\ \A x \in N : \E t \in S : f[t] = x
  BY <1>1
<1>5. \A t, u \in S : f[t] = f[u] => t = u
  BY <1>1
<1>6. IsFiniteSet(N) /\ Cardinality(N) = Cardinality(S)
  BY <1>3, <1>4, <1>5, SameCount
<1>7. Exits \cap N = {}
  <2>1. SUFFICES ASSUME NEW t \in S, <<t, Len(outs[t]) + 1>> \in Exits PROVE FALSE
    BY <1>1
  <2>2. t \in Terminals /\ Sees(t)
    BY <1>1
  <2>3. Len(outs[t]) + 1 \in DOMAIN outs[t]
    BY <2>1, <2>2 DEF Exits
  <2>4. Len(outs[t]) + 1 < Len(outs[t]) + 1 /\ Len(outs[t]) \in Nat
    BY <2>2, <2>3, RiseOuts
  <2>. QED
    BY <2>4
<1>8. Exits' = Exits \union N
  <2>1. Exits' = UNION {{t} \X DOMAIN outs'[t] : t \in Terminals}
    BY DEF Exits
  <2>2. ASSUME NEW t \in Terminals
        PROVE  DOMAIN outs'[t] = DOMAIN outs[t]
                                   \union (IF t \in S THEN {Len(outs[t]) + 1} ELSE {})
    BY <1>1, RiseOuts
  <2>3. ASSUME NEW x
        PROVE  x \in Exits' <=> x \in Exits \union N
    <3>1. x \in Exits' <=> \E t \in Terminals : x \in {t} \X DOMAIN outs'[t]
      BY <2>1
    <3>2. x \in Exits <=> \E t \in Terminals : x \in {t} \X DOMAIN outs[t]
      BY DEF Exits
    <3>3. x \in N <=> \E t \in Terminals : t \in S /\ x = <<t, Len(outs[t]) + 1>>
      BY <1>1
    <3>4. ASSUME NEW t \in Terminals
          PROVE  x \in {t} \X DOMAIN outs'[t]
                   <=> \/ x \in {t} \X DOMAIN outs[t]
                       \/ t \in S /\ x = <<t, Len(outs[t]) + 1>>
      BY <2>2
    <3>. QED
      BY <3>1, <3>2, <3>3, <3>4
  <2>. QED
    BY <2>3
<1>9. IsFiniteSet(Exits)
  BY BooksFinite
<1>10. Cardinality(Exits') = Cardinality(Exits) + Cardinality(N)
  BY <1>6, <1>7, <1>8, <1>9, TwoParts
<1>. QED
  BY <1>2, <1>6, <1>10

\* A router that has pushed pops.
LEMMA RiseAt ==
  ASSUME InStep, ClockRises
  PROVE  At("pop1")' = At("psh1")
<1>1. Types /\ RoutersStep
  BY DEF InStep, ClockRises
<1>2. ASSUME NEW r \in Routers
      PROVE  st'[r] = "pop1" <=> st[r] = "psh1"
  <2>1. st[r] \in {"psh1", "pop1"} => PndngI(r) # {}
    BY DEF InStep, GrantPending
  <2>2. st'[r] = IF PndngI(r) = {} THEN st[r]
                 ELSE IF st[r] = "rst"
                      THEN IF trn[r] \in PndngI(r) THEN "psh1" ELSE "cnt1"
                 ELSE IF st[r] = "psh1" THEN "pop1"
                 ELSE IF st[r] = "pop1" THEN "cnt1" ELSE "rst"
    BY <1>1, RouterEdge
  <2>. QED
    BY <2>1, <2>2
<1>3. At("pop1")' = {r \in Routers : st'[r] = "pop1"}
  BY DEF At
<1>. QED
  BY <1>2, <1>3 DEF At

LEMMA RiseBalance ==
  ASSUME InStep, Numbered, ClockRises, CountsBalance
  PROVE  CountsBalance'
<1>1. /\ Cardinality(Filled') + Cardinality(Losing)
           = Cardinality(Filled) + Cardinality(Gaining)
      /\ Cardinality(Filled) \in Nat
  <2>1. Cardinality(Filled) \in Nat
    BY BooksFinite, FS_CardinalityType DEF InStep
  <2>. QED
    BY <2>1, FilledMoves
<1>2. /\ Cardinality(psh) + Cardinality(Losing)
           = Cardinality(Gaining) + Cardinality(Overwritten) + Cardinality(PoppedPorts)
      /\ Cardinality(psh) \in Nat /\ Cardinality(PoppedPorts) \in Nat
      /\ Cardinality(Losing) \in Nat /\ Cardinality(Gaining) \in Nat
      /\ Cardinality(Overwritten) \in Nat
  BY WiresCount
<1>3. /\ Cardinality(psh) + Cardinality(Sinking) = Cardinality(At("psh1"))
      /\ Cardinality(Sinking) \in Nat
  BY PushersCount
<1>4. /\ Cardinality(PoppedPorts) + Cardinality(PoppedTerminals)
           = Cardinality(At("pop1")) + Cardinality(Acking)
      /\ Cardinality(PoppedTerminals) \in Nat
      /\ Cardinality(At("pop1")) \in Nat /\ Cardinality(Acking) \in Nat
  BY PoppersCount
<1>5. /\ Cardinality(Entries') = Cardinality(Entries) + Cardinality(PoppedTerminals)
      /\ Cardinality(Entries) \in Nat
  BY EntriesCount, BooksFinite, FS_CardinalityType DEF InStep
<1>6. /\ Cardinality(Exits') = Cardinality(Exits) + Cardinality(Acking')
      /\ Cardinality(Exits) \in Nat /\ Cardinality(Acking') \in Nat
  <2>1. Cardinality(Exits) \in Nat
    BY BooksFinite, FS_CardinalityType DEF InStep
  <2>2. Acking' \subseteq Terminals
    BY DEF Acking
  <2>3. Cardinality(Acking') \in Nat
    BY <2>2, FlitsFinite, FS_Subset, FS_CardinalityType
  <2>. QED
    BY <2>1, <2>3, ExitsCount DEF InStep
<1>7. lost' = lost + Cardinality(Overwritten) + Cardinality(Sinking) /\ lost \in Nat
  BY DEF ClockRises, InStep, Types, TypeOK
<1>8. Cardinality(At("pop1")') = Cardinality(At("psh1"))
  BY RiseAt
<1>9. Cardinality(Filled) + lost + Cardinality(Exits)
        = Cardinality(Entries) + Cardinality(At("pop1")) + Cardinality(Acking)
  BY DEF CountsBalance, At, Acking
<1>10. Cardinality(Filled') + lost' + Cardinality(Exits')
         = Cardinality(Entries') + Cardinality(At("pop1")') + Cardinality(Acking')
  <2>1. PICK fl, fl1, lo, ga, ps, ov, pp :
          /\ fl = Cardinality(Filled) /\ fl1 = Cardinality(Filled')
          /\ lo = Cardinality(Losing) /\ ga = Cardinality(Gaining)
          /\ ps = Cardinality(psh) /\ ov = Cardinality(Overwritten)
          /\ pp = Cardinality(PoppedPorts)
    OBVIOUS
  <2>2. fl1 + lo = fl + ga /\ ps + lo = ga + ov + pp /\ Cardinality(Filled') \in Nat
    <3>1. IsFiniteSet(Filled')
      BY ClockRisesInStep, FilledFinite DEF InStep
    <3>. QED
      BY <1>1, <1>2, <2>1, <3>1, FS_CardinalityType
  <2>3. fl1 = fl + ps - ov - pp
    BY <1>1, <1>2, <2>1, <2>2
  <2>. QED
    BY <1>1, <1>2, <1>3, <1>4, <1>5, <1>6, <1>7, <1>8, <1>9, <2>1, <2>2, <2>3
<1>. QED
  BY <1>10 DEF CountsBalance, At, Acking

LEMMA OfferTaken ==
  ASSUME Types, NEW u \in Terminals, Offer(u), NEW t \in Terminals
  PROVE  Taken(t)' = Taken(t)
<1>1. PICK s, f : s = fifo_in[t] /\ f = ScriptFlit(t, received[t] + 1)
  OBVIOUS
<1>2. s \in Seq(FlitsOf(t)) /\ received[t] \in Int
  <2>1. Len(Script[t]) \in Nat
    BY ScriptAssumption
  <2>. QED
    BY <1>1, <2>1 DEF Types, TypeOK
<1>3. Len(s) \in Nat /\ Len(Append(s, f)) = Len(s) + 1
  BY <1>2
<1>4. /\ received'[t] = IF t = u THEN received[t] + 1 ELSE received[t]
      /\ fifo_in'[t] = IF t = u THEN Append(s, f) ELSE s
  BY <1>1 DEF Offer, Types
<1>. QED
  BY <1>1, <1>2, <1>3, <1>4 DEF Taken

\* Between rising edges the books stand still.
LEMMA BooksStand ==
  ASSUME CountsBalance, UNCHANGED <<count, lost, outs, mon, st>>,
         \A t \in Terminals : Taken(t)' = Taken(t)
  PROVE  CountsBalance'
<1>1. Filled' = Filled /\ Exits' = Exits
  BY DEF Filled, Exits
<1>2. Entries' = Entries
  BY FlitFacts DEF Entries
<1>. QED
  BY <1>1, <1>2 DEF CountsBalance

LEMMA BalanceStep == InOrder /\ CountsBalance /\ [Next]_vars => CountsBalance'
<1>. SUFFICES ASSUME InOrder, CountsBalance, [Next]_vars PROVE CountsBalance'
  OBVIOUS
<1>1. ASSUME UNCHANGED <<fifo_in, received>>
      PROVE  \A t \in Terminals : Taken(t)' = Taken(t)
  BY <1>1 DEF Taken
<1>2. CASE ClockRises
  BY <1>2, RiseBalance DEF InOrder
<1>3. CASE ClockFalls
  BY <1>1, <1>3, BooksStand DEF ClockFalls, drivers, history
<1>4. CASE Settle
  BY <1>1, <1>4, BooksStand DEF Settle, drivers
<1>5. CASE \E t \in Terminals : Offer(t)
  <2>1. PICK u \in Terminals : Offer(u)
    BY <1>5
  <2>2. \A t \in Terminals : Taken(t)' = Taken(t)
    BY <2>1, OfferTaken DEF InOrder, InStep
  <2>3. UNCHANGED <<count, lost, outs, mon, st>>
    BY <2>1 DEF Offer, fifos, history
  <2>. QED
    BY <2>2, <2>3, BooksStand
<1>6. CASE UNCHANGED vars
  BY <1>1, <1>6, BooksStand DEF vars, fifos, drivers, history
<1>. QED
  BY <1>2, <1>3, <1>4, <1>5, <1>6 DEF Next, Clock

LEMMA InitBalance == Init => CountsBalance
<1>. SUFFICES ASSUME Init PROVE CountsBalance
  OBVIOUS
<1>1. Filled = {}
  <2>1. ASSUME NEW p \in Ports, NEW k \in 1 .. Depth PROVE ~ (k <= count[p])
    BY DepthAssumption DEF Init
  <2>. QED
    BY <2>1 DEF Filled, Fifo!Cells
<1>2. Exits = {}
  BY DEF Exits, Init
<1>3. Entries = {}
  <2>1. ASSUME NEW f \in AllFlits PROVE ~ (f.num < Taken(f.src))
    <3>1. f.src \in Terminals /\ f.num \in Nat
      BY FlitFacts
    <3>2. Taken(f.src) = 0
      BY <3>1 DEF Taken, Init
    <3>. QED
      BY <3>1, <3>2
  <2>. QED
    BY <2>1 DEF Entries
<1>4. {r \in Routers : st[r] = "pop1"} = {} /\ {t \in Terminals : mon[t] = "ack"} = {}
  BY DEF Init
<1>5. lost = 0
  BY DEF Init
<1>. QED
  BY <1>1, <1>2, <1>3, <1>4, <1>5, FS_EmptySet DEF CountsBalance

\* The books of the counters are balanced in every mesh, overflows and mid-cycle
\* captures included: what was taken is pending, or was overwritten, or has left.
THEOREM CountsBalanceCorrect == Spec => []CountsBalance
BY InitInOrder, InOrderStep, InitBalance, BalanceStep, PTL DEF Spec

-----------------------------------------------------------------------------
(***************************************************************************)
(* Every flit is once somewhere.                                           *)
(***************************************************************************)
\* Flit f is in the mesh, and no router has copied that cell of it, or has left.
Present(f) ==
  \/ \E p \in Ports : \E k \in 1 .. Depth : Live(p, k) /\ q[p][k] = f
  \/ \E t \in Terminals : \E j \in DOMAIN outs[t] : outs[t][j] = f

\* Nothing was overwritten and nothing will be at the end of this cycle: every router
\* that pushes has a FIFO to push into, and that FIFO has room.
Kept ==
  /\ lost = 0
  /\ ~ clk => /\ Overwritten = {}
              /\ \A r \in Routers : st[r] = "psh1" =>
                   \E i \in Interfaces : <<r, i>> \in psh

\* Until then whatever its driver does not show any more is somewhere.
AllPresent == ~ glitched /\ Kept => \A f \in AllFlits : Behind(f) => Present(f)

\* A flit leaves where its way ends.
OutsPlaced ==
  ~ glitched =>
    \A t \in Terminals : \A j \in DOMAIN outs[t] :
      /\ Follows(PortOf[t][1], outs[t][j])
      /\ Jump(PortOf[t][1], outs[t][j]) = PortOf[t][2]

Somewhere == InOrder /\ AllPresent /\ OutsPlaced

LEMMA InitSomewhere == Init => Somewhere
<1>. SUFFICES ASSUME Init PROVE Somewhere
  OBVIOUS
<1>1. InOrder
  BY InitInOrder
<1>2. ASSUME NEW f \in AllFlits PROVE ~ Behind(f)
  <2>1. PICK t : t = f.src
    OBVIOUS
  <2>2. t \in Terminals /\ f.num \in Nat
    BY <2>1, FlitFacts
  <2>3. data_in[t].num = 0
    BY <2>2 DEF Init, ZeroFlit
  <2>4. PortOf[t][1] \in Routers
    BY <2>2, PortOfTerminal
  <2>5. ~ Handed(t)
    BY <2>4 DEF Init, Handed, Copied
  <2>. QED
    BY <2>1, <2>2, <2>3, <2>5 DEF Behind
<1>3. \A t \in Terminals : DOMAIN outs[t] = {}
  BY DEF Init
<1>. QED
  BY <1>1, <1>2, <1>3 DEF Somewhere, AllPresent, OutsPlaced

\* What a router pushes lies in the FIFO it pushes into, where nobody has copied it.
LEMMA FallArrives ==
  ASSUME InStep, Placed, ClockFalls, NEW r \in Routers, st[r] = "psh1",
         NEW i \in Interfaces, <<r, i>> \in psh
  PROVE  /\ <<r, i>> \in Ports /\ 1 \in 1 .. Depth
         /\ q'[<<r, i>>][1] = DataIn(r) /\ Live(<<r, i>>, 1)'
<1>1. /\ clk /\ ~ clk' /\ st' = st /\ trn' = trn /\ psh' = psh /\ count' = count
      /\ mon' = mon /\ Capture(psh) /\ Types
  BY DEF ClockFalls, history, Placed
<1>2. PICK p : p = <<r, i>>
  OBVIOUS
<1>3. p \in Ports /\ p[1] = r /\ p[2] = i /\ p \in psh /\ 1 \in 1 .. Depth
  BY <1>2, DepthAssumption DEF Ports
<1>4. q'[p] = Fifo!Shifted(q[p], DataIn(r))
  BY <1>1, <1>3 DEF Capture
<1>5. q'[p][1] = DataIn(r)
  BY <1>3, <1>4 DEF Fifo!Shifted, Fifo!Cells
<1>6. count[p] \in Nat /\ Held(p)' = count[p] + 1
  <2>1. count[p] \in Nat
    BY <1>1, <1>3, CellFacts
  <2>. QED
    BY <1>1, <1>3, <2>1 DEF Held
<1>7. ASSUME 1 = Held(p)', Departs(p)' PROVE FALSE
  <2>1. count[p] = 0
    BY <1>6, <1>7
  <2>2. ASSUME NEW o \in Routers, Copied(o)', ~ FacesTerminal(o, trn[o]),
               p = Source(o, trn[o])
        PROVE  FALSE
    <3>1. st[o] \in {"psh1", "pop1"}
      BY <1>1, <2>2 DEF Copied
    <3>2. trn[o] \in PndngI(o)
      BY <3>1 DEF InStep, GrantPending
    <3>. QED
      BY <2>1, <2>2, <3>2 DEF PndngI, Fifo!Pndng
  <2>3. ASSUME NEW t \in Terminals, mon[t] = "ack", p = PortOf[t]
        PROVE  FALSE
    BY <2>1, <2>3 DEF InStep, MonitorInStep
  <2>4. \/ \E o \in Routers : /\ Copied(o)' /\ ~ FacesTerminal(o, trn[o])
                              /\ p = Source(o, trn[o])
        \/ \E t \in Terminals : mon[t] = "ack" /\ p = PortOf[t]
    BY <1>1, <1>7 DEF Departs
  <2>. QED
    BY <2>2, <2>3, <2>4
<1>8. Live(p, 1)'
  BY <1>6, <1>7 DEF Live
<1>. QED
  BY <1>2, <1>3, <1>5, <1>8

\* The falling edge loses no flit, unless the rising edge counts it.
LEMMA FallCell ==
  ASSUME InStep, Placed, ClockFalls, Kept', NEW p \in Ports, NEW k \in 1 .. Depth,
         Live(p, k), NEW f, f = q[p][k]
  PROVE  Present(f)'
<1>1. /\ clk /\ ~ clk' /\ st' = st /\ trn' = trn /\ psh' = psh /\ count' = count
      /\ mon' = mon /\ Capture(psh) /\ Types
  BY DEF ClockFalls, history, Placed
<1>2. /\ count[p] \in Nat /\ count[p] <= Depth /\ k \in Nat /\ k >= 1 /\ k <= Depth
      /\ Depth \in Nat /\ Held(p) = count[p]
      /\ Held(p)' = (IF p \in psh THEN count[p] + 1 ELSE count[p])
  BY <1>1, CellFacts DEF Held
<1>3. k <= count[p] /\ (k = count[p] => ~ Departs(p))
  BY <1>2 DEF Live
<1>4. PICK l : l = IF p \in psh THEN k + 1 ELSE k
  OBVIOUS
<1>5. l \in 1 .. Depth
  <2>1. CASE p \in psh
    <3>1. SUFFICES ASSUME ~ (k + 1 <= Depth) PROVE FALSE
      BY <1>2, <1>4, <2>1
    <3>2. k = Depth /\ count[p] = Depth
      BY <1>2, <1>3, <3>1
    <3>3. p \in PoppedPorts
      <4>1. Overwritten' = {}
        BY <1>1 DEF Kept
      <4>2. Overwritten' = Overwritten
        BY <1>1 DEF Overwritten, PoppedPorts, PoppedBy
      <4>. QED
        BY <2>1, <3>2, <4>1, <4>2 DEF Overwritten
    <3>4. Departs(p)
      <4>1. CASE \E t \in Terminals : p = PortOf[t] /\ mon[t] = "ack"
        BY <4>1 DEF Departs
      <4>2. CASE \E r \in Routers, i \in Interfaces :
                   /\ ~ FacesTerminal(r, i) /\ p = Source(r, i)
                   /\ st[r] = "pop1" /\ trn[r] = i
        BY <4>2 DEF Departs, Copied
      <4>. QED
        BY <3>3, <4>1, <4>2, PoppedSource
    <3>. QED
      BY <1>3, <3>2, <3>4
  <2>2. CASE p \notin psh
    BY <1>4, <2>2
  <2>. QED
    BY <2>1, <2>2
<1>6. q'[p][l] = f /\ l <= Held(p)' /\ (l = Held(p)' <=> k = count[p])
  <2>1. CASE p \in psh
    <3>1. q'[p] = Fifo!Shifted(q[p], DataIn(p[1])) /\ l = k + 1
      BY <1>1, <1>4, <2>1 DEF Capture
    <3>2. l # 1 /\ l - 1 = k /\ l \in Fifo!Cells
      BY <1>2, <1>5, <3>1 DEF Fifo!Cells
    <3>3. q'[p][l] = q[p][k]
      BY <3>1, <3>2 DEF Fifo!Shifted
    <3>. QED
      BY <1>2, <1>3, <2>1, <3>1, <3>3
  <2>2. CASE p \notin psh
    BY <1>1, <1>2, <1>3, <1>4, <2>2 DEF Capture
  <2>. QED
    BY <2>1, <2>2
<1>7. CASE Live(p, l)'
  BY <1>5, <1>6, <1>7 DEF Present
<1>8. CASE ~ Live(p, l)'
  <2>1. k = count[p] /\ Departs(p)' /\ ~ Departs(p)
    BY <1>3, <1>6, <1>8 DEF Live
  <2>2. PICK r \in Routers : /\ st[r] = "psh1" /\ ~ FacesTerminal(r, trn[r])
                             /\ p = Source(r, trn[r])
    BY <1>1, <2>1 DEF Departs, Copied
  <2>3. DataIn(r) = f
    BY <1>2, <2>1, <2>2, FallHead
  <2>4. PICK i \in Interfaces : <<r, i>> \in psh
    BY <1>1, <2>2 DEF Kept
  <2>. QED
    BY <2>2, <2>3, <2>4, FallArrives DEF Present
<1>. QED
  BY <1>7, <1>8

LEMMA FallPresent ==
  ASSUME InStep, Placed, AllPresent, ClockFalls
  PROVE  AllPresent'
<1>1. SUFFICES ASSUME ~ glitched', Kept', NEW f \in AllFlits, Behind(f)'
               PROVE  Present(f)'
  BY DEF AllPresent
<1>2. /\ clk /\ ~ clk' /\ st' = st /\ trn' = trn /\ glitched' = glitched /\ lost' = lost
      /\ outs' = outs /\ data_in' = data_in
  BY DEF ClockFalls, history, drivers
<1>3. ~ glitched /\ Kept
  BY <1>1, <1>2 DEF Kept
<1>4. CASE Behind(f)
  <2>1. Present(f)
    BY <1>3, <1>4 DEF AllPresent
  <2>2. CASE \E t \in Terminals : \E j \in DOMAIN outs[t] : outs[t][j] = f
    BY <1>2, <2>2 DEF Present
  <2>3. CASE \E p \in Ports : \E k \in 1 .. Depth : Live(p, k) /\ q[p][k] = f
    BY <1>1, <2>3, FallCell
  <2>. QED
    BY <2>1, <2>2, <2>3 DEF Present
<1>5. CASE ~ Behind(f)
  <2>1. PICK t, r, i : t = f.src /\ r = PortOf[t][1] /\ i = PortOf[t][2]
    OBVIOUS
  <2>2. t \in Terminals
    BY <2>1, FlitFacts
  <2>3. r \in Routers /\ i \in Interfaces /\ FacesTerminal(r, i) /\ TerminalOf(r, i) = t
    BY <2>1, <2>2, PortOfTerminal
  <2>4. f.num = data_in[t].num /\ Handed(t)' /\ ~ Handed(t)
    BY <1>1, <1>2, <1>5, <2>1 DEF Behind
  <2>5. st[r] = "psh1" /\ trn[r] = i
    BY <1>2, <2>1, <2>4 DEF Handed, Copied
  <2>6. data_in[t] = f
    BY <2>1, <2>2, <2>4, DataFacts, FlitByNumber DEF Placed
  <2>7. DataIn(r) = f
    BY <2>3, <2>5, <2>6 DEF DataIn
  <2>8. PICK j \in Interfaces : <<r, j>> \in psh
    <3>1. psh' = psh
      BY DEF ClockFalls
    <3>. QED
      BY <1>1, <1>2, <2>3, <2>5, <3>1 DEF Kept
  <2>. QED
    BY <2>3, <2>5, <2>7, <2>8, FallArrives DEF Present
<1>. QED
  BY <1>4, <1>5

\* What the drivers hand over at a rising edge was copied before it.
LEMMA RiseHanded ==
  ASSUME InStep, Numbered, ClockRises, NEW f \in AllFlits, Behind(f)'
  PROVE  Behind(f)
<1>1. PICK t, r, i : t = f.src /\ r = PortOf[t][1] /\ i = PortOf[t][2]
  OBVIOUS
<1>2. t \in Terminals /\ f.num \in Nat
  BY <1>1, FlitFacts
<1>3. r \in Routers /\ i \in Interfaces
  BY <1>1, <1>2, PortOfTerminal
<1>4. /\ data_in[t].num = Taken(t) /\ Taken(t) \in Int
      /\ Taken(t)' = IF t \in PoppedTerminals THEN Taken(t) + 1 ELSE Taken(t)
  BY <1>2, RiseTaken DEF Numbered
<1>5. data_in'[t].num = Taken(t)'
  BY <1>2, RiseNumbered DEF Numbered
<1>6. t \in PoppedTerminals => Handed(t)
  BY <1>1 DEF PoppedTerminals, PoppedBy, Handed, Copied
<1>7. CASE f.num < data_in'[t].num
  BY <1>1, <1>2, <1>4, <1>5, <1>6, <1>7 DEF Behind
<1>8. CASE f.num = data_in'[t].num /\ Handed(t)'
  <2>1. ~ clk /\ clk' /\ Types /\ RoutersStep
    BY DEF ClockRises, InStep
  <2>2. st'[r] = "pop1" /\ trn'[r] = i
    BY <1>1, <1>8, <2>1 DEF Handed, Copied
  <2>3. st[r] \in {"psh1", "pop1"} => PndngI(r) # {}
    BY <1>3 DEF InStep, GrantPending
  <2>4. st[r] = "psh1"
    BY <1>3, <2>1, <2>2, <2>3, RouterEdge
  <2>5. trn'[r] = trn[r]
    BY <1>3, <2>1, <2>4, RouterEdge
  <2>6. Handed(t) /\ t \notin PoppedTerminals
    BY <1>1, <2>1, <2>2, <2>4, <2>5 DEF Handed, Copied, PoppedTerminals, PoppedBy
  <2>. QED
    BY <1>1, <1>4, <1>5, <1>8, <2>6 DEF Behind
<1>. QED
  BY <1>1, <1>7, <1>8 DEF Behind

\* The rising edge loses no flit, unless it counts it.
LEMMA RiseCell ==
  ASSUME InStep, Placed, ClockRises, Overwritten = {},
         NEW p \in Ports, NEW k \in 1 .. Depth, Live(p, k), NEW f, f = q[p][k]
  PROVE  Present(f)'
<1>1. /\ ~ clk /\ clk' /\ q' = q /\ Types /\ RoutersStep /\ MonitorsStep
      /\ count'[p] = NextCount(p)
  BY DEF ClockRises, Placed
<1>2. /\ count[p] \in Nat /\ count[p] <= Depth /\ k \in Nat /\ k >= 1 /\ k <= Depth
      /\ Depth \in Nat /\ Held(p) = (IF p \in psh THEN count[p] + 1 ELSE count[p])
  BY <1>1, CellFacts
<1>3. k <= Held(p) /\ (k = Held(p) => ~ Departs(p))
  BY DEF Live
<1>4. p \in PoppedPorts => Departs(p)
  <2>1. CASE \E t \in Terminals : p = PortOf[t] /\ mon[t] = "ack"
    BY <2>1 DEF Departs
  <2>2. CASE \E r \in Routers, i \in Interfaces :
               /\ ~ FacesTerminal(r, i) /\ p = Source(r, i)
               /\ st[r] = "pop1" /\ trn[r] = i
    BY <2>2 DEF Departs, Copied
  <2>. QED
    BY <2>1, <2>2, PoppedSource
<1>5. p \in psh /\ p \notin PoppedPorts => count[p] < Depth
  BY <1>2 DEF Overwritten
<1>6. /\ k <= count'[p] /\ count'[p] \in Nat
      /\ k = count'[p] /\ p \notin PoppedPorts => k = Held(p)
  <2>1. CASE p \in PoppedPorts
    <3>1. k < Held(p) /\ count[p] > 0
      BY <1>2, <1>3, <1>4, <2>1, PoppedAreFilled
    <3>2. count'[p] = IF p \in psh THEN count[p] ELSE count[p] - 1
      BY <1>1, <2>1, <3>1 DEF NextCount, Fifo!NextCount
    <3>. QED
      BY <1>2, <2>1, <3>1, <3>2
  <2>2. CASE p \notin PoppedPorts
    <3>1. count'[p] = Held(p)
      BY <1>1, <1>2, <1>5, <2>2 DEF NextCount, Fifo!NextCount
    <3>. QED
      BY <1>2, <1>3, <3>1
  <2>. QED
    BY <2>1, <2>2
<1>7. Held(p)' = count'[p]
  BY <1>1, <1>6 DEF Held
<1>8. CASE ~ (k = count'[p] /\ Departs(p)')
  <2>1. Live(p, k)'
    BY <1>6, <1>7, <1>8 DEF Live
  <2>. QED
    BY <1>1, <2>1 DEF Present
<1>9. CASE k = count'[p] /\ Departs(p)'
  <2>1. CASE \E t \in Terminals : mon'[t] = "ack" /\ p = PortOf[t]
    <3>1. PICK t \in Terminals : Sees(t) /\ p = PortOf[t]
      BY <1>1, <2>1 DEF MonitorsStep
    <3>2. count[p] = 1 /\ mon[t] = "wait" /\ st[p[1]] = "pop1"
      BY <3>1 DEF Sees, Fifo!Pndng, InStep, MonitorInStep
    <3>3. p \notin psh /\ p \notin PoppedPorts
      BY <3>1, <3>2, MonitorPops DEF InStep, PushingOnly
    <3>4. k = 1
      BY <1>2, <1>6, <1>9, <3>2, <3>3
    <3>5. f = Dout(p)
      BY <3>2, <3>4 DEF Dout, Fifo!Dout
    <3>6. /\ Len(outs[t]) + 1 \in DOMAIN outs'[t]
          /\ outs'[t][Len(outs[t]) + 1] = f
      BY <1>1, <3>1, <3>5, RiseOuts
    <3>. QED
      BY <3>6 DEF Present
  <2>2. CASE \E r \in Routers : /\ Copied(r)' /\ ~ FacesTerminal(r, trn'[r])
                                /\ p = Source(r, trn'[r])
    <3>1. PICK r \in Routers : /\ st'[r] = "pop1" /\ ~ FacesTerminal(r, trn'[r])
                               /\ p = Source(r, trn'[r])
      BY <1>1, <2>2 DEF Copied
    <3>2. st[r] \in {"psh1", "pop1"} => PndngI(r) # {}
      BY DEF InStep, GrantPending
    <3>3. st[r] = "psh1"
      BY <1>1, <3>1, <3>2, RouterEdge
    <3>4. trn'[r] = trn[r] /\ trn[r] \in Interfaces
      BY <1>1, <3>3, RouterEdge DEF Types, TypeOK
    <3>5. Departs(p)
      BY <1>1, <3>1, <3>3, <3>4 DEF Departs, Copied
    <3>6. p \notin PoppedPorts
      BY <3>1, <3>3, <3>4, RouterPops
    <3>. QED
      BY <1>3, <1>6, <1>9, <3>5, <3>6
  <2>. QED
    BY <1>9, <2>1, <2>2 DEF Departs
<1>. QED
  BY <1>8, <1>9

LEMMA RisePresent ==
  ASSUME InStep, Placed, Numbered, AllPresent, ClockRises
  PROVE  AllPresent'
<1>1. SUFFICES ASSUME ~ glitched', Kept', NEW f \in AllFlits, Behind(f)'
               PROVE  Present(f)'
  BY DEF AllPresent
<1>2. /\ ~ clk /\ psh = PshWires /\ glitched' = glitched /\ Types
      /\ lost' = lost + Cardinality(Overwritten) + Cardinality(Sinking)
  BY DEF ClockRises, Placed
<1>3. lost = 0 /\ Cardinality(Overwritten) = 0 /\ Cardinality(Sinking) = 0
  <2>1. lost \in Nat /\ Cardinality(Overwritten) \in Nat /\ Cardinality(Sinking) \in Nat
    BY WiresCount, PushersCount DEF InStep, Types, TypeOK
  <2>2. lost' = 0
    BY <1>1 DEF Kept
  <2>. QED
    BY <1>2, <2>1, <2>2
<1>4. Overwritten = {} /\ Sinking = {}
  <2>1. psh \subseteq Ports
    BY <1>2 DEF Types, TypeOK
  <2>2. IsFiniteSet(psh) /\ IsFiniteSet(Sinking)
    BY <2>1, PortsFinite, FS_Subset DEF Sinking
  <2>3. IsFiniteSet(Overwritten)
    BY <2>2, FS_Subset DEF Overwritten
  <2>. QED
    BY <1>3, <2>2, <2>3, FS_EmptySet
<1>5. ASSUME NEW r \in Routers, st[r] = "psh1"
      PROVE  \E i \in Interfaces : <<r, i>> \in psh
  <2>1. PICK i : i = Jump(r, DataIn(r))
    OBVIOUS
  <2>2. i \in Interfaces
    BY <1>4, <1>5, <2>1 DEF Sinking
  <2>3. <<r, i>> \in Ports /\ <<r, i>>[1] = r /\ <<r, i>>[2] = i
    BY <2>2 DEF Ports
  <2>. QED
    BY <1>2, <1>5, <2>1, <2>2, <2>3 DEF PshWires
<1>6. Present(f)
  BY <1>1, <1>2, <1>3, <1>4, <1>5, RiseHanded DEF AllPresent, Kept
<1>7. CASE \E p \in Ports : \E k \in 1 .. Depth : Live(p, k) /\ q[p][k] = f
  BY <1>4, <1>7, RiseCell
<1>8. CASE \E t \in Terminals : \E j \in DOMAIN outs[t] : outs[t][j] = f
  <2>0. PICK t \in Terminals : \E j \in DOMAIN outs[t] : outs[t][j] = f
    BY <1>8
  <2>1. PICK j \in DOMAIN outs[t] : outs[t][j] = f
    BY <2>0
  <2>2. j \in DOMAIN outs'[t] /\ outs'[t][j] = f
    BY <1>2, <2>1, RiseOuts
  <2>. QED
    BY <2>2 DEF Present
<1>. QED
  BY <1>6, <1>7, <1>8 DEF Present

LEMMA RiseOutsPlaced ==
  ASSUME InStep, Placed, ~ glitched => OnTheWay, OutsPlaced, ClockRises
  PROVE  OutsPlaced'
<1>1. SUFFICES ASSUME ~ glitched, NEW t \in Terminals, NEW j \in DOMAIN outs'[t]
               PROVE  /\ Follows(PortOf[t][1], outs'[t][j])
                      /\ Jump(PortOf[t][1], outs'[t][j]) = PortOf[t][2]
  <2>1. glitched' = glitched
    BY DEF ClockRises
  <2>. QED
    BY <2>1 DEF OutsPlaced, Follows
<1>2. Types
  BY DEF Placed
<1>3. CASE j \in DOMAIN outs[t]
  <2>1. outs'[t][j] = outs[t][j]
    BY <1>2, <1>3, RiseOuts
  <2>. QED
    BY <1>1, <1>3, <2>1 DEF OutsPlaced
<1>4. CASE j \notin DOMAIN outs[t]
  <2>1. Sees(t) /\ j = Len(outs[t]) + 1
    BY <1>1, <1>2, <1>4, RiseOuts
  <2>2. PICK p : p = PortOf[t]
    OBVIOUS
  <2>3. /\ p \in Ports /\ 1 \in 1 .. Depth /\ Live(p, 1) /\ Dout(p) = q[p][1]
    BY <2>1, <2>2, RiseSeen
  <2>4. outs'[t][j] = q[p][1]
    BY <1>2, <2>1, <2>2, <2>3, RiseOuts
  <2>5. Follows(p[1], q[p][1])
    BY <1>1, <2>3 DEF OnTheWay
  <2>6. Jump(p[1], q[p][1]) = p[2]
    BY <2>3 DEF Placed, Live
  <2>. QED
    BY <2>2, <2>4, <2>5, <2>6
<1>. QED
  BY <1>3, <1>4

LEMMA NothingMissing ==
  ASSUME AllPresent, OutsPlaced,
         UNCHANGED <<clk, st, trn, psh, q, count, data_in, mon, outs, lost, glitched>>
  PROVE  AllPresent' /\ OutsPlaced'
<1>1. /\ \A p : \A k : Live(p, k)' <=> Live(p, k)
      /\ \A t : Handed(t)' <=> Handed(t)
  <2>1. \A r : Copied(r)' <=> Copied(r)
    BY DEF Copied
  <2>2. \A p : Departs(p)' <=> Departs(p)
    BY <2>1 DEF Departs
  <2>3. \A p : Held(p)' = Held(p)
    BY DEF Held
  <2>. QED
    BY <2>1, <2>2, <2>3 DEF Live, Handed
<1>2. \A f : (Behind(f)' <=> Behind(f)) /\ (Present(f)' <=> Present(f))
  BY <1>1 DEF Behind, Present
<1>3. Kept' <=> Kept
  <2>1. Overwritten' = Overwritten
    BY DEF Overwritten, PoppedPorts, PoppedBy
  <2>. QED
    BY <2>1 DEF Kept
<1>. QED
  BY <1>2, <1>3 DEF AllPresent, OutsPlaced, Follows

LEMMA SomewhereStep == Somewhere /\ [Next]_vars => Somewhere'
<1>. SUFFICES ASSUME Somewhere, [Next]_vars PROVE AllPresent' /\ OutsPlaced'
  BY InOrderStep DEF Somewhere
<1>1. InOrder /\ AllPresent /\ OutsPlaced /\ InStep /\ Placed /\ Numbered
  BY DEF Somewhere, InOrder
<1>2. CASE ClockRises
  BY <1>1, <1>2, RisePresent, RiseOutsPlaced DEF InOrder
<1>3. CASE ClockFalls
  <2>1. outs' = outs /\ glitched' = glitched
    BY <1>3 DEF ClockFalls, history
  <2>2. OutsPlaced'
    BY <1>1, <2>1 DEF OutsPlaced, Follows
  <2>. QED
    BY <1>1, <1>3, <2>2, FallPresent
<1>4. CASE Settle
  BY <1>4 DEF Settle, AllPresent, OutsPlaced
<1>5. CASE \E t \in Terminals : Offer(t)
  <2>1. UNCHANGED <<clk, st, trn, psh, q, count, data_in, mon, outs, lost, glitched>>
    BY <1>5 DEF Offer, fifos, history
  <2>. QED
    BY <1>1, <2>1, NothingMissing
<1>6. CASE UNCHANGED vars
  <2>1. UNCHANGED <<clk, st, trn, psh, q, count, data_in, mon, outs, lost, glitched>>
    BY <1>6 DEF vars, fifos, drivers, history
  <2>. QED
    BY <1>1, <2>1, NothingMissing
<1>. QED
  BY <1>2, <1>3, <1>4, <1>5, <1>6 DEF Next, Clock

LEMMA AtMostOne ==
  ASSUME NEW S, IsFiniteSet(S), \A x, y \in S : x = y
  PROVE  Cardinality(S) = IF S = {} THEN 0 ELSE 1
<1>1. CASE S = {}
  BY <1>1, FS_EmptySet
<1>2. CASE S # {}
  <2>1. PICK x : x \in S
    BY <1>2
  <2>2. S = {x}
    BY <2>1
  <2>. QED
    BY <1>2, <2>2, FS_Singleton
<1>. QED
  BY <1>1, <1>2

\* At the beginning of a cycle the heads that depart are those that are popped.
LEMMA DepartsIsPopped ==
  ASSUME Types, clk, NEW p \in Ports
  PROVE  Departs(p) <=> p \in PoppedPorts
<1>1. ASSUME p \in PoppedPorts PROVE Departs(p)
  <2>1. CASE \E t \in Terminals : p = PortOf[t] /\ mon[t] = "ack"
    BY <2>1 DEF Departs
  <2>2. CASE \E r \in Routers, i \in Interfaces :
               /\ ~ FacesTerminal(r, i) /\ p = Source(r, i)
               /\ st[r] = "pop1" /\ trn[r] = i
    BY <2>2 DEF Departs, Copied
  <2>. QED
    BY <1>1, <2>1, <2>2, PoppedSource
<1>2. ASSUME NEW r \in Routers, Copied(r), ~ FacesTerminal(r, trn[r]),
             p = Source(r, trn[r])
      PROVE  p \in PoppedPorts
  <2>1. st[r] = "pop1" /\ trn[r] \in Interfaces
    BY <1>2 DEF Copied, Types, TypeOK
  <2>. QED
    BY <1>2, <2>1, RouterPops
<1>. QED
  BY <1>1, <1>2, MonitorPops DEF Departs

\* The same flit does not lie in two cells, nor is it seen twice, nor both.
LEMMA LiveOnce ==
  ASSUME Placed, OnTheWay, Ordered,
         NEW p \in Ports, NEW k \in 1 .. Depth, NEW o \in Ports, NEW l \in 1 .. Depth,
         Live(p, k), Live(o, l), NEW f \in AllFlits, q[p][k] = f, q[o][l] = f
  PROVE  p = o /\ k = l
<1>1. /\ p[1] \in Routers /\ o[1] \in Routers /\ f.num \in Nat /\ k \in Nat /\ l \in Nat
      /\ Follows(p[1], f) /\ Follows(o[1], f)
      /\ Jump(p[1], f) = p[2] /\ Jump(o[1], f) = o[2]
  BY CellFacts, FlitFacts DEF Placed, OnTheWay, Live
<1>2. Way(p[1], f) \in Nat /\ Way(o[1], f) \in Nat
  BY <1>1, WayBounded
<1>3. SameRoute(f, f)
  BY DEF SameRoute
<1>4. ~ (Way(p[1], f) < Way(o[1], f)) /\ ~ (Way(o[1], f) < Way(p[1], f))
  BY <1>1, <1>3 DEF Ordered
<1>5. p = o
  <2>1. Way(p[1], f) = Way(o[1], f)
    BY <1>2, <1>4
  <2>. QED
    BY <1>1, <1>3, <2>1, WayIsUnique
<1>6. ~ (k > l) /\ ~ (l > k)
  BY <1>1, <1>3, <1>5 DEF Ordered
<1>. QED
  BY <1>1, <1>5, <1>6

LEMMA SeenOnce ==
  ASSUME OutsOrdered, OutsPlaced, ~ glitched, Types, NEW f \in AllFlits,
         NEW t \in Terminals, NEW j \in DOMAIN outs[t],
         NEW u \in Terminals, NEW k \in DOMAIN outs[u],
         outs[t][j] = f, outs[u][k] = f
  PROVE  t = u /\ j = k
<1>1. PICK p, o : p = PortOf[t] /\ o = PortOf[u]
  OBVIOUS
<1>2. /\ p \in Ports /\ o \in Ports /\ p[1] \in Routers /\ o[1] \in Routers
      /\ p[2] \in Interfaces /\ o[2] \in Interfaces
      /\ FacesTerminal(p[1], p[2]) /\ FacesTerminal(o[1], o[2])
  BY <1>1, PortOfTerminal
<1>3. /\ Follows(p[1], f) /\ Follows(o[1], f)
      /\ Jump(p[1], f) = p[2] /\ Jump(o[1], f) = o[2]
  BY <1>1 DEF OutsPlaced
<1>4. Way(p[1], f) = 0 /\ Way(o[1], f) = 0
  BY <1>2, <1>3, WayEnds
<1>5. SameRoute(f, f) /\ f.num \in Nat
  BY FlitFacts DEF SameRoute
<1>6. p = o
  BY <1>2, <1>3, <1>4, <1>5, WayIsUnique
<1>7. t = u
  BY <1>1, <1>6, PortOfTerminal
<1>8. ~ (j < k) /\ ~ (k < j)
  BY <1>5, <1>7 DEF OutsOrdered
<1>9. j \in Nat /\ k \in Nat
  <2>1. PICK s, S : s = outs[t] /\ S = AllFlits
    OBVIOUS
  <2>2. s \in Seq(S)
    BY <2>1 DEF Types, TypeOK
  <2>3. DOMAIN s = 1 .. Len(s) /\ Len(s) \in Nat
    BY <2>2
  <2>. QED
    BY <1>7, <2>1, <2>3
<1>. QED
  BY <1>7, <1>8, <1>9

\* The collisions of the report (Informe Veri.pdf, I), for every mesh and every script:
\* as long as no psh wire changed in mid cycle no flit is in the mesh twice, or in the
\* mesh and outside, and if no FIFO overflowed and no router sank one either, every
\* flit that entered is in one place.
THEOREM ExactlyOnceCorrect == Spec => []ExactlyOnce
<1>1. Somewhere => ExactlyOnce
  <2>. SUFFICES ASSUME Somewhere, clk, ~ glitched, NEW f \in AllFlits
                PROVE  /\ Copies(f) <= (IF Entered(f) THEN 1 ELSE 0)
                       /\ lost = 0 /\ Entered(f) => Copies(f) = 1
    BY DEF ExactlyOnce
  <2>1. /\ Types /\ Placed /\ Numbered /\ OnTheWay /\ Ordered /\ OutsFirst /\ DriversLast
        /\ OutsOrdered /\ OutsPlaced /\ AllPresent
    BY DEF Somewhere, InOrder, InStep
  <2>2. PICK C, X :
          /\ C = {c \in Filled : q[c[1]][c[2]] = f /\ ~ Leaving(c[1], c[2])}
          /\ X = {x \in Exits : outs[x[1]][x[2]] = f}
    OBVIOUS
  <2>3. IsFiniteSet(C) /\ IsFiniteSet(X)
    BY <2>1, <2>2, BooksFinite, FS_Subset
  <2>4. \A c : c \in C <=> \E p \in Ports : \E k \in 1 .. Depth :
                             c = <<p, k>> /\ Live(p, k) /\ q[p][k] = f
    <3>1. ASSUME NEW p \in Ports, NEW k \in 1 .. Depth
          PROVE  Live(p, k) <=> k <= count[p] /\ ~ Leaving(p, k)
      <4>1. Held(p) = count[p]
        BY <2>1, CellFacts
      <4>. QED
        BY <2>1, <4>1, DepartsIsPopped DEF Live, Leaving
    <3>2. \A c : c \in Filled <=> \E p \in Ports : \E k \in 1 .. Depth :
                                    c = <<p, k>> /\ k <= count[p]
      BY DEF Filled, Fifo!Cells
    <3>. QED
      BY <2>2, <3>1, <3>2
  <2>5. \A x : x \in X <=> \E t \in Terminals : \E j \in DOMAIN outs[t] :
                             x = <<t, j>> /\ outs[t][j] = f
    <3>1. \A x : x \in Exits <=> \E t \in Terminals : \E j \in DOMAIN outs[t] :
                                   x = <<t, j>>
      BY DEF Exits
    <3>. QED
      BY <2>2, <3>1
  <2>6. \A c, d \in C : c = d
    BY <2>1, <2>4, LiveOnce
  <2>7. \A x, y \in X : x = y
    BY <2>1, <2>5, SeenOnce
  <2>8. ~ (C # {} /\ X # {})
    <3>1. SUFFICES ASSUME NEW c \in C, NEW x \in X PROVE FALSE
      OBVIOUS
    <3>2. PICK p \in Ports : \E k \in 1 .. Depth : Live(p, k) /\ q[p][k] = f
      BY <2>4, <3>1
    <3>3. PICK k \in 1 .. Depth : Live(p, k) /\ q[p][k] = f
      BY <3>2
    <3>4. PICK t \in Terminals : \E j \in DOMAIN outs[t] : outs[t][j] = f
      BY <2>5, <3>1
    <3>5. PICK j \in DOMAIN outs[t] : outs[t][j] = f
      BY <3>4
    <3>6. f.num < f.num /\ f.num \in Nat
      <4>1. SameRoute(f, f)
        BY DEF SameRoute
      <4>. QED
        BY <2>1, <3>3, <3>5, <4>1, FlitFacts DEF OutsFirst
    <3>. QED
      BY <3>6
  <2>9. Copies(f) = IF C = {} /\ X = {} THEN 0 ELSE 1
    <3>1. Cardinality(C) = IF C = {} THEN 0 ELSE 1
      BY <2>3, <2>6, AtMostOne
    <3>2. Cardinality(X) = IF X = {} THEN 0 ELSE 1
      BY <2>3, <2>7, AtMostOne
    <3>3. Copies(f) = Cardinality(C) + Cardinality(X)
      BY <2>2 DEF Copies
    <3>. QED
      BY <2>8, <3>1, <3>2, <3>3
  <2>10. C = {} /\ X = {} <=> ~ Present(f)
    <3>1. Present(f) <=> C \union X # {}
      BY <2>4, <2>5 DEF Present
    <3>. QED
      BY <3>1
  <2>11. Behind(f) <=> Entered(f)
    <3>1. PICK t : t = f.src
      OBVIOUS
    <3>2. t \in Terminals /\ f.num \in Nat /\ data_in[t].num \in Nat
      BY <2>1, <3>1, FlitFacts, DataFacts
    <3>3. data_in[t].num = Taken(t)
      BY <2>1, <3>2 DEF Numbered
    <3>4. Handed(t) <=> t \in PoppedTerminals
      BY <3>2 DEF Handed, Copied, PoppedTerminals, PoppedBy
    <3>. QED
      BY <3>1, <3>2, <3>3, <3>4 DEF Behind, Entered
  <2>12. Present(f) => Behind(f)
    BY <2>1 DEF Present, DriversLast
  <2>13. lost = 0 /\ Behind(f) => Present(f)
    BY <2>1 DEF AllPresent, Kept
  <2>. QED
    BY <2>9, <2>10, <2>11, <2>12, <2>13
<1>. QED
  BY <1>1, InitSomewhere, SomewhereStep, PTL DEF Spec
=============================================================================
