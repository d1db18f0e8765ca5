-------------------------- MODULE FifoNoFullProofs --------------------------
(***************************************************************************)
(* Proofs about module FifoNoFull, for every depth and every set of words. *)
(* Oldest(r, n) is the sequence that the refinement mapping reads off the  *)
(* registers; the lemmas say what a capture and a change of the count do   *)
(* to it.                                                                  *)
(***************************************************************************)
EXTENDS FifoNoFull, SequenceTheorems, TLAPS

Registers == [Cells -> Data]

Oldest(r, n) == [i \in 1 .. n |-> r[n + 1 - i]]

LEMMA OldestType ==
  ASSUME NEW r \in Registers, NEW n \in 0 .. Depth
  PROVE  /\ Oldest(r, n) \in Seq(Data)
         /\ Len(Oldest(r, n)) = n
         /\ \A i \in 1 .. n : Oldest(r, n)[i] = r[n + 1 - i]
<1>1. \A i \in 1 .. n : n + 1 - i \in Cells
  BY DepthAssumption DEF Cells
<1>2. Oldest(r, n) \in Seq(Data)
  BY <1>1, DepthAssumption DEF Oldest, Registers
<1>3. DOMAIN Oldest(r, n) = 1 .. n
  BY DEF Oldest
<1>. QED
  BY <1>2, <1>3, DepthAssumption DEF Oldest

LEMMA ShiftedType ==
  ASSUME NEW r \in Registers, NEW d \in Data
  PROVE  Shifted(r, d) \in Registers
BY DepthAssumption DEF Shifted, Registers, Cells

\* A pop of the count alone takes the head of the queue off.
LEMMA OldestTake ==
  ASSUME NEW r \in Registers, NEW n \in 1 .. Depth
  PROVE  /\ Oldest(r, n) # <<>>
         /\ Head(Oldest(r, n)) = r[n]
         /\ Tail(Oldest(r, n)) = Oldest(r, n - 1)
<1>. n \in 0 .. Depth /\ n - 1 \in 0 .. Depth
  BY DepthAssumption
<1>1. Len(Oldest(r, n)) = n /\ Oldest(r, n) \in Seq(Data)
  BY OldestType
<1>2. Oldest(r, n) # <<>>
  BY <1>1
<1>3. Head(Oldest(r, n)) = r[n]
  BY <1>1, <1>2, OldestType
<1>4. /\ Tail(Oldest(r, n)) \in Seq(Data)
      /\ Len(Tail(Oldest(r, n))) = n - 1
      /\ \A i \in 1 .. n - 1 : Tail(Oldest(r, n))[i] = Oldest(r, n)[i + 1]
  BY <1>1, <1>2, HeadTailProperties
<1>5. \A i \in 1 .. n - 1 : Oldest(r, n)[i + 1] = r[n - i]
  <2>. TAKE i \in 1 .. n - 1
  <2>1. i + 1 \in 1 .. n /\ n + 1 - (i + 1) = n - i
    OBVIOUS
  <2>2. Oldest(r, n)[i + 1] = r[n + 1 - (i + 1)]
    BY <2>1, OldestType
  <2>. QED
    BY <2>1, <2>2
<1>6. /\ Oldest(r, n - 1) \in Seq(Data)
      /\ Len(Oldest(r, n - 1)) = n - 1
      /\ \A i \in 1 .. n - 1 : Oldest(r, n - 1)[i] = r[n - i]
  BY OldestType
<1>7. Tail(Oldest(r, n)) = Oldest(r, n - 1)
  BY <1>4, <1>5, <1>6, SeqEqual
<1>. QED
  BY <1>2, <1>3, <1>7

\* A capture with a longer count puts the word at the end of the queue.
LEMMA OldestPut ==
  ASSUME NEW r \in Registers, NEW d \in Data, NEW n \in 0 .. Depth - 1
  PROVE  Oldest(Shifted(r, d), n + 1) = Append(Oldest(r, n), d)
<1>. n \in 0 .. Depth /\ n + 1 \in 0 .. Depth /\ n \in Nat
  BY DepthAssumption
<1>. Shifted(r, d) \in Registers
  BY ShiftedType
<1>1. Len(Oldest(r, n)) = n /\ Oldest(r, n) \in Seq(Data)
  BY OldestType
<1>2. /\ Append(Oldest(r, n), d) \in Seq(Data)
      /\ Len(Append(Oldest(r, n), d)) = n + 1
      /\ \A i \in 1 .. n : Append(Oldest(r, n), d)[i] = Oldest(r, n)[i]
      /\ Append(Oldest(r, n), d)[n + 1] = d
  BY <1>1
<1>3. /\ Oldest(Shifted(r, d), n + 1) \in Seq(Data)
      /\ Len(Oldest(Shifted(r, d), n + 1)) = n + 1
      /\ \A i \in 1 .. n + 1 : Oldest(Shifted(r, d), n + 1)[i] = Shifted(r, d)[n + 2 - i]
  BY OldestType
<1>4. \A i \in 1 .. n : Shifted(r, d)[n + 2 - i] = r[n + 1 - i]
  BY DepthAssumption DEF Shifted, Cells
<1>5. Shifted(r, d)[1] = d
  BY DepthAssumption DEF Shifted, Cells
<1>6. \A i \in 1 .. n + 1 :
        Oldest(Shifted(r, d), n + 1)[i] = Append(Oldest(r, n), d)[i]
  <2>. SUFFICES ASSUME NEW i \in 1 .. n + 1
                PROVE  Oldest(Shifted(r, d), n + 1)[i] = Append(Oldest(r, n), d)[i]
    OBVIOUS
  <2>1. CASE i = n + 1
    BY <2>1, <1>2, <1>3, <1>5
  <2>2. CASE i \in 1 .. n
    BY <2>2, <1>2, <1>3, <1>4, OldestType
  <2>3. i = n + 1 \/ i \in 1 .. n
    OBVIOUS
  <2>. QED
    BY <2>1, <2>2, <2>3
<1>. QED
  BY <1>2, <1>3, <1>6, SeqEqual

\* A capture with the same count discards the oldest word.
LEMMA OldestReplace ==
  ASSUME NEW r \in Registers, NEW d \in Data, NEW n \in 1 .. Depth
  PROVE  Oldest(Shifted(r, d), n) = Append(Tail(Oldest(r, n)), d)
<1>1. Tail(Oldest(r, n)) = Oldest(r, n - 1)
  BY OldestTake
<1>2. n - 1 \in 0 .. Depth - 1 /\ (n - 1) + 1 = n
  BY DepthAssumption
<1>3. Oldest(Shifted(r, d), (n - 1) + 1) = Append(Oldest(r, n - 1), d)
  BY <1>2, OldestPut
<1>. QED
  BY <1>1, <1>2, <1>3
-----------------------------------------------------------------------------

\* The counter stays inside the registers it indexes, and the registers hold
\* words, for every depth (fifo_flops_no_full, nxt_count).
THEOREM TypeCorrect == Spec => []TypeOK
<1>1. Init => TypeOK
  BY DepthAssumption, DataAssumption DEF Init, TypeOK, Cleared, Cells
<1>2. TypeOK /\ [Next]_vars => TypeOK'
  <2>. SUFFICES ASSUME TypeOK, [Next]_vars PROVE TypeOK'
    OBVIOUS
  <2>1. \A n \in 0 .. Depth : \A a, b \in BOOLEAN : NextCount(n, a, b) \in 0 .. Depth
    BY DepthAssumption DEF NextCount
  <2>2. \A d \in Data : Shifted(q, d) \in [Cells -> Data]
    BY ShiftedType DEF TypeOK, Registers
  <2>3. ASSUME NEW din \in Data, ClockFalls(din) PROVE TypeOK'
    <3>1. Takes => Dout(q, count) \in Data
      BY DepthAssumption, DataAssumption DEF TypeOK, Takes, Pndng, Dout, Cells
    <3>. QED
      BY <2>2, <2>3, <3>1 DEF TypeOK, ClockFalls
  <2>4. ASSUME NEW din \in Data, LatePush(din) PROVE TypeOK'
    BY <2>2, <2>4 DEF TypeOK, LatePush
  <2>5. ASSUME NEW a \in BOOLEAN, NEW b \in BOOLEAN, ClockRises(a, b) PROVE TypeOK'
    BY <2>1, <2>5 DEF TypeOK, ClockRises
  <2>6. CASE Reset
    <3>1. Cleared \in [Cells -> Data] /\ 0 \in 0 .. Depth
      BY DepthAssumption, DataAssumption DEF Cleared
    <3>. QED
      BY <2>6, <3>1 DEF TypeOK, Reset
  <2>7. CASE UNCHANGED vars
    BY <2>7 DEF TypeOK, vars
  <2>. QED
    BY <2>3, <2>4, <2>5, <2>6, <2>7 DEF Next
<1>. QED
  BY <1>1, <1>2, PTL DEF Spec
-----------------------------------------------------------------------------
(***************************************************************************)
(* The FIFO implements the lossy queue.                                    *)
(***************************************************************************)
items == [i \in 1 .. Pending |-> q[Pending + 1 - i]]

LEMMA InitRefines == Init => Queue!Init
BY DEF Init, Queue!Init, Pending

LEMMA FallsRefines ==
  ASSUME TypeOK, NEW din \in Data, ClockFalls(din)
  PROVE  [Queue!Next]_(Queue!vars)
<1>. USE DEF Registers
<1>1. /\ q \in Registers /\ count \in 0 .. Depth /\ push \in BOOLEAN /\ pop \in BOOLEAN
      /\ push' = push /\ pop' = pop /\ count' = count /\ clk /\ ~ clk'
  BY DEF TypeOK, ClockFalls
<1>2. items = Oldest(q, count) /\ items' = Oldest(q', NextCount(count, push, pop))
  BY <1>1 DEF items, Pending, Oldest
<1>3. Len(items) = count
  BY <1>1, <1>2, OldestType
<1>4. CASE push /\ ~ pop /\ count < Depth
  <2>1. items' = Append(items, din) /\ taken' = taken
    <3>1. NextCount(count, push, pop) = count + 1 /\ count \in 0 .. Depth - 1
      BY <1>1, <1>4, DepthAssumption DEF NextCount
    <3>2. q' = Shifted(q, din) /\ taken' = taken
      BY <1>4 DEF ClockFalls, Takes
    <3>. QED
      BY <1>1, <1>2, <3>1, <3>2, OldestPut
  <2>. QED
    BY <1>3, <1>4, <2>1 DEF items, Queue!Next, Queue!Put
<1>5. CASE push /\ ~ pop /\ count = Depth
  <2>1. items' = Append(Tail(items), din) /\ taken' = taken
    <3>1. NextCount(count, push, pop) = count /\ count \in 1 .. Depth
      BY <1>1, <1>5, DepthAssumption DEF NextCount
    <3>2. q' = Shifted(q, din) /\ taken' = taken
      BY <1>5 DEF ClockFalls, Takes
    <3>. QED
      BY <1>1, <1>2, <3>1, <3>2, OldestReplace
  <2>. QED
    BY <1>3, <1>5, <2>1 DEF items, Queue!Next, Queue!Overflow
<1>6. CASE push /\ pop /\ count > 0
  <2>1. items # <<>> /\ taken' = Head(items) /\ items' = Append(Tail(items), din)
    <3>1. NextCount(count, push, pop) = count /\ count \in 1 .. Depth
      BY <1>1, <1>6, DepthAssumption DEF NextCount
    <3>2. q' = Shifted(q, din) /\ taken' = q[count]
      BY <1>1, <1>6, DepthAssumption DEF ClockFalls, Takes, Pndng, Dout
    <3>. QED
      BY <1>1, <1>2, <3>1, <3>2, OldestReplace, OldestTake
  <2>. QED
    BY <2>1 DEF items, Queue!Next, Queue!TakeAndPut
<1>7. CASE ~ push /\ pop /\ count > 0
  <2>1. items # <<>> /\ taken' = Head(items) /\ items' = Tail(items)
    <3>1. NextCount(count, push, pop) = count - 1 /\ count \in 1 .. Depth
      BY <1>1, <1>7, DepthAssumption DEF NextCount
    <3>2. q' = q /\ taken' = q[count]
      BY <1>1, <1>7, DepthAssumption DEF ClockFalls, Takes, Pndng, Dout
    <3>. QED
      BY <1>1, <1>2, <3>1, <3>2, OldestTake
  <2>. QED
    BY <2>1 DEF items, Queue!Next, Queue!Take
<1>8. CASE pop /\ count = 0
  <2>1. items' = items /\ taken' = taken
    <3>1. NextCount(count, push, pop) = 0 /\ taken' = taken
      BY <1>1, <1>8 DEF NextCount, ClockFalls, Takes, Pndng
    <3>2. \A r : Oldest(r, 0) = <<>>
      BY DEF Oldest
    <3>. QED
      BY <1>2, <1>8, <3>1, <3>2
  <2>. QED
    BY <2>1 DEF items, Queue!vars
<1>9. CASE ~ push /\ ~ pop
  <2>1. items' = items /\ taken' = taken
    BY <1>1, <1>2, <1>9 DEF NextCount, ClockFalls, Takes
  <2>. QED
    BY <2>1 DEF items, Queue!vars
<1>. QED
  BY <1>1, <1>4, <1>5, <1>6, <1>7, <1>8, <1>9, DepthAssumption

LEMMA LatePushRefines ==
  ASSUME TypeOK, NEW din \in Data, LatePush(din)
  PROVE  [Queue!Next]_(Queue!vars)
<1>. USE DEF Registers
<1>1. /\ q \in Registers /\ count \in 0 .. Depth /\ pop \in BOOLEAN
      /\ push = FALSE /\ push' = TRUE /\ pop' = pop /\ count' = count
      /\ clk = FALSE /\ clk' = FALSE /\ q' = Shifted(q, din) /\ taken' = taken
  BY DEF TypeOK, LatePush
<1>. DEFINE n == NextCount(count, FALSE, pop)
<1>2. items = Oldest(q, n) /\ items' = Oldest(q', NextCount(count, TRUE, pop))
  BY <1>1 DEF items, Pending, Oldest
<1>3. n \in 0 .. Depth /\ Len(items) = n
  <2>1. n \in 0 .. Depth
    BY <1>1, DepthAssumption DEF NextCount
  <2>. QED
    BY <1>1, <1>2, <2>1, OldestType
<1>4. CASE pop /\ count = 0
  <2>1. \A r : Oldest(r, 0) = <<>>
    BY DEF Oldest
  <2>2. items' = items
    BY <1>1, <1>2, <1>4, <2>1 DEF NextCount
  <2>. QED
    BY <1>1, <2>2 DEF items, Queue!vars
<1>5. CASE n < Depth /\ ~ (pop /\ count = 0)
  <2>1. NextCount(count, TRUE, pop) = n + 1 /\ n \in 0 .. Depth - 1
    BY <1>1, <1>3, <1>5, DepthAssumption DEF NextCount
  <2>2. items' = Append(items, din)
    BY <1>1, <1>2, <2>1, OldestPut
  <2>. QED
    BY <1>1, <1>3, <1>5, <2>2 DEF items, Queue!Next, Queue!Put
<1>6. CASE n = Depth
  <2>1. NextCount(count, TRUE, pop) = n /\ n \in 1 .. Depth
    BY <1>1, <1>6, DepthAssumption DEF NextCount
  <2>2. items' = Append(Tail(items), din)
    BY <1>1, <1>2, <2>1, OldestReplace
  <2>. QED
    BY <1>1, <1>3, <1>6, <2>2 DEF items, Queue!Next, Queue!Overflow
<1>7. \A m \in 0 .. Depth : m < Depth \/ m = Depth
  BY DepthAssumption
<1>8. n < Depth \/ n = Depth
  BY <1>3, <1>7
<1>. QED
  BY <1>4, <1>5, <1>6, <1>8

LEMMA StepRefines == TypeOK /\ [Next]_vars => [Queue!Next]_(Queue!vars)
<1>. SUFFICES ASSUME TypeOK, [Next]_vars PROVE [Queue!Next]_(Queue!vars)
  OBVIOUS
<1>1. ASSUME NEW din \in Data, ClockFalls(din) PROVE [Queue!Next]_(Queue!vars)
  BY <1>1, FallsRefines
<1>2. ASSUME NEW din \in Data, LatePush(din) PROVE [Queue!Next]_(Queue!vars)
  BY <1>2, LatePushRefines
<1>3. ASSUME NEW a \in BOOLEAN, NEW b \in BOOLEAN, ClockRises(a, b)
      PROVE  [Queue!Next]_(Queue!vars)
  BY <1>3 DEF ClockRises, Pending, Queue!vars
<1>4. CASE Reset
  <2>1. Pending' = 0 /\ taken' = Nothing
    BY <1>4 DEF Reset, Pending
  <2>2. items' = <<>>
    BY <2>1 DEF items
  <2>. QED
    BY <2>1, <2>2 DEF items, Queue!Next, Queue!Clear
<1>5. CASE UNCHANGED vars
  BY <1>5 DEF vars, Pending, Queue!vars
<1>. QED
  BY <1>1, <1>2, <1>3, <1>4, <1>5 DEF Next

\* The FIFO is a queue that keeps the order of its words and loses one only by
\* overflow, the oldest, for every depth and every set of words.
THEOREM ImplementsQueue == Spec => IsQueue
<1>. QED
  BY InitRefines, StepRefines, TypeCorrect, PTL DEF Spec, IsQueue, Queue!Spec
=============================================================================
