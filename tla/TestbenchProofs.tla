-------------------------- MODULE TestbenchProofs ----------------------------
(***************************************************************************)
(* The testbench, for any number of terminals, flits, keys and scenarios:  *)
(* the handshake of a driver with a router interface, what the report of a *)
(* test shows, and what the scoreboard hears around a mesh that is right.  *)
(***************************************************************************)
EXTENDS Driver, Scoreboard, TestFlow, SequenceTheorems, FiniteSetTheorems, TLAPS

-----------------------------------------------------------------------------
(***************************************************************************)
(* The driver.                                                             *)
(***************************************************************************)
\* The numbers of the flits that arrive are in range, and so is the longer queue.
LEMMA NextItemsType ==
  ASSUME NEW from \in Nat, NEW n \in Nat, from + n <= MaxItems
  PROVE  NextItems(from, n) \in Seq(1 .. MaxItems) /\ Len(NextItems(from, n)) = n
<1>1. \A k \in 1 .. n : from + k \in 1 .. MaxItems
  BY ItemsAssumption, SMT
<1>2. NextItems(from, n) \in [1 .. n -> 1 .. MaxItems]
  BY <1>1 DEF NextItems
<1>3. NextItems(from, n) \in Seq(1 .. MaxItems)
  BY <1>1, SMT DEF NextItems
<1> QED BY <1>2, <1>3, SMT DEF NextItems

\* Appending cannot empty a queue.
LEMMA ConcatNonEmpty ==
  ASSUME NEW S, NEW s \in Seq(S), NEW t \in Seq(S), s # <<>>
  PROVE  s \o t # <<>>
<1>1. Len(s \o t) = Len(s) + Len(t) /\ Len(s) # 0
  BY SMT
<1> QED BY <1>1, SMT

LEMMA InitType == Init => TypeOK
<1>1. 0 \in 0 .. MaxItems
  BY ItemsAssumption, SMT
<1> QED BY <1>1, EmptySeq DEF Init, TypeOK

LEMMA TypeStep ==
  ASSUME TypeOK, [Next]_vars
  PROVE  TypeOK'
<1>1. CASE UNCHANGED vars
  BY <1>1 DEF vars, TypeOK
<1>2. CASE Next
  <2>1. PICK before \in 0 .. MaxItems, after \in 0 .. MaxItems : Edge(before, after)
    BY <1>2 DEF Next
  <2> DEFINE queue == fifo_in \o NextItems(received, before)
  <2>2. /\ received + before <= MaxItems
        /\ received' = received + before + after
        /\ received' \in 0 .. MaxItems
        /\ received \in Nat /\ before \in Nat /\ after \in Nat
        /\ received + before \in Nat
    BY <2>1, ItemsAssumption, SMT DEF Edge, TypeOK
  <2>3. queue \in Seq(1 .. MaxItems)
    <3>1. NextItems(received, before) \in Seq(1 .. MaxItems)
      BY <2>2, NextItemsType
    <3> QED BY <3>1, ConcatProperties DEF TypeOK
  <2>4. NextItems(received + before, after) \in Seq(1 .. MaxItems)
    <3>1. received + before + after <= MaxItems
      BY <2>1 DEF Edge
    <3> QED BY <2>2, <3>1, NextItemsType
  <2> HIDE DEF queue
  <2>5. /\ pndng_in' = (queue # <<>>)
        /\ data_in' = Presented(queue)
        /\ fifo_in' = (IF Pops(queue) THEN Tail(queue) ELSE queue)
                        \o NextItems(received + before, after)
        /\ accepted' = (IF popin THEN Append(accepted, data_in) ELSE accepted)
        /\ Grant
    BY <2>1 DEF Edge, queue
  <2>6. fifo_in' \in Seq(1 .. MaxItems)
    <3>1. (IF Pops(queue) THEN Tail(queue) ELSE queue) \in Seq(1 .. MaxItems)
      BY <2>3, HeadTailProperties DEF Pops
    <3> QED BY <2>4, <2>5, <3>1, ConcatProperties
  <2>7. data_in' \in 0 .. MaxItems
    <3>1. queue # <<>> => Head(queue) \in 1 .. MaxItems
      BY <2>3, HeadTailProperties
    <3>2. 1 .. MaxItems \subseteq 0 .. MaxItems
      BY ItemsAssumption, SMT
    <3> QED BY <2>5, <3>1, <3>2 DEF Presented, TypeOK
  <2>8. accepted' \in Seq(0 .. MaxItems)
    BY <2>5, AppendProperties DEF TypeOK
  <2>9. grant' \in {"idle", "psh", "pop", "cnt"} /\ pndng_in' \in BOOLEAN
    BY <2>5 DEF Grant
  <2> QED BY <2>2, <2>6, <2>7, <2>8, <2>9 DEF TypeOK
<1> QED BY <1>1, <1>2

\* The queue, the port and the history keep their types.
THEOREM TypeCorrect == Spec => []TypeOK
<1>1. Init => TypeOK
  BY InitType
<1> QED BY <1>1, TypeStep, PTL DEF Spec

-----------------------------------------------------------------------------
\* The inductive invariant: the pending bit can be stale only in cnt, the one state
\* from which no grant is given.
ItemInv ==
  /\ GrantHasItem
  /\ grant = "idle" /\ pndng_in => fifo_in # <<>>

LEMMA ItemStep ==
  ASSUME TypeOK, ItemInv, [Next]_vars
  PROVE  ItemInv'
<1>1. CASE UNCHANGED vars
  BY <1>1 DEF vars, ItemInv, GrantHasItem
<1>2. CASE Next
  <2>1. PICK before \in 0 .. MaxItems, after \in 0 .. MaxItems : Edge(before, after)
    BY <1>2 DEF Next
  <2> DEFINE queue == fifo_in \o NextItems(received, before)
             rest == NextItems(received + before, after)
  <2>2. queue \in Seq(1 .. MaxItems) /\ rest \in Seq(1 .. MaxItems)
    <3>1. /\ received + before <= MaxItems
          /\ received + before + after <= MaxItems
          /\ received \in Nat /\ before \in Nat /\ after \in Nat
          /\ received + before \in Nat
      BY <2>1, ItemsAssumption, SMT DEF Edge, TypeOK
    <3> QED BY <3>1, NextItemsType, ConcatProperties DEF TypeOK
  <2>3. fifo_in # <<>> => queue # <<>>
    <3>1. NextItems(received, before) \in Seq(1 .. MaxItems)
      <4>1. /\ received + before <= MaxItems
            /\ received \in Nat /\ before \in Nat
        BY <2>1, ItemsAssumption, SMT DEF Edge, TypeOK
      <4> QED BY <4>1, NextItemsType
    <3> QED BY <3>1, ConcatNonEmpty DEF TypeOK
  <2>4. /\ pndng_in' = (queue # <<>>)
        /\ fifo_in' = (IF Pops(queue) THEN Tail(queue) ELSE queue) \o rest
        /\ Grant
    BY <2>1 DEF Edge
  <2> HIDE DEF queue, rest
  <2>5. CASE popin
    <3>1. grant' = "cnt"
      BY <2>4, <2>5 DEF popin, Grant
    <3> QED BY <3>1 DEF ItemInv, GrantHasItem
  <2>6. CASE ~ popin
    <3>1. pndng_in' => fifo_in' # <<>>
      BY <2>2, <2>4, <2>6, ConcatNonEmpty DEF Pops
    <3>2. grant' \in {"psh", "pop"} => pndng_in'
      BY <2>3, <2>4, <2>6 DEF popin, Grant, ItemInv, GrantHasItem
    <3> QED BY <3>1, <3>2 DEF ItemInv, GrantHasItem
  <2> QED BY <2>5, <2>6
<1> QED BY <1>1, <1>2

\* No grant is given on a pending bit the driver has not yet lowered.
THEOREM GrantHasItemCorrect == Spec => []GrantHasItem
<1>1. Init => TypeOK /\ ItemInv
  BY InitType DEF Init, ItemInv, GrantHasItem
<1>2. TypeOK /\ ItemInv /\ [Next]_vars => TypeOK' /\ ItemInv'
  BY TypeStep, ItemStep
<1>3. ItemInv => GrantHasItem
  BY DEF ItemInv
<1> QED BY <1>1, <1>2, <1>3, PTL DEF Spec

-----------------------------------------------------------------------------
\* The words of s are the numbers from `first' on.
Numbered(s, first) == \A k \in 1 .. Len(s) : s[k] + 1 = first + k

LEMMA NumberedItems ==
  ASSUME NEW from \in Nat, NEW n \in Nat
  PROVE  /\ NextItems(from, n) \in Seq(Nat) /\ Len(NextItems(from, n)) = n
         /\ Numbered(NextItems(from, n), from + 1)
<1>1. \A k \in 1 .. n : from + k \in Nat
  OBVIOUS
<1>2. NextItems(from, n) \in Seq(Nat) /\ Len(NextItems(from, n)) = n
  BY <1>1, SMT DEF NextItems
<1>. QED
  BY <1>2 DEF NextItems, Numbered

\* A sequence that counts on from another continues it.
LEMMA NumberedConcat ==
  ASSUME NEW s \in Seq(Nat), NEW t \in Seq(Nat), NEW first \in Nat, NEW next \in Nat,
         next = first + Len(s), Numbered(s, first), Numbered(t, next)
  PROVE  /\ s \o t \in Seq(Nat) /\ Len(s \o t) = Len(s) + Len(t)
         /\ Numbered(s \o t, first)
<1>1. /\ s \o t \in Seq(Nat) /\ Len(s \o t) = Len(s) + Len(t)
      /\ \A k \in 1 .. Len(s) + Len(t) :
           (s \o t)[k] = IF k <= Len(s) THEN s[k] ELSE t[k - Len(s)]
  BY ConcatProperties
<1>2. ASSUME NEW k \in 1 .. Len(s) + Len(t) PROVE (s \o t)[k] + 1 = first + k
  <2>1. Len(s) \in Nat /\ Len(t) \in Nat
    OBVIOUS
  <2>2. CASE k <= Len(s)
    <3>1. k \in 1 .. Len(s)
      BY <2>1, <2>2
    <3>. QED
      BY <1>1, <2>2, <3>1 DEF Numbered
  <2>3. CASE ~ (k <= Len(s))
    <3>1. k - Len(s) \in 1 .. Len(t) /\ next + (k - Len(s)) = first + k
      BY <2>1, <2>3
    <3>2. t[k - Len(s)] + 1 = next + (k - Len(s))
      BY <3>1 DEF Numbered
    <3>3. (s \o t)[k] = t[k - Len(s)]
      BY <1>1, <2>3
    <3>. QED
      BY <3>1, <3>2, <3>3
  <2>. QED
    BY <2>2, <2>3
<1>. QED
  BY <1>1, <1>2 DEF Numbered

LEMMA NumberedTail ==
  ASSUME NEW s \in Seq(Nat), NEW first \in Nat, Numbered(s, first), s # <<>>
  PROVE  /\ Head(s) = first
         /\ Tail(s) \in Seq(Nat) /\ Len(Tail(s)) + 1 = Len(s)
         /\ Numbered(Tail(s), first + 1)
<1>1. /\ Head(s) \in Nat /\ Tail(s) \in Seq(Nat)
      /\ Len(Tail(s)) = Len(s) - 1 /\ Len(s) \in Nat /\ Len(s) >= 1
      /\ Head(s) = s[1]
      /\ \A k \in 1 .. Len(Tail(s)) : Tail(s)[k] = s[k + 1]
  BY HeadTailProperties
<1>2. Head(s) = first
  <2>1. s[1] + 1 = first + 1
    BY <1>1 DEF Numbered
  <2>. QED
    BY <1>1, <2>1
<1>3. ASSUME NEW k \in 1 .. Len(Tail(s)) PROVE Tail(s)[k] + 1 = (first + 1) + k
  <2>1. k + 1 \in 1 .. Len(s) /\ first + (k + 1) = (first + 1) + k
    BY <1>1
  <2>2. s[k + 1] + 1 = first + (k + 1)
    BY <2>1 DEF Numbered
  <2>. QED
    BY <1>1, <2>1, <2>2
<1>. QED
  BY <1>1, <1>2, <1>3 DEF Numbered

LEMMA NumberedAppend ==
  ASSUME NEW s \in Seq(Nat), NEW n \in Nat, Numbered(s, 0), n = Len(s)
  PROVE  /\ Append(s, n) \in Seq(Nat) /\ Len(Append(s, n)) = n + 1
         /\ Numbered(Append(s, n), 0)
<1>1. /\ Append(s, n) \in Seq(Nat) /\ Len(Append(s, n)) = Len(s) + 1
      /\ \A k \in 1 .. Len(s) : Append(s, n)[k] = s[k]
      /\ Append(s, n)[Len(s) + 1] = n
  BY AppendProperties
<1>2. ASSUME NEW k \in 1 .. n + 1 PROVE Append(s, n)[k] + 1 = 0 + k
  <2>1. CASE k = n + 1
    BY <1>1, <2>1
  <2>2. CASE k # n + 1
    <3>1. k \in 1 .. Len(s)
      BY <2>2
    <3>2. s[k] + 1 = 0 + k /\ Append(s, n)[k] = s[k]
      BY <1>1, <3>1 DEF Numbered
    <3>. QED
      BY <3>2
  <2>. QED
    BY <2>1, <2>2
<1>. QED
  BY <1>1, <1>2 DEF Numbered

\* The inductive form of NothingLost: history, port and queue count on from one
\* another.
InOrder ==
  /\ fifo_in \in Seq(Nat) /\ accepted \in Seq(Nat)
  /\ data_in \in Nat /\ received \in Nat
  /\ data_in = Len(accepted)
  /\ data_in + Len(fifo_in) = received
  /\ Numbered(accepted, 0)
  /\ Numbered(fifo_in, data_in + 1)

\* The queue once the flits that arrived before the edge are appended counts on
\* from the port.
LEMMA QueueInOrder ==
  ASSUME InOrder, NEW before \in Nat,
         NEW queue, queue = fifo_in \o NextItems(received, before)
  PROVE  /\ queue \in Seq(Nat) /\ Numbered(queue, data_in + 1)
         /\ data_in + Len(queue) = received + before
         /\ fifo_in # <<>> => queue # <<>>
<1>1. PICK new : new = NextItems(received, before)
  OBVIOUS
<1>2. received \in Nat /\ data_in \in Nat /\ data_in + Len(fifo_in) = received
  BY DEF InOrder
<1>3. new \in Seq(Nat) /\ Len(new) = before /\ Numbered(new, received + 1)
  BY <1>1, <1>2, NumberedItems
<1>4. fifo_in \in Seq(Nat) /\ Numbered(fifo_in, data_in + 1)
  BY DEF InOrder
<1>5. PICK len \in Nat : len = Len(fifo_in)
  BY <1>4
<1>6. received + 1 = (data_in + 1) + Len(fifo_in)
  BY <1>2, <1>5
<1>7. queue = fifo_in \o new
  BY <1>1
<1>8. data_in + 1 \in Nat /\ received + 1 \in Nat
  BY <1>2
<1>9. /\ queue \in Seq(Nat) /\ Len(queue) = Len(fifo_in) + Len(new)
      /\ Numbered(queue, data_in + 1)
  BY <1>3, <1>4, <1>6, <1>7, <1>8, NumberedConcat
<1>10. Len(queue) = len + before
  BY <1>3, <1>5, <1>9
<1>11. data_in + Len(queue) = received + before
  <2>1. data_in \in Nat /\ received = data_in + len
    BY <1>2, <1>5
  <2>2. data_in + (len + before) = (data_in + len) + before
    BY <2>1
  <2>. QED
    BY <1>10, <2>1, <2>2
<1>. QED
  BY <1>3, <1>4, <1>7, <1>9, <1>11, ConcatNonEmpty

LEMMA InOrderStep ==
  ASSUME TypeOK, GrantHasItem, InOrder, Next
  PROVE  InOrder'
<1>1. PICK before \in 0 .. MaxItems, after \in 0 .. MaxItems : Edge(before, after)
  BY DEF Next
<1>2. PICK queue : queue = fifo_in \o NextItems(received, before)
  OBVIOUS
<1>3. PICK sum : sum = received + before
  OBVIOUS
<1>4. /\ received' = sum + after
      /\ data_in' = Presented(queue)
      /\ fifo_in' = (IF Pops(queue) THEN Tail(queue) ELSE queue)
                      \o NextItems(sum, after)
      /\ accepted' = IF popin THEN Append(accepted, data_in) ELSE accepted
  BY <1>1, <1>2, <1>3 DEF Edge
<1>5. before \in Nat /\ after \in Nat /\ data_in \in Nat
  BY ItemsAssumption DEF InOrder
<1>6. received \in Nat /\ data_in = Len(accepted)
  BY DEF InOrder
<1>7. sum \in Nat /\ received' \in Nat
  BY <1>3, <1>4, <1>5, <1>6
<1>8. /\ queue \in Seq(Nat) /\ Numbered(queue, data_in + 1)
      /\ data_in + Len(queue) = sum
      /\ fifo_in # <<>> => queue # <<>>
  BY <1>2, <1>3, <1>5, QueueInOrder
<1>9. PICK rest : rest = NextItems(sum, after)
  OBVIOUS
<1>10. rest \in Seq(Nat) /\ Len(rest) = after /\ Numbered(rest, sum + 1)
  BY <1>5, <1>7, <1>9, NumberedItems
<1>11. CASE popin
  <2>1. queue # <<>>
    BY <1>8, <1>11 DEF popin, GrantHasItem
  <2>2. PICK tail : tail = Tail(queue)
    OBVIOUS
  <2>3. PICK port : port = data_in + 1
    OBVIOUS
  <2>4. port \in Nat
    BY <1>5, <2>3
  <2>5. /\ Head(queue) = port /\ tail \in Seq(Nat) /\ Len(tail) + 1 = Len(queue)
        /\ Numbered(tail, port + 1)
    BY <1>8, <2>1, <2>2, <2>3, <2>4, NumberedTail
  <2>6. fifo_in' = tail \o NextItems(sum, after) /\ data_in' = port
    BY <1>4, <1>11, <2>1, <2>2, <2>5 DEF Presented, Pops
  <2>7. port + Len(tail) = sum
    <3>1. Len(tail) \in Nat /\ data_in + (Len(tail) + 1) = sum
      BY <1>8, <2>5
    <3>. QED
      BY <1>5, <2>3, <3>1
  <2>8. /\ fifo_in' \in Seq(Nat) /\ Numbered(fifo_in', port + 1)
        /\ port + Len(fifo_in') = sum + after
    <3>1. PICK next : next = tail \o rest
      OBVIOUS
    <3>2. tail \in Seq(Nat) /\ Numbered(tail, port + 1)
      BY <2>5
    <3>3. PICK len \in Nat : len = Len(tail)
      BY <3>2
    <3>4. sum + 1 = (port + 1) + Len(tail) /\ port + 1 \in Nat /\ sum + 1 \in Nat
      BY <1>7, <2>4, <2>7, <3>3
    <3>5. /\ next \in Seq(Nat) /\ Len(next) = Len(tail) + Len(rest)
          /\ Numbered(next, port + 1)
      BY <1>10, <3>1, <3>2, <3>4, NumberedConcat
    <3>6. port + Len(next) = sum + after
      BY <1>5, <1>10, <2>4, <2>7, <3>3, <3>5
    <3>. QED
      BY <1>9, <2>6, <3>1, <3>5, <3>6
  <2>9. accepted' = Append(accepted, data_in)
    BY <1>4, <1>11
  <2>10. /\ accepted' \in Seq(Nat) /\ Len(accepted') = port
         /\ Numbered(accepted', 0)
    BY <1>5, <1>6, <2>3, <2>9, NumberedAppend DEF InOrder
  <2>11. /\ data_in' \in Nat /\ data_in' = Len(accepted')
         /\ data_in' + Len(fifo_in') = received'
         /\ Numbered(fifo_in', data_in' + 1)
    BY <1>4, <2>4, <2>6, <2>8, <2>10
  <2>. QED
    BY <1>7, <2>8, <2>10, <2>11 DEF InOrder
<1>12. CASE ~ popin
  <2>1. /\ fifo_in' = queue \o NextItems(sum, after)
        /\ data_in' = data_in /\ accepted' = accepted
    BY <1>4, <1>12 DEF Presented, Pops
  <2>2. /\ fifo_in' \in Seq(Nat) /\ Numbered(fifo_in', data_in + 1)
        /\ data_in + Len(fifo_in') = sum + after
    <3>1. PICK next : next = queue \o rest
      OBVIOUS
    <3>2. PICK len \in Nat : len = Len(queue)
      BY <1>8
    <3>3. /\ sum + 1 = (data_in + 1) + Len(queue)
          /\ data_in + 1 \in Nat /\ sum + 1 \in Nat
      BY <1>5, <1>7, <1>8, <3>2
    <3>4. /\ next \in Seq(Nat) /\ Len(next) = Len(queue) + Len(rest)
          /\ Numbered(next, data_in + 1)
      BY <1>10, <1>8, <3>1, <3>3, NumberedConcat
    <3>5. data_in + Len(next) = sum + after
      BY <1>5, <1>10, <1>8, <3>2, <3>4
    <3>. QED
      BY <1>9, <2>1, <3>1, <3>4, <3>5
  <2>3. accepted' \in Seq(Nat) /\ Numbered(accepted', 0) /\ data_in' = Len(accepted')
    BY <2>1 DEF InOrder
  <2>4. /\ data_in' \in Nat /\ data_in' + Len(fifo_in') = received'
        /\ Numbered(fifo_in', data_in' + 1)
    BY <1>4, <1>5, <2>1, <2>2
  <2>. QED
    BY <1>7, <2>2, <2>3, <2>4 DEF InOrder
<1>. QED
  BY <1>11, <1>12

\* Nothing is lost, doubled or reordered in the driver, in whatever bursts the flits
\* come: each pop takes a word off the port and finds the next one in the queue.
THEOREM NothingLostCorrect == Spec => []NothingLost
<1>1. Init => InOrder
  BY EmptySeq DEF Init, InOrder, Numbered
<1>2. TypeOK /\ GrantHasItem /\ InOrder /\ [Next]_vars => InOrder'
  <2>1. TypeOK /\ GrantHasItem /\ InOrder /\ Next => InOrder'
    BY InOrderStep
  <2>2. InOrder /\ UNCHANGED vars => InOrder'
    BY DEF vars, InOrder
  <2>. QED
    BY <2>1, <2>2
<1>3. InOrder => NothingLost
  <2>. SUFFICES ASSUME InOrder PROVE NothingLost
    OBVIOUS
  <2>1. PICK port : port = <<data_in>>
    OBVIOUS
  <2>2. /\ data_in \in Nat /\ received \in Nat /\ data_in = Len(accepted)
        /\ data_in + Len(fifo_in) = received
        /\ accepted \in Seq(Nat) /\ Numbered(accepted, 0)
        /\ fifo_in \in Seq(Nat) /\ Numbered(fifo_in, data_in + 1)
    BY DEF InOrder
  <2>3. port \in Seq(Nat) /\ Len(port) = 1 /\ Numbered(port, data_in)
    BY <2>1, <2>2 DEF Numbered
  <2>4. PICK taken : taken = accepted \o port
    OBVIOUS
  <2>5. data_in = 0 + Len(accepted)
    BY <2>2
  <2>6. taken \in Seq(Nat) /\ Len(taken) = data_in + 1 /\ Numbered(taken, 0)
    BY <2>2, <2>3, <2>4, <2>5, NumberedConcat
  <2>7. data_in + 1 \in Nat /\ data_in + 1 = 0 + Len(taken)
    BY <2>2, <2>6
  <2>8. PICK all : all = taken \o fifo_in
    OBVIOUS
  <2>9. all \in Seq(Nat) /\ Len(all) = Len(taken) + Len(fifo_in) /\ Numbered(all, 0)
    BY <2>2, <2>6, <2>7, <2>8, NumberedConcat
  <2>10. Len(all) = received + 1
    <3>1. Len(fifo_in) \in Nat /\ Len(all) = (data_in + 1) + Len(fifo_in)
      BY <2>2, <2>6, <2>9
    <3>. QED
      BY <2>2, <3>1
  <2>11. all = [k \in 1 .. received + 1 |-> k - 1]
    <3>1. DOMAIN all = 1 .. received + 1 /\ all = [k \in DOMAIN all |-> all[k]]
      BY <2>2, <2>9, <2>10
    <3>2. ASSUME NEW k \in 1 .. received + 1 PROVE all[k] = k - 1
      <4>1. k \in 1 .. Len(all)
        BY <2>10
      <4>2. all[k] + 1 = 0 + k
        BY <2>9, <4>1 DEF Numbered
      <4>3. all[k] \in Nat
        BY <2>9, <4>1, ElementOfSeq
      <4>4. k \in Nat
        BY <2>2
      <4>. QED
        BY <4>2, <4>3, <4>4
    <3>. QED
      BY <3>1, <3>2
  <2>. QED
    BY <2>1, <2>4, <2>8, <2>11 DEF NothingLost
<1>. QED
  BY <1>1, <1>2, <1>3, TypeCorrect, GrantHasItemCorrect, PTL DEF Spec

\* For any number of flits, what a driver shows to its router changes only with a pop,
\* however many flits arrive meanwhile.
THEOREM StableWhilePendingCorrect == Spec => StableWhilePending
<1>1. [Next]_vars
        => [pndng_in /\ pndng_in' /\ ~ popin /\ ~ popin' => data_in' = data_in]_vars
  BY DEF Next, Edge, Presented
<1>. QED
  BY <1>1, PTL DEF Spec, StableWhilePending

-----------------------------------------------------------------------------
(***************************************************************************)
(* Counting: the elements of several sequences are counted as pairs of a   *)
(* sequence and a place.                                                   *)
(***************************************************************************)
\* Two sets have as many elements as each other if one function pairs them.
LEMMA EqualCount ==
  ASSUME NEW S, NEW T, NEW f \in [S -> T], IsFiniteSet(S),
         \A x, z \in S : f[x] = f[z] => x = z,
         \A z \in T : \E x \in S : f[x] = z
  PROVE  IsFiniteSet(T) /\ Cardinality(T) = Cardinality(S)
<1>1. f \in Bijection(S, T)
  BY DEF Bijection, Injection, IsInjective, Surjection
<1>. QED
  BY <1>1, FS_Bijection DEF ExistsBijection

\* The places 1 .. d[x] of every x.
Cells(d) == UNION {{x} \X (1 .. d[x]) : x \in DOMAIN d}

LEMMA CellsFinite ==
  ASSUME NEW D, IsFiniteSet(D), NEW d \in [D -> Int]
  PROVE  IsFiniteSet(Cells(d)) /\ Cardinality(Cells(d)) \in Nat
<1>1. PICK F : F = [x \in D |-> {x} \X (1 .. d[x])]
  OBVIOUS
<1>2. PICK R : R = {F[x] : x \in D}
  OBVIOUS
<1>3. F \in Surjection(D, R)
  BY <1>1, <1>2 DEF Surjection
<1>4. IsFiniteSet(R)
  BY <1>3, FS_Surjection
<1>5. ASSUME NEW T \in R PROVE IsFiniteSet(T)
  <2>1. PICK x \in D : T = {x} \X (1 .. d[x])
    BY <1>1, <1>2
  <2>2. IsFiniteSet({x}) /\ IsFiniteSet(1 .. d[x])
    <3>1. 1 \in Int /\ d[x] \in Int
      OBVIOUS
    <3>. QED
      BY <3>1, FS_Singleton, FS_Interval
  <2>. QED
    BY <2>1, <2>2, FS_Product
<1>6. Cells(d) = UNION R
  BY <1>1, <1>2 DEF Cells
<1>. QED
  BY <1>4, <1>5, <1>6, FS_UNION, FS_CardinalityType

\* The pairs are one more if d grows by one at k from zero or more, else as many.
LEMMA CellsGrow ==
  ASSUME NEW D, IsFiniteSet(D), NEW d \in [D -> Int], NEW e \in [D -> Int], NEW k \in D,
         e[k] = d[k] + 1, \A x \in D : x # k => e[x] = d[x]
  PROVE  /\ d[k] >= 0 => Cardinality(Cells(e)) = Cardinality(Cells(d)) + 1
         /\ d[k] < 0 => Cardinality(Cells(e)) = Cardinality(Cells(d))
<1>1. \A x \in D, j \in Int :
        j \in 1 .. e[x] <=> j \in 1 .. d[x] \/ (x = k /\ j = e[k] /\ j > 0)
  OBVIOUS
<1>2. ASSUME NEW p
      PROVE  p \in Cells(d) <=> \E x \in D : \E j \in 1 .. d[x] : p = <<x, j>>
  BY DEF Cells
<1>3. ASSUME NEW p
      PROVE  p \in Cells(e) <=> \E x \in D : \E j \in 1 .. e[x] : p = <<x, j>>
  BY DEF Cells
<1>4. CASE d[k] >= 0
  <2>1. <<k, e[k]>> \notin Cells(d)
    <3>1. ASSUME <<k, e[k]>> \in Cells(d) PROVE FALSE
      <4>1. PICK x \in D : \E j \in 1 .. d[x] : <<k, e[k]>> = <<x, j>>
        BY <1>2, <3>1
      <4>2. x = k /\ e[k] \in 1 .. d[k]
        BY <4>1
      <4>. QED
        BY <4>2
    <3>. QED
      BY <3>1
  <2>2. e[k] \in 1 .. e[k] /\ e[k] \in Int /\ e[k] > 0
    BY <1>4
  <2>3. Cells(e) \subseteq Cells(d) \union {<<k, e[k]>>}
    <3>1. ASSUME NEW p \in Cells(e) PROVE p \in Cells(d) \/ p = <<k, e[k]>>
      <4>1. PICK x \in D : \E j \in 1 .. e[x] : p = <<x, j>>
        BY <1>3, <3>1
      <4>2. PICK j \in 1 .. e[x] : p = <<x, j>>
        BY <4>1
      <4>3. j \in 1 .. d[x] \/ (x = k /\ j = e[k])
        BY <1>1, <4>2
      <4>. QED
        BY <1>2, <4>2, <4>3
    <3>. QED
      BY <3>1
  <2>4. Cells(d) \subseteq Cells(e)
    <3>1. ASSUME NEW p \in Cells(d) PROVE p \in Cells(e)
      <4>1. PICK x \in D : \E j \in 1 .. d[x] : p = <<x, j>>
        BY <1>2, <3>1
      <4>2. PICK j \in 1 .. d[x] : p = <<x, j>>
        BY <4>1
      <4>3. j \in 1 .. e[x]
        BY <1>1, <4>2
      <4>. QED
        BY <1>3, <4>2, <4>3
    <3>. QED
      BY <3>1
  <2>5. <<k, e[k]>> \in Cells(e)
    BY <1>3, <2>2
  <2>6. Cells(e) = Cells(d) \union {<<k, e[k]>>}
    BY <2>3, <2>4, <2>5
  <2>7. IsFiniteSet(Cells(d))
    BY CellsFinite
  <2>8. Cardinality(Cells(e)) = Cardinality(Cells(d)) + 1
    BY <2>1, <2>6, <2>7, FS_AddElement
  <2>. QED
    BY <1>4, <2>8
<1>5. CASE d[k] < 0
  <2>1. \A x \in D, j \in Int : j \in 1 .. e[x] <=> j \in 1 .. d[x]
    BY <1>5
  <2>2. Cells(e) = Cells(d)
    BY <1>2, <1>3, <2>1
  <2>. QED
    BY <1>5, <2>2
<1>6. d[k] \in Int
  OBVIOUS
<1>. QED
  BY <1>4, <1>5, <1>6

Lengths(a) == [x \in DOMAIN a |-> Len(a[x])]

\* a has a sequence for every element of D.
Lists(a, D) ==
  /\ DOMAIN a = D
  /\ \A x \in D : Len(a[x]) \in Nat /\ DOMAIN a[x] = 1 .. Len(a[x])

LEMMA ListsFact ==
  ASSUME NEW D, NEW S, NEW a \in [D -> Seq(S)]
  PROVE  Lists(a, D)
BY DEF Lists

LEMMA TotalIsCells ==
  ASSUME NEW D, NEW a, Lists(a, D)
  PROVE  Lengths(a) \in [D -> Nat] /\ TotalLen(a) = Cardinality(Cells(Lengths(a)))
<1>1. \A x \in D : Len(a[x]) \in Nat /\ DOMAIN a[x] = 1 .. Len(a[x])
  BY DEF Lists
<1>2. {{x} \X DOMAIN a[x] : x \in DOMAIN a}
        = {{x} \X (1 .. Lengths(a)[x]) : x \in DOMAIN Lengths(a)}
  BY <1>1 DEF Lengths, Lists
<1>. QED
  BY <1>1, <1>2 DEF TotalLen, Cells, Lengths, Lists

\* b is a with one element more at k.
Longer(a, b, D, k) ==
  /\ IsFiniteSet(D) /\ Lists(a, D) /\ Lists(b, D)
  /\ k \in D /\ Len(b[k]) = Len(a[k]) + 1
  /\ \A x \in D : x # k => Len(b[x]) = Len(a[x])

LEMMA TotalGrows ==
  ASSUME NEW D, NEW a, NEW b, NEW k, Longer(a, b, D, k)
  PROVE  TotalLen(b) = TotalLen(a) + 1 /\ TotalLen(a) \in Nat /\ TotalLen(b) \in Nat
<1>0. /\ IsFiniteSet(D) /\ Lists(a, D) /\ Lists(b, D)
      /\ k \in D /\ Len(b[k]) = Len(a[k]) + 1
      /\ \A x \in D : x # k => Len(b[x]) = Len(a[x])
  BY DEF Longer
<1>1. PICK d, e : d = Lengths(a) /\ e = Lengths(b)
  OBVIOUS
<1>2. /\ d \in [D -> Nat] /\ TotalLen(a) = Cardinality(Cells(d))
      /\ e \in [D -> Nat] /\ TotalLen(b) = Cardinality(Cells(e))
  BY <1>0, <1>1, TotalIsCells
<1>3. d \in [D -> Int] /\ e \in [D -> Int] /\ d[k] >= 0
  BY <1>0, <1>2
<1>4. e[k] = d[k] + 1 /\ \A x \in D : x # k => e[x] = d[x]
  BY <1>0, <1>1 DEF Lengths, Lists
<1>5. d[k] >= 0 => Cardinality(Cells(e)) = Cardinality(Cells(d)) + 1
  <2>1. /\ d \in [D -> Int] /\ e \in [D -> Int] /\ k \in D /\ e[k] = d[k] + 1
        /\ \A x \in D : x # k => e[x] = d[x]
    BY <1>0, <1>3, <1>4
  <2>. QED
    BY ONLY <1>0, <2>1, CellsGrow, Zenon
<1>6. Cardinality(Cells(d)) \in Nat
  BY <1>0, <1>3, CellsFinite
<1>. QED
  BY <1>2, <1>3, <1>5, <1>6

LEMMA TotalOfEmpty ==
  ASSUME NEW D, NEW a, DOMAIN a = D, \A x \in D : a[x] = <<>>
  PROVE  TotalLen(a) = 0
<1>1. \A x \in D : DOMAIN a[x] = {}
  OBVIOUS
<1>2. UNION {{x} \X DOMAIN a[x] : x \in DOMAIN a} = {}
  BY <1>1
<1>. QED
  BY <1>2, FS_EmptySet DEF TotalLen

\* r is s without what s has at place i.
Without(r, s, i) ==
  /\ i \in 1 .. Len(s) /\ Len(s) = Len(r) + 1
  /\ \A j \in 1 .. Len(r) : r[j] = s[IF j < i THEN j ELSE j + 1]

LEMMA WithoutRemoved ==
  ASSUME NEW S, NEW s \in Seq(S), NEW i \in 1 .. Len(s)
  PROVE  RemoveAt(s, i) \in Seq(S) /\ Without(RemoveAt(s, i), s, i)
<1>1. PICK n, a, b : n = Len(s) /\ a = SubSeq(s, 1, i - 1) /\ b = SubSeq(s, i + 1, n)
  OBVIOUS
<1>2. n \in Nat /\ i \in Int /\ i - 1 \in Int /\ i + 1 \in Int /\ n \in Int
  BY <1>1
<1>3. /\ \A j \in 1 .. i - 1 : s[j] \in S
      /\ \A j \in i + 1 .. n : s[j] \in S
  BY <1>1
<1>4. /\ a \in Seq(S) /\ Len(a) = i - 1
      /\ \A j \in 1 .. i - 1 : a[j] = s[j]
  <2>1. /\ a \in Seq(S)
        /\ Len(a) = IF 1 <= i - 1 THEN i - 1 - 1 + 1 ELSE 0
        /\ \A j \in 1 .. i - 1 - 1 + 1 : a[j] = s[1 + j - 1]
    BY <1>1, <1>2, <1>3, SubSeqProperties
  <2>. QED
    BY <1>2, <2>1
<1>5. /\ b \in Seq(S) /\ Len(b) = n - i
      /\ \A j \in 1 .. n - i : b[j] = s[i + j]
  <2>1. /\ b \in Seq(S)
        /\ Len(b) = IF i + 1 <= n THEN n - (i + 1) + 1 ELSE 0
        /\ \A j \in 1 .. n - (i + 1) + 1 : b[j] = s[i + 1 + j - 1]
    BY <1>1, <1>2, <1>3, SubSeqProperties
  <2>2. n - (i + 1) + 1 = n - i /\ i <= n /\ \A j \in 1 .. n - i : i + 1 + j - 1 = i + j
    BY <1>1, <1>2
  <2>3. Len(b) = n - i
    BY <1>2, <2>1, <2>2
  <2>4. \A j \in 1 .. n - i : b[j] = s[i + j]
    BY <2>1, <2>2
  <2>. QED
    BY <2>1, <2>3, <2>4
<1>6. PICK r : r = a \o b
  OBVIOUS
<1>7. /\ r \in Seq(S) /\ Len(r) = n - 1
      /\ \A j \in 1 .. n - 1 : r[j] = IF j <= i - 1 THEN a[j] ELSE b[j - (i - 1)]
  <2>1. /\ r \in Seq(S) /\ Len(r) = Len(a) + Len(b)
        /\ \A j \in 1 .. Len(a) + Len(b) : r[j] = IF j <= Len(a) THEN a[j] ELSE b[j - Len(a)]
    BY <1>4, <1>5, <1>6, ConcatProperties
  <2>. QED
    BY <1>2, <1>4, <1>5, <2>1
<1>8. ASSUME NEW j \in 1 .. n - 1 PROVE r[j] = s[IF j < i THEN j ELSE j + 1]
  <2>1. CASE j <= i - 1
    BY <1>2, <1>4, <1>7, <2>1
  <2>2. CASE ~ (j <= i - 1)
    <3>1. r[j] = b[j - (i - 1)] /\ j - (i - 1) \in 1 .. n - i
      BY <1>2, <1>7, <2>2
    <3>2. b[j - (i - 1)] = s[i + (j - (i - 1))] /\ i + (j - (i - 1)) = j + 1 /\ ~ (j < i)
      BY <1>2, <1>5, <2>2, <3>1
    <3>. QED
      BY <3>1, <3>2
  <2>. QED
    BY <2>1, <2>2
<1>9. r = RemoveAt(s, i)
  BY <1>1, <1>6 DEF RemoveAt
<1>. QED
  BY <1>1, <1>2, <1>7, <1>8, <1>9 DEF Without

LEMMA WithoutInserted ==
  ASSUME NEW S, NEW s \in Seq(S), NEW i \in 1 .. Len(s), NEW e \in S
  PROVE  /\ InsertAt(s, i, e) \in Seq(S) /\ Without(s, InsertAt(s, i, e), i)
         /\ InsertAt(s, i, e)[i] = e
<1>1. PICK n, a, b, m :
        n = Len(s) /\ a = SubSeq(s, 1, i - 1) /\ b = SubSeq(s, i, n) /\ m = <<e>>
  OBVIOUS
<1>2. n \in Nat /\ i \in Int /\ i - 1 \in Int /\ n \in Int
  BY <1>1
<1>3. /\ \A j \in 1 .. i - 1 : s[j] \in S
      /\ \A j \in i .. n : s[j] \in S
  BY <1>1
<1>4. /\ a \in Seq(S) /\ Len(a) = i - 1
      /\ \A j \in 1 .. i - 1 : a[j] = s[j]
  <2>1. /\ a \in Seq(S)
        /\ Len(a) = IF 1 <= i - 1 THEN i - 1 - 1 + 1 ELSE 0
        /\ \A j \in 1 .. i - 1 - 1 + 1 : a[j] = s[1 + j - 1]
    BY <1>1, <1>2, <1>3, SubSeqProperties
  <2>. QED
    BY <1>2, <2>1
<1>5. /\ b \in Seq(S) /\ Len(b) = n - i + 1
      /\ \A j \in 1 .. n - i + 1 : b[j] = s[i + j - 1]
  <2>1. /\ b \in Seq(S)
        /\ Len(b) = IF i <= n THEN n - i + 1 ELSE 0
        /\ \A j \in 1 .. n - i + 1 : b[j] = s[i + j - 1]
    BY <1>1, <1>2, <1>3, SubSeqProperties
  <2>. QED
    BY <1>1, <1>2, <2>1
<1>6. m \in Seq(S) /\ Len(m) = 1 /\ m[1] = e
  BY <1>1
<1>7. PICK c, r : c = a \o m /\ r = c \o b
  OBVIOUS
<1>8. /\ c \in Seq(S) /\ Len(c) = i
      /\ \A j \in 1 .. i : c[j] = IF j <= i - 1 THEN a[j] ELSE e
  <2>1. /\ c \in Seq(S) /\ Len(c) = Len(a) + Len(m)
        /\ \A j \in 1 .. Len(a) + Len(m) : c[j] = IF j <= Len(a) THEN a[j] ELSE m[j - Len(a)]
    BY <1>4, <1>6, <1>7, ConcatProperties
  <2>2. \A j \in 1 .. i : j <= i - 1 \/ j - (i - 1) = 1
    BY <1>2
  <2>3. Len(a) = i - 1 /\ Len(m) = 1 /\ i - 1 + 1 = i
    BY <1>2, <1>4, <1>6
  <2>4. \A j \in 1 .. i : c[j] = IF j <= i - 1 THEN a[j] ELSE m[j - (i - 1)]
    BY <2>1, <2>3
  <2>. QED
    BY <1>6, <2>1, <2>2, <2>3, <2>4
<1>9. /\ r \in Seq(S) /\ Len(r) = n + 1
      /\ \A j \in 1 .. n + 1 : r[j] = IF j <= i THEN c[j] ELSE b[j - i]
  <2>0. b \in Seq(S) /\ c \in Seq(S)
    BY <1>5, <1>8
  <2>1. /\ c \o b \in Seq(S) /\ Len(c \o b) = Len(c) + Len(b)
        /\ \A j \in 1 .. Len(c) + Len(b) :
             (c \o b)[j] = IF j <= Len(c) THEN c[j] ELSE b[j - Len(c)]
    BY ONLY <2>0, ConcatProperties, Zenon
  <2>2. r = c \o b
    BY <1>7
  <2>. QED
    BY <1>2, <1>5, <1>8, <2>1, <2>2
<1>10. ASSUME NEW j \in 1 .. n PROVE s[j] = r[IF j < i THEN j ELSE j + 1]
  <2>1. CASE j < i
    BY <1>1, <1>2, <1>4, <1>8, <1>9, <2>1
  <2>2. CASE ~ (j < i)
    <3>1. r[j + 1] = b[j + 1 - i] /\ j + 1 - i \in 1 .. n - i + 1
      BY <1>2, <1>9, <2>2
    <3>2. b[j + 1 - i] = s[i + (j + 1 - i) - 1] /\ i + (j + 1 - i) - 1 = j
      BY <1>2, <1>5, <3>1
    <3>. QED
      BY <2>2, <3>1, <3>2
  <2>. QED
    BY <2>1, <2>2
<1>11. r[i] = e /\ i \in 1 .. n + 1
  BY <1>1, <1>2, <1>8, <1>9
<1>12. r = InsertAt(s, i, e)
  BY <1>1, <1>7 DEF InsertAt
<1>. QED
  BY <1>1, <1>2, <1>9, <1>10, <1>11, <1>12 DEF Without

LEMMA WithoutAppended ==
  ASSUME NEW S, NEW s \in Seq(S), NEW e \in S
  PROVE  /\ Append(s, e) \in Seq(S) /\ Without(s, Append(s, e), Len(s) + 1)
         /\ Append(s, e)[Len(s) + 1] = e
BY DEF Without

\* The places of a that hold a flit of key k.
Spots(a, k) ==
  {x \in UNION {{t} \X DOMAIN a[t] : t \in DOMAIN a} : KeyOf[a[x[1]][x[2]]] = k}

LEMMA SpotsFinite ==
  ASSUME NEW D, IsFiniteSet(D), NEW a, Lists(a, D), NEW k
  PROVE  IsFiniteSet(Spots(a, k)) /\ Cardinality(Spots(a, k)) \in Nat
<1>1. PICK P : P = UNION {{t} \X DOMAIN a[t] : t \in DOMAIN a}
  OBVIOUS
<1>2. P = Cells(Lengths(a))
  <2>1. {{x} \X DOMAIN a[x] : x \in DOMAIN a}
          = {{x} \X (1 .. Lengths(a)[x]) : x \in DOMAIN Lengths(a)}
    BY DEF Lengths, Lists
  <2>. QED
    BY <1>1, <2>1 DEF Cells
<1>3. Lengths(a) \in [D -> Int]
  BY DEF Lengths, Lists
<1>4. IsFiniteSet(P)
  BY <1>2, <1>3, CellsFinite
<1>5. Spots(a, k) \subseteq P
  BY <1>1 DEF Spots
<1>. QED
  BY <1>4, <1>5, FS_Subset, FS_CardinalityType

LEMMA SpotFacts ==
  ASSUME NEW a, NEW k, NEW x
  PROVE  x \in Spots(a, k) <=>
           \E t \in DOMAIN a : \E i \in DOMAIN a[t] : x = <<t, i>> /\ KeyOf[a[t][i]] = k
BY DEF Spots

\* One flit more in one of the sequences is one more of its key, wherever it is.
\* b is a with an element more at place i of t.
OneMore(a, b, D, t, i) ==
  /\ IsFiniteSet(D) /\ Lists(a, D) /\ Lists(b, D)
  /\ t \in D /\ Without(a[t], b[t], i) /\ \A u \in D : u # t => b[u] = a[u]

LEMMA SpotsGrow ==
  ASSUME NEW D, NEW a, NEW b, NEW t, NEW i, OneMore(a, b, D, t, i), NEW k
  PROVE  Cardinality(Spots(b, k))
           = Cardinality(Spots(a, k)) + (IF KeyOf[b[t][i]] = k THEN 1 ELSE 0)
<1>0. /\ IsFiniteSet(D) /\ Lists(a, D) /\ Lists(b, D)
      /\ t \in D /\ Without(a[t], b[t], i) /\ \A u \in D : u # t => b[u] = a[u]
  BY DEF OneMore
<1>. USE <1>0
<1>1. PICK A, B : A = Spots(a, k) /\ B = Spots(b, k)
  OBVIOUS
<1>2. PICK f : f = [x \in A |-> IF x[1] = t /\ ~ (x[2] < i) THEN <<t, x[2] + 1>> ELSE x]
  OBVIOUS
<1>3. PICK m : m = Len(a[t])
  OBVIOUS
<1>4. /\ m \in Nat /\ i \in 1 .. m + 1
      /\ DOMAIN a[t] = 1 .. m /\ DOMAIN b[t] = 1 .. m + 1
      /\ \A j \in 1 .. m : a[t][j] = b[t][IF j < i THEN j ELSE j + 1]
  BY <1>3 DEF Without, Lists
<1>5. ASSUME NEW x \in A
      PROVE  \E u \in D : \E j \in DOMAIN a[u] :
               /\ x = <<u, j>> /\ KeyOf[a[u][j]] = k
               /\ f[x] = IF u = t /\ ~ (j < i) THEN <<t, j + 1>> ELSE <<u, j>>
  <2>1. PICK u \in D : \E j \in DOMAIN a[u] : x = <<u, j>> /\ KeyOf[a[u][j]] = k
    BY <1>1, SpotFacts DEF Lists
  <2>2. PICK j \in DOMAIN a[u] : x = <<u, j>> /\ KeyOf[a[u][j]] = k
    BY <2>1
  <2>3. x[1] = u /\ x[2] = j
    BY <2>2
  <2>4. f[x] = IF u = t /\ ~ (j < i) THEN <<t, j + 1>> ELSE <<u, j>>
    BY <1>2, <2>2, <2>3
  <2>. QED
    BY <2>2, <2>4
<1>6. ASSUME NEW u \in D, NEW j \in DOMAIN b[u], KeyOf[b[u][j]] = k
      PROVE  <<u, j>> \in B
  BY <1>1, <1>6, SpotFacts DEF Lists
<1>7. f \in [A -> B] /\ \A x \in A : f[x] # <<t, i>>
  <2>1. ASSUME NEW x \in A PROVE f[x] \in B /\ f[x] # <<t, i>>
    <3>1. PICK u \in D : \E j \in DOMAIN a[u] :
            /\ x = <<u, j>> /\ KeyOf[a[u][j]] = k
            /\ f[x] = IF u = t /\ ~ (j < i) THEN <<t, j + 1>> ELSE <<u, j>>
      BY <1>5
    <3>2. PICK j \in DOMAIN a[u] :
            /\ x = <<u, j>> /\ KeyOf[a[u][j]] = k
            /\ f[x] = IF u = t /\ ~ (j < i) THEN <<t, j + 1>> ELSE <<u, j>>
      BY <3>1
    <3>3. CASE u # t
      <4>1. b[u] = a[u] /\ f[x] = <<u, j>> /\ f[x] # <<t, i>>
        BY <3>2, <3>3
      <4>. QED
        BY <1>6, <3>2, <4>1
    <3>4. CASE u = t /\ j < i
      <4>1. j \in 1 .. m
        BY <1>4, <3>4
      <4>2. j \in DOMAIN b[t] /\ b[t][j] = a[t][j] /\ j # i
        BY <1>4, <3>4, <4>1
      <4>3. f[x] = <<t, j>>
        BY <3>2, <3>4
      <4>. QED
        BY <1>6, <3>2, <3>4, <4>2, <4>3
    <3>5. CASE u = t /\ ~ (j < i)
      <4>1. j \in 1 .. m
        BY <1>4, <3>5
      <4>2. j + 1 \in DOMAIN b[t] /\ b[t][j + 1] = a[t][j] /\ j + 1 # i
        BY <1>4, <3>5, <4>1
      <4>3. f[x] = <<t, j + 1>>
        BY <3>2, <3>5
      <4>. QED
        BY <1>6, <3>2, <3>5, <4>2, <4>3
    <3>. QED
      BY <3>3, <3>4, <3>5
  <2>. QED
    BY <1>2, <2>1
<1>8. ASSUME NEW x \in A, NEW z \in A, f[x] = f[z] PROVE x = z
  <2>1. PICK u \in D : \E j \in DOMAIN a[u] :
          /\ x = <<u, j>> /\ KeyOf[a[u][j]] = k
          /\ f[x] = IF u = t /\ ~ (j < i) THEN <<t, j + 1>> ELSE <<u, j>>
    BY <1>5
  <2>2. PICK j \in DOMAIN a[u] :
          /\ x = <<u, j>> /\ KeyOf[a[u][j]] = k
          /\ f[x] = IF u = t /\ ~ (j < i) THEN <<t, j + 1>> ELSE <<u, j>>
    BY <2>1
  <2>3. PICK v \in D : \E l \in DOMAIN a[v] :
          /\ z = <<v, l>> /\ KeyOf[a[v][l]] = k
          /\ f[z] = IF v = t /\ ~ (l < i) THEN <<t, l + 1>> ELSE <<v, l>>
    BY <1>5
  <2>4. PICK l \in DOMAIN a[v] :
          /\ z = <<v, l>> /\ KeyOf[a[v][l]] = k
          /\ f[z] = IF v = t /\ ~ (l < i) THEN <<t, l + 1>> ELSE <<v, l>>
    BY <2>3
  <2>5. u = v
    BY <1>8, <2>2, <2>4
  <2>6. j \in Nat /\ l \in Nat /\ i \in Nat
    BY <1>4, <2>2, <2>4 DEF Lists
  <2>7. j = l
    BY <1>8, <2>2, <2>4, <2>5, <2>6
  <2>. QED
    BY <2>2, <2>4, <2>5, <2>7
<1>9. ASSUME NEW z \in B, z # <<t, i>> PROVE \E x \in A : f[x] = z
  <2>1. PICK u \in D : \E l \in DOMAIN b[u] : z = <<u, l>> /\ KeyOf[b[u][l]] = k
    BY <1>1, SpotFacts DEF Lists
  <2>2. PICK l \in DOMAIN b[u] : z = <<u, l>> /\ KeyOf[b[u][l]] = k
    BY <2>1
  <2>3. ASSUME NEW j \in DOMAIN a[u], KeyOf[a[u][j]] = k,
               z = IF u = t /\ ~ (j < i) THEN <<t, j + 1>> ELSE <<u, j>>
        PROVE  \E x \in A : f[x] = z
    <3>1. PICK x : x = <<u, j>>
      OBVIOUS
    <3>2. x \in A /\ x[1] = u /\ x[2] = j
      BY <1>1, <2>3, <3>1, SpotFacts DEF Lists
    <3>. QED
      BY <1>2, <2>3, <3>1, <3>2
  <2>4. CASE u # t
    BY <2>2, <2>3, <2>4
  <2>5. CASE u = t /\ l < i
    <3>1. l \in DOMAIN a[t] /\ a[t][l] = b[t][l]
      BY <1>4, <2>2, <2>5
    <3>. QED
      BY <2>2, <2>3, <2>5, <3>1
  <2>6. CASE u = t /\ ~ (l < i)
    <3>1. l # i /\ l \in 1 .. m + 1
      BY <1>4, <1>9, <2>2, <2>6
    <3>2. l - 1 \in DOMAIN a[t] /\ ~ (l - 1 < i) /\ l - 1 + 1 = l
      BY <1>4, <2>6, <3>1
    <3>3. a[t][l - 1] = b[t][l]
      BY <1>4, <3>2
    <3>. QED
      BY <2>2, <2>3, <2>6, <3>2, <3>3
  <2>. QED
    BY <2>4, <2>5, <2>6
<1>10. IsFiniteSet(A) /\ Cardinality(A) \in Nat
  BY <1>1, SpotsFinite
<1>11. CASE KeyOf[b[t][i]] = k
  <2>1. PICK y : y = <<t, i>>
    OBVIOUS
  <2>2. y \in B
    BY <1>4, <1>6, <1>11, <2>1
  <2>3. /\ f \in [A -> B] /\ IsFiniteSet(A)
        /\ \A x \in A : f[x] # y
        /\ \A x, z \in A : f[x] = f[z] => x = z
        /\ \A z \in B : z # y => \E x \in A : f[x] = z
    BY <1>7, <1>8, <1>9, <1>10, <2>1
  <2>4. Cardinality(B) = Cardinality(A) + 1
    <3>1. PICK U : U = B \ {y}
      OBVIOUS
    <3>2. f \in [A -> U]
      BY <2>3, <3>1
    <3>3. \A z \in U : \E x \in A : f[x] = z
      BY <2>3, <3>1
    <3>4. IsFiniteSet(U) /\ Cardinality(U) = Cardinality(A)
      BY ONLY <2>3, <3>2, <3>3, EqualCount, Zenon
    <3>5. B = U \union {y} /\ y \notin U
      BY <2>2, <3>1
    <3>. QED
      BY <3>4, <3>5, FS_AddElement
  <2>. QED
    BY <1>1, <1>11, <2>4
<1>12. CASE KeyOf[b[t][i]] # k
  <2>1. <<t, i>> \notin B
    <3>1. ASSUME <<t, i>> \in B PROVE FALSE
      <4>1. PICK u \in D : \E l \in DOMAIN b[u] : <<t, i>> = <<u, l>> /\ KeyOf[b[u][l]] = k
        BY <1>1, <3>1, SpotFacts DEF Lists
      <4>. QED
        BY <1>12, <4>1
    <3>. QED
      BY <3>1
  <2>2. \A z \in B : \E x \in A : f[x] = z
    BY <1>9, <2>1
  <2>3. Cardinality(B) = Cardinality(A)
    BY ONLY <1>7, <1>8, <1>10, <2>2, EqualCount, Zenon
  <2>. QED
    BY <1>1, <1>10, <1>12, <2>3
<1>. QED
  BY <1>11, <1>12

-----------------------------------------------------------------------------
(***************************************************************************)
(* The scoreboard.                                                         *)
(***************************************************************************)
LEMMA StoreFacts ==
  ASSUME NEW S, exp_q \in [Keys -> Seq(S)],
         NEW f \in Flits, f \in S, StoreIn(f),
         NEW k, k = KeyOf[f]
  PROVE  /\ k \in Keys
         /\ exp_q' \in [Keys -> Seq(S)]
         /\ exp_q'[k] = Append(exp_q[k], f)
         /\ \A j \in Keys : j # k => exp_q'[j] = exp_q[j]
         /\ n_in' = n_in + 1 /\ row' = row /\ n_out' = n_out /\ n_miss' = n_miss
<1>1. k \in Keys
  BY KeysAssumption
<1>2. exp_q' = [exp_q EXCEPT ![k] = Append(exp_q[k], f)]
  BY DEF StoreIn
<1>3. Append(exp_q[k], f) \in Seq(S)
  BY <1>1, AppendProperties
<1>. QED
  BY <1>1, <1>2, <1>3 DEF StoreIn

LEMMA MatchFacts ==
  ASSUME NEW S, exp_q \in [Keys -> Seq(S)], NEW f \in Flits, MatchOut(f),
         NEW k, k = KeyOf[f]
  PROVE  /\ k \in Keys
         /\ exp_q' \in [Keys -> Seq(S)]
         /\ n_in' = n_in /\ n_out' = n_out + 1
         /\ \A j \in Keys : j # k => exp_q'[j] = exp_q[j]
         /\ exp_q[k] # <<>> =>
              /\ exp_q'[k] = Tail(exp_q[k])
              /\ row' = <<Head(exp_q[k]), f>> /\ n_miss' = n_miss
         /\ exp_q[k] = <<>> =>
              exp_q' = exp_q /\ row' = <<f>> /\ n_miss' = n_miss + 1
<1>1. k \in Keys
  BY KeysAssumption
<1>2. n_in' = n_in /\ n_out' = n_out + 1
  BY DEF MatchOut
<1>3. CASE exp_q[k] # <<>>
  <2>1. /\ exp_q' = [exp_q EXCEPT ![k] = Tail(exp_q[k])]
        /\ row' = <<Head(exp_q[k]), f>> /\ n_miss' = n_miss
    BY <1>3 DEF MatchOut, Matches
  <2>2. Tail(exp_q[k]) \in Seq(S)
    BY <1>1, <1>3, HeadTailProperties
  <2>. QED
    BY <1>1, <1>2, <1>3, <2>1, <2>2
<1>4. CASE exp_q[k] = <<>>
  <2>1. exp_q' = exp_q /\ row' = <<f>> /\ n_miss' = n_miss + 1
    BY <1>4 DEF MatchOut, Matches
  <2>. QED
    BY <1>1, <1>2, <1>4, <2>1
<1>. QED
  BY <1>3, <1>4

-----------------------------------------------------------------------------
(***************************************************************************)
(* The test flow.                                                          *)
(***************************************************************************)
\* The flits of terminal t: the word on its port at first, and those of its sequences.
FlitsOf(t) ==
  {f \in Flits :
     f = Zero(t) \/ \E s \in 1 .. NumScenarios, n \in Nat \ {0} : f = Flit(t, s, n)}

AllMade == UNION {FlitsOf(t) : t \in Terminals}

\* The types of the variables: a terminal's queue, port and flits in the mesh are its own.
FlowTypes ==
  /\ phase \in {"run", "pause", "done"}
  /\ scenario \in 1 .. NumScenarios
  /\ pkt_id \in [Terminals -> Nat]
  /\ num_items \in [Terminals -> NumItems]
  /\ fifos \in [Terminals -> Seq(Flits)]
  /\ ports \in [Terminals -> Flits]
  /\ inside \in [Terminals -> Seq(Flits)]
  /\ \A t \in Terminals :
       /\ pkt_id[t] <= num_items[t]
       /\ ports[t] \in FlitsOf(t)
       /\ fifos[t] \in Seq(FlitsOf(t))
       /\ inside[t] \in Seq(FlitsOf(t))
  /\ made \in Nat /\ drained \in BOOLEAN
  /\ lost \in Seq(Flits) /\ doubled \in Nat
  /\ exp_q \in [Keys -> Seq(AllMade)]
  /\ n_in \in Nat /\ n_miss \in Nat

LEMMA FlitFacts ==
  ASSUME NEW t \in Terminals, NEW f \in FlitsOf(t)
  PROVE  /\ f \in Flits /\ f \in AllMade /\ f.term = t
         /\ f.scn \in Nat /\ f.num \in Nat
         /\ f.num = 0 => f = Zero(t) /\ f.scn = 0
         /\ f = Flit(t, f.scn, f.num)
<1>1. f \in Flits /\ f \in AllMade
  BY DEF FlitsOf, AllMade
<1>2. CASE f = Zero(t)
  BY <1>1, <1>2 DEF Zero, Flit
<1>3. CASE \E s \in 1 .. NumScenarios, n \in Nat \ {0} : f = Flit(t, s, n)
  <2>1. PICK s \in 1 .. NumScenarios, n \in Nat \ {0} : f = Flit(t, s, n)
    BY <1>3
  <2>2. f.term = t /\ f.scn = s /\ f.num = n /\ s \in Nat
    BY <2>1, FlowAssumption DEF Flit
  <2>. QED
    BY <1>1, <2>1, <2>2
<1>. QED
  BY <1>2, <1>3 DEF FlitsOf

LEMMA MadeFacts ==
  ASSUME NEW f \in AllMade
  PROVE  f.term \in Terminals /\ f \in FlitsOf(f.term)
BY FlitFacts DEF AllMade

LEMMA FlowInitTypes == FlowInit => FlowTypes
<1>. SUFFICES ASSUME FlowInit PROVE FlowTypes
  OBVIOUS
<1>1. \A t \in Terminals : Zero(t) \in Flits /\ Zero(t) \in FlitsOf(t)
  BY FlowAssumption DEF FlitsOf
<1>2. /\ phase = "run" /\ scenario = 1 /\ pkt_id = [t \in Terminals |-> 0]
      /\ num_items \in [Terminals -> NumItems]
      /\ fifos = [t \in Terminals |-> <<>>]
      /\ ports = [t \in Terminals |-> Zero(t)]
      /\ inside = [t \in Terminals |-> <<>>]
      /\ made = 0 /\ drained = TRUE /\ lost = <<>> /\ doubled = 0
      /\ exp_q = [k \in Keys |-> <<>>] /\ n_in = 0 /\ n_miss = 0
  BY DEF FlowInit, ScoreboardInit
<1>3. 1 \in 1 .. NumScenarios
  BY FlowAssumption
<1>4. ASSUME NEW t \in Terminals
      PROVE  /\ pkt_id[t] <= num_items[t]
             /\ ports[t] \in FlitsOf(t)
             /\ fifos[t] \in Seq(FlitsOf(t))
             /\ inside[t] \in Seq(FlitsOf(t))
  <2>1. pkt_id[t] = 0 /\ num_items[t] \in Nat
    BY <1>2, FlowAssumption
  <2>. QED
    BY <1>1, <1>2, <2>1
<1>. QED
  BY <1>1, <1>2, <1>3, <1>4 DEF FlowTypes

\* The flit a sequence makes next.
LEMMA DeliverFacts ==
  ASSUME FlowTypes, NEW t \in Terminals, Deliver(t)
  PROVE  /\ Flit(t, scenario, pkt_id[t] + 1) \in FlitsOf(t)
         /\ fifos' = [fifos EXCEPT ![t] = Append(fifos[t], Flit(t, scenario, pkt_id[t] + 1))]
         /\ pkt_id' = [pkt_id EXCEPT ![t] = pkt_id[t] + 1]
         /\ pkt_id[t] \in Nat /\ num_items[t] \in Nat /\ pkt_id[t] + 1 <= num_items[t]
<1>1. /\ fifos' = [fifos EXCEPT ![t] = Append(fifos[t], Flit(t, scenario, pkt_id[t] + 1))]
      /\ pkt_id' = [pkt_id EXCEPT ![t] = pkt_id[t] + 1]
      /\ pkt_id[t] < num_items[t]
  BY DEF Deliver
<1>2. PICK m, n : m = num_items[t] /\ n = pkt_id[t] + 1
  OBVIOUS
<1>3. m \in NumItems /\ m \in Nat /\ pkt_id[t] \in Nat /\ n \in 1 .. m
  BY <1>1, <1>2, FlowAssumption DEF FlowTypes
<1>4. Flit(t, scenario, n) \in Flits
  BY <1>3, FlowAssumption DEF FlowTypes
<1>5. Flit(t, scenario, n) \in FlitsOf(t)
  BY <1>3, <1>4 DEF FlitsOf, FlowTypes
<1>. QED
  BY <1>1, <1>2, <1>3, <1>5

LEMMA TakeFacts ==
  ASSUME FlowTypes, NEW t \in Terminals, Take(t)
  PROVE  /\ fifos[t] # <<>> /\ phase # "done"
         /\ ports' = [ports EXCEPT ![t] = Head(fifos[t])] /\ Head(fifos[t]) \in FlitsOf(t)
         /\ fifos' = [fifos EXCEPT ![t] = Tail(fifos[t])] /\ Tail(fifos[t]) \in Seq(FlitsOf(t))
         /\ inside' = [inside EXCEPT ![t] = Append(inside[t], ports[t])]
         /\ StoreIn(ports[t]) /\ ports[t] \in FlitsOf(t)
         /\ UNCHANGED <<test, lost, doubled>>
<1>1. fifos[t] # <<>> /\ fifos[t] \in Seq(FlitsOf(t)) /\ ports[t] \in FlitsOf(t)
  BY DEF Take, FlowTypes
<1>2. Head(fifos[t]) \in FlitsOf(t) /\ Tail(fifos[t]) \in Seq(FlitsOf(t))
  BY <1>1, HeadTailProperties
<1>. QED
  BY <1>1, <1>2 DEF Take

\* What happens to a flit in the mesh: it leaves, or it is lost, or doubled.
LEMMA MeshFacts ==
  ASSUME FlowTypes, NEW t \in Terminals, NEW i \in DOMAIN inside[t],
         Leave(t, i) \/ Lose(t, i) \/ Double(t, i)
  PROVE  /\ UNCHANGED <<test, fifos, ports>>
         /\ inside[t][i] \in FlitsOf(t) /\ i \in 1 .. Len(inside[t])
         /\ inside' = [inside EXCEPT ![t] = inside'[t]] /\ inside'[t] \in Seq(FlitsOf(t))
         /\ Leave(t, i) =>
              /\ Without(inside'[t], inside[t], i) /\ UNCHANGED <<lost, doubled>>
              /\ MatchOut(inside[t][i]) /\ MayLeave(t, i)
         /\ Lose(t, i) =>
              /\ Without(inside'[t], inside[t], i) /\ UNCHANGED <<doubled, scoreboard>>
              /\ lost' = Append(lost, inside[t][i])
         /\ Double(t, i) =>
              /\ Without(inside[t], inside'[t], i) /\ inside'[t][i] = inside[t][i]
              /\ UNCHANGED <<lost, scoreboard>> /\ doubled' = doubled + 1
<1>1. PICK s : s = inside[t]
  OBVIOUS
<1>2. s \in Seq(FlitsOf(t)) /\ i \in 1 .. Len(s) /\ s[i] \in FlitsOf(t)
  BY <1>1 DEF FlowTypes
<1>3. /\ RemoveAt(s, i) \in Seq(FlitsOf(t)) /\ Without(RemoveAt(s, i), s, i)
      /\ InsertAt(s, i, s[i]) \in Seq(FlitsOf(t)) /\ Without(s, InsertAt(s, i, s[i]), i)
      /\ InsertAt(s, i, s[i])[i] = s[i]
  BY <1>2, WithoutRemoved, WithoutInserted
<1>4. inside \in [Terminals -> Seq(Flits)]
  BY DEF FlowTypes
<1>5. CASE Leave(t, i)
  <2>1. inside' = [inside EXCEPT ![t] = RemoveAt(s, i)]
    BY <1>1, <1>5 DEF Leave
  <2>2. inside'[t] = RemoveAt(s, i)
    BY <1>4, <2>1
  <2>3. ~ Lose(t, i) /\ ~ Double(t, i)
    <3>1. UNCHANGED <<lost, doubled>>
      BY <1>5 DEF Leave
    <3>2. Lose(t, i) => Len(lost') = Len(lost) + 1 /\ Len(lost) \in Nat
      BY <1>1, <1>2, FlitFacts DEF Lose, FlowTypes
    <3>. QED
      BY <3>1, <3>2 DEF Double, FlowTypes
  <2>. QED
    BY <1>1, <1>2, <1>3, <1>5, <2>1, <2>2, <2>3 DEF Leave
<1>6. CASE Lose(t, i)
  <2>1. inside' = [inside EXCEPT ![t] = RemoveAt(s, i)] /\ lost' = Append(lost, s[i])
    BY <1>1, <1>6 DEF Lose
  <2>2. inside'[t] = RemoveAt(s, i)
    BY <1>4, <2>1
  <2>3. ~ Leave(t, i) /\ ~ Double(t, i)
    <3>1. Len(lost') = Len(lost) + 1 /\ Len(lost) \in Nat
      BY <1>2, <2>1, FlitFacts DEF FlowTypes
    <3>2. Leave(t, i) \/ Double(t, i) => lost' = lost
      BY DEF Leave, Double
    <3>. QED
      BY <3>1, <3>2
  <2>. QED
    BY <1>1, <1>2, <1>3, <1>6, <2>1, <2>2, <2>3 DEF Lose
<1>7. CASE Double(t, i)
  <2>1. inside' = [inside EXCEPT ![t] = InsertAt(s, i, s[i])] /\ doubled' = doubled + 1
    BY <1>1, <1>7 DEF Double
  <2>2. inside'[t] = InsertAt(s, i, s[i])
    BY <1>4, <2>1
  <2>3. ~ Leave(t, i) /\ ~ Lose(t, i)
    BY <2>1 DEF Leave, Lose, FlowTypes
  <2>. QED
    BY <1>1, <1>2, <1>3, <1>7, <2>1, <2>2, <2>3 DEF Double
<1>. QED
  BY <1>5, <1>6, <1>7

LEMMA FlitsOfInFlits ==
  ASSUME NEW t \in Terminals, NEW s \in Seq(FlitsOf(t))
  PROVE  s \in Seq(Flits)
<1>1. FlitsOf(t) \subseteq Flits
  BY DEF FlitsOf
<1>. QED
  BY <1>1, SeqMonotonic

LEMMA FlowTypeStep ==
  ASSUME FlowTypes, [FlowNext]_flow_vars
  PROVE  FlowTypes'
<1>1. CASE UNCHANGED flow_vars
  BY <1>1 DEF FlowTypes, flow_vars, test, counts, mesh, scoreboard
<1>2. CASE WaitFork
  BY <1>2 DEF WaitFork, FlowTypes, counts, mesh, scoreboard
<1>3. CASE NextScenario
  <2>1. /\ phase' = "run" /\ scenario' = scenario + 1 /\ scenario < NumScenarios
        /\ pkt_id' = [t \in Terminals |-> 0] /\ num_items' \in [Terminals -> NumItems]
        /\ UNCHANGED <<made, fifos, ports, inside, lost, doubled, exp_q, n_in, n_miss>>
        /\ drained' \in BOOLEAN
    BY <1>3 DEF NextScenario, PauseIsOver, mesh, scoreboard
  <2>2. scenario' \in 1 .. NumScenarios
    BY <2>1, FlowAssumption DEF FlowTypes
  <2>3. \A t \in Terminals : pkt_id'[t] \in Nat /\ pkt_id'[t] <= num_items'[t]
    <3>1. ASSUME NEW t \in Terminals PROVE pkt_id'[t] \in Nat /\ pkt_id'[t] <= num_items'[t]
      <4>1. pkt_id'[t] = 0 /\ num_items'[t] \in Nat
        BY <2>1, FlowAssumption
      <4>. QED
        BY <4>1
    <3>. QED
      BY <3>1
  <2>. QED
    BY <2>1, <2>2, <2>3 DEF FlowTypes
<1>4. CASE Finish
  BY <1>4 DEF Finish, PauseIsOver, FlowTypes, counts, mesh, scoreboard
<1>5. ASSUME NEW t \in Terminals, Deliver(t) PROVE FlowTypes'
  <2>1. PICK f : f = Flit(t, scenario, pkt_id[t] + 1)
    OBVIOUS
  <2>2. /\ f \in FlitsOf(t)
        /\ fifos' = [fifos EXCEPT ![t] = Append(fifos[t], f)]
        /\ pkt_id' = [pkt_id EXCEPT ![t] = pkt_id[t] + 1]
        /\ pkt_id[t] \in Nat /\ pkt_id[t] + 1 <= num_items[t]
    BY <1>5, <2>1, DeliverFacts
  <2>3. /\ UNCHANGED <<phase, scenario, num_items, drained, ports, inside, lost, doubled>>
        /\ UNCHANGED <<exp_q, n_in, n_miss>> /\ made' = made + 1
    BY <1>5 DEF Deliver, mesh, scoreboard
  <2>4. Append(fifos[t], f) \in Seq(FlitsOf(t))
    BY <2>2, AppendProperties DEF FlowTypes
  <2>5. Append(fifos[t], f) \in Seq(Flits)
    BY <2>4, FlitsOfInFlits
  <2>6. fifos' \in [Terminals -> Seq(Flits)]
    BY <2>2, <2>5 DEF FlowTypes
  <2>7. \A u \in Terminals : fifos'[u] \in Seq(FlitsOf(u))
    BY <2>2, <2>4 DEF FlowTypes
  <2>8. pkt_id' \in [Terminals -> Nat] /\ \A u \in Terminals : pkt_id'[u] <= num_items[u]
    BY <2>2 DEF FlowTypes
  <2>. QED
    BY <2>3, <2>6, <2>7, <2>8 DEF FlowTypes
<1>6. ASSUME NEW t \in Terminals, Take(t) PROVE FlowTypes'
  <2>1. PICK f : f = ports[t]
    OBVIOUS
  <2>2. /\ ports' = [ports EXCEPT ![t] = Head(fifos[t])] /\ Head(fifos[t]) \in FlitsOf(t)
        /\ fifos' = [fifos EXCEPT ![t] = Tail(fifos[t])] /\ Tail(fifos[t]) \in Seq(FlitsOf(t))
        /\ inside' = [inside EXCEPT ![t] = Append(inside[t], f)]
        /\ StoreIn(f) /\ f \in FlitsOf(t)
        /\ UNCHANGED <<test, lost, doubled>>
    BY <1>6, <2>1, TakeFacts
  <2>3. f \in Flits /\ f \in AllMade /\ Head(fifos[t]) \in Flits
    BY <2>2, FlitFacts
  <2>4. exp_q' \in [Keys -> Seq(AllMade)] /\ n_in' = n_in + 1 /\ n_miss' = n_miss
    BY <2>2, <2>3, StoreFacts DEF FlowTypes
  <2>5. Append(inside[t], f) \in Seq(FlitsOf(t))
    BY <2>2, AppendProperties DEF FlowTypes
  <2>6. Append(inside[t], f) \in Seq(Flits) /\ Tail(fifos[t]) \in Seq(Flits)
    BY <2>2, <2>5, FlitsOfInFlits
  <2>7. /\ fifos' \in [Terminals -> Seq(Flits)] /\ inside' \in [Terminals -> Seq(Flits)]
        /\ ports' \in [Terminals -> Flits]
    BY <2>2, <2>3, <2>6 DEF FlowTypes
  <2>8. \A u \in Terminals : /\ fifos'[u] \in Seq(FlitsOf(u))
                             /\ inside'[u] \in Seq(FlitsOf(u))
                             /\ ports'[u] \in FlitsOf(u)
    BY <2>2, <2>5 DEF FlowTypes
  <2>9. UNCHANGED <<phase, scenario, pkt_id, num_items, made, drained, lost, doubled>>
    BY <2>2 DEF test, counts
  <2>. QED
    BY <2>4, <2>7, <2>8, <2>9 DEF FlowTypes
<1>7. ASSUME NEW t \in Terminals, NEW i \in DOMAIN inside[t],
             Leave(t, i) \/ Lose(t, i) \/ Double(t, i)
      PROVE  FlowTypes'
  <2>1. /\ UNCHANGED <<phase, scenario, pkt_id, num_items, made, drained, fifos, ports>>
        /\ inside[t][i] \in FlitsOf(t)
        /\ inside' = [inside EXCEPT ![t] = inside'[t]] /\ inside'[t] \in Seq(FlitsOf(t))
        /\ Leave(t, i) => UNCHANGED <<lost, doubled>> /\ MatchOut(inside[t][i])
        /\ Lose(t, i) => /\ UNCHANGED <<doubled, exp_q, n_in, n_miss>>
                         /\ lost' = Append(lost, inside[t][i])
        /\ Double(t, i) => /\ UNCHANGED <<lost, exp_q, n_in, n_miss>>
                           /\ doubled' = doubled + 1
    BY <1>7, MeshFacts DEF test, counts, scoreboard
  <2>2. PICK f, r : f = inside[t][i] /\ r = inside'[t]
    OBVIOUS
  <2>3. f \in Flits /\ r \in Seq(Flits) /\ r \in Seq(FlitsOf(t))
    BY <2>1, <2>2, FlitFacts, FlitsOfInFlits
  <2>4. inside' = [inside EXCEPT ![t] = r]
    BY <2>1, <2>2
  <2>5. /\ inside' \in [Terminals -> Seq(Flits)]
        /\ \A u \in Terminals : inside'[u] \in Seq(FlitsOf(u))
    BY <2>3, <2>4 DEF FlowTypes
  <2>6. /\ exp_q' \in [Keys -> Seq(AllMade)] /\ n_in' \in Nat /\ n_miss' \in Nat
        /\ lost' \in Seq(Flits) /\ doubled' \in Nat
    <3>1. CASE Leave(t, i)
      <4>1. PICK k : k = KeyOf[f]
        OBVIOUS
      <4>2. /\ k \in Keys /\ exp_q' \in [Keys -> Seq(AllMade)] /\ n_in' = n_in
            /\ exp_q[k] # <<>> => n_miss' = n_miss
            /\ exp_q[k] = <<>> => n_miss' = n_miss + 1
        BY <2>1, <2>2, <2>3, <3>1, <4>1, MatchFacts DEF FlowTypes
      <4>3. n_miss' \in Nat
        BY <4>2 DEF FlowTypes
      <4>. QED
        BY <2>1, <3>1, <4>2, <4>3 DEF FlowTypes
    <3>2. CASE Lose(t, i)
      <4>1. lost' = Append(lost, f) /\ lost \in Seq(Flits)
        BY <2>1, <2>2, <3>2 DEF FlowTypes
      <4>2. lost' \in Seq(Flits)
        BY <2>3, <4>1, AppendProperties
      <4>. QED
        BY <2>1, <3>2, <4>2 DEF FlowTypes
    <3>3. CASE Double(t, i)
      BY <2>1, <3>3 DEF FlowTypes
    <3>. QED
      BY <1>7, <3>1, <3>2, <3>3
  <2>. QED
    BY <2>1, <2>5, <2>6 DEF FlowTypes
<1>. QED
  BY <1>1, <1>2, <1>3, <1>4, <1>5, <1>6, <1>7 DEF FlowNext, Mesh

-----------------------------------------------------------------------------
(***************************************************************************)
(* What is under way in the test, and what the report makes of it.         *)
(***************************************************************************)
\* How many more flits of each key are in the mesh than the scoreboard expects.
Surplus == [k \in Keys |-> Cardinality(Spots(inside, k)) - Len(exp_q[k])]

\* An exit is unexpected only where there is such a surplus, and only a flit doubled
\* makes one.
Net ==
  /\ pending - n_miss = Len(lost) - doubled + TotalLen(inside)
  /\ n_miss + Cardinality(Cells(Surplus)) <= doubled

LEMMA SurplusType ==
  ASSUME FlowTypes
  PROVE  /\ Surplus \in [Keys -> Int]
         /\ IsFiniteSet(Cells(Surplus)) /\ Cardinality(Cells(Surplus)) \in Nat
<1>1. \A k \in Keys : Cardinality(Spots(inside, k)) \in Nat /\ Len(exp_q[k]) \in Nat
  <2>1. Lists(inside, Terminals) /\ IsFiniteSet(Terminals)
    <3>1. inside \in [Terminals -> Seq(Flits)]
      BY DEF FlowTypes
    <3>. QED
      BY <3>1, KeysAssumption, ListsFact
  <2>2. \A k \in Keys : Cardinality(Spots(inside, k)) \in Nat
    BY <2>1, SpotsFinite
  <2>3. \A k \in Keys : Len(exp_q[k]) \in Nat
    BY DEF FlowTypes
  <2>. QED
    BY <2>2, <2>3
<1>2. Surplus \in [Keys -> Int]
  BY <1>1 DEF Surplus
<1>. QED
  BY <1>2, KeysAssumption, CellsFinite

LEMMA FlowInitNet == FlowInit => Net
<1>. SUFFICES ASSUME FlowInit PROVE Net
  OBVIOUS
<1>1. /\ DOMAIN exp_q = Keys /\ \A k \in Keys : exp_q[k] = <<>>
      /\ DOMAIN inside = Terminals /\ \A t \in Terminals : inside[t] = <<>>
      /\ lost = <<>> /\ doubled = 0 /\ n_miss = 0
  BY DEF FlowInit, ScoreboardInit
<1>2. pending = 0 /\ TotalLen(inside) = 0
  BY <1>1, TotalOfEmpty DEF pending
<1>3. ASSUME NEW k \in Keys PROVE Surplus[k] = 0
  <2>1. Spots(inside, k) = {}
    <3>1. \A x \in Spots(inside, k) : \E t \in DOMAIN inside : \E i \in DOMAIN inside[t] : TRUE
      BY SpotFacts
    <3>2. \A t \in DOMAIN inside : DOMAIN inside[t] = {}
      BY <1>1
    <3>. QED
      BY <3>1, <3>2
  <2>. QED
    BY <1>1, <2>1, FS_EmptySet DEF Surplus
<1>4. Cells(Surplus) = {}
  <2>1. DOMAIN Surplus = Keys /\ \A k \in Keys : 1 .. Surplus[k] = {}
    BY <1>3 DEF Surplus
  <2>. QED
    BY <2>1 DEF Cells
<1>5. Cardinality(Cells(Surplus)) = 0
  BY <1>4, FS_EmptySet
<1>. QED
  BY <1>1, <1>2, <1>5 DEF Net

\* One flit more in one of the sequences: all of them together hold one more, and one
\* more of its key.
LEMMA OneFlitMore ==
  ASSUME NEW a, NEW b, NEW t, NEW i, OneMore(a, b, Terminals, t, i), b[t][i] \in Flits,
         NEW j, j = KeyOf[b[t][i]]
  PROVE  /\ TotalLen(b) = TotalLen(a) + 1 /\ TotalLen(a) \in Nat /\ TotalLen(b) \in Nat
         /\ j \in Keys
         /\ \A k \in Keys : /\ Cardinality(Spots(a, k)) \in Nat
                            /\ Cardinality(Spots(b, k)) = Cardinality(Spots(a, k))
                                                            + (IF j = k THEN 1 ELSE 0)
<1>1. /\ IsFiniteSet(Terminals) /\ Lists(a, Terminals) /\ Lists(b, Terminals)
      /\ t \in Terminals /\ Without(a[t], b[t], i) /\ \A u \in Terminals : u # t => b[u] = a[u]
  BY DEF OneMore
<1>2. Longer(a, b, Terminals, t)
  BY <1>1 DEF Longer, Without
<1>3. TotalLen(b) = TotalLen(a) + 1 /\ TotalLen(a) \in Nat /\ TotalLen(b) \in Nat
  BY <1>2, TotalGrows
<1>4. j \in Keys
  BY KeysAssumption
<1>5. ASSUME NEW k \in Keys
      PROVE  /\ Cardinality(Spots(a, k)) \in Nat
             /\ Cardinality(Spots(b, k)) = Cardinality(Spots(a, k)) + (IF j = k THEN 1 ELSE 0)
  <2>1. Cardinality(Spots(a, k)) \in Nat
    BY <1>1, SpotsFinite
  <2>2. Cardinality(Spots(b, k))
          = Cardinality(Spots(a, k)) + (IF KeyOf[b[t][i]] = k THEN 1 ELSE 0)
    BY SpotsGrow
  <2>. QED
    BY <2>1, <2>2
<1>. QED
  BY <1>3, <1>4, <1>5

\* One entry more is expected of key k.
LEMMA OneEntryMore ==
  ASSUME NEW a, NEW b, Lists(a, Keys), Lists(b, Keys),
         NEW k \in Keys, Len(b[k]) = Len(a[k]) + 1, \A j \in Keys : j # k => b[j] = a[j]
  PROVE  /\ TotalLen(b) = TotalLen(a) + 1 /\ TotalLen(a) \in Nat /\ TotalLen(b) \in Nat
         /\ \A j \in Keys : /\ Len(a[j]) \in Nat
                            /\ Len(b[j]) = Len(a[j]) + (IF k = j THEN 1 ELSE 0)
<1>1. Longer(a, b, Keys, k)
  BY KeysAssumption DEF Longer
<1>2. TotalLen(b) = TotalLen(a) + 1 /\ TotalLen(a) \in Nat /\ TotalLen(b) \in Nat
  BY <1>1, TotalGrows
<1>3. \A j \in Keys : Len(a[j]) \in Nat
  BY DEF Lists
<1>4. ASSUME NEW j \in Keys PROVE Len(b[j]) = Len(a[j]) + (IF k = j THEN 1 ELSE 0)
  <2>1. CASE k = j
    BY <2>1
  <2>2. CASE k # j
    <3>1. b[j] = a[j] /\ Len(a[j]) \in Nat
      BY <1>3, <2>2
    <3>. QED
      BY <2>2, <3>1
  <2>. QED
    BY <2>1, <2>2
<1>. QED
  BY <1>2, <1>3, <1>4

\* What the scoreboard does with a flit that enters, or leaves, the mesh.
LEMMA FlowStore ==
  ASSUME FlowTypes, NEW t \in Terminals, NEW f \in FlitsOf(t), StoreIn(f),
         NEW k, k = KeyOf[f]
  PROVE  /\ k \in Keys /\ Lists(exp_q, Keys) /\ Lists(exp_q', Keys)
         /\ exp_q'[k] = Append(exp_q[k], f) /\ Len(exp_q'[k]) = Len(exp_q[k]) + 1
         /\ \A j \in Keys : j # k => exp_q'[j] = exp_q[j]
         /\ n_in' = n_in + 1 /\ row' = row /\ n_miss' = n_miss
<1>1. exp_q \in [Keys -> Seq(AllMade)] /\ n_in \in Nat
  BY DEF FlowTypes
<1>2. f \in Flits /\ f \in AllMade
  BY FlitFacts
<1>3. /\ k \in Keys
      /\ exp_q' \in [Keys -> Seq(AllMade)]
      /\ exp_q'[k] = Append(exp_q[k], f)
      /\ \A j \in Keys : j # k => exp_q'[j] = exp_q[j]
      /\ n_in' = n_in + 1 /\ row' = row /\ n_miss' = n_miss
  <2>1. PICK S : S = AllMade
    OBVIOUS
  <2>2. exp_q \in [Keys -> Seq(S)] /\ f \in S
    BY <1>1, <1>2, <2>1
  <2>3. /\ k \in Keys
        /\ exp_q' \in [Keys -> Seq(S)]
        /\ exp_q'[k] = Append(exp_q[k], f)
        /\ \A j \in Keys : j # k => exp_q'[j] = exp_q[j]
        /\ n_in' = n_in + 1 /\ row' = row /\ n_out' = n_out /\ n_miss' = n_miss
    BY <1>2, <2>2, StoreFacts
  <2>. QED
    BY <2>1, <2>3
<1>4. Lists(exp_q, Keys) /\ Lists(exp_q', Keys)
  BY <1>1, <1>3, ListsFact
<1>5. exp_q[k] \in Seq(AllMade)
  BY <1>1, <1>3
<1>6. Len(exp_q'[k]) = Len(exp_q[k]) + 1
  BY <1>2, <1>3, <1>5
<1>. QED
  BY <1>3, <1>4, <1>6

LEMMA FlowMatch ==
  ASSUME FlowTypes, NEW t \in Terminals, NEW f \in FlitsOf(t), MatchOut(f),
         NEW k, k = KeyOf[f]
  PROVE  /\ k \in Keys /\ Lists(exp_q, Keys) /\ Lists(exp_q', Keys)
         /\ \A j \in Keys : j # k => exp_q'[j] = exp_q[j]
         /\ n_in' = n_in
         /\ exp_q[k] # <<>> =>
              /\ exp_q'[k] = Tail(exp_q[k]) /\ Len(exp_q[k]) = Len(exp_q'[k]) + 1
              /\ row' = <<Head(exp_q[k]), f>> /\ n_miss' = n_miss
         /\ exp_q[k] = <<>> =>
              exp_q' = exp_q /\ row' = <<f>> /\ n_miss' = n_miss + 1
<1>1. exp_q \in [Keys -> Seq(AllMade)]
  BY DEF FlowTypes
<1>2. f \in Flits
  BY FlitFacts
<1>3. /\ k \in Keys
      /\ exp_q' \in [Keys -> Seq(AllMade)]
      /\ \A j \in Keys : j # k => exp_q'[j] = exp_q[j]
      /\ n_in' = n_in
      /\ exp_q[k] # <<>> =>
           /\ exp_q'[k] = Tail(exp_q[k])
           /\ row' = <<Head(exp_q[k]), f>> /\ n_miss' = n_miss
      /\ exp_q[k] = <<>> =>
           exp_q' = exp_q /\ row' = <<f>> /\ n_miss' = n_miss + 1
  BY <1>1, <1>2, MatchFacts
<1>4. Lists(exp_q, Keys) /\ Lists(exp_q', Keys)
  BY <1>1, <1>3, ListsFact
<1>5. exp_q[k] \in Seq(AllMade)
  BY <1>1, <1>3
<1>6. exp_q[k] # <<>> => Len(exp_q[k]) = Len(exp_q'[k]) + 1
  <2>1. PICK s : s = exp_q[k]
    OBVIOUS
  <2>2. s \in Seq(AllMade) /\ (s # <<>> => Len(s) = Len(Tail(s)) + 1)
    BY <1>5, <2>1
  <2>. QED
    BY <1>3, <2>1, <2>2
<1>. QED
  BY <1>3, <1>4, <1>6

\* The surplus is more by a pair if one of key k is added to it.
LEMMA SurplusGrows ==
  ASSUME NEW d \in [Keys -> Int], NEW e \in [Keys -> Int],
         NEW k \in Keys, \A j \in Keys : e[j] = d[j] + (IF k = j THEN 1 ELSE 0)
  PROVE  /\ Cardinality(Cells(d)) \in Nat /\ Cardinality(Cells(e)) \in Nat
         /\ Cardinality(Cells(d)) <= Cardinality(Cells(e))
         /\ Cardinality(Cells(e)) <= Cardinality(Cells(d)) + 1
         /\ d[k] >= 0 => Cardinality(Cells(e)) = Cardinality(Cells(d)) + 1
<1>1. IsFiniteSet(Keys)
  BY KeysAssumption
<1>2. Cardinality(Cells(d)) \in Nat /\ Cardinality(Cells(e)) \in Nat
  BY <1>1, CellsFinite
<1>3. e[k] = d[k] + 1 /\ d[k] \in Int
  OBVIOUS
<1>4. \A j \in Keys : j # k => e[j] = d[j]
  OBVIOUS
<1>5. d \in [Keys -> Int] /\ e \in [Keys -> Int] /\ k \in Keys
  OBVIOUS
<1>6. /\ d[k] >= 0 => Cardinality(Cells(e)) = Cardinality(Cells(d)) + 1
      /\ d[k] < 0 => Cardinality(Cells(e)) = Cardinality(Cells(d))
  BY ONLY <1>1, <1>3, <1>4, <1>5, CellsGrow, Zenon
<1>. QED
  BY <1>2, <1>3, <1>6

LEMMA SurplusPrimed == (FlowTypes => Surplus \in [Keys -> Int])'
<1>1. FlowTypes => Surplus \in [Keys -> Int]
  BY SurplusType
<1>. QED
  BY <1>1, PTL

LEMMA InsideLists ==
  ASSUME FlowTypes
  PROVE  Lists(inside, Terminals) /\ IsFiniteSet(Terminals)
<1>1. inside \in [Terminals -> Seq(Flits)]
  BY DEF FlowTypes
<1>. QED
  BY <1>1, KeysAssumption, ListsFact

LEMMA InsideListsPrimed == (FlowTypes => Lists(inside, Terminals))'
<1>1. FlowTypes => Lists(inside, Terminals)
  BY InsideLists
<1>. QED
  BY <1>1, PTL

\* The sums of Net are numbers.
LEMMA NetNumbers ==
  ASSUME FlowTypes
  PROVE  /\ pending \in Nat /\ TotalLen(inside) \in Nat /\ Len(lost) \in Nat
         /\ doubled \in Nat /\ n_miss \in Nat /\ Cardinality(Cells(Surplus)) \in Nat
         /\ Surplus \in [Keys -> Int]
         /\ \A k \in Keys : Cardinality(Spots(inside, k)) \in Nat /\ Len(exp_q[k]) \in Nat
<1>1. ASSUME NEW D, NEW a, IsFiniteSet(D), Lists(a, D)
      PROVE  TotalLen(a) \in Nat
  <2>1. PICK d : d = Lengths(a)
    OBVIOUS
  <2>2. d \in [D -> Nat] /\ TotalLen(a) = Cardinality(Cells(d))
    BY <1>1, <2>1, TotalIsCells
  <2>3. d \in [D -> Int]
    BY <2>2
  <2>. QED
    BY <1>1, <2>2, <2>3, CellsFinite
<1>2. IsFiniteSet(Keys) /\ Lists(exp_q, Keys)
  <2>1. exp_q \in [Keys -> Seq(AllMade)]
    BY DEF FlowTypes
  <2>. QED
    BY <2>1, KeysAssumption, ListsFact
<1>3. pending \in Nat /\ TotalLen(inside) \in Nat
  BY <1>1, <1>2, InsideLists DEF pending
<1>4. Cardinality(Cells(Surplus)) \in Nat /\ Surplus \in [Keys -> Int]
  BY SurplusType
<1>5. \A k \in Keys : Cardinality(Spots(inside, k)) \in Nat /\ Len(exp_q[k]) \in Nat
  BY <1>2, InsideLists, SpotsFinite DEF Lists
<1>. QED
  BY <1>3, <1>4, <1>5 DEF FlowTypes

LEMMA NetTake ==
  ASSUME FlowTypes, FlowTypes', Net, NEW t \in Terminals, Take(t)
  PROVE  Net'
<1>1. PICK f, s : f = ports[t] /\ s = inside[t]
  OBVIOUS
<1>2. /\ inside' = [inside EXCEPT ![t] = Append(s, f)] /\ StoreIn(f) /\ f \in FlitsOf(t)
      /\ lost' = lost /\ doubled' = doubled
  BY <1>1, TakeFacts
<1>3. f \in Flits /\ s \in Seq(Flits)
  BY <1>1, <1>2, FlitFacts DEF FlowTypes
<1>4. PICK k : k = KeyOf[f]
  OBVIOUS
<1>5. /\ k \in Keys /\ Lists(exp_q, Keys) /\ Lists(exp_q', Keys)
      /\ Len(exp_q'[k]) = Len(exp_q[k]) + 1
      /\ \A j \in Keys : j # k => exp_q'[j] = exp_q[j]
      /\ n_miss' = n_miss
  BY <1>2, <1>4, FlowStore
<1>6. PICK i : i = Len(s) + 1
  OBVIOUS
<1>7. /\ Without(inside[t], inside'[t], i) /\ inside'[t][i] = f
      /\ \A u \in Terminals : u # t => inside'[u] = inside[u]
  <2>1. inside'[t] = Append(s, f)
    BY <1>2 DEF FlowTypes
  <2>2. Without(s, Append(s, f), i) /\ Append(s, f)[i] = f
    BY <1>3, <1>6, WithoutAppended
  <2>3. \A u \in Terminals : u # t => inside'[u] = inside[u]
    BY <1>2 DEF FlowTypes
  <2>. QED
    BY <1>1, <2>1, <2>2, <2>3
<1>8. OneMore(inside, inside', Terminals, t, i)
  BY <1>7, InsideLists, InsideListsPrimed DEF OneMore
<1>9. PICK a, b : a = inside /\ b = inside'
  OBVIOUS
<1>10. /\ TotalLen(b) = TotalLen(a) + 1 /\ TotalLen(a) \in Nat
       /\ \A j \in Keys : /\ Cardinality(Spots(a, j)) \in Nat
                          /\ Cardinality(Spots(b, j)) = Cardinality(Spots(a, j))
                                                          + (IF k = j THEN 1 ELSE 0)
  <2>1. OneMore(a, b, Terminals, t, i) /\ b[t][i] \in Flits /\ k = KeyOf[b[t][i]]
    BY <1>3, <1>4, <1>7, <1>8, <1>9
  <2>. QED
    BY <2>1, OneFlitMore
<1>11. PICK p, q : p = exp_q /\ q = exp_q'
  OBVIOUS
<1>12. /\ TotalLen(q) = TotalLen(p) + 1 /\ TotalLen(p) \in Nat
       /\ \A j \in Keys : /\ Len(p[j]) \in Nat
                          /\ Len(q[j]) = Len(p[j]) + (IF k = j THEN 1 ELSE 0)
  <2>1. /\ k \in Keys /\ Lists(p, Keys) /\ Lists(q, Keys)
        /\ Len(q[k]) = Len(p[k]) + 1 /\ \A j \in Keys : j # k => q[j] = p[j]
    BY <1>5, <1>11
  <2>. QED
    BY <2>1, OneEntryMore
<1>13. Surplus' = Surplus
  <2>1. ASSUME NEW j \in Keys
        PROVE  Cardinality(Spots(b, j)) - Len(q[j]) = Cardinality(Spots(a, j)) - Len(p[j])
    <3>1. PICK v, w, x, y : /\ v = Cardinality(Spots(a, j)) /\ w = Cardinality(Spots(b, j))
                            /\ x = Len(p[j]) /\ y = Len(q[j])
      OBVIOUS
    <3>2. /\ v \in Nat /\ w = v + (IF k = j THEN 1 ELSE 0)
          /\ x \in Nat /\ y = x + (IF k = j THEN 1 ELSE 0)
      BY <1>10, <1>12, <3>1
    <3>3. w - y = v - x
      BY <3>2
    <3>. QED
      BY <3>1, <3>3
  <2>2. [j \in Keys |-> Cardinality(Spots(b, j)) - Len(q[j])]
          = [j \in Keys |-> Cardinality(Spots(a, j)) - Len(p[j])]
    BY <2>1
  <2>. QED
    BY <1>9, <1>11, <2>2 DEF Surplus
<1>14. pending' = pending + 1 /\ TotalLen(inside') = TotalLen(inside) + 1
  BY <1>9, <1>10, <1>11, <1>12 DEF pending
<1>15. /\ pending \in Nat /\ TotalLen(inside) \in Nat /\ Len(lost) \in Nat
       /\ doubled \in Nat /\ n_miss \in Nat
  BY NetNumbers
<1>16. n_miss' + Cardinality(Cells(Surplus'))<= doubled'
  BY <1>2, <1>5, <1>13 DEF Net
<1>. QED
  BY <1>2, <1>5, <1>14, <1>15, <1>16 DEF Net

\* A flit leaves the mesh, seen by the scoreboard or not.
LEMMA InsideShrinks ==
  ASSUME FlowTypes, FlowTypes', NEW t \in Terminals, NEW i,
         Without(inside'[t], inside[t], i), \A u \in Terminals : u # t => inside'[u] = inside[u],
         NEW k, k = KeyOf[inside[t][i]]
  PROVE  /\ TotalLen(inside) = TotalLen(inside') + 1 /\ TotalLen(inside') \in Nat
         /\ k \in Keys
         /\ \A j \in Keys : /\ Cardinality(Spots(inside', j)) \in Nat
                            /\ Cardinality(Spots(inside, j)) = Cardinality(Spots(inside', j))
                                                                 + (IF k = j THEN 1 ELSE 0)
<1>1. OneMore(inside', inside, Terminals, t, i)
  BY InsideLists, InsideListsPrimed DEF OneMore
<1>2. inside[t][i] \in Flits
  BY DEF FlowTypes, Without
<1>3. PICK a, b : a = inside' /\ b = inside
  OBVIOUS
<1>4. OneMore(a, b, Terminals, t, i) /\ b[t][i] \in Flits /\ k = KeyOf[b[t][i]]
  BY <1>1, <1>2, <1>3
<1>5. /\ TotalLen(b) = TotalLen(a) + 1 /\ TotalLen(a) \in Nat
      /\ k \in Keys
      /\ \A j \in Keys : /\ Cardinality(Spots(a, j)) \in Nat
                         /\ Cardinality(Spots(b, j)) = Cardinality(Spots(a, j))
                                                         + (IF k = j THEN 1 ELSE 0)
  BY <1>4, OneFlitMore
<1>. QED
  BY <1>3, <1>5

LEMMA NetLeave ==
  ASSUME FlowTypes, FlowTypes', Net, NEW t \in Terminals, NEW i \in DOMAIN inside[t],
         Leave(t, i)
  PROVE  Net'
<1>1. PICK f, k : f = inside[t][i] /\ k = KeyOf[f]
  OBVIOUS
<1>2. /\ f \in FlitsOf(t) /\ Without(inside'[t], inside[t], i) /\ MatchOut(f)
      /\ inside' = [inside EXCEPT ![t] = inside'[t]]
      /\ lost' = lost /\ doubled' = doubled
  BY <1>1, MeshFacts
<1>3. \A u \in Terminals : u # t => inside'[u] = inside[u]
  BY <1>2 DEF FlowTypes
<1>4. /\ TotalLen(inside) = TotalLen(inside') + 1 /\ TotalLen(inside') \in Nat
      /\ \A j \in Keys : /\ Cardinality(Spots(inside', j)) \in Nat
                         /\ Cardinality(Spots(inside, j)) = Cardinality(Spots(inside', j))
                                                              + (IF k = j THEN 1 ELSE 0)
  BY <1>1, <1>2, <1>3, InsideShrinks
<1>5. /\ k \in Keys /\ Lists(exp_q, Keys) /\ Lists(exp_q', Keys)
      /\ \A j \in Keys : j # k => exp_q'[j] = exp_q[j]
      /\ exp_q[k] # <<>> => Len(exp_q[k]) = Len(exp_q'[k]) + 1 /\ n_miss' = n_miss
      /\ exp_q[k] = <<>> => exp_q' = exp_q /\ n_miss' = n_miss + 1
  BY <1>1, <1>2, FlowMatch
<1>6. /\ pending \in Nat /\ TotalLen(inside) \in Nat /\ Len(lost) \in Nat
      /\ doubled \in Nat /\ n_miss \in Nat /\ Cardinality(Cells(Surplus)) \in Nat
      /\ Surplus \in [Keys -> Int]
      /\ \A j \in Keys : Len(exp_q[j]) \in Nat
  BY NetNumbers
<1>7. CASE exp_q[k] # <<>>
  <2>1. PICK p, q : p = exp_q' /\ q = exp_q
    OBVIOUS
  <2>2. /\ TotalLen(q) = TotalLen(p) + 1 /\ TotalLen(p) \in Nat
        /\ \A j \in Keys : /\ Len(p[j]) \in Nat
                           /\ Len(q[j]) = Len(p[j]) + (IF k = j THEN 1 ELSE 0)
    <3>1. /\ k \in Keys /\ Lists(p, Keys) /\ Lists(q, Keys)
          /\ Len(q[k]) = Len(p[k]) + 1 /\ \A j \in Keys : j # k => q[j] = p[j]
      BY <1>5, <1>7, <2>1
    <3>. QED
      BY <3>1, OneEntryMore
  <2>3. PICK a, b : a = inside' /\ b = inside
    OBVIOUS
  <2>4. ASSUME NEW j \in Keys
        PROVE  Cardinality(Spots(a, j)) - Len(p[j]) = Cardinality(Spots(b, j)) - Len(q[j])
    <3>1. PICK v, w, x, y : /\ v = Cardinality(Spots(a, j)) /\ w = Cardinality(Spots(b, j))
                            /\ x = Len(p[j]) /\ y = Len(q[j])
      OBVIOUS
    <3>2. /\ v \in Nat /\ w = v + (IF k = j THEN 1 ELSE 0)
          /\ x \in Nat /\ y = x + (IF k = j THEN 1 ELSE 0)
      BY <1>4, <2>2, <2>3, <3>1
    <3>3. w - y = v - x
      BY <3>2
    <3>. QED
      BY <3>1, <3>3
  <2>5. [j \in Keys |-> Cardinality(Spots(a, j)) - Len(p[j])]
          = [j \in Keys |-> Cardinality(Spots(b, j)) - Len(q[j])]
    BY <2>4
  <2>6. Surplus' = Surplus
    BY <2>1, <2>3, <2>5 DEF Surplus
  <2>7. pending = pending' + 1 /\ pending' \in Nat
    BY <2>1, <2>2 DEF pending
  <2>8. n_miss' + Cardinality(Cells(Surplus')) <= doubled'
    BY <1>2, <1>5, <1>7, <2>6 DEF Net
  <2>9. /\ TotalLen(inside) = TotalLen(inside') + 1 /\ TotalLen(inside') \in Nat
        /\ n_miss' = n_miss
    BY <1>4, <1>5, <1>7
  <2>10. pending' - n_miss' = Len(lost') - doubled' + TotalLen(inside')
    <3>1. pending - n_miss = Len(lost) - doubled + TotalLen(inside)
      BY DEF Net
    <3>2. PICK x, y, v, w : /\ x = pending /\ y = pending'
                            /\ v = TotalLen(inside) /\ w = TotalLen(inside')
      OBVIOUS
    <3>3. x - n_miss = Len(lost) - doubled + v /\ x = y + 1 /\ v = w + 1
      BY <2>7, <2>9, <3>1, <3>2
    <3>4. y - n_miss = Len(lost) - doubled + w
      <4>1. y \in Nat /\ w \in Nat /\ Len(lost) \in Nat /\ doubled \in Nat /\ n_miss \in Nat
        BY <1>6, <2>7, <2>9, <3>2
      <4>. QED
        BY ONLY <4>1, <3>3
    <3>5. pending' - n_miss = Len(lost) - doubled + TotalLen(inside')
      BY <3>2, <3>4
    <3>. QED
      BY <1>2, <2>9, <3>5
  <2>. QED
    BY <2>8, <2>10 DEF Net
<1>8. CASE exp_q[k] = <<>>
  <2>1. PICK a, b : a = inside' /\ b = inside
    OBVIOUS
  <2>2. PICK q : q = exp_q /\ q = exp_q'
    BY <1>5, <1>8
  <2>3. PICK d, e : d = [j \in Keys |-> Cardinality(Spots(a, j)) - Len(q[j])]
                    /\ e = [j \in Keys |-> Cardinality(Spots(b, j)) - Len(q[j])]
    OBVIOUS
  <2>4. d = Surplus' /\ e = Surplus
    BY <2>1, <2>2, <2>3 DEF Surplus
  <2>5. \A j \in Keys : /\ Cardinality(Spots(a, j)) \in Nat
                        /\ Cardinality(Spots(b, j)) = Cardinality(Spots(a, j))
                                                        + (IF k = j THEN 1 ELSE 0)
                        /\ Len(q[j]) \in Nat
    BY <1>4, <1>6, <2>1, <2>2
  <2>6. d \in [Keys -> Int] /\ e \in [Keys -> Int]
    BY <2>3, <2>5
  <2>7. \A j \in Keys : e[j] = d[j] + (IF k = j THEN 1 ELSE 0)
    BY <2>3, <2>5
  <2>8. d[k] >= 0
    BY <1>5, <1>8, <2>2, <2>3, <2>5
  <2>9. Cardinality(Cells(e)) = Cardinality(Cells(d)) + 1 /\ Cardinality(Cells(d)) \in Nat
    BY <1>5, <2>6, <2>7, <2>8, SurplusGrows
  <2>10. PICK m, n : m = Cardinality(Cells(Surplus')) /\ n = Cardinality(Cells(Surplus))
    OBVIOUS
  <2>11. n = m + 1 /\ m \in Nat
    BY <2>4, <2>9, <2>10
  <2>12. pending' = pending /\ n_miss' = n_miss + 1
    BY <1>5, <1>8 DEF pending
  <2>13. n_miss' + m <= doubled'
    BY <1>2, <1>6, <2>10, <2>11, <2>12 DEF Net
  <2>14. TotalLen(inside) = TotalLen(inside') + 1 /\ TotalLen(inside') \in Nat
    BY <1>4
  <2>15. pending' - n_miss' = Len(lost') - doubled' + TotalLen(inside')
    <3>1. pending - n_miss = Len(lost) - doubled + TotalLen(inside)
      BY DEF Net
    <3>2. pending - (n_miss + 1) = Len(lost) - doubled + TotalLen(inside')
      BY <1>6, <2>14, <3>1
    <3>. QED
      BY <1>2, <2>12, <3>2
  <2>. QED
    BY <2>10, <2>13, <2>15 DEF Net
<1>. QED
  BY <1>7, <1>8

\* A flit is lost: it is in the mesh no more, and what is expected stays.
LEMMA NetLose ==
  ASSUME FlowTypes, FlowTypes', Net, NEW t \in Terminals, NEW i \in DOMAIN inside[t],
         Lose(t, i)
  PROVE  Net'
<1>1. PICK f, k : f = inside[t][i] /\ k = KeyOf[f]
  OBVIOUS
<1>2. /\ Without(inside'[t], inside[t], i) /\ lost' = Append(lost, f)
      /\ inside' = [inside EXCEPT ![t] = inside'[t]]
      /\ doubled' = doubled /\ exp_q' = exp_q /\ n_miss' = n_miss
  BY <1>1, MeshFacts DEF scoreboard
<1>3. \A u \in Terminals : u # t => inside'[u] = inside[u]
  BY <1>2 DEF FlowTypes
<1>4. /\ TotalLen(inside) = TotalLen(inside') + 1 /\ TotalLen(inside') \in Nat
      /\ k \in Keys
      /\ \A j \in Keys : /\ Cardinality(Spots(inside', j)) \in Nat
                         /\ Cardinality(Spots(inside, j)) = Cardinality(Spots(inside', j))
                                                              + (IF k = j THEN 1 ELSE 0)
  BY <1>1, <1>2, <1>3, InsideShrinks
<1>5. /\ pending \in Nat /\ TotalLen(inside) \in Nat /\ Len(lost) \in Nat
      /\ doubled \in Nat /\ n_miss \in Nat /\ Cardinality(Cells(Surplus)) \in Nat
      /\ \A j \in Keys : Len(exp_q[j]) \in Nat
  BY NetNumbers
<1>6. PICK a, b, q : a = inside' /\ b = inside /\ q = exp_q
  OBVIOUS
<1>7. PICK d, e : d = [j \in Keys |-> Cardinality(Spots(a, j)) - Len(q[j])]
                  /\ e = [j \in Keys |-> Cardinality(Spots(b, j)) - Len(q[j])]
  OBVIOUS
<1>8. d = Surplus' /\ e = Surplus
  BY <1>2, <1>6, <1>7 DEF Surplus
<1>9. \A j \in Keys : /\ Cardinality(Spots(a, j)) \in Nat
                      /\ Cardinality(Spots(b, j)) = Cardinality(Spots(a, j))
                                                      + (IF k = j THEN 1 ELSE 0)
                      /\ Len(q[j]) \in Nat
  BY <1>4, <1>5, <1>6
<1>10. d \in [Keys -> Int] /\ e \in [Keys -> Int]
  BY <1>7, <1>9
<1>11. \A j \in Keys : e[j] = d[j] + (IF k = j THEN 1 ELSE 0)
  BY <1>7, <1>9
<1>12. PICK m, n : m = Cardinality(Cells(d)) /\ n = Cardinality(Cells(e))
  OBVIOUS
<1>13. m \in Nat /\ n \in Nat /\ m <= n
  BY <1>4, <1>10, <1>11, <1>12, SurplusGrows
<1>14. n_miss' + Cardinality(Cells(Surplus')) <= doubled'
  BY <1>2, <1>5, <1>8, <1>12, <1>13 DEF Net
<1>15. pending' = pending
  BY <1>2 DEF pending
<1>16. Len(lost') = Len(lost) + 1
  BY <1>2 DEF FlowTypes
<1>. QED
  BY <1>2, <1>4, <1>5, <1>14, <1>15, <1>16 DEF Net

\* A flit is doubled: it may leave twice, and is expected once.
LEMMA NetDouble ==
  ASSUME FlowTypes, FlowTypes', Net, NEW t \in Terminals, NEW i \in DOMAIN inside[t],
         Double(t, i)
  PROVE  Net'
<1>1. PICK f, k : f = inside[t][i] /\ k = KeyOf[f]
  OBVIOUS
<1>2. /\ Without(inside[t], inside'[t], i) /\ inside'[t][i] = f /\ f \in FlitsOf(t)
      /\ inside' = [inside EXCEPT ![t] = inside'[t]]
      /\ lost' = lost /\ doubled' = doubled + 1 /\ exp_q' = exp_q /\ n_miss' = n_miss
  BY <1>1, MeshFacts DEF scoreboard
<1>3. \A u \in Terminals : u # t => inside'[u] = inside[u]
  BY <1>2 DEF FlowTypes
<1>4. PICK a, b, q : a = inside /\ b = inside' /\ q = exp_q
  OBVIOUS
<1>5. OneMore(a, b, Terminals, t, i) /\ b[t][i] \in Flits /\ k = KeyOf[b[t][i]]
  <2>1. OneMore(inside, inside', Terminals, t, i)
    BY <1>2, <1>3, InsideLists, InsideListsPrimed DEF OneMore
  <2>2. f \in Flits
    BY <1>2, FlitFacts
  <2>. QED
    BY <1>1, <1>2, <1>4, <2>1, <2>2
<1>6. /\ TotalLen(b) = TotalLen(a) + 1 /\ TotalLen(a) \in Nat
      /\ k \in Keys
      /\ \A j \in Keys : /\ Cardinality(Spots(a, j)) \in Nat
                         /\ Cardinality(Spots(b, j)) = Cardinality(Spots(a, j))
                                                         + (IF k = j THEN 1 ELSE 0)
  BY <1>5, OneFlitMore
<1>7. /\ pending \in Nat /\ Len(lost) \in Nat
      /\ doubled \in Nat /\ n_miss \in Nat
      /\ \A j \in Keys : Len(exp_q[j]) \in Nat
  BY NetNumbers
<1>8. PICK d, e : d = [j \in Keys |-> Cardinality(Spots(a, j)) - Len(q[j])]
                  /\ e = [j \in Keys |-> Cardinality(Spots(b, j)) - Len(q[j])]
  OBVIOUS
<1>9. e = Surplus' /\ d = Surplus
  BY <1>2, <1>4, <1>8 DEF Surplus
<1>10. d \in [Keys -> Int] /\ e \in [Keys -> Int]
  BY <1>4, <1>6, <1>7, <1>8
<1>11. \A j \in Keys : e[j] = d[j] + (IF k = j THEN 1 ELSE 0)
  BY <1>4, <1>6, <1>7, <1>8
<1>12. PICK m, n : m = Cardinality(Cells(d)) /\ n = Cardinality(Cells(e))
  OBVIOUS
<1>13. m \in Nat /\ n \in Nat /\ n <= m + 1
  BY <1>6, <1>10, <1>11, <1>12, SurplusGrows
<1>14. n_miss' + Cardinality(Cells(Surplus')) <= doubled'
  BY <1>2, <1>7, <1>9, <1>12, <1>13 DEF Net
<1>15. pending' = pending
  BY <1>2 DEF pending
<1>16. TotalLen(inside') = TotalLen(inside) + 1 /\ TotalLen(inside) \in Nat
  BY <1>4, <1>6
<1>. QED
  BY <1>2, <1>7, <1>14, <1>15, <1>16 DEF Net

LEMMA NetStep ==
  ASSUME FlowTypes, FlowTypes', Net, [FlowNext]_flow_vars
  PROVE  Net'
<1>1. ASSUME UNCHANGED <<mesh, scoreboard>> PROVE Net'
  <2>1. UNCHANGED <<inside, lost, doubled, exp_q, n_miss>>
    BY <1>1 DEF mesh, scoreboard
  <2>. QED
    BY <2>1 DEF Net, pending, Surplus
<1>2. UNCHANGED flow_vars => Net'
  BY <1>1 DEF flow_vars
<1>3. WaitFork \/ NextScenario \/ Finish => Net'
  BY <1>1 DEF WaitFork, NextScenario, Finish
<1>4. \A t \in Terminals : Deliver(t) => Net'
  BY <1>1 DEF Deliver
<1>5. \A t \in Terminals : Take(t) => Net'
  BY NetTake
<1>6. \A t \in Terminals : \A i \in DOMAIN inside[t] : Leave(t, i) => Net'
  BY NetLeave
<1>7. \A t \in Terminals : \A i \in DOMAIN inside[t] : Lose(t, i) => Net'
  BY NetLose
<1>8. \A t \in Terminals : \A i \in DOMAIN inside[t] : Double(t, i) => Net'
  BY NetDouble
<1>. QED
  BY <1>2, <1>3, <1>4, <1>5, <1>6, <1>7, <1>8 DEF FlowNext, Mesh

LEMMA NetReport ==
  ASSUME FlowTypes, Net
  PROVE  ReportIsNet
BY NetNumbers DEF Net, ReportIsNet

\* The variables of a test keep their types, and a terminal's flits are its own.
THEOREM FlowTypesCorrect == FlowSpec => []FlowTypes
<1>1. FlowInit => FlowTypes
  BY FlowInitTypes
<1>2. FlowTypes /\ [FlowNext]_flow_vars => FlowTypes'
  BY FlowTypeStep
<1>. QED
  BY <1>1, <1>2, PTL DEF FlowSpec

\* Every error reported is one, and the report shows the difference of the faults:
\* what enters and leaves the mesh does so in the scoreboard's queue as well.
THEOREM ReportIsNetCorrect == FlowSpec => []ReportIsNet
<1>1. FlowInit => FlowTypes /\ Net
  BY FlowInitTypes, FlowInitNet
<1>2. FlowTypes /\ FlowTypes' /\ Net /\ [FlowNext]_flow_vars => Net'
  BY NetStep
<1>3. FlowTypes /\ Net => ReportIsNet
  BY NetReport
<1>4. FlowSpec => []FlowTypes
  BY FlowTypesCorrect
<1>. QED
  BY <1>1, <1>2, <1>3, <1>4, PTL DEF FlowSpec

-----------------------------------------------------------------------------
(***************************************************************************)
(* The order a terminal's flits are made, offered and taken in.            *)
(***************************************************************************)
Before(f, g) == f.scn < g.scn \/ (f.scn = g.scn /\ f.num < g.num)

\* Scenario and number of a flit are naturals, so that Before orders them.
Natural(f) == f.scn \in Nat /\ f.num \in Nat

LEMMA BeforeFacts ==
  ASSUME NEW f, NEW g, NEW h, Natural(f), Natural(g), Natural(h)
  PROVE  /\ Before(f, g) /\ Before(g, h) => Before(f, h)
         /\ ~ Before(f, g) /\ Before(f, h) => Before(g, h)
         /\ ~ Before(g, f) /\ ~ Before(h, g) => ~ Before(h, f)
         /\ Before(f, g) => ~ Before(g, f)
         /\ ~ Before(f, f)
BY DEF Before, Natural

Sorted(s) == \A i, j \in DOMAIN s : i < j => Before(s[i], s[j])

\* The last flit of terminal t, or the place where its sequence starts.
LastMade(t) == Flit(t, scenario, pkt_id[t])

InTurn(t) ==
  /\ \A i \in DOMAIN inside[t] : Before(inside[t][i], ports[t])
  /\ \A i \in DOMAIN fifos[t] :
       Before(ports[t], fifos[t][i]) /\ ~ Before(LastMade(t), fifos[t][i])
  /\ Sorted(fifos[t])
  /\ ~ Before(LastMade(t), ports[t])

\* What is made is queued or has been seen to enter, in the order it was made.
Lag ==
  /\ n_in + TotalLen(fifos) = made
  /\ phase = "done" /\ drained => \A t \in Terminals : fifos[t] = <<>>
  /\ \A t \in Terminals : InTurn(t)

LEMMA FlowNumbers ==
  ASSUME FlowTypes, NEW t \in Terminals
  PROVE  /\ Natural(ports[t]) /\ Natural(LastMade(t))
         /\ \A i \in DOMAIN inside[t] : inside[t][i] \in FlitsOf(t) /\ Natural(inside[t][i])
         /\ \A i \in DOMAIN fifos[t] : fifos[t][i] \in FlitsOf(t) /\ Natural(fifos[t][i])
<1>1. \A f \in FlitsOf(t) : Natural(f)
  BY FlitFacts DEF Natural
<1>2. Natural(LastMade(t))
  <2>1. scenario \in Nat /\ pkt_id[t] \in Nat
    BY FlowAssumption DEF FlowTypes
  <2>. QED
    BY <2>1 DEF Natural, LastMade, Flit
<1>3. /\ ports[t] \in FlitsOf(t)
      /\ \A i \in DOMAIN inside[t] : inside[t][i] \in FlitsOf(t)
      /\ \A i \in DOMAIN fifos[t] : fifos[t][i] \in FlitsOf(t)
  BY DEF FlowTypes
<1>. QED
  BY <1>1, <1>2, <1>3

LEMMA FifosLists ==
  ASSUME FlowTypes
  PROVE  Lists(fifos, Terminals) /\ IsFiniteSet(Terminals)
<1>1. fifos \in [Terminals -> Seq(Flits)]
  BY DEF FlowTypes
<1>. QED
  BY <1>1, KeysAssumption, ListsFact

LEMMA FifosListsPrimed == (FlowTypes => Lists(fifos, Terminals))'
<1>1. FlowTypes => Lists(fifos, Terminals)
  BY FifosLists
<1>. QED
  BY <1>1, PTL

LEMMA FlowInitLag == FlowInit => Lag
<1>. SUFFICES ASSUME FlowInit PROVE Lag
  OBVIOUS
<1>1. /\ DOMAIN fifos = Terminals /\ \A t \in Terminals : fifos[t] = <<>>
      /\ \A t \in Terminals : inside[t] = <<>> /\ ports[t] = Zero(t) /\ pkt_id[t] = 0
      /\ n_in = 0 /\ made = 0 /\ phase = "run" /\ scenario = 1
  BY DEF FlowInit, ScoreboardInit
<1>2. TotalLen(fifos) = 0
  BY <1>1, TotalOfEmpty
<1>3. ASSUME NEW t \in Terminals PROVE InTurn(t)
  <2>1. DOMAIN inside[t] = {} /\ DOMAIN fifos[t] = {}
    BY <1>1
  <2>2. ~ Before(LastMade(t), ports[t])
    <3>1. PICK l, p : l = LastMade(t) /\ p = ports[t]
      OBVIOUS
    <3>2. l.scn = 1 /\ p.scn = 0
      <4>1. l = Flit(t, 1, 0) /\ p = Flit(t, 0, 0)
        BY <1>1, <3>1 DEF LastMade, Zero
      <4>. QED
        BY ONLY <4>1 DEF Flit
    <3>3. ~ Before(l, p)
      BY <3>2 DEF Before
    <3>. QED
      BY <3>1, <3>3
  <2>. QED
    BY <2>1, <2>2 DEF InTurn, Sorted
<1>. QED
  BY <1>1, <1>2, <1>3 DEF Lag

\* The mesh does not disturb the order: what is in it was in it before.
LEMMA LagKeep ==
  ASSUME Lag, UNCHANGED <<fifos, ports, scenario, pkt_id, made, n_in>>,
         phase' = "done" => phase = "done" /\ drained' = drained,
         \A t \in Terminals : \A i \in DOMAIN inside'[t] :
           \E j \in DOMAIN inside[t] : inside'[t][i] = inside[t][j]
  PROVE  Lag'
<1>1. n_in' + TotalLen(fifos') = made'
  BY DEF Lag
<1>2. phase' = "done" /\ drained' => \A t \in Terminals : fifos'[t] = <<>>
  BY DEF Lag
<1>3. ASSUME NEW t \in Terminals PROVE InTurn(t)'
  BY DEF Lag, InTurn, LastMade
<1>. QED
  BY <1>1, <1>2, <1>3 DEF Lag

LEMMA LagNextScenario ==
  ASSUME FlowTypes, FlowTypes', Lag, NextScenario
  PROVE  Lag'
<1>1. /\ UNCHANGED <<fifos, ports, inside, made, n_in>> /\ scenario' = scenario + 1
      /\ phase' = "run"
  BY DEF NextScenario, mesh, scoreboard
<1>2. ASSUME NEW t \in Terminals PROVE InTurn(t)'
  <2>1. PICK l, m : l = LastMade(t) /\ m = LastMade(t)'
    OBVIOUS
  <2>2. scenario \in Nat /\ l.scn = scenario /\ m.scn = scenario + 1
    BY <1>1, <2>1, FlowAssumption DEF FlowTypes, LastMade, Flit
  <2>3. ASSUME NEW f, Natural(f), ~ Before(l, f) PROVE ~ Before(m, f)
    BY <2>2, <2>3 DEF Before, Natural
  <2>4. ~ Before(m, ports[t]) /\ \A i \in DOMAIN fifos[t] : ~ Before(m, fifos[t][i])
    BY <2>1, <2>3, FlowNumbers DEF Lag, InTurn
  <2>5. InTurn(t)
    BY DEF Lag
  <2>. QED
    BY <1>1, <2>1, <2>4, <2>5 DEF InTurn
<1>. QED
  BY <1>1, <1>2 DEF Lag

LEMMA LagFinish ==
  ASSUME Lag, Finish
  PROVE  Lag'
<1>1. /\ UNCHANGED <<fifos, ports, inside, made, n_in, scenario, pkt_id>>
      /\ drained' => \A t \in Terminals : fifos[t] = <<>>
  BY DEF Finish, PauseIsOver, mesh, scoreboard, counts
<1>2. ASSUME NEW t \in Terminals PROVE InTurn(t)'
  BY <1>1 DEF Lag, InTurn, LastMade
<1>. QED
  BY <1>1, <1>2 DEF Lag

\* A flit made comes after all that were.
LEMMA LagDeliver ==
  ASSUME FlowTypes, FlowTypes', Lag, NEW t \in Terminals, Deliver(t)
  PROVE  Lag'
<1>1. PICK f, s : f = Flit(t, scenario, pkt_id[t] + 1) /\ s = fifos[t]
  OBVIOUS
<1>2. /\ fifos' = [fifos EXCEPT ![t] = Append(s, f)] /\ f \in FlitsOf(t)
      /\ pkt_id' = [pkt_id EXCEPT ![t] = pkt_id[t] + 1] /\ pkt_id[t] \in Nat
  BY <1>1, DeliverFacts
<1>3. UNCHANGED <<scenario, ports, inside, n_in>> /\ made' = made + 1 /\ phase' = "run"
  BY DEF Deliver, mesh, scoreboard
<1>4. /\ fifos'[t] = Append(s, f) /\ \A u \in Terminals : u # t => fifos'[u] = fifos[u]
      /\ pkt_id'[t] = pkt_id[t] + 1 /\ \A u \in Terminals : u # t => pkt_id'[u] = pkt_id[u]
  BY <1>2 DEF FlowTypes
<1>5. s \in Seq(Flits) /\ f \in Flits
  BY <1>1, <1>2, FlitFacts DEF FlowTypes
<1>6. PICK n : n = Len(s)
  OBVIOUS
<1>7. /\ n \in Nat /\ Len(Append(s, f)) = n + 1 /\ Append(s, f)[n + 1] = f
      /\ DOMAIN Append(s, f) = 1 .. n + 1 /\ DOMAIN s = 1 .. n
      /\ \A i \in 1 .. n : Append(s, f)[i] = s[i]
  BY <1>5, <1>6, AppendProperties
<1>8. n_in' + TotalLen(fifos') = made'
  <2>1. PICK a, b : a = fifos /\ b = fifos'
    OBVIOUS
  <2>2. Longer(a, b, Terminals, t)
    BY <1>1, <1>4, <1>6, <1>7, <2>1, FifosLists, FifosListsPrimed DEF Longer
  <2>3. TotalLen(b) = TotalLen(a) + 1 /\ TotalLen(a) \in Nat
    BY <2>2, TotalGrows
  <2>4. n_in + TotalLen(a) = made /\ n_in \in Nat /\ made \in Nat
    BY <2>1 DEF Lag, FlowTypes
  <2>5. n_in + TotalLen(b) = made + 1
    BY <2>3, <2>4
  <2>. QED
    BY <1>3, <2>1, <2>5
<1>9. InTurn(t)'
  <2>1. f = LastMade(t)'
    BY <1>1, <1>3, <1>4 DEF LastMade
  <2>2. PICK l : l = LastMade(t)
    OBVIOUS
  <2>3. Natural(f) /\ Natural(l) /\ Before(l, f)
    <3>1. pkt_id[t] < pkt_id[t] + 1
      BY <1>2
    <3>2. Before(l, f)
      BY <1>1, <2>2, <3>1 DEF Before, LastMade, Flit
    <3>. QED
      BY <1>2, <2>2, <3>2, FlowNumbers, FlitFacts DEF Natural
  <2>4. ASSUME NEW g, Natural(g), ~ Before(l, g) PROVE Before(g, f) /\ ~ Before(f, g)
    BY <2>3, <2>4, BeforeFacts
  <2>5. /\ Natural(ports[t]) /\ ~ Before(l, ports[t])
        /\ \A i \in 1 .. n : /\ Natural(s[i]) /\ ~ Before(l, s[i])
                             /\ Before(ports[t], s[i])
        /\ \A i \in DOMAIN inside[t] : Before(inside[t][i], ports[t])
        /\ \A i, j \in 1 .. n : i < j => Before(s[i], s[j])
    BY <1>1, <1>7, <2>2, FlowNumbers DEF Lag, InTurn, Sorted
  <2>6. Before(ports[t], f) /\ ~ Before(f, ports[t]) /\ ~ Before(f, f)
    BY <2>3, <2>4, <2>5, BeforeFacts
  <2>7. ASSUME NEW i \in 1 .. n + 1
        PROVE  /\ Before(ports[t], Append(s, f)[i]) /\ ~ Before(f, Append(s, f)[i])
               /\ i <= n => Before(Append(s, f)[i], f)
    <3>1. CASE i \in 1 .. n
      BY <1>7, <2>4, <2>5, <3>1
    <3>2. CASE i = n + 1
      BY <1>7, <2>6, <3>2
    <3>. QED
      BY <1>7, <3>1, <3>2
  <2>8. ASSUME NEW i \in 1 .. n + 1, NEW j \in 1 .. n + 1, i < j
        PROVE  Before(Append(s, f)[i], Append(s, f)[j])
    <3>1. CASE j = n + 1
      BY <1>7, <2>7, <2>8, <3>1
    <3>2. CASE j # n + 1
      <4>1. i \in 1 .. n /\ j \in 1 .. n
        BY <1>7, <2>8, <3>2
      <4>. QED
        BY <1>7, <2>5, <2>8, <4>1
    <3>. QED
      BY <3>1, <3>2
  <2>9. Sorted(Append(s, f))
    BY <1>7, <2>8 DEF Sorted
  <2>10. ports'[t] = ports[t] /\ inside'[t] = inside[t]
    BY <1>3
  <2>. QED
    BY <1>4, <1>7, <2>1, <2>5, <2>6, <2>7, <2>9, <2>10 DEF InTurn
<1>10. ASSUME NEW u \in Terminals, u # t PROVE InTurn(u)'
  <2>1. InTurn(u)
    BY DEF Lag
  <2>2. LastMade(u)' = LastMade(u)
    BY <1>3, <1>4, <1>10 DEF LastMade
  <2>. QED
    BY <1>3, <1>4, <1>10, <2>1, <2>2 DEF InTurn
<1>. QED
  BY <1>3, <1>8, <1>9, <1>10 DEF Lag

LEMMA LagTake ==
  ASSUME FlowTypes, FlowTypes', Lag, NEW t \in Terminals, Take(t)
  PROVE  Lag'
<1>1. PICK f, s, r, h : f = ports[t] /\ s = fifos[t] /\ r = inside[t] /\ h = Head(s)
  OBVIOUS
<1>2. /\ s # <<>> /\ phase # "done" /\ h \in FlitsOf(t) /\ f \in FlitsOf(t) /\ StoreIn(f)
      /\ ports' = [ports EXCEPT ![t] = h]
      /\ fifos' = [fifos EXCEPT ![t] = Tail(s)]
      /\ inside' = [inside EXCEPT ![t] = Append(r, f)]
      /\ UNCHANGED <<phase, scenario, pkt_id, made>>
  BY <1>1, TakeFacts DEF test, counts
<1>3. /\ ports'[t] = h /\ fifos'[t] = Tail(s) /\ inside'[t] = Append(r, f)
      /\ \A u \in Terminals : u # t =>
           ports'[u] = ports[u] /\ fifos'[u] = fifos[u] /\ inside'[u] = inside[u]
  BY <1>2 DEF FlowTypes
<1>4. PICK n, m : n = Len(s) /\ m = Len(r)
  OBVIOUS
<1>5. /\ n \in Nat \ {0} /\ Len(Tail(s)) = n - 1 /\ DOMAIN s = 1 .. n /\ s[1] = h
      /\ DOMAIN Tail(s) = 1 .. n - 1 /\ \A i \in 1 .. n - 1 : Tail(s)[i] = s[i + 1]
  <2>1. s \in Seq(Flits)
    BY <1>1 DEF FlowTypes
  <2>2. Tail(s) \in Seq(Flits) /\ Len(Tail(s)) = n - 1
        /\ \A i \in 1 .. n - 1 : Tail(s)[i] = s[i + 1]
    BY <1>2, <1>4, <2>1, HeadTailProperties
  <2>3. n \in Nat \ {0} /\ DOMAIN s = 1 .. n /\ s[1] = h
    BY <1>1, <1>2, <1>4, <2>1
  <2>. QED
    BY <2>2, <2>3
<1>6. /\ m \in Nat /\ DOMAIN r = 1 .. m /\ DOMAIN Append(r, f) = 1 .. m + 1
      /\ Append(r, f)[m + 1] = f /\ \A i \in 1 .. m : Append(r, f)[i] = r[i]
  <2>1. r \in Seq(Flits) /\ f \in Flits
    BY <1>1, <1>2, FlitFacts DEF FlowTypes
  <2>. QED
    BY <1>4, <2>1, AppendProperties
<1>7. n_in' + TotalLen(fifos') = made'
  <2>1. PICK a, b : a = fifos' /\ b = fifos
    OBVIOUS
  <2>2. Longer(a, b, Terminals, t)
    <3>1. Len(b[t]) = n /\ Len(a[t]) = n - 1 /\ n = n - 1 + 1
      <4>1. n \in Nat
        BY <1>5
      <4>2. n = n - 1 + 1
        BY ONLY <4>1
      <4>. QED
        BY <1>1, <1>3, <1>4, <1>5, <2>1, <4>2
    <3>2. \A u \in Terminals : u # t => Len(b[u]) = Len(a[u])
      BY <1>3, <2>1
    <3>. QED
      BY <2>1, <3>1, <3>2, FifosLists, FifosListsPrimed DEF Longer
  <2>3. TotalLen(b) = TotalLen(a) + 1 /\ TotalLen(a) \in Nat
    BY <2>2, TotalGrows
  <2>4. n_in + TotalLen(b) = made /\ n_in \in Nat /\ made \in Nat
    BY <2>1 DEF Lag, FlowTypes
  <2>5. (n_in + 1) + TotalLen(a) = made
    BY <2>3, <2>4
  <2>6. n_in' = n_in + 1
    BY <1>2, FlowStore
  <2>. QED
    BY <1>2, <2>1, <2>5, <2>6
<1>8. InTurn(t)'
  <2>1. LastMade(t)' = LastMade(t)
    BY <1>2 DEF LastMade
  <2>2. PICK l : l = LastMade(t)
    OBVIOUS
  <2>3. /\ Natural(f) /\ Natural(h) /\ Before(f, h) /\ ~ Before(l, h)
        /\ \A i \in 1 .. m : Natural(r[i]) /\ Before(r[i], f)
        /\ \A i \in 1 .. n : ~ Before(l, s[i])
        /\ \A i, j \in 1 .. n : i < j => Before(s[i], s[j])
    BY <1>1, <1>5, <1>6, <2>2, FlowNumbers DEF Lag, InTurn, Sorted
  <2>4. ASSUME NEW i \in 1 .. m + 1 PROVE Before(Append(r, f)[i], h)
    <3>1. CASE i \in 1 .. m
      BY <1>6, <2>3, <3>1, BeforeFacts
    <3>2. CASE i = m + 1
      BY <1>6, <2>3, <3>2
    <3>. QED
      BY <1>6, <3>1, <3>2
  <2>5. ASSUME NEW i \in 1 .. n - 1
        PROVE  Before(h, Tail(s)[i]) /\ ~ Before(l, Tail(s)[i])
    <3>1. i + 1 \in 1 .. n /\ 1 \in 1 .. n /\ 1 < i + 1
      BY <1>5
    <3>. QED
      BY <1>5, <2>3, <3>1
  <2>6. ASSUME NEW i \in 1 .. n - 1, NEW j \in 1 .. n - 1, i < j
        PROVE  Before(Tail(s)[i], Tail(s)[j])
    <3>1. i + 1 \in 1 .. n /\ j + 1 \in 1 .. n /\ i + 1 < j + 1
      BY <1>5, <2>6
    <3>. QED
      BY <1>5, <2>3, <3>1
  <2>. QED
    BY <1>3, <1>5, <1>6, <2>1, <2>2, <2>3, <2>4, <2>5, <2>6 DEF InTurn, Sorted
<1>9. ASSUME NEW u \in Terminals, u # t PROVE InTurn(u)'
  <2>1. InTurn(u) /\ LastMade(u)' = LastMade(u)
    BY <1>2 DEF Lag, LastMade
  <2>. QED
    BY <1>3, <1>9, <2>1 DEF InTurn
<1>. QED
  BY <1>2, <1>7, <1>8, <1>9 DEF Lag

\* What a sequence has without one of its elements it has in the same order.
LEMMA WithoutElements ==
  ASSUME NEW S, NEW r \in Seq(S), NEW s \in Seq(S), NEW i, Without(r, s, i)
  PROVE  /\ i \in DOMAIN s
         /\ \A j \in DOMAIN r : \E l \in DOMAIN s : l # i /\ r[j] = s[l]
         /\ \A l \in DOMAIN s : l # i => \E j \in DOMAIN r : r[j] = s[l]
         /\ Sorted(s) => Sorted(r)
<1>1. PICK m : m = Len(r)
  OBVIOUS
<1>2. /\ m \in Nat /\ Len(s) = m + 1 /\ i \in 1 .. m + 1
      /\ DOMAIN r = 1 .. m /\ DOMAIN s = 1 .. m + 1
      /\ \A j \in 1 .. m : r[j] = s[IF j < i THEN j ELSE j + 1]
  BY <1>1 DEF Without
<1>3. ASSUME NEW j \in 1 .. m PROVE \E l \in 1 .. m + 1 : l # i /\ r[j] = s[l]
  <2>1. PICK l : l = IF j < i THEN j ELSE j + 1
    OBVIOUS
  <2>2. l \in 1 .. m + 1 /\ l # i
    BY <1>2, <2>1
  <2>. QED
    BY <1>2, <2>1, <2>2
<1>4. ASSUME NEW l \in 1 .. m + 1, l # i PROVE \E j \in 1 .. m : r[j] = s[l]
  <2>1. CASE l < i
    <3>1. l \in 1 .. m
      BY <1>2, <2>1
    <3>. QED
      BY <1>2, <2>1, <3>1
  <2>2. CASE ~ (l < i)
    <3>1. l - 1 \in 1 .. m /\ ~ (l - 1 < i) /\ l - 1 + 1 = l
      BY <1>2, <1>4, <2>2
    <3>2. r[l - 1] = s[l - 1 + 1]
      BY <1>2, <3>1
    <3>. QED
      BY <3>1, <3>2
  <2>. QED
    BY <2>1, <2>2
<1>5. ASSUME Sorted(s), NEW j \in 1 .. m, NEW l \in 1 .. m, j < l
      PROVE  Before(r[j], r[l])
  <2>1. PICK v, w : v = (IF j < i THEN j ELSE j + 1) /\ w = (IF l < i THEN l ELSE l + 1)
    OBVIOUS
  <2>2. v \in 1 .. m + 1 /\ w \in 1 .. m + 1 /\ v < w
    BY <1>2, <1>5, <2>1
  <2>3. r[j] = s[v] /\ r[l] = s[w]
    BY <1>2, <2>1
  <2>. QED
    BY <1>2, <1>5, <2>2, <2>3 DEF Sorted
<1>. QED
  BY <1>2, <1>3, <1>4, <1>5 DEF Sorted

LEMMA LagMesh ==
  ASSUME FlowTypes, FlowTypes', Lag, NEW t \in Terminals, NEW i \in DOMAIN inside[t],
         Leave(t, i) \/ Lose(t, i) \/ Double(t, i)
  PROVE  Lag'
<1>1. PICK f, r, s : f = inside[t][i] /\ r = inside'[t] /\ s = inside[t]
  OBVIOUS
<1>2. /\ UNCHANGED <<phase, scenario, pkt_id, made, drained, fifos, ports>>
      /\ f \in FlitsOf(t) /\ i \in 1 .. Len(s)
      /\ inside' = [inside EXCEPT ![t] = r] /\ r \in Seq(FlitsOf(t))
      /\ Leave(t, i) => Without(r, s, i) /\ MatchOut(f)
      /\ Lose(t, i) => Without(r, s, i) /\ UNCHANGED scoreboard
      /\ Double(t, i) => Without(s, r, i) /\ r[i] = s[i] /\ UNCHANGED scoreboard
  BY <1>1, MeshFacts DEF test, counts
<1>3. s \in Seq(FlitsOf(t))
  BY <1>1 DEF FlowTypes
<1>4. n_in' = n_in
  <2>1. Leave(t, i) => n_in' = n_in
    BY <1>2, FlowMatch
  <2>. QED
    BY <1>2, <2>1 DEF scoreboard
<1>5. ASSUME NEW j \in DOMAIN r PROVE \E l \in DOMAIN s : r[j] = s[l]
  <2>1. CASE Without(r, s, i)
    BY <1>2, <1>3, <2>1, WithoutElements
  <2>2. CASE Double(t, i)
    <3>1. i \in DOMAIN s
      BY <1>1
    <3>2. j # i => \E l \in DOMAIN s : s[l] = r[j]
      BY <1>2, <1>3, <2>2, WithoutElements
    <3>. QED
      BY <1>2, <2>2, <3>1, <3>2
  <2>. QED
    BY <1>2, <2>1, <2>2
<1>6. \A u \in Terminals : \A j \in DOMAIN inside'[u] :
        \E l \in DOMAIN inside[u] : inside'[u][j] = inside[u][l]
  <2>1. inside'[t] = r /\ \A u \in Terminals : u # t => inside'[u] = inside[u]
    BY <1>2 DEF FlowTypes
  <2>. QED
    BY <1>1, <1>5, <2>1
<1>. QED
  BY <1>2, <1>4, <1>6, LagKeep

LEMMA LagStep ==
  ASSUME FlowTypes, FlowTypes', Lag, [FlowNext]_flow_vars
  PROVE  Lag'
<1>1. UNCHANGED flow_vars => Lag'
  BY LagKeep DEF flow_vars, test, counts, mesh, scoreboard
<1>2. WaitFork => Lag'
  BY LagKeep DEF WaitFork, counts, mesh, scoreboard
<1>3. NextScenario => Lag'
  BY LagNextScenario
<1>4. Finish => Lag'
  BY LagFinish
<1>5. \A t \in Terminals : Deliver(t) => Lag'
  BY LagDeliver
<1>6. \A t \in Terminals : Take(t) => Lag'
  BY LagTake
<1>7. \A t \in Terminals : \A i \in DOMAIN inside[t] :
        Leave(t, i) \/ Lose(t, i) \/ Double(t, i) => Lag'
  BY LagMesh
<1>. QED
  BY <1>1, <1>2, <1>3, <1>4, <1>5, <1>6, <1>7 DEF FlowNext, Mesh

LEMMA LagHides ==
  ASSUME FlowTypes, Lag
  PROVE  CountHidesLag
<1>1. ASSUME phase = "done", drained PROVE n_in = made
  <2>1. \A t \in Terminals : fifos[t] = <<>>
    BY <1>1 DEF Lag
  <2>2. TotalLen(fifos) = 0
    BY <2>1, TotalOfEmpty DEF FlowTypes
  <2>3. n_in + 0 = made /\ n_in \in Nat
    BY <2>2 DEF Lag, FlowTypes
  <2>. QED
    BY <2>3
<1>2. ASSUME NEW t \in Terminals
      PROVE  Flit(t, scenario, num_items[t]) \notin ToSet(inside[t])
  <2>1. PICK g, l, p : g = Flit(t, scenario, num_items[t]) /\ l = LastMade(t) /\ p = ports[t]
    OBVIOUS
  <2>2. pkt_id[t] \in Nat /\ num_items[t] \in Nat /\ pkt_id[t] <= num_items[t]
        /\ scenario \in Nat
    <3>1. scenario \in Nat
      BY FlowAssumption DEF FlowTypes
    <3>2. num_items[t] \in NumItems /\ pkt_id[t] \in Nat /\ pkt_id[t] <= num_items[t]
      BY DEF FlowTypes
    <3>3. num_items[t] \in Nat
      BY <3>2, FlowAssumption
    <3>. QED
      BY <3>1, <3>2, <3>3
  <2>3. Natural(g) /\ Natural(l) /\ Natural(p) /\ ~ Before(g, l) /\ ~ Before(l, p)
    <3>1. Natural(g) /\ ~ Before(g, l)
      BY <2>1, <2>2 DEF Natural, Before, LastMade, Flit
    <3>. QED
      BY <2>1, <3>1, FlowNumbers DEF Lag, InTurn
  <2>4. ~ Before(g, p)
    BY <2>3, BeforeFacts
  <2>5. ASSUME NEW i \in DOMAIN inside[t] PROVE inside[t][i] # g
    BY <2>1, <2>4 DEF Lag, InTurn
  <2>. QED
    BY <2>1, <2>5 DEF ToSet
<1>. QED
  BY <1>1, <1>2 DEF CountHidesLag

\* n_in is the number of items made once queues and mesh are empty, although the last
\* item of every terminal is still on its port: nothing is taken before the flits that
\* were made before it.
THEOREM CountHidesLagCorrect == FlowSpec => []CountHidesLag
<1>1. FlowInit => FlowTypes /\ Lag
  BY FlowInitTypes, FlowInitLag
<1>2. FlowTypes /\ FlowTypes' /\ Lag /\ [FlowNext]_flow_vars => Lag'
  BY LagStep
<1>3. FlowTypes /\ Lag => CountHidesLag
  BY LagHides
<1>4. FlowSpec => []FlowTypes
  BY FlowTypesCorrect
<1>. QED
  BY <1>1, <1>2, <1>3, <1>4, PTL DEF FlowSpec

-----------------------------------------------------------------------------
(***************************************************************************)
(* The rows of a test without faults.                                      *)
(***************************************************************************)
\* Every entry waits under its own key.
Keyed == \A k \in Keys : \A i \in DOMAIN exp_q[k] : KeyOf[exp_q[k][i]] = k

Faultless == lost = <<>> /\ doubled = 0

Noted(q, f) == \E j \in DOMAIN q[KeyOf[f]] : q[KeyOf[f]][j] = f
UnderWay(a, f) == \E t \in Terminals : \E j \in DOMAIN a[t] : a[t][j] = f

\* What is in the mesh is what is expected, in the same order, but for the initial words.
InLine ==
  /\ \A t \in Terminals : Sorted(inside[t])
  /\ \A t \in Terminals : \A i \in DOMAIN inside[t] :
       inside[t][i].num # 0 => Noted(exp_q, inside[t][i])
  /\ \A k \in Keys : \A i \in DOMAIN exp_q[k] :
       exp_q[k][i].num # 0 =>
         /\ UnderWay(inside, exp_q[k][i])
         /\ \A j \in DOMAIN exp_q[k] : i < j => Before(exp_q[k][i], exp_q[k][j])
  /\ RowsAreRight

Rows == Keyed /\ (Faultless => InLine)

LEMMA QueueFacts ==
  ASSUME FlowTypes, NEW k \in Keys
  PROVE  /\ exp_q[k] \in Seq(AllMade)
         /\ \A i \in DOMAIN exp_q[k] :
              exp_q[k][i] \in AllMade /\ exp_q[k][i] \in Flits /\ Natural(exp_q[k][i])
<1>1. exp_q[k] \in Seq(AllMade)
  BY DEF FlowTypes
<1>2. \A f \in AllMade : f \in Flits /\ Natural(f)
  BY MadeFacts, FlitFacts DEF Natural
<1>. QED
  BY <1>1, <1>2

LEMMA KeyFacts ==
  ASSUME NEW f \in Flits, NEW g \in Flits, KeyOf[f] = KeyOf[g]
  PROVE  f.num = g.num /\ (f.num # 0 => f.term = g.term)
BY PayloadAssumption

LEMMA FlowInitRows == FlowInit => Rows
<1>. SUFFICES ASSUME FlowInit PROVE Rows
  OBVIOUS
<1>1. /\ \A k \in Keys : exp_q[k] = <<>>
      /\ \A t \in Terminals : inside[t] = <<>>
      /\ row = <<>>
  BY DEF FlowInit, ScoreboardInit
<1>2. /\ \A k \in Keys : DOMAIN exp_q[k] = {}
      /\ \A t \in Terminals : DOMAIN inside[t] = {}
      /\ Len(row) = 0
  BY <1>1
<1>. QED
  BY <1>2 DEF Rows, Keyed, InLine, Sorted, RowsAreRight

\* A flit that enters is the youngest of its terminal, in the mesh and in its queue.
LEMMA RowsTake ==
  ASSUME FlowTypes, Lag, Rows, NEW t \in Terminals, Take(t)
  PROVE  Rows'
<1>1. PICK f, r, k : f = ports[t] /\ r = inside[t] /\ k = KeyOf[f]
  OBVIOUS
<1>2. /\ f \in FlitsOf(t) /\ StoreIn(f)
      /\ inside' = [inside EXCEPT ![t] = Append(r, f)] /\ UNCHANGED <<lost, doubled>>
  BY <1>1, TakeFacts
<1>3. inside'[t] = Append(r, f) /\ \A u \in Terminals : u # t => inside'[u] = inside[u]
  BY <1>2 DEF FlowTypes
<1>4. /\ k \in Keys /\ exp_q'[k] = Append(exp_q[k], f)
      /\ \A j \in Keys : j # k => exp_q'[j] = exp_q[j]
      /\ row' = row
  BY <1>1, <1>2, FlowStore
<1>5. PICK q : q = exp_q[k]
  OBVIOUS
<1>6. PICK n, m : n = Len(q) /\ m = Len(r)
  OBVIOUS
<1>7. f \in Flits /\ f \in AllMade /\ f.term = t
  BY <1>2, FlitFacts
<1>8. /\ m \in Nat /\ DOMAIN r = 1 .. m /\ DOMAIN inside'[t] = 1 .. m + 1
      /\ inside'[t][m + 1] = f /\ \A i \in 1 .. m : inside'[t][i] = r[i]
  <2>1. r \in Seq(Flits)
    BY <1>1 DEF FlowTypes
  <2>2. /\ m \in Nat /\ DOMAIN r = 1 .. m /\ DOMAIN Append(r, f) = 1 .. m + 1
        /\ Append(r, f)[m + 1] = f /\ \A i \in 1 .. m : Append(r, f)[i] = r[i]
    BY <1>6, <1>7, <2>1, AppendProperties
  <2>. QED
    BY <1>3, <2>2
<1>9. /\ n \in Nat /\ DOMAIN q = 1 .. n /\ DOMAIN exp_q'[k] = 1 .. n + 1
      /\ exp_q'[k][n + 1] = f /\ \A i \in 1 .. n : exp_q'[k][i] = q[i]
  <2>1. q \in Seq(AllMade)
    BY <1>4, <1>5, QueueFacts
  <2>2. /\ n \in Nat /\ DOMAIN q = 1 .. n /\ DOMAIN Append(q, f) = 1 .. n + 1
        /\ Append(q, f)[n + 1] = f /\ \A i \in 1 .. n : Append(q, f)[i] = q[i]
    BY <1>6, <1>7, <2>1, AppendProperties
  <2>. QED
    BY <1>4, <1>5, <2>2
<1>10. Keyed'
  <2>1. ASSUME NEW i \in 1 .. n + 1 PROVE KeyOf[exp_q'[k][i]] = k
    <3>1. CASE i \in 1 .. n
      BY <1>4, <1>5, <1>9, <3>1 DEF Rows, Keyed
    <3>2. CASE i = n + 1
      BY <1>1, <1>9, <3>2
    <3>. QED
      BY <1>9, <3>1, <3>2
  <2>2. ASSUME NEW j \in Keys PROVE \A i \in DOMAIN exp_q'[j] : KeyOf[exp_q'[j][i]] = j
    BY <1>4, <1>9, <2>1 DEF Rows, Keyed
  <2>. QED
    BY <2>2 DEF Keyed
<1>11. ASSUME Faultless' PROVE InLine'
  <2>1. InLine
    BY <1>2, <1>11 DEF Rows, Faultless
  <2>2. \A i \in 1 .. m : Before(r[i], f)
    BY <1>1, <1>8 DEF Lag, InTurn
  <2>3. Sorted(inside'[t])
    <3>1. ASSUME NEW i \in 1 .. m + 1, NEW j \in 1 .. m + 1, i < j
          PROVE  Before(inside'[t][i], inside'[t][j])
      <4>1. i \in 1 .. m
        BY <1>8, <3>1
      <4>2. CASE j = m + 1
        BY <1>8, <2>2, <4>1, <4>2
      <4>3. CASE j # m + 1
        <5>1. j \in 1 .. m
          BY <1>8, <4>3
        <5>2. Before(r[i], r[j])
          BY <1>1, <1>8, <2>1, <3>1, <4>1, <5>1 DEF InLine, Sorted
        <5>. QED
          BY <1>8, <4>1, <5>1, <5>2
      <4>. QED
        BY <4>2, <4>3
    <3>. QED
      BY <1>8, <3>1 DEF Sorted
  <2>4. \A u \in Terminals : Sorted(inside'[u])
    BY <1>3, <2>1, <2>3 DEF InLine
  <2>5. ASSUME NEW g, KeyOf[g] \in Keys, Noted(exp_q, g) PROVE Noted(exp_q', g)
    <3>1. PICK j \in DOMAIN exp_q[KeyOf[g]] : exp_q[KeyOf[g]][j] = g
      BY <2>5 DEF Noted
    <3>2. CASE KeyOf[g] = k
      <4>1. j \in 1 .. n /\ q[j] = g
        BY <1>5, <1>9, <3>1, <3>2
      <4>2. j \in 1 .. n + 1 /\ exp_q'[k][j] = g
        BY <1>9, <4>1
      <4>. QED
        BY <1>9, <3>2, <4>2 DEF Noted
    <3>3. CASE KeyOf[g] # k
      BY <1>4, <2>5, <3>1, <3>3 DEF Noted
    <3>. QED
      BY <3>2, <3>3
  <2>6. Noted(exp_q', f)
    <3>1. n + 1 \in DOMAIN exp_q'[k] /\ exp_q'[k][n + 1] = f
      BY <1>9
    <3>. QED
      BY <1>1, <3>1 DEF Noted
  <2>7. ASSUME NEW u \in Terminals, NEW i \in DOMAIN inside'[u], inside'[u][i].num # 0
        PROVE  Noted(exp_q', inside'[u][i])
    <3>1. CASE inside'[u][i] = f
      BY <2>6, <3>1
    <3>2. CASE inside'[u][i] # f
      <4>1. i \in DOMAIN inside[u] /\ inside'[u][i] = inside[u][i]
        <5>1. CASE u = t
          <6>1. i \in 1 .. m + 1 /\ i # m + 1
            BY <1>8, <2>7, <3>2, <5>1
          <6>2. i \in 1 .. m
            BY <1>8, <6>1
          <6>. QED
            BY <1>1, <1>8, <5>1, <6>2
        <5>2. CASE u # t
          BY <1>3, <2>7, <5>2
        <5>. QED
          BY <5>1, <5>2
      <4>2. PICK g : g = inside[u][i]
        OBVIOUS
      <4>3. Noted(exp_q, g) /\ g.num # 0
        BY <2>1, <2>7, <4>1, <4>2 DEF InLine
      <4>4. KeyOf[g] \in Keys
        BY <4>1, <4>2, FlowNumbers, FlitFacts, KeysAssumption
      <4>. QED
        BY <2>5, <4>1, <4>2, <4>3, <4>4
    <3>. QED
      BY <3>1, <3>2
  <2>8. ASSUME NEW g, UnderWay(inside, g) PROVE UnderWay(inside', g)
    <3>1. PICK u \in Terminals : \E j \in DOMAIN inside[u] : inside[u][j] = g
      BY <2>8 DEF UnderWay
    <3>2. PICK j \in DOMAIN inside[u] : inside[u][j] = g
      BY <3>1
    <3>3. j \in DOMAIN inside'[u] /\ inside'[u][j] = g
      <4>1. CASE u = t
        <5>1. j \in 1 .. m /\ r[j] = g
          BY <1>1, <1>8, <3>2, <4>1
        <5>. QED
          BY <1>8, <4>1, <5>1
      <4>2. CASE u # t
        BY <1>3, <3>2, <4>2
      <4>. QED
        BY <4>1, <4>2
    <3>. QED
      BY <3>3 DEF UnderWay
  <2>9. UnderWay(inside', f)
    <3>1. m + 1 \in DOMAIN inside'[t] /\ inside'[t][m + 1] = f
      BY <1>8
    <3>. QED
      BY <3>1 DEF UnderWay
  <2>10. ASSUME NEW i \in 1 .. n, q[i].num # 0
         PROVE  /\ UnderWay(inside', q[i]) /\ Before(q[i], f)
                /\ \A j \in 1 .. n : i < j => Before(q[i], q[j])
    <3>1. PICK g : g = q[i]
      OBVIOUS
    <3>2. g \in Flits /\ KeyOf[g] = k /\ g.num # 0
      BY <1>4, <1>5, <1>9, <2>10, <3>1, QueueFacts DEF Rows, Keyed
    <3>3. UnderWay(inside, g) /\ \A j \in 1 .. n : i < j => Before(q[i], q[j])
      BY <1>4, <1>5, <1>9, <2>1, <2>10, <3>1 DEF InLine
    <3>4. PICK u \in Terminals : \E j \in DOMAIN inside[u] : inside[u][j] = g
      BY <3>3 DEF UnderWay
    <3>5. PICK j \in DOMAIN inside[u] : inside[u][j] = g
      BY <3>4
    <3>6. u = t
      <4>1. g.term = u
        BY <3>5, FlowNumbers, FlitFacts
      <4>2. g.term = f.term
        BY <1>1, <1>7, <3>2, KeyFacts
      <4>. QED
        BY <1>7, <4>1, <4>2
    <3>7. Before(g, f)
      BY <1>1, <1>8, <2>2, <3>5, <3>6
    <3>. QED
      BY <2>8, <3>1, <3>3, <3>7
  <2>11. ASSUME NEW i \in 1 .. n + 1, exp_q'[k][i].num # 0
         PROVE  /\ UnderWay(inside', exp_q'[k][i])
                /\ \A j \in 1 .. n + 1 : i < j => Before(exp_q'[k][i], exp_q'[k][j])
    <3>1. CASE i = n + 1
      <4>1. \A j \in 1 .. n + 1 : ~ (i < j)
        BY <1>9, <3>1
      <4>. QED
        BY <1>9, <2>9, <3>1, <4>1
    <3>2. CASE i # n + 1
      <4>1. i \in 1 .. n
        BY <1>9, <3>2
      <4>2. exp_q'[k][i] = q[i] /\ q[i].num # 0
        BY <1>9, <2>11, <4>1
      <4>3. ASSUME NEW j \in 1 .. n + 1, i < j PROVE Before(q[i], exp_q'[k][j])
        <5>1. CASE j = n + 1
          BY <1>9, <2>10, <4>1, <4>2, <5>1
        <5>2. CASE j # n + 1
          <6>1. j \in 1 .. n
            BY <1>9, <5>2
          <6>. QED
            BY <1>9, <2>10, <4>1, <4>2, <4>3, <6>1
        <5>. QED
          BY <5>1, <5>2
      <4>. QED
        BY <2>10, <4>1, <4>2, <4>3
    <3>. QED
      BY <3>1, <3>2
  <2>12. ASSUME NEW j \in Keys, NEW i \in DOMAIN exp_q'[j], exp_q'[j][i].num # 0
         PROVE  /\ UnderWay(inside', exp_q'[j][i])
                /\ \A l \in DOMAIN exp_q'[j] : i < l => Before(exp_q'[j][i], exp_q'[j][l])
    <3>1. CASE j = k
      BY <1>9, <2>11, <2>12, <3>1
    <3>2. CASE j # k
      <4>1. exp_q'[j] = exp_q[j]
        BY <1>4, <3>2
      <4>2. /\ UnderWay(inside, exp_q[j][i])
            /\ \A l \in DOMAIN exp_q[j] : i < l => Before(exp_q[j][i], exp_q[j][l])
        BY <2>1, <2>12, <4>1 DEF InLine
      <4>. QED
        BY <2>8, <4>1, <4>2
    <3>. QED
      BY <3>1, <3>2
  <2>13. RowsAreRight'
    BY <1>2, <1>4, <2>1 DEF InLine, RowsAreRight
  <2>. QED
    BY <2>4, <2>7, <2>12, <2>13 DEF InLine
<1>. QED
  BY <1>10, <1>11 DEF Rows

\* A flit that leaves is the oldest entry of its key, unless it is an initial word.
LEMMA RowsLeave ==
  ASSUME FlowTypes, Rows, NEW t \in Terminals, NEW i \in DOMAIN inside[t], Leave(t, i)
  PROVE  Rows'
<1>1. PICK f, r, s, k : f = inside[t][i] /\ r = inside'[t] /\ s = inside[t] /\ k = KeyOf[f]
  OBVIOUS
<1>2. /\ f \in FlitsOf(t) /\ MatchOut(f) /\ MayLeave(t, i) /\ Without(r, s, i)
      /\ inside' = [inside EXCEPT ![t] = r] /\ r \in Seq(FlitsOf(t))
      /\ UNCHANGED <<lost, doubled>>
  BY <1>1, MeshFacts
<1>3. s \in Seq(FlitsOf(t)) /\ \A u \in Terminals : u # t => inside'[u] = inside[u]
  BY <1>1, <1>2 DEF FlowTypes
<1>4. /\ k \in Keys /\ \A j \in Keys : j # k => exp_q'[j] = exp_q[j]
      /\ exp_q[k] # <<>> => exp_q'[k] = Tail(exp_q[k]) /\ row' = <<Head(exp_q[k]), f>>
      /\ exp_q[k] = <<>> => exp_q' = exp_q /\ row' = <<f>>
  BY <1>1, <1>2, FlowMatch
<1>5. f \in Flits /\ f.term = t /\ (f.num = 0 => f.scn = 0)
  BY <1>2, FlitFacts
<1>6. PICK q, n : q = exp_q[k] /\ n = Len(q)
  OBVIOUS
<1>7. /\ q \in Seq(AllMade) /\ n \in Nat /\ DOMAIN q = 1 .. n
      /\ \A j \in 1 .. n : /\ q[j] \in AllMade /\ q[j] \in Flits /\ Natural(q[j])
                           /\ KeyOf[q[j]] = k
                           /\ q[j].num = f.num /\ (f.num # 0 => q[j].term = t)
  <2>1. q \in Seq(AllMade) /\ n \in Nat /\ DOMAIN q = 1 .. n
    BY <1>4, <1>6, QueueFacts
  <2>2. \A j \in 1 .. n : /\ q[j] \in AllMade /\ q[j] \in Flits /\ Natural(q[j])
                          /\ KeyOf[q[j]] = k
    BY <1>4, <1>6, <2>1, QueueFacts DEF Rows, Keyed
  <2>3. \A j \in 1 .. n : q[j].num = f.num /\ (f.num # 0 => q[j].term = t)
    BY <1>1, <1>5, <2>2, KeyFacts
  <2>. QED
    BY <2>1, <2>2, <2>3
<1>8. q # <<>> =>
        /\ n > 0 /\ Head(q) = q[1] /\ DOMAIN exp_q'[k] = 1 .. n - 1
        /\ \A j \in 1 .. n - 1 : exp_q'[k][j] = q[j + 1]
  <2>. SUFFICES ASSUME q # <<>>
                PROVE  /\ n > 0 /\ Head(q) = q[1] /\ DOMAIN exp_q'[k] = 1 .. n - 1
                       /\ \A j \in 1 .. n - 1 : exp_q'[k][j] = q[j + 1]
    OBVIOUS
  <2>1. /\ Tail(q) \in Seq(AllMade) /\ Len(Tail(q)) = n - 1
        /\ \A j \in 1 .. n - 1 : Tail(q)[j] = q[j + 1]
    BY <1>6, <1>7, HeadTailProperties
  <2>2. n > 0 /\ Head(q) = q[1]
    BY <1>6, <1>7
  <2>3. DOMAIN Tail(q) = 1 .. n - 1
    BY <2>1
  <2>. QED
    BY <1>4, <1>6, <2>1, <2>2, <2>3
<1>9. q = <<>> => exp_q' = exp_q /\ n = 0
  BY <1>4, <1>6
<1>10. Keyed'
  <2>1. \A j \in DOMAIN exp_q'[k] : KeyOf[exp_q'[k][j]] = k
    <3>1. CASE q = <<>>
      BY <1>4, <1>9, <3>1 DEF Rows, Keyed
    <3>2. CASE q # <<>>
      <4>1. ASSUME NEW j \in 1 .. n - 1 PROVE KeyOf[exp_q'[k][j]] = k
        <5>1. j + 1 \in 1 .. n
          BY <1>7
        <5>. QED
          BY <1>7, <1>8, <3>2, <5>1
      <4>. QED
        BY <1>8, <3>2, <4>1
    <3>. QED
      BY <3>1, <3>2
  <2>2. ASSUME NEW j \in Keys PROVE \A l \in DOMAIN exp_q'[j] : KeyOf[exp_q'[j][l]] = j
    BY <1>4, <2>1 DEF Rows, Keyed
  <2>. QED
    BY <2>2 DEF Keyed
<1>11. ASSUME Faultless' PROVE InLine'
  <2>1. InLine
    BY <1>2, <1>11 DEF Rows, Faultless
  <2>2. /\ i \in DOMAIN s /\ s[i] = f /\ Sorted(s) /\ Sorted(r)
        /\ \A j \in DOMAIN r : \E l \in DOMAIN s : l # i /\ r[j] = s[l]
        /\ \A l \in DOMAIN s : l # i => \E j \in DOMAIN r : r[j] = s[l]
    <3>1. Sorted(s)
      BY <1>1, <2>1 DEF InLine
    <3>. QED
      BY <1>1, <1>2, <1>3, <3>1, WithoutElements
  <2>3. \A u \in Terminals : Sorted(inside'[u])
    BY <1>1, <1>3, <2>1, <2>2 DEF InLine
  <2>4. \A j \in DOMAIN s : /\ s[j] \in FlitsOf(t) /\ Natural(s[j]) /\ j \in Nat
                            /\ s[j] \in Flits /\ s[j].term = t
    <3>1. \A j \in DOMAIN s : s[j] \in FlitsOf(t) /\ j \in Nat
      BY <1>3
    <3>. QED
      BY <3>1, FlitFacts DEF Natural
  <2>5. ASSUME NEW j \in DOMAIN s, j # i PROVE s[j] # f
    <3>1. i \in Nat /\ j \in Nat /\ Natural(f)
      BY <2>2, <2>4
    <3>2. CASE i < j
      BY <2>2, <3>1, <3>2, BeforeFacts DEF Sorted
    <3>3. CASE j < i
      BY <2>2, <3>1, <3>3, BeforeFacts DEF Sorted
    <3>. QED
      BY <2>5, <3>1, <3>2, <3>3
  <2>6. ASSUME f.num # 0
        PROVE  /\ q # <<>> /\ q[1] = f
               /\ \A j \in 2 .. n : q[j] # f
    <3>1. PICK l \in 1 .. n : q[l] = f
      <4>1. Noted(exp_q, f)
        BY <1>1, <2>1, <2>6 DEF InLine
      <4>. QED
        BY <1>1, <1>6, <1>7, <4>1 DEF Noted
    <3>2. n > 0 /\ q # <<>> /\ 1 \in 1 .. n
      BY <1>7, <1>9, <3>1
    <3>3. \A j, m \in 1 .. n : j < m => Before(q[j], q[m])
      BY <1>4, <1>6, <1>7, <2>1, <2>6 DEF InLine
    <3>4. PICK h : h = q[1]
      OBVIOUS
    <3>5. /\ h \in Flits /\ Natural(h) /\ Natural(f) /\ KeyOf[h] = k /\ h.num # 0 /\ h.term = t
      BY <1>7, <2>2, <2>4, <2>6, <3>2, <3>4
    <3>6. UnderWay(inside, h)
      BY <1>4, <1>6, <1>7, <2>1, <3>2, <3>4, <3>5 DEF InLine
    <3>7. PICK u \in Terminals : \E j \in DOMAIN inside[u] : inside[u][j] = h
      BY <3>6 DEF UnderWay
    <3>8. PICK j \in DOMAIN inside[u] : inside[u][j] = h
      BY <3>7
    <3>9. u = t
      BY <3>5, <3>8, FlowNumbers, FlitFacts
    <3>10. j \in DOMAIN s /\ s[j] = h /\ j \in Nat /\ i \in Nat
      BY <1>1, <2>2, <2>4, <3>8, <3>9
    <3>11. ~ (j < i)
      <4>1. ASSUME j < i PROVE FALSE
        <5>1. j \in 1 .. i - 1
          BY <1>3, <3>10, <4>1
        <5>2. KeyOf[inside[t][j]] # KeyOf[inside[t][i]]
          BY <1>2, <5>1 DEF MayLeave
        <5>. QED
          BY <1>1, <3>5, <3>10, <5>2
      <4>. QED
        BY <4>1
    <3>12. ~ (i < j)
      <4>1. ASSUME i < j PROVE FALSE
        <5>1. Before(f, h)
          BY <2>2, <3>10, <4>1 DEF Sorted
        <5>2. l = 1 \/ Before(h, f)
          <6>1. l # 1 => 1 < l
            BY <1>7
          <6>. QED
            BY <3>1, <3>2, <3>3, <3>4, <6>1
        <5>3. l = 1 => h = f
          BY <3>1, <3>4
        <5>. QED
          BY <3>5, <5>1, <5>2, <5>3, BeforeFacts
      <4>. QED
        BY <4>1
    <3>13. h = f
      BY <2>2, <3>10, <3>11, <3>12
    <3>14. ASSUME NEW m \in 2 .. n PROVE q[m] # f
      <4>1. m \in 1 .. n /\ 1 < m
        BY <1>7
      <4>2. Before(q[1], q[m])
        BY <3>2, <3>3, <4>1
      <4>. QED
        BY <3>4, <3>5, <3>13, <4>2, BeforeFacts
    <3>. QED
      BY <3>2, <3>4, <3>13, <3>14
  <2>7. RowsAreRight'
    <3>1. CASE q = <<>>
      <4>1. row' = <<f>>
        BY <1>4, <1>6, <3>1
      <4>2. Len(row') # 2
        BY <4>1
      <4>. QED
        BY <4>2 DEF RowsAreRight
    <3>2. CASE q # <<>> /\ f.num # 0
      <4>1. row' = <<f, f>>
        BY <1>4, <1>6, <1>8, <2>6, <3>2
      <4>. QED
        BY <4>1 DEF RowsAreRight
    <3>3. CASE q # <<>> /\ f.num = 0
      <4>1. PICK h : h = q[1]
        OBVIOUS
      <4>2. h \in AllMade /\ h.num = 0
        BY <1>7, <1>8, <3>3, <4>1
      <4>3. h.scn = 0
        BY <4>2, MadeFacts, FlitFacts
      <4>4. row' = <<h, f>>
        BY <1>4, <1>6, <1>8, <3>3, <4>1
      <4>5. {h.scn, f.scn} = {0}
        BY <1>5, <3>3, <4>3
      <4>. QED
        BY <4>4, <4>5 DEF RowsAreRight
    <3>. QED
      BY <3>1, <3>2, <3>3
  <2>8. ASSUME NEW u \in Terminals, NEW j \in DOMAIN inside'[u], inside'[u][j].num # 0
        PROVE  Noted(exp_q', inside'[u][j])
    <3>1. PICK v \in DOMAIN inside[u] : inside'[u][j] = inside[u][v] /\ (u = t => v # i)
      <4>1. CASE u = t
        BY <1>1, <2>2, <2>8, <4>1
      <4>2. CASE u # t
        BY <1>3, <2>8, <4>2
      <4>. QED
        BY <4>1, <4>2
    <3>2. PICK g : g = inside[u][v]
      OBVIOUS
    <3>3. /\ g.num # 0 /\ Noted(exp_q, g) /\ g \in Flits /\ g.term = u /\ KeyOf[g] \in Keys
      <4>1. g \in Flits /\ g.term = u
        BY <3>2, FlowNumbers, FlitFacts
      <4>2. g.num # 0 /\ Noted(exp_q, g)
        BY <2>1, <2>8, <3>1, <3>2 DEF InLine
      <4>. QED
        BY <4>1, <4>2, KeysAssumption
    <3>4. Noted(exp_q', g)
      <4>1. CASE KeyOf[g] # k
        BY <1>4, <3>3, <4>1 DEF Noted
      <4>2. CASE KeyOf[g] = k
        <5>1. f.num # 0 /\ u = t
          BY <1>1, <1>5, <3>3, <4>2, KeyFacts
        <5>2. g # f
          BY <1>1, <2>5, <3>1, <3>2, <5>1
        <5>3. PICK l \in 1 .. n : q[l] = g
          BY <1>6, <1>7, <3>3, <4>2 DEF Noted
        <5>4. q # <<>> /\ q[1] = f
          BY <2>6, <5>1
        <5>5. l # 1
          BY <5>2, <5>3, <5>4
        <5>6. l - 1 \in 1 .. n - 1 /\ l - 1 + 1 = l
          BY <1>7, <5>5
        <5>7. l - 1 \in DOMAIN exp_q'[k] /\ exp_q'[k][l - 1] = q[l]
          BY <1>8, <5>4, <5>6
        <5>. QED
          BY <4>2, <5>3, <5>7 DEF Noted
      <4>. QED
        BY <4>1, <4>2
    <3>. QED
      BY <3>1, <3>2, <3>4
  <2>9. ASSUME NEW g, UnderWay(inside, g), g # f PROVE UnderWay(inside', g)
    <3>1. PICK u \in Terminals : \E j \in DOMAIN inside[u] : inside[u][j] = g
      BY <2>9 DEF UnderWay
    <3>2. PICK j \in DOMAIN inside[u] : inside[u][j] = g
      BY <3>1
    <3>3. CASE u = t
      <4>1. j \in DOMAIN s /\ j # i /\ s[j] = g
        BY <1>1, <2>9, <3>2, <3>3
      <4>2. \E l \in DOMAIN r : r[l] = g
        BY <2>2, <4>1
      <4>. QED
        BY <1>1, <4>2 DEF UnderWay
    <3>4. CASE u # t
      BY <1>3, <3>2, <3>4 DEF UnderWay
    <3>. QED
      BY <3>3, <3>4
  <2>10. ASSUME q # <<>>, NEW j \in 1 .. n - 1, exp_q'[k][j].num # 0
         PROVE  /\ UnderWay(inside', exp_q'[k][j])
                /\ \A l \in 1 .. n - 1 : j < l => Before(exp_q'[k][j], exp_q'[k][l])
    <3>1. j + 1 \in 2 .. n /\ j + 1 \in 1 .. n /\ exp_q'[k][j] = q[j + 1]
      BY <1>7, <1>8, <2>10
    <3>2. f.num # 0 /\ q[j + 1].num # 0
      BY <1>7, <2>10, <3>1
    <3>3. q[j + 1] # f
      BY <2>6, <3>1, <3>2
    <3>4. /\ UnderWay(inside, q[j + 1])
          /\ \A l \in 1 .. n : j + 1 < l => Before(q[j + 1], q[l])
      BY <1>4, <1>6, <1>7, <2>1, <3>1, <3>2 DEF InLine
    <3>5. ASSUME NEW l \in 1 .. n - 1, j < l PROVE Before(exp_q'[k][j], exp_q'[k][l])
      <4>1. l + 1 \in 1 .. n /\ j + 1 < l + 1 /\ exp_q'[k][l] = q[l + 1]
        BY <1>7, <1>8, <2>10, <3>5
      <4>. QED
        BY <3>1, <3>4, <4>1
    <3>. QED
      BY <2>9, <3>1, <3>3, <3>4, <3>5
  <2>11. ASSUME NEW j \in Keys, NEW l \in DOMAIN exp_q'[j], exp_q'[j][l].num # 0
         PROVE  /\ UnderWay(inside', exp_q'[j][l])
                /\ \A m \in DOMAIN exp_q'[j] : l < m => Before(exp_q'[j][l], exp_q'[j][m])
    <3>1. CASE j = k /\ q # <<>>
      BY <1>8, <2>10, <2>11, <3>1
    <3>2. CASE j = k /\ q = <<>>
      <4>1. DOMAIN exp_q'[k] = {}
        <5>1. exp_q'[k] = q /\ DOMAIN q = 1 .. n /\ n = 0
          BY <1>6, <1>7, <1>9, <3>2
        <5>. QED
          BY ONLY <5>1
      <4>. QED
        BY <2>11, <3>2, <4>1
    <3>3. CASE j # k
      <4>1. exp_q'[j] = exp_q[j]
        BY <1>4, <3>3
      <4>2. PICK g : g = exp_q[j][l]
        OBVIOUS
      <4>3. /\ UnderWay(inside, g)
            /\ \A m \in DOMAIN exp_q[j] : l < m => Before(exp_q[j][l], exp_q[j][m])
        BY <2>1, <2>11, <4>1, <4>2 DEF InLine
      <4>4. KeyOf[g] = j
        BY <2>11, <4>1, <4>2 DEF Rows, Keyed
      <4>5. g # f
        BY <1>1, <3>3, <4>4
      <4>6. UnderWay(inside', g)
        BY <2>9, <4>3, <4>5
      <4>. QED
        BY <4>1, <4>2, <4>3, <4>6
    <3>. QED
      BY <3>1, <3>2, <3>3
  <2>. QED
    BY <2>3, <2>7, <2>8, <2>11 DEF InLine
<1>. QED
  BY <1>10, <1>11 DEF Rows

LEMMA RowsStep ==
  ASSUME FlowTypes, Lag, Rows, [FlowNext]_flow_vars
  PROVE  Rows'
<1>1. ASSUME UNCHANGED <<mesh, scoreboard>> PROVE Rows'
  <2>1. UNCHANGED <<inside, lost, doubled, exp_q, row>>
    BY <1>1 DEF mesh, scoreboard
  <2>2. Keyed' /\ (Faultless' => Faultless)
    BY <2>1 DEF Rows, Keyed, Faultless
  <2>3. InLine => InLine'
    BY <2>1 DEF InLine, RowsAreRight
  <2>. QED
    BY <2>2, <2>3 DEF Rows
<1>2. UNCHANGED flow_vars => Rows'
  BY <1>1 DEF flow_vars
<1>3. WaitFork \/ NextScenario \/ Finish => Rows'
  BY <1>1 DEF WaitFork, NextScenario, Finish
<1>4. \A t \in Terminals : Deliver(t) => Rows'
  BY <1>1 DEF Deliver
<1>5. \A t \in Terminals : Take(t) => Rows'
  BY RowsTake
<1>6. \A t \in Terminals : \A i \in DOMAIN inside[t] : Leave(t, i) => Rows'
  BY RowsLeave
<1>7. ASSUME NEW t \in Terminals, NEW i \in DOMAIN inside[t], Lose(t, i) \/ Double(t, i)
      PROVE  Rows'
  <2>1. /\ UNCHANGED scoreboard
        /\ lost' = Append(lost, inside[t][i]) \/ doubled' = doubled + 1
    BY <1>7, MeshFacts
  <2>2. Keyed'
    BY <2>1 DEF Rows, Keyed, scoreboard
  <2>3. ~ Faultless'
    <3>1. lost \in Seq(Flits) /\ inside[t][i] \in Flits /\ doubled \in Nat
      BY DEF FlowTypes
    <3>2. Append(lost, inside[t][i]) # <<>> /\ doubled + 1 # 0
      BY <3>1
    <3>. QED
      BY <2>1, <3>2 DEF Faultless
  <2>. QED
    BY <2>2, <2>3 DEF Rows
<1>. QED
  BY <1>2, <1>3, <1>4, <1>5, <1>6, <1>7 DEF FlowNext, Mesh

\* In a test without faults every OK row is about one flit: its terminal's flits stay
\* in the order they are made in, in the mesh as in the scoreboard's queues.
THEOREM RowsAreRightCorrect == FlowSpec => []RowsAreRight
<1>1. FlowInit => FlowTypes /\ Lag /\ Rows
  BY FlowInitTypes, FlowInitLag, FlowInitRows
<1>2. FlowTypes /\ FlowTypes' /\ Lag /\ [FlowNext]_flow_vars => Lag'
  BY LagStep
<1>3. FlowTypes /\ Lag /\ Rows /\ [FlowNext]_flow_vars => Rows'
  BY RowsStep
<1>4. Rows => RowsAreRight
  BY DEF Rows, InLine, Faultless, RowsAreRight
<1>5. FlowSpec => []FlowTypes
  BY FlowTypesCorrect
<1>. QED
  BY <1>1, <1>2, <1>3, <1>4, <1>5, PTL DEF FlowSpec

-----------------------------------------------------------------------------
(***************************************************************************)
(* The scoreboard around a mesh that is right.                             *)
(***************************************************************************)
\* The terminals whose entry, whose exit has still to be reported at this edge.
WaitIn == {t \in watch : taking[t] # None}
WaitOut == {t \in consume : showing[t] # None} \union {t \in Terminals : loc[t] = "write"}

\* The terminals that will report an entry again for the exit it overwrote.
Doomed == {t \in Terminals : loc[t] = "write" /\ item[t].ev_kind = "EV_IN"}

Entering == {taking[t] : t \in WaitIn}
Shown == {showing[t] : t \in WaitOut}

\* The flits of key k the scoreboard has heard enter, but not leave.
Due(k) == {f \in (in_mesh \union Shown) \ Entering : KeyOf[f] = k}

BoardTypes ==
  /\ outside \subseteq Flits /\ in_mesh \subseteq Flits
  /\ taking \in [Terminals -> Flits \union {None}]
  /\ showing \in [Terminals -> Flits \union {None}]
  /\ watch \subseteq Terminals /\ consume \subseteq Terminals
  /\ loc \in [Terminals -> {"look", "write", "ack"}]
  /\ DOMAIN item = Terminals
  /\ overwritten \in Nat
  /\ exp_q \in [Keys -> Seq(Flits)]
  /\ n_in \in Nat /\ n_out \in Nat /\ n_miss \in Nat

\* A flit is in one place, and taken or shown at one terminal.
Once ==
  /\ outside \intersect in_mesh = {}
  /\ \A t \in Terminals :
       /\ taking[t] # None => taking[t] \notin outside
       /\ showing[t] # None => showing[t] \notin outside \union in_mesh
       /\ \A u \in Terminals : t # u =>
            /\ taking[t] # None => taking[t] # taking[u]
            /\ showing[t] # None => showing[t] # showing[u]
  /\ Entering \subseteq in_mesh \union Shown

\* What a thread of a monitor is about to report.
Threads ==
  \A t \in Terminals :
    /\ t \in consume => loc[t] # "write" /\ (loc[t] = "ack" => showing[t] = None)
    /\ loc[t] = "write" =>
         /\ showing[t] # None
         /\ \/ item[t] = Out(showing[t])
            \/ /\ t \notin watch /\ overwritten # 0
               /\ taking[t] # None /\ item[t] = In(taking[t])

\* Every flit taken has been reported or waits to be, and so has every flit shown.
Heard ==
  /\ n_in + Cardinality(WaitIn)
       = Cardinality(Flits \ outside) + overwritten - Cardinality(Doomed)
  /\ n_out + Cardinality(WaitOut)
       = Cardinality(Flits \ (outside \union in_mesh)) - overwritten + Cardinality(Doomed)

\* There is an entry for every flit that is due, and no more unless one was repeated.
Expected ==
  /\ NoFalseAlarm
  /\ \A k \in Keys :
       /\ Len(exp_q[k]) >= Cardinality(Due(k))
       /\ overwritten = 0 => Len(exp_q[k]) = Cardinality(Due(k))

BoardInv == BoardTypes /\ Once /\ Threads /\ Heard /\ Expected

LEMMA OneElementMore ==
  ASSUME NEW A, IsFiniteSet(A), NEW x, x \notin A, NEW B, B = A \union {x}
  PROVE  IsFiniteSet(B) /\ Cardinality(A) \in Nat /\ Cardinality(B) = Cardinality(A) + 1
BY FS_AddElement, FS_CardinalityType

LEMMA OneElementLess ==
  ASSUME NEW B, IsFiniteSet(B), NEW x \in B, NEW A, A = B \ {x}
  PROVE  IsFiniteSet(A) /\ Cardinality(A) \in Nat /\ Cardinality(B) = Cardinality(A) + 1
<1>1. IsFiniteSet(A)
  BY FS_RemoveElement
<1>2. x \notin A /\ B = A \union {x}
  OBVIOUS
<1>. QED
  BY <1>1, <1>2, OneElementMore

LEMMA SplitCount ==
  ASSUME NEW A, NEW B, IsFiniteSet(A), IsFiniteSet(B), A \intersect B = {},
         NEW C, C = A \union B
  PROVE  /\ Cardinality(C) = Cardinality(A) + Cardinality(B)
         /\ Cardinality(A) \in Nat /\ Cardinality(B) \in Nat
<1>1. Cardinality(A) \in Nat /\ Cardinality(B) \in Nat /\ Cardinality(A \intersect B) = 0
  BY FS_CardinalityType, FS_EmptySet
<1>2. Cardinality(C) = Cardinality(A) + Cardinality(B) - Cardinality(A \intersect B)
  BY FS_Union
<1>. QED
  BY <1>1, <1>2

\* As many flits are picked as there are terminals that pick one.
LEMMA PickFacts ==
  ASSUME NEW S, NEW g, g \in Picks(S), NEW W, W = {t \in Terminals : g[t] # None}
  PROVE  /\ g \in [Terminals -> S \union {None}]
         /\ \A t, u \in Terminals : t # u /\ g[t] # None => g[t] # g[u]
         /\ PickedBy(g) \subseteq S /\ PickedBy(g) = {g[t] : t \in W}
         /\ \A t \in Terminals : g[t] # None => g[t] \in PickedBy(g)
         /\ IsFiniteSet(PickedBy(g)) /\ Cardinality(PickedBy(g)) = Cardinality(W)
<1>1. /\ g \in [Terminals -> S \union {None}]
      /\ \A t, u \in Terminals : g[t] = g[u] /\ g[t] # None => t = u
  BY DEF Picks
<1>2. PICK P : P = PickedBy(g)
  OBVIOUS
<1>3. /\ P \subseteq S /\ P = {g[t] : t \in W}
      /\ \A t \in Terminals : g[t] # None => g[t] \in P
  BY <1>1, <1>2 DEF PickedBy
<1>4. PICK f : f = [t \in W |-> g[t]]
  OBVIOUS
<1>5. IsFiniteSet(W)
  BY KeysAssumption, FS_Subset
<1>6. f \in [W -> P] /\ \A t, u \in W : f[t] = f[u] => t = u
  BY <1>1, <1>3, <1>4
<1>7. \A z \in P : \E t \in W : f[t] = z
  BY <1>3, <1>4
<1>8. IsFiniteSet(P) /\ Cardinality(P) = Cardinality(W)
  BY <1>5, <1>6, <1>7, EqualCount
<1>. QED
  BY <1>1, <1>2, <1>3, <1>8

LEMMA WriteFacts ==
  ASSUME NEW f
  PROVE  /\ Write(In(f)) => StoreIn(f)
         /\ Write(Out(f)) => MatchOut(f)
         /\ In(f).ev_kind = "EV_IN" /\ Out(f).ev_kind # "EV_IN"
BY DEF Write, In, Out

LEMMA BoardStore ==
  ASSUME BoardTypes, NEW f \in Flits, StoreIn(f), NEW k, k = KeyOf[f]
  PROVE  /\ k \in Keys /\ exp_q' \in [Keys -> Seq(Flits)]
         /\ Len(exp_q'[k]) = Len(exp_q[k]) + 1 /\ \A j \in Keys : Len(exp_q[j]) \in Nat
         /\ \A j \in Keys : j # k => exp_q'[j] = exp_q[j]
         /\ n_in' = n_in + 1 /\ n_out' = n_out /\ n_miss' = n_miss
<1>1. exp_q \in [Keys -> Seq(Flits)]
  BY DEF BoardTypes
<1>2. PICK S : S = Flits
  OBVIOUS
<1>3. exp_q \in [Keys -> Seq(S)] /\ f \in S
  BY <1>1, <1>2
<1>4. /\ k \in Keys
      /\ exp_q' \in [Keys -> Seq(S)]
      /\ exp_q'[k] = Append(exp_q[k], f)
      /\ \A j \in Keys : j # k => exp_q'[j] = exp_q[j]
      /\ n_in' = n_in + 1 /\ row' = row /\ n_out' = n_out /\ n_miss' = n_miss
  BY <1>3, StoreFacts
<1>5. exp_q[k] \in Seq(Flits) /\ \A j \in Keys : Len(exp_q[j]) \in Nat
  BY <1>1, <1>4
<1>6. Len(exp_q'[k]) = Len(exp_q[k]) + 1
  BY <1>4, <1>5
<1>. QED
  BY <1>2, <1>4, <1>5, <1>6

LEMMA BoardMatch ==
  ASSUME BoardTypes, NEW f \in Flits, MatchOut(f), NEW k, k = KeyOf[f]
  PROVE  /\ k \in Keys /\ exp_q' \in [Keys -> Seq(Flits)]
         /\ \A j \in Keys : j # k => exp_q'[j] = exp_q[j]
         /\ \A j \in Keys : Len(exp_q[j]) \in Nat
         /\ n_in' = n_in /\ n_out' = n_out + 1 /\ n_miss' \in Nat
         /\ Len(exp_q[k]) > 0 => Len(exp_q[k]) = Len(exp_q'[k]) + 1 /\ n_miss' = n_miss
<1>1. exp_q \in [Keys -> Seq(Flits)] /\ n_miss \in Nat
  BY DEF BoardTypes
<1>2. PICK S : S = Flits
  OBVIOUS
<1>3. exp_q \in [Keys -> Seq(S)]
  BY <1>1, <1>2
<1>4. /\ k \in Keys
      /\ exp_q' \in [Keys -> Seq(S)]
      /\ n_in' = n_in /\ n_out' = n_out + 1
      /\ \A j \in Keys : j # k => exp_q'[j] = exp_q[j]
      /\ exp_q[k] # <<>> =>
           /\ exp_q'[k] = Tail(exp_q[k])
           /\ row' = <<Head(exp_q[k]), f>> /\ n_miss' = n_miss
      /\ exp_q[k] = <<>> =>
           exp_q' = exp_q /\ row' = <<f>> /\ n_miss' = n_miss + 1
  BY <1>3, MatchFacts
<1>5. PICK s : s = exp_q[k]
  OBVIOUS
<1>6. s \in Seq(Flits) /\ \A j \in Keys : Len(exp_q[j]) \in Nat
  BY <1>1, <1>4, <1>5
<1>7. Len(s) > 0 => s # <<>> /\ Len(s) = Len(Tail(s)) + 1
  BY <1>6
<1>8. Len(exp_q[k]) > 0 => Len(exp_q[k]) = Len(exp_q'[k]) + 1 /\ n_miss' = n_miss
  BY <1>4, <1>5, <1>7
<1>9. n_miss' \in Nat
  BY <1>1, <1>4
<1>. QED
  BY <1>2, <1>4, <1>6, <1>8, <1>9

LEMMA WatchFacts ==
  ASSUME BoardTypes, NEW t \in Terminals, Watch(t)
  PROVE  /\ t \in watch /\ watch' = watch \ {t}
         /\ UNCHANGED <<outside, in_mesh, taking, showing, consume, loc>>
         /\ taking[t] = None =>
              UNCHANGED <<item, overwritten, exp_q, n_in, n_out, n_miss>>
         /\ taking[t] # None =>
              /\ taking[t] \in Flits /\ StoreIn(taking[t])
              /\ item' = [item EXCEPT ![t] = In(taking[t])]
              /\ overwritten' = overwritten + (IF loc[t] = "write" THEN 1 ELSE 0)
<1>1. /\ t \in watch /\ watch' = watch \ {t}
      /\ UNCHANGED <<outside, in_mesh, taking, showing, consume, loc>>
  BY DEF Watch, flits
<1>2. CASE taking[t] = None
  BY <1>1, <1>2 DEF Watch, scoreboard
<1>3. CASE taking[t] # None
  <2>1. /\ Write(In(taking[t])) /\ item' = [item EXCEPT ![t] = In(taking[t])]
        /\ overwritten' = overwritten + (IF loc[t] = "write" THEN 1 ELSE 0)
    BY <1>3 DEF Watch
  <2>2. taking[t] \in Flits
    BY <1>3 DEF BoardTypes
  <2>. QED
    BY <1>1, <1>3, <2>1, <2>2, WriteFacts
<1>. QED
  BY <1>2, <1>3

\* What consume_outputs does leaves all there is to report where it was.
LEMMA ConsumeFacts ==
  ASSUME BoardTypes, Threads, NEW t \in Terminals, Consume(t)
  PROVE  /\ t \in consume /\ consume' = consume \ {t} /\ loc[t] # "write"
         /\ UNCHANGED <<outside, in_mesh, taking, showing, watch, overwritten>>
         /\ UNCHANGED <<exp_q, n_in, n_out, n_miss>>
         /\ \/ /\ showing[t] # None /\ loc' = [loc EXCEPT ![t] = "write"]
               /\ item' = [item EXCEPT ![t] = Out(showing[t])]
            \/ showing[t] = None /\ loc' = [loc EXCEPT ![t] = "look"] /\ item' = item
<1>1. /\ t \in consume /\ consume' = consume \ {t}
      /\ UNCHANGED <<outside, in_mesh, taking, showing, watch, overwritten>>
      /\ UNCHANGED <<exp_q, n_in, n_out, n_miss>>
  BY DEF Consume, flits, scoreboard
<1>2. loc[t] # "write" /\ (loc[t] = "ack" => showing[t] = None)
  BY <1>1 DEF Threads
<1>3. loc[t] \in {"look", "write", "ack"}
  BY DEF BoardTypes
<1>4. CASE loc[t] = "look" /\ showing[t] # None
  BY <1>1, <1>2, <1>4 DEF Consume
<1>5. CASE ~ (loc[t] = "look" /\ showing[t] # None)
  <2>1. showing[t] = None
    BY <1>2, <1>3, <1>5
  <2>2. loc' = [loc EXCEPT ![t] = "look"] /\ item' = item
    BY <1>5 DEF Consume
  <2>. QED
    BY <1>1, <1>2, <2>1, <2>2
<1>. QED
  BY <1>4, <1>5

LEMMA OneStepFacts ==
  ASSUME BoardTypes, Threads, NEW t \in Terminals, OneStep(t)
  PROVE  /\ watch = {} /\ consume = {} /\ loc[t] = "write"
         /\ loc' = [loc EXCEPT ![t] = "ack"]
         /\ UNCHANGED <<outside, in_mesh, taking, showing, watch, consume, item, overwritten>>
         /\ showing[t] # None /\ showing[t] \in Flits
         /\ \/ item[t] = Out(showing[t]) /\ MatchOut(showing[t])
            \/ /\ overwritten # 0 /\ taking[t] \in Flits
               /\ item[t] = In(taking[t]) /\ StoreIn(taking[t])
<1>1. /\ watch = {} /\ consume = {} /\ loc[t] = "write"
      /\ loc' = [loc EXCEPT ![t] = "ack"]
      /\ UNCHANGED <<outside, in_mesh, taking, showing, watch, consume, item, overwritten>>
      /\ Write(item[t])
  BY DEF OneStep, flits
<1>2. /\ showing[t] # None
      /\ item[t] = Out(showing[t])
           \/ (overwritten # 0 /\ taking[t] # None /\ item[t] = In(taking[t]))
  BY <1>1 DEF Threads
<1>3. showing[t] \in Flits /\ (taking[t] # None => taking[t] \in Flits)
  BY <1>2 DEF BoardTypes
<1>. QED
  BY <1>1, <1>2, <1>3, WriteFacts

LEMMA MeshEdgeFacts ==
  ASSUME BoardTypes, Threads, MeshEdge, NEW P, P = PickedBy(taking'),
         NEW Q, Q = PickedBy(showing')
  PROVE  /\ watch = {} /\ consume = {} /\ \A t \in Terminals : loc[t] # "write"
         /\ P \subseteq outside /\ outside' = outside \ P
         /\ Q \subseteq in_mesh \union P /\ in_mesh' = (in_mesh \union P) \ Q
         /\ watch' = Terminals /\ consume' = Terminals
         /\ UNCHANGED <<loc, item, overwritten, exp_q, n_in, n_out, n_miss>>
         /\ \A t \in Terminals : loc[t] = "ack" => showing'[t] = None
         /\ taking' \in [Terminals -> Flits \union {None}]
         /\ showing' \in [Terminals -> Flits \union {None}]
         /\ \A t \in Terminals : /\ taking'[t] # None => taking'[t] \in P
                                 /\ showing'[t] # None => showing'[t] \in Q
         /\ \A t, u \in Terminals : t # u =>
              /\ taking'[t] # None => taking'[t] # taking'[u]
              /\ showing'[t] # None => showing'[t] # showing'[u]
         /\ WaitIn = {} /\ WaitOut = {} /\ Doomed = {} /\ Doomed' = {}
         /\ Entering' = P /\ Shown' = Q
         /\ IsFiniteSet(P) /\ Cardinality(P) = Cardinality(WaitIn')
         /\ IsFiniteSet(Q) /\ Cardinality(Q) = Cardinality(WaitOut')
<1>1. /\ watch = {} /\ consume = {} /\ \A t \in Terminals : loc[t] # "write"
      /\ outside' = outside \ P /\ in_mesh' = (in_mesh \union P) \ Q
      /\ watch' = Terminals /\ consume' = Terminals
      /\ UNCHANGED <<loc, item, overwritten, exp_q, n_in, n_out, n_miss>>
      /\ \A t \in Terminals : loc[t] = "ack" => showing'[t] = None
  BY DEF MeshEdge, Quiet, scoreboard
<1>2. PICK S, T, g, h : S = outside /\ T = in_mesh \union P /\ g = taking' /\ h = showing'
  OBVIOUS
<1>3. g \in Picks(S) /\ h \in Picks(T) /\ P = PickedBy(g) /\ Q = PickedBy(h)
  BY <1>2 DEF MeshEdge
<1>4. PICK V, W : V = {t \in Terminals : g[t] # None} /\ W = {t \in Terminals : h[t] # None}
  OBVIOUS
<1>5. V = WaitIn' /\ W = WaitOut'
  BY <1>1, <1>2, <1>4 DEF WaitIn, WaitOut
<1>6. /\ g \in [Terminals -> S \union {None}]
      /\ \A t, u \in Terminals : t # u /\ g[t] # None => g[t] # g[u]
      /\ P \subseteq S /\ P = {g[t] : t \in V}
      /\ \A t \in Terminals : g[t] # None => g[t] \in P
      /\ IsFiniteSet(P) /\ Cardinality(P) = Cardinality(V)
  <2>1. g \in Picks(S) /\ V = {t \in Terminals : g[t] # None}
    BY <1>3, <1>4
  <2>2. /\ g \in [Terminals -> S \union {None}]
        /\ \A t, u \in Terminals : t # u /\ g[t] # None => g[t] # g[u]
        /\ PickedBy(g) \subseteq S /\ PickedBy(g) = {g[t] : t \in V}
        /\ \A t \in Terminals : g[t] # None => g[t] \in PickedBy(g)
        /\ IsFiniteSet(PickedBy(g)) /\ Cardinality(PickedBy(g)) = Cardinality(V)
    BY ONLY <2>1, PickFacts, Zenon
  <2>. QED
    BY <1>3, <2>2
<1>7. /\ h \in [Terminals -> T \union {None}]
      /\ \A t, u \in Terminals : t # u /\ h[t] # None => h[t] # h[u]
      /\ Q \subseteq T /\ Q = {h[t] : t \in W}
      /\ \A t \in Terminals : h[t] # None => h[t] \in Q
      /\ IsFiniteSet(Q) /\ Cardinality(Q) = Cardinality(W)
  <2>1. h \in Picks(T) /\ W = {t \in Terminals : h[t] # None}
    BY <1>3, <1>4
  <2>2. /\ h \in [Terminals -> T \union {None}]
        /\ \A t, u \in Terminals : t # u /\ h[t] # None => h[t] # h[u]
        /\ PickedBy(h) \subseteq T /\ PickedBy(h) = {h[t] : t \in W}
        /\ \A t \in Terminals : h[t] # None => h[t] \in PickedBy(h)
        /\ IsFiniteSet(PickedBy(h)) /\ Cardinality(PickedBy(h)) = Cardinality(W)
    BY ONLY <2>1, PickFacts, Zenon
  <2>. QED
    BY <1>3, <2>2
<1>8. Entering' = P /\ Shown' = Q
  BY <1>2, <1>5, <1>6, <1>7 DEF Entering, Shown
<1>9. WaitIn = {} /\ WaitOut = {} /\ Doomed = {} /\ Doomed' = {}
  BY <1>1 DEF WaitIn, WaitOut, Doomed
<1>10. S \subseteq Flits /\ T \subseteq Flits
  BY <1>2, <1>6 DEF BoardTypes
<1>11. g \in [Terminals -> Flits \union {None}] /\ h \in [Terminals -> Flits \union {None}]
  BY <1>6, <1>7, <1>10
<1>. QED
  BY <1>1, <1>2, <1>5, <1>6, <1>7, <1>8, <1>9, <1>11

\* All of them are finite sets.
LEMMA BoardFinite ==
  ASSUME BoardTypes, Threads
  PROVE  /\ IsFiniteSet(WaitIn) /\ IsFiniteSet(WaitOut) /\ IsFiniteSet(Doomed)
         /\ Cardinality(WaitIn) \in Nat /\ Cardinality(WaitOut) \in Nat
         /\ Cardinality(Doomed) \in Nat
         /\ Shown \subseteq Flits /\ Entering \subseteq Flits
         /\ \A k : IsFiniteSet(Due(k)) /\ Cardinality(Due(k)) \in Nat
<1>1. WaitIn \subseteq Terminals /\ WaitOut \subseteq Terminals /\ Doomed \subseteq Terminals
  BY DEF WaitIn, WaitOut, Doomed, BoardTypes
<1>2. IsFiniteSet(WaitIn) /\ IsFiniteSet(WaitOut) /\ IsFiniteSet(Doomed)
  BY <1>1, KeysAssumption, FS_Subset
<1>3. Entering \subseteq Flits
  BY DEF Entering, WaitIn, BoardTypes
<1>4. Shown \subseteq Flits
  <2>1. \A t \in WaitOut : t \in Terminals /\ showing[t] # None
    BY DEF WaitOut, BoardTypes, Threads
  <2>. QED
    BY <2>1 DEF Shown, BoardTypes
<1>5. ASSUME NEW k PROVE IsFiniteSet(Due(k)) /\ Cardinality(Due(k)) \in Nat
  <2>1. Due(k) \subseteq Flits
    BY <1>4 DEF Due, BoardTypes
  <2>. QED
    BY <2>1, KeysAssumption, FS_Subset, FS_CardinalityType
<1>. QED
  BY <1>2, <1>3, <1>4, <1>5, FS_CardinalityType

LEMMA BoardInitInv == BoardInit => BoardInv
<1>. SUFFICES ASSUME BoardInit PROVE BoardInv
  OBVIOUS
<1>1. /\ outside = Flits /\ in_mesh = {}
      /\ taking = [t \in Terminals |-> None] /\ showing = [t \in Terminals |-> None]
      /\ watch = {} /\ consume = {} /\ loc = [t \in Terminals |-> "look"]
      /\ item = [t \in Terminals |-> None] /\ overwritten = 0
      /\ exp_q = [k \in Keys |-> <<>>] /\ n_in = 0 /\ n_out = 0 /\ n_miss = 0
  BY DEF BoardInit, ScoreboardInit
<1>2. BoardTypes
  BY <1>1 DEF BoardTypes
<1>3. WaitIn = {} /\ WaitOut = {} /\ Doomed = {} /\ Entering = {} /\ Shown = {}
  BY <1>1 DEF WaitIn, WaitOut, Doomed, Entering, Shown
<1>4. Once
  BY <1>1, <1>3 DEF Once
<1>5. Threads
  BY <1>1 DEF Threads
<1>6. Heard
  <2>1. Flits \ outside = {} /\ Flits \ (outside \union in_mesh) = {}
    BY <1>1
  <2>2. Cardinality({}) = 0
    BY FS_EmptySet
  <2>3. /\ Cardinality(WaitIn) = 0 /\ Cardinality(WaitOut) = 0 /\ Cardinality(Doomed) = 0
        /\ Cardinality(Flits \ outside) = 0
        /\ Cardinality(Flits \ (outside \union in_mesh)) = 0
    BY <1>3, <2>1, <2>2
  <2>4. n_in = 0 /\ n_out = 0 /\ overwritten = 0
    BY <1>1
  <2>. QED
    BY ONLY <2>3, <2>4 DEF Heard
<1>7. Expected
  <2>1. ASSUME NEW k \in Keys PROVE Len(exp_q[k]) = 0 /\ Cardinality(Due(k)) = 0
    <3>1. Due(k) = {}
      BY <1>1, <1>3 DEF Due
    <3>. QED
      BY <1>1, <3>1, FS_EmptySet
  <2>. QED
    BY <1>1, <2>1 DEF Expected, NoFalseAlarm
<1>. QED
  BY <1>2, <1>4, <1>5, <1>6, <1>7 DEF BoardInv

\* An edge: what is taken is new to the mesh, and what is shown was in it or is taken.
LEMMA BoardEdge ==
  ASSUME BoardInv, MeshEdge
  PROVE  BoardInv'
<1>1. BoardTypes /\ Once /\ Threads /\ Heard /\ Expected
  BY DEF BoardInv
<1>2. PICK P, Q : P = PickedBy(taking') /\ Q = PickedBy(showing')
  OBVIOUS
<1>3. /\ watch = {} /\ consume = {} /\ \A t \in Terminals : loc[t] # "write"
      /\ P \subseteq outside /\ outside' = outside \ P
      /\ Q \subseteq in_mesh \union P /\ in_mesh' = (in_mesh \union P) \ Q
      /\ watch' = Terminals /\ consume' = Terminals
      /\ UNCHANGED <<loc, item, overwritten, exp_q, n_in, n_out, n_miss>>
      /\ \A t \in Terminals : loc[t] = "ack" => showing'[t] = None
      /\ taking' \in [Terminals -> Flits \union {None}]
      /\ showing' \in [Terminals -> Flits \union {None}]
      /\ \A t \in Terminals : /\ taking'[t] # None => taking'[t] \in P
                              /\ showing'[t] # None => showing'[t] \in Q
      /\ \A t, u \in Terminals : t # u =>
           /\ taking'[t] # None => taking'[t] # taking'[u]
           /\ showing'[t] # None => showing'[t] # showing'[u]
      /\ WaitIn = {} /\ WaitOut = {} /\ Doomed = {} /\ Doomed' = {}
      /\ Entering' = P /\ Shown' = Q
      /\ IsFiniteSet(P) /\ Cardinality(P) = Cardinality(WaitIn')
      /\ IsFiniteSet(Q) /\ Cardinality(Q) = Cardinality(WaitOut')
  BY <1>1, <1>2, MeshEdgeFacts
<1>4. outside \intersect in_mesh = {} /\ outside \subseteq Flits /\ in_mesh \subseteq Flits
  BY <1>1 DEF Once, BoardTypes
<1>5. BoardTypes'
  <2>1. outside' \subseteq Flits /\ in_mesh' \subseteq Flits
    BY <1>3, <1>4
  <2>. QED
    BY <1>1, <1>3, <2>1 DEF BoardTypes
<1>6. Once'
  <2>1. outside' \intersect in_mesh' = {}
    BY <1>3, <1>4
  <2>2. \A x \in P : x \notin outside'
    BY <1>3
  <2>3. \A x \in Q : x \notin outside' \union in_mesh'
    BY <1>3, <1>4
  <2>4. Entering' \subseteq in_mesh' \union Shown'
    BY <1>3
  <2>5. \A t \in Terminals :
          /\ taking'[t] # None => taking'[t] \notin outside'
          /\ showing'[t] # None => showing'[t] \notin outside' \union in_mesh'
    BY <1>3, <2>2, <2>3
  <2>6. \A t, u \in Terminals : t # u =>
          /\ taking'[t] # None => taking'[t] # taking'[u]
          /\ showing'[t] # None => showing'[t] # showing'[u]
    BY <1>3
  <2>. QED
    BY <2>1, <2>4, <2>5, <2>6 DEF Once
<1>7. Threads'
  BY <1>3 DEF Threads
<1>8. Heard'
  <2>1. PICK A, B, C, D : /\ A = Flits \ outside /\ B = Flits \ outside'
                          /\ C = Flits \ (outside \union in_mesh)
                          /\ D = Flits \ (outside' \union in_mesh')
    OBVIOUS
  <2>2. IsFiniteSet(A) /\ IsFiniteSet(C)
    BY <2>1, KeysAssumption, FS_Subset
  <2>3. A \intersect P = {} /\ B = A \union P
    BY <1>3, <1>4, <2>1
  <2>4. C \intersect Q = {} /\ D = C \union Q
    BY <1>3, <1>4, <2>1
  <2>5. /\ Cardinality(B) = Cardinality(A) + Cardinality(P)
        /\ Cardinality(A) \in Nat /\ Cardinality(P) \in Nat
    BY <1>3, <2>2, <2>3, SplitCount
  <2>6. /\ Cardinality(D) = Cardinality(C) + Cardinality(Q)
        /\ Cardinality(C) \in Nat /\ Cardinality(Q) \in Nat
    BY <1>3, <2>2, <2>4, SplitCount
  <2>7. Cardinality({}) = 0 /\ n_in \in Nat /\ n_out \in Nat /\ overwritten \in Nat
    BY <1>1, FS_EmptySet DEF BoardTypes
  <2>8. /\ n_in + 0 = Cardinality(A) + overwritten - 0
        /\ n_out + 0 = Cardinality(C) - overwritten + 0
    BY <1>1, <1>3, <2>1, <2>7 DEF Heard
  <2>9. /\ n_in + Cardinality(P) = Cardinality(B) + overwritten - 0
        /\ n_out + Cardinality(Q) = Cardinality(D) - overwritten + 0
    BY <2>5, <2>6, <2>7, <2>8
  <2>10. /\ n_in' + Cardinality(WaitIn') = Cardinality(B) + overwritten' - Cardinality(Doomed')
         /\ n_out' + Cardinality(WaitOut') = Cardinality(D) - overwritten' + Cardinality(Doomed')
    BY <1>3, <2>7, <2>9
  <2>. QED
    BY <2>1, <2>10 DEF Heard
<1>9. Expected'
  <2>1. ASSUME NEW k PROVE Due(k)' = Due(k)
    <3>1. Shown = {} /\ Entering = {}
      BY <1>3 DEF Shown, Entering
    <3>2. (in_mesh' \union Q) \ P = in_mesh
      BY <1>3, <1>4
    <3>. QED
      BY <1>3, <3>1, <3>2 DEF Due
  <2>. QED
    BY <1>1, <1>3, <2>1 DEF Expected, NoFalseAlarm
<1>. QED
  BY <1>5, <1>6, <1>7, <1>8, <1>9 DEF BoardInv

\* watch_inputs: the entry it reports is due from then on.
LEMMA BoardWatch ==
  ASSUME BoardInv, NEW t \in Terminals, Watch(t)
  PROVE  BoardInv'
<1>1. BoardTypes /\ Once /\ Threads /\ Heard /\ Expected
  BY DEF BoardInv
<1>2. /\ t \in watch /\ watch' = watch \ {t}
      /\ UNCHANGED <<outside, in_mesh, taking, showing, consume, loc>>
      /\ taking[t] = None =>
           UNCHANGED <<item, overwritten, exp_q, n_in, n_out, n_miss>>
      /\ taking[t] # None =>
           /\ taking[t] \in Flits /\ StoreIn(taking[t])
           /\ item' = [item EXCEPT ![t] = In(taking[t])]
           /\ overwritten' = overwritten + (IF loc[t] = "write" THEN 1 ELSE 0)
  BY <1>1, WatchFacts
<1>3. WaitOut' = WaitOut /\ Shown' = Shown
  BY <1>2 DEF WaitOut, Shown
<1>4. CASE taking[t] = None
  <2>1. UNCHANGED <<outside, in_mesh, taking, showing, consume, loc, item, overwritten,
                    exp_q, n_in, n_out, n_miss>>
    BY <1>2, <1>4
  <2>2. WaitIn' = WaitIn
    BY <1>2, <1>4 DEF WaitIn
  <2>3. Entering' = Entering
    BY <2>1, <2>2 DEF Entering
  <2>4. Doomed' = Doomed
    BY <2>1 DEF Doomed
  <2>5. BoardTypes'
    BY <1>1, <1>2, <2>1 DEF BoardTypes
  <2>6. Once'
    BY <1>1, <1>3, <2>1, <2>3 DEF Once
  <2>7. Threads'
    BY <1>1, <1>2, <2>1 DEF Threads
  <2>8. Heard'
    BY <1>1, <1>3, <2>1, <2>2, <2>4 DEF Heard
  <2>9. \A k \in Keys : Due(k)' = Due(k)
    BY <1>3, <2>1, <2>3 DEF Due
  <2>10. Expected'
    BY <1>1, <2>1, <2>9 DEF Expected, NoFalseAlarm
  <2>. QED
    BY <2>5, <2>6, <2>7, <2>8, <2>10 DEF BoardInv
<1>5. CASE taking[t] # None
  <2>1. PICK f, k : f = taking[t] /\ k = KeyOf[f]
    OBVIOUS
  <2>2. /\ f \in Flits /\ StoreIn(f)
        /\ item' = [item EXCEPT ![t] = In(f)]
        /\ overwritten' = overwritten + (IF loc[t] = "write" THEN 1 ELSE 0)
    BY <1>2, <1>5, <2>1
  <2>3. /\ k \in Keys /\ exp_q' \in [Keys -> Seq(Flits)]
        /\ Len(exp_q'[k]) = Len(exp_q[k]) + 1 /\ \A j \in Keys : Len(exp_q[j]) \in Nat
        /\ \A j \in Keys : j # k => exp_q'[j] = exp_q[j]
        /\ n_in' = n_in + 1 /\ n_out' = n_out /\ n_miss' = n_miss
    BY <1>1, <2>1, <2>2, BoardStore
  <2>4. overwritten \in Nat /\ overwritten' \in Nat /\ n_in \in Nat /\ n_out \in Nat
    BY <1>1, <2>2 DEF BoardTypes
  <2>5. item'[t] = In(f) /\ \A u \in Terminals : u # t => item'[u] = item[u]
    BY <1>1, <2>2 DEF BoardTypes
  <2>6. t \in WaitIn /\ WaitIn' = WaitIn \ {t}
    BY <1>2, <1>5 DEF WaitIn
  <2>7. f \in Entering /\ Entering' = Entering \ {f}
    <3>1. f \in Entering
      BY <2>1, <2>6 DEF Entering
    <3>2. ASSUME NEW x PROVE x \in Entering' <=> x \in Entering /\ x # f
      <4>1. x \in Entering <=> \E u \in WaitIn : x = taking[u]
        BY DEF Entering
      <4>2. x \in Entering' <=> \E u \in WaitIn : u # t /\ x = taking[u]
        BY <1>2, <2>6 DEF Entering
      <4>3. \A u \in WaitIn : u # t => taking[u] # f
        BY <1>1, <1>5, <2>1 DEF Once, WaitIn, BoardTypes
      <4>. QED
        BY <2>1, <4>1, <4>2, <4>3
    <3>. QED
      BY <3>1, <3>2
  <2>8. BoardTypes'
    <3>1. DOMAIN item' = Terminals
      BY <1>1, <2>2 DEF BoardTypes
    <3>. QED
      BY <1>1, <1>2, <2>3, <2>4, <3>1 DEF BoardTypes
  <2>9. Once'
    BY <1>1, <1>2, <1>3, <2>7 DEF Once
  <2>10. Threads'
    <3>1. ASSUME NEW u \in Terminals
          PROVE  /\ u \in consume' =>
                      loc'[u] # "write" /\ (loc'[u] = "ack" => showing'[u] = None)
                 /\ loc'[u] = "write" =>
                      /\ showing'[u] # None
                      /\ \/ item'[u] = Out(showing'[u])
                         \/ /\ u \notin watch' /\ overwritten' # 0
                            /\ taking'[u] # None /\ item'[u] = In(taking'[u])
      <4>1. CASE u = t
        <5>1. loc[t] = "write" => overwritten' # 0
          BY <2>2, <2>4
        <5>. QED
          BY <1>1, <1>2, <1>5, <2>1, <2>5, <4>1, <5>1 DEF Threads
      <4>2. CASE u # t
        <5>1. overwritten # 0 => overwritten' # 0
          BY <2>2, <2>4
        <5>. QED
          BY <1>1, <1>2, <2>5, <4>2, <5>1 DEF Threads
      <4>. QED
        BY <4>1, <4>2
    <3>. QED
      BY <3>1 DEF Threads
  <2>11. Heard'
    <3>1. PICK w, x, d, e, a, c :
            /\ w = Cardinality(WaitIn) /\ x = Cardinality(WaitIn')
            /\ d = Cardinality(Doomed) /\ e = Cardinality(Doomed')
            /\ a = Cardinality(Flits \ outside)
            /\ c = Cardinality(Flits \ (outside \union in_mesh))
      OBVIOUS
    <3>2. w = x + 1 /\ x \in Nat
      BY <1>1, <2>6, <3>1, BoardFinite, OneElementLess
    <3>3. d \in Nat /\ a \in Nat /\ c \in Nat
      BY <1>1, <3>1, BoardFinite, KeysAssumption, FS_Subset, FS_CardinalityType
    <3>4. CASE loc[t] = "write"
      <4>1. item[t] = Out(showing[t])
        BY <1>1, <1>2, <3>4 DEF Threads
      <4>2. t \notin Doomed
        BY <4>1, WriteFacts DEF Doomed
      <4>3. Doomed' = Doomed \union {t}
        <5>1. ASSUME NEW u \in Terminals, u # t PROVE u \in Doomed' <=> u \in Doomed
          BY <1>2, <2>5, <5>1 DEF Doomed
        <5>2. t \in Doomed'
          BY <1>2, <2>5, <3>4, WriteFacts DEF Doomed
        <5>3. Doomed \subseteq Terminals /\ Doomed' \subseteq Terminals
          BY DEF Doomed
        <5>. QED
          BY <5>1, <5>2, <5>3
      <4>4. e = d + 1
        BY <1>1, <3>1, <4>2, <4>3, BoardFinite, OneElementMore
      <4>5. overwritten' = overwritten + 1
        BY <2>2, <3>4
      <4>6. PICK y : y = Cardinality(WaitOut)
        OBVIOUS
      <4>7. y \in Nat
        BY <1>1, <4>6, BoardFinite
      <4>8. n_in + w = a + overwritten - d /\ n_out + y = c - overwritten + d
        BY <1>1, <3>1, <4>6 DEF Heard
      <4>9. (n_in + 1) + x = a + (overwritten + 1) - e
            /\ n_out + y = c - (overwritten + 1) + e
        BY <2>4, <3>2, <3>3, <4>4, <4>7, <4>8
      <4>. QED
        BY <1>2, <1>3, <2>3, <3>1, <4>5, <4>6, <4>9 DEF Heard
    <3>5. CASE loc[t] # "write"
      <4>1. Doomed' = Doomed
        <5>1. ASSUME NEW u \in Terminals PROVE u \in Doomed' <=> u \in Doomed
          BY <1>2, <2>5, <3>5, <5>1 DEF Doomed
        <5>2. Doomed \subseteq Terminals /\ Doomed' \subseteq Terminals
          BY DEF Doomed
        <5>. QED
          BY <5>1, <5>2
      <4>2. overwritten' = overwritten
        BY <2>2, <2>4, <3>5
      <4>3. n_in + w = a + overwritten - d
        BY <1>1, <3>1 DEF Heard
      <4>4. (n_in + 1) + x = a + overwritten - d
        BY <2>4, <3>2, <3>3, <4>3
      <4>. QED
        BY <1>1, <1>2, <1>3, <2>3, <3>1, <4>1, <4>2, <4>4 DEF Heard
    <3>. QED
      BY <3>4, <3>5
  <2>12. Expected'
    <3>1. f \in in_mesh \union Shown
      BY <1>1, <2>7 DEF Once
    <3>2. ASSUME NEW j \in Keys
          PROVE  Cardinality(Due(j)') = Cardinality(Due(j)) + (IF k = j THEN 1 ELSE 0)
      <4>1. CASE k = j
        <5>1. f \notin Due(j) /\ Due(j)' = Due(j) \union {f}
          BY <1>2, <1>3, <2>1, <2>7, <3>1, <4>1 DEF Due
        <5>2. Cardinality(Due(j)') = Cardinality(Due(j)) + 1
          BY <1>1, <5>1, BoardFinite, OneElementMore
        <5>. QED
          BY <4>1, <5>2
      <4>2. CASE k # j
        <5>1. Due(j)' = Due(j)
          BY <1>2, <1>3, <2>1, <2>7, <4>2 DEF Due
        <5>2. Cardinality(Due(j)) \in Nat
          BY <1>1, BoardFinite
        <5>. QED
          BY <4>2, <5>1, <5>2
      <4>. QED
        BY <4>1, <4>2
    <3>3. ASSUME NEW j \in Keys
          PROVE  /\ Len(exp_q'[j]) >= Cardinality(Due(j)')
                 /\ overwritten' = 0 => Len(exp_q'[j]) = Cardinality(Due(j)')
      <4>1. PICK p, q, x, y : /\ p = Len(exp_q[j]) /\ q = Len(exp_q'[j])
                              /\ x = Cardinality(Due(j)) /\ y = Cardinality(Due(j)')
        OBVIOUS
      <4>2. p \in Nat /\ x \in Nat /\ p >= x /\ (overwritten = 0 => p = x)
        BY <1>1, <2>3, <4>1, BoardFinite DEF Expected
      <4>3. q = p + (IF k = j THEN 1 ELSE 0) /\ y = x + (IF k = j THEN 1 ELSE 0)
        <5>1. CASE k = j
          BY <2>3, <3>2, <4>1, <5>1
        <5>2. CASE k # j
          <6>1. exp_q'[j] = exp_q[j]
            BY <2>3, <5>2
          <6>. QED
            BY <3>2, <4>1, <4>2, <5>2, <6>1
        <5>. QED
          BY <5>1, <5>2
      <4>4. overwritten' = 0 => overwritten = 0
        BY <2>2, <2>4
      <4>5. q >= y /\ (overwritten' = 0 => q = y)
        BY <4>2, <4>3, <4>4
      <4>. QED
        BY <4>1, <4>5
    <3>4. n_miss' = 0
      BY <1>1, <2>3 DEF Expected, NoFalseAlarm
    <3>. QED
      BY <3>3, <3>4 DEF Expected, NoFalseAlarm
  <2>. QED
    BY <2>8, <2>9, <2>10, <2>11, <2>12 DEF BoardInv
<1>. QED
  BY <1>4, <1>5

\* consume_outputs up to #1step: nothing is reported yet.
LEMMA BoardConsume ==
  ASSUME BoardInv, NEW t \in Terminals, Consume(t)
  PROVE  BoardInv'
<1>1. BoardTypes /\ Once /\ Threads /\ Heard /\ Expected
  BY DEF BoardInv
<1>2. /\ t \in consume /\ consume' = consume \ {t} /\ loc[t] # "write"
      /\ UNCHANGED <<outside, in_mesh, taking, showing, watch, overwritten>>
      /\ UNCHANGED <<exp_q, n_in, n_out, n_miss>>
      /\ \/ /\ showing[t] # None /\ loc' = [loc EXCEPT ![t] = "write"]
            /\ item' = [item EXCEPT ![t] = Out(showing[t])]
         \/ showing[t] = None /\ loc' = [loc EXCEPT ![t] = "look"] /\ item' = item
  BY <1>1, ConsumeFacts
<1>3. loc \in [Terminals -> {"look", "write", "ack"}] /\ DOMAIN item = Terminals
  BY <1>1 DEF BoardTypes
<1>4. \/ showing[t] # None /\ loc'[t] = "write" /\ item'[t] = Out(showing[t])
      \/ showing[t] = None /\ loc'[t] = "look" /\ item'[t] = item[t]
  BY <1>2, <1>3
<1>5. \A u \in Terminals : u # t => loc'[u] = loc[u] /\ item'[u] = item[u]
  BY <1>2, <1>3
<1>6. BoardTypes'
  <2>1. loc' \in [Terminals -> {"look", "write", "ack"}] /\ DOMAIN item' = Terminals
    BY <1>2, <1>3
  <2>2. consume' \subseteq Terminals
    BY <1>1, <1>2 DEF BoardTypes
  <2>. QED
    BY <1>1, <1>2, <2>1, <2>2 DEF BoardTypes
<1>7. WaitIn' = WaitIn /\ Entering' = Entering
  BY <1>2 DEF WaitIn, Entering
<1>8. WaitOut' = WaitOut
  <2>1. consume \subseteq Terminals
    BY <1>1 DEF BoardTypes
  <2>2. ASSUME NEW u \in Terminals, u # t PROVE u \in WaitOut' <=> u \in WaitOut
    BY <1>2, <1>5, <2>2 DEF WaitOut
  <2>3. t \in WaitOut' <=> t \in WaitOut
    BY <1>2, <1>4 DEF WaitOut
  <2>4. WaitOut \subseteq Terminals /\ WaitOut' \subseteq Terminals
    BY <1>2, <2>1 DEF WaitOut
  <2>. QED
    BY <2>2, <2>3, <2>4
<1>9. Shown' = Shown
  BY <1>2, <1>8 DEF Shown
<1>10. Doomed' = Doomed
  <2>1. ASSUME NEW u \in Terminals, u # t PROVE u \in Doomed' <=> u \in Doomed
    BY <1>5, <2>1 DEF Doomed
  <2>2. t \notin Doomed /\ t \notin Doomed'
    BY <1>2, <1>4, WriteFacts DEF Doomed
  <2>3. Doomed \subseteq Terminals /\ Doomed' \subseteq Terminals
    BY DEF Doomed
  <2>. QED
    BY <2>1, <2>2, <2>3
<1>11. Once'
  BY <1>1, <1>2, <1>7, <1>9 DEF Once
<1>12. Threads'
  <2>1. ASSUME NEW u \in Terminals
        PROVE  /\ u \in consume' =>
                    loc'[u] # "write" /\ (loc'[u] = "ack" => showing'[u] = None)
               /\ loc'[u] = "write" =>
                    /\ showing'[u] # None
                    /\ \/ item'[u] = Out(showing'[u])
                       \/ /\ u \notin watch' /\ overwritten' # 0
                          /\ taking'[u] # None /\ item'[u] = In(taking'[u])
    <3>1. CASE u = t
      BY <1>2, <1>4, <3>1
    <3>2. CASE u # t
      BY <1>1, <1>2, <1>5, <3>2 DEF Threads
    <3>. QED
      BY <3>1, <3>2
  <2>. QED
    BY <2>1 DEF Threads
<1>13. Heard'
  BY <1>1, <1>2, <1>7, <1>8, <1>10 DEF Heard
<1>14. \A k \in Keys : Due(k)' = Due(k)
  BY <1>2, <1>7, <1>9 DEF Due
<1>15. Expected'
  BY <1>1, <1>2, <1>14 DEF Expected, NoFalseAlarm
<1>. QED
  BY <1>6, <1>11, <1>12, <1>13, <1>15 DEF BoardInv

\* The step of time: the flit shown is due and has its entry, or its exit is lost.
LEMMA BoardOneStep ==
  ASSUME BoardInv, NEW t \in Terminals, OneStep(t)
  PROVE  BoardInv'
<1>1. BoardTypes /\ Once /\ Threads /\ Heard /\ Expected
  BY DEF BoardInv
<1>2. /\ watch = {} /\ consume = {} /\ loc[t] = "write"
      /\ loc' = [loc EXCEPT ![t] = "ack"]
      /\ UNCHANGED <<outside, in_mesh, taking, showing, watch, consume, item, overwritten>>
      /\ showing[t] # None /\ showing[t] \in Flits
      /\ \/ item[t] = Out(showing[t]) /\ MatchOut(showing[t])
         \/ /\ overwritten # 0 /\ taking[t] \in Flits
            /\ item[t] = In(taking[t]) /\ StoreIn(taking[t])
  BY <1>1, OneStepFacts
<1>3. loc \in [Terminals -> {"look", "write", "ack"}]
  BY <1>1 DEF BoardTypes
<1>4. loc'[t] = "ack" /\ \A u \in Terminals : u # t => loc'[u] = loc[u]
  BY <1>2, <1>3
<1>5. WaitIn' = {} /\ WaitIn = {} /\ Entering = {} /\ Entering' = {}
  BY <1>2 DEF WaitIn, Entering
<1>6. t \in WaitOut /\ WaitOut' = WaitOut \ {t}
  <2>1. ASSUME NEW u \in Terminals, u # t PROVE u \in WaitOut' <=> u \in WaitOut
    BY <1>2, <1>4, <2>1 DEF WaitOut
  <2>2. t \in WaitOut /\ t \notin WaitOut'
    BY <1>2, <1>4 DEF WaitOut
  <2>3. WaitOut \subseteq Terminals /\ WaitOut' \subseteq Terminals
    BY <1>2 DEF WaitOut
  <2>. QED
    BY <2>1, <2>2, <2>3
<1>7. PICK f : f = showing[t]
  OBVIOUS
<1>8. f \in Shown /\ Shown' = Shown \ {f} /\ f \notin in_mesh
  <2>1. f \in Shown /\ f \notin in_mesh
    BY <1>1, <1>2, <1>6, <1>7 DEF Shown, Once
  <2>2. ASSUME NEW x PROVE x \in Shown' <=> x \in Shown /\ x # f
    <3>1. x \in Shown <=> \E u \in WaitOut : x = showing[u]
      BY DEF Shown
    <3>2. x \in Shown' <=> \E u \in WaitOut : u # t /\ x = showing[u]
      BY <1>2, <1>6 DEF Shown
    <3>3. \A u \in WaitOut : u # t => showing[u] # f
      <4>1. WaitOut \subseteq Terminals
        BY <1>2 DEF WaitOut
      <4>. QED
        BY <1>1, <1>2, <1>7, <4>1 DEF Once
    <3>. QED
      BY <1>7, <3>1, <3>2, <3>3
  <2>. QED
    BY <2>1, <2>2
<1>9. Once'
  BY <1>1, <1>2, <1>5 DEF Once
<1>10. Threads'
  <2>1. ASSUME NEW u \in Terminals
        PROVE  /\ u \in consume' =>
                    loc'[u] # "write" /\ (loc'[u] = "ack" => showing'[u] = None)
               /\ loc'[u] = "write" =>
                    /\ showing'[u] # None
                    /\ \/ item'[u] = Out(showing'[u])
                       \/ /\ u \notin watch' /\ overwritten' # 0
                          /\ taking'[u] # None /\ item'[u] = In(taking'[u])
    <3>1. CASE u = t
      BY <1>2, <1>4, <3>1
    <3>2. CASE u # t
      BY <1>1, <1>2, <1>4, <3>2 DEF Threads
    <3>. QED
      BY <3>1, <3>2
  <2>. QED
    BY <2>1 DEF Threads
<1>11. PICK w, y, z, d, e, a, c :
         /\ w = Cardinality(WaitIn) /\ y = Cardinality(WaitOut) /\ z = Cardinality(WaitOut')
         /\ d = Cardinality(Doomed) /\ e = Cardinality(Doomed')
         /\ a = Cardinality(Flits \ outside)
         /\ c = Cardinality(Flits \ (outside \union in_mesh))
  OBVIOUS
<1>12. y = z + 1 /\ z \in Nat
  BY <1>1, <1>6, <1>11, BoardFinite, OneElementLess
<1>13. d \in Nat /\ w \in Nat /\ a \in Nat /\ c \in Nat
       /\ n_in \in Nat /\ n_out \in Nat /\ overwritten \in Nat
  <2>1. d \in Nat /\ w \in Nat /\ a \in Nat /\ c \in Nat
    BY <1>1, <1>11, BoardFinite, KeysAssumption, FS_Subset, FS_CardinalityType
  <2>. QED
    BY <1>1, <2>1 DEF BoardTypes
<1>14. n_in + w = a + overwritten - d /\ n_out + y = c - overwritten + d
  BY <1>1, <1>11 DEF Heard
<1>15. \A u \in Terminals : u # t => (u \in Doomed' <=> u \in Doomed)
  BY <1>2, <1>4 DEF Doomed
<1>16. t \notin Doomed' /\ Doomed \subseteq Terminals /\ Doomed' \subseteq Terminals
  BY <1>4 DEF Doomed
<1>17. \A k : Due(k)' = Due(k) \ {f}
  BY <1>2, <1>5, <1>8 DEF Due
<1>18. ASSUME exp_q' \in [Keys -> Seq(Flits)], n_in' \in Nat, n_out' \in Nat, n_miss' \in Nat
       PROVE  BoardTypes'
  <2>1. loc' \in [Terminals -> {"look", "write", "ack"}]
    BY <1>2, <1>3
  <2>. QED
    BY <1>1, <1>2, <1>18, <2>1 DEF BoardTypes
<1>19. CASE item[t] = Out(f) /\ MatchOut(f)
  <2>1. PICK k : k = KeyOf[f]
    OBVIOUS
  <2>2. /\ k \in Keys /\ exp_q' \in [Keys -> Seq(Flits)]
        /\ \A j \in Keys : j # k => exp_q'[j] = exp_q[j]
        /\ \A j \in Keys : Len(exp_q[j]) \in Nat
        /\ n_in' = n_in /\ n_out' = n_out + 1 /\ n_miss' \in Nat
        /\ Len(exp_q[k]) > 0 => Len(exp_q[k]) = Len(exp_q'[k]) + 1 /\ n_miss' = n_miss
    BY <1>1, <1>2, <1>7, <1>19, <2>1, BoardMatch
  <2>3. f \in Due(k)
    BY <1>5, <1>8, <2>1 DEF Due
  <2>4. ASSUME NEW j \in Keys PROVE j # k => Due(j)' = Due(j)
    <3>1. j # k => f \notin Due(j)
      BY <2>1 DEF Due
    <3>. QED
      BY <1>17, <3>1
  <2>5. PICK D, E : D = Due(k) /\ E = Due(k)'
    OBVIOUS
  <2>6. Cardinality(D) = Cardinality(E) + 1 /\ Cardinality(E) \in Nat
    BY <1>1, <1>17, <2>3, <2>5, BoardFinite, OneElementLess
  <2>7. PICK p : p = Len(exp_q[k])
    OBVIOUS
  <2>8. p \in Nat /\ p >= Cardinality(D) /\ (overwritten = 0 => p = Cardinality(D))
    BY <1>1, <2>2, <2>5, <2>7 DEF Expected
  <2>9. p > 0
    BY <2>6, <2>8
  <2>10. PICK q : q = Len(exp_q'[k])
    OBVIOUS
  <2>11. p = q + 1 /\ n_miss' = n_miss /\ q \in Nat
    BY <2>2, <2>7, <2>9, <2>10
  <2>12. q >= Cardinality(E) /\ (overwritten = 0 => q = Cardinality(E))
    BY <2>6, <2>8, <2>11
  <2>13. Expected'
    <3>1. ASSUME NEW j \in Keys
          PROVE  /\ Len(exp_q'[j]) >= Cardinality(Due(j)')
                 /\ overwritten' = 0 => Len(exp_q'[j]) = Cardinality(Due(j)')
      <4>1. CASE j = k
        BY <1>2, <2>5, <2>10, <2>12, <4>1
      <4>2. CASE j # k
        BY <1>1, <1>2, <2>2, <2>4, <4>2 DEF Expected
      <4>. QED
        BY <4>1, <4>2
    <3>2. n_miss' = 0
      BY <1>1, <2>11 DEF Expected, NoFalseAlarm
    <3>. QED
      BY <3>1, <3>2 DEF Expected, NoFalseAlarm
  <2>14. Heard'
    <3>1. t \notin Doomed
      BY <1>19, WriteFacts DEF Doomed
    <3>2. Doomed' = Doomed
      BY <1>15, <1>16, <3>1
    <3>3. (n_out + 1) + z = c - overwritten + d
      BY <1>12, <1>13, <1>14
    <3>4. n_in' + w = a + overwritten - d
      BY <1>14, <2>2
    <3>. QED
      BY <1>2, <1>5, <1>11, <2>2, <3>2, <3>3, <3>4 DEF Heard
  <2>15. BoardTypes'
    BY <1>13, <1>18, <2>2
  <2>. QED
    BY <1>9, <1>10, <2>13, <2>14, <2>15 DEF BoardInv
<1>20. CASE /\ overwritten # 0 /\ taking[t] \in Flits
            /\ item[t] = In(taking[t]) /\ StoreIn(taking[t])
  <2>1. PICK g, k : g = taking[t] /\ k = KeyOf[g]
    OBVIOUS
  <2>2. /\ k \in Keys /\ exp_q' \in [Keys -> Seq(Flits)]
        /\ Len(exp_q'[k]) = Len(exp_q[k]) + 1 /\ \A j \in Keys : Len(exp_q[j]) \in Nat
        /\ \A j \in Keys : j # k => exp_q'[j] = exp_q[j]
        /\ n_in' = n_in + 1 /\ n_out' = n_out /\ n_miss' = n_miss
    BY <1>1, <1>20, <2>1, BoardStore
  <2>3. Expected'
    <3>1. ASSUME NEW j \in Keys
          PROVE  Len(exp_q'[j]) >= Cardinality(Due(j)')
      <4>1. PICK D, E : D = Due(j) /\ E = Due(j)'
        OBVIOUS
      <4>2. IsFiniteSet(D) /\ E \subseteq D /\ Cardinality(D) \in Nat
        BY <1>1, <1>17, <4>1, BoardFinite
      <4>3. Cardinality(E) <= Cardinality(D) /\ Cardinality(E) \in Nat
        BY <4>2, FS_Subset, FS_CardinalityType
      <4>4. PICK p, q : p = Len(exp_q[j]) /\ q = Len(exp_q'[j])
        OBVIOUS
      <4>5. p >= Cardinality(D) /\ p \in Nat
        BY <1>1, <2>2, <4>1, <4>4 DEF Expected
      <4>6. q = p \/ q = p + 1
        BY <2>2, <4>4
      <4>7. q >= Cardinality(E)
        BY <4>2, <4>3, <4>5, <4>6
      <4>. QED
        BY <4>1, <4>4, <4>7
    <3>2. n_miss' = 0 /\ overwritten' # 0
      BY <1>1, <1>2, <1>20, <2>2 DEF Expected, NoFalseAlarm
    <3>. QED
      BY <3>1, <3>2 DEF Expected, NoFalseAlarm
  <2>4. Heard'
    <3>1. t \in Doomed
      BY <1>2, <1>20, WriteFacts DEF Doomed
    <3>2. Doomed' = Doomed \ {t}
      BY <1>15, <1>16
    <3>3. d = e + 1 /\ e \in Nat
      BY <1>1, <1>11, <3>1, <3>2, BoardFinite, OneElementLess
    <3>4. (n_in + 1) + w = a + overwritten - e /\ n_out + z = c - overwritten + e
      BY <1>12, <1>13, <1>14, <3>3
    <3>5. Cardinality(WaitIn') = w
      BY <1>5, <1>11
    <3>. QED
      BY <1>2, <1>11, <2>2, <3>4, <3>5 DEF Heard
  <2>5. BoardTypes'
    <3>1. n_miss' \in Nat
      BY <1>1, <2>2 DEF BoardTypes
    <3>. QED
      BY <1>13, <1>18, <2>2, <3>1
  <2>. QED
    BY <1>9, <1>10, <2>3, <2>4, <2>5 DEF BoardInv
<1>. QED
  BY <1>2, <1>7, <1>19, <1>20

LEMMA BoardStep ==
  ASSUME BoardInv, [BoardNext]_board_vars
  PROVE  BoardInv'
<1>1. CASE UNCHANGED board_vars
  <2>1. UNCHANGED <<outside, in_mesh, taking, showing, watch, consume, loc, item,
                    overwritten, exp_q, n_in, n_out, n_miss>>
    BY <1>1 DEF board_vars, flits, monitors, scoreboard
  <2>2. BoardTypes' /\ Once' /\ Threads'
    BY <2>1 DEF BoardInv, BoardTypes, Once, Threads, Entering, Shown, WaitIn, WaitOut
  <2>3. Heard' /\ Expected'
    BY <2>1 DEF BoardInv, Heard, Expected, NoFalseAlarm, Due, Doomed, Entering, Shown,
                WaitIn, WaitOut
  <2>. QED
    BY <2>2, <2>3 DEF BoardInv
<1>. QED
  BY <1>1, BoardEdge, BoardWatch, BoardConsume, BoardOneStep DEF BoardNext

\* What the flits, the threads of the monitors and the scoreboard's counts and queues
\* have to do with each other at every step of an edge.
THEOREM BoardInvCorrect == BoardSpec => []BoardInv
<1>1. BoardInit => BoardInv
  BY BoardInitInv
<1>2. BoardInv /\ [BoardNext]_board_vars => BoardInv'
  BY BoardStep
<1>. QED
  BY <1>1, <1>2, PTL DEF BoardSpec

\* Around a mesh that is right no exit is unexpected, in whatever order the threads of
\* the monitors run: a flit that is shown has an entry of its key in the queue.
THEOREM NoFalseAlarmCorrect == BoardSpec => []NoFalseAlarm
<1>1. BoardInv => NoFalseAlarm
  BY DEF BoardInv, Expected
<1>. QED
  BY <1>1, BoardInvCorrect, PTL

\* Between two edges the scoreboard has heard of every flit once when it was taken and
\* once when it left, but for the exits an entry took the place of.
THEOREM HearsAllCorrect == BoardSpec => []HearsAll
<1>1. ASSUME BoardInv PROVE HearsAll
  <2>1. SUFFICES ASSUME Quiet PROVE HearsAll
    BY DEF HearsAll
  <2>2. BoardTypes /\ Threads /\ Heard /\ Expected
    BY <1>1 DEF BoardInv
  <2>3. watch = {} /\ consume = {} /\ \A t \in Terminals : loc[t] # "write"
    BY <2>1 DEF Quiet
  <2>4. WaitIn = {} /\ WaitOut = {} /\ Doomed = {} /\ Entering = {} /\ Shown = {}
    BY <2>3 DEF WaitIn, WaitOut, Doomed, Entering, Shown
  <2>5. PICK a, c : /\ a = Cardinality(Flits \ outside)
                    /\ c = Cardinality(Flits \ (outside \union in_mesh))
    OBVIOUS
  <2>6. /\ a \in Nat /\ c \in Nat /\ n_in \in Nat /\ n_out \in Nat /\ overwritten \in Nat
        /\ Cardinality({}) = 0
    <3>1. a \in Nat /\ c \in Nat
      BY <2>5, KeysAssumption, FS_Subset, FS_CardinalityType
    <3>. QED
      BY <2>2, <3>1, FS_EmptySet DEF BoardTypes
  <2>7. n_in + 0 = a + overwritten - 0 /\ n_out + 0 = c - overwritten + 0
    BY <2>2, <2>4, <2>5, <2>6 DEF Heard
  <2>8. n_in = a + overwritten /\ n_out = c - overwritten
    BY <2>6, <2>7
  <2>9. ASSUME overwritten = 0, NEW k \in Keys
        PROVE  Len(exp_q[k]) = Cardinality({f \in in_mesh : KeyOf[f] = k})
    <3>1. Due(k) = {f \in in_mesh : KeyOf[f] = k}
      BY <2>4 DEF Due
    <3>. QED
      BY <2>2, <2>9, <3>1 DEF Expected
  <2>. QED
    BY <2>5, <2>8, <2>9 DEF HearsAll
<1>. QED
  BY <1>1, BoardInvCorrect, PTL
=============================================================================
