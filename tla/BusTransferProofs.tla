-------------------------- MODULE BusTransferProofs --------------------------
(***************************************************************************)
(* What the promise of a bus is worth: Delivered follows from it, for any  *)
(* number of interfaces and of packets.  It is not inductive, since it     *)
(* says nothing of the packets on their way.  The invariant adds that a    *)
(* queue is the rest of what was sent, that a held packet is the one just  *)
(* popped, and that all packets before it have arrived everywhere.         *)
(***************************************************************************)
EXTENDS BusTransfer, SequenceTheorems, TLAPS

Types ==
  /\ sent \in [Ids -> Seq(Packets)]
  /\ queue \in [Ids -> Seq(Packets)]
  /\ got \in [Ids -> Seq(Packets)]
  /\ held \in [Ids -> Packets \union {Zero}]

\* How many packets of i have been popped, and how many handed over.
Popped(i) == Len(sent[i]) - Len(queue[i])
Handed(i) == IF held[i] = Zero THEN Popped(i) ELSE Popped(i) - 1

Rest(i) ==
  /\ Popped(i) >= 0
  /\ \A n \in 1 .. Len(sent[i]) : sent[i][n].src = i /\ sent[i][n].num = n
  /\ \A k \in 1 .. Len(queue[i]) : queue[i][k] = sent[i][Popped(i) + k]
  /\ held[i] # Zero => Popped(i) >= 1 /\ held[i] = sent[i][Popped(i)]

QueueIsRest == \A i \in Ids : Rest(i)

HandedArrived == \A i \in Ids : \A n \in 1 .. Handed(i) : Arrived(sent[i][n])

OnlyHanded ==
  \A j \in Ids : \A k \in 1 .. Len(got[j]) : got[j][k].num \in 1 .. Handed(got[j][k].src)

Inv == Types /\ QueueIsRest /\ HandedArrived /\ OnlyHanded /\ Delivered

LEMMA ZeroIsNoPacket == Zero \notin Packets
BY DEF Zero, Packets

LEMMA Difference ==
  \A a, b \in Nat :
    /\ a - b \in Int /\ a - b <= a /\ a - b - 1 <= a
    /\ (a - b) + (b + 1) = a + 1
    /\ a - (b - 1) = (a - b) + 1
OBVIOUS

LEMMA GotType ==
  ASSUME Types, NEW j \in Ids, NEW k \in DOMAIN got[j]
  PROVE  /\ got[j][k] \in Packets
         /\ got[j][k].src \in Ids /\ got[j][k].num \in Nat
         /\ DOMAIN got[j] = 1 .. Len(got[j]) /\ k \in Nat
<1>1. got[j] \in Seq(Packets)
  BY DEF Types
<1>2. got[j][k] \in Packets
  BY <1>1
<1>. QED
  BY <1>1, <1>2 DEF Packets

LEMMA InitInv == Init => Inv
<1>. SUFFICES ASSUME Init PROVE Inv
  OBVIOUS
<1>1. \A i \in Ids : sent[i] = <<>> /\ queue[i] = <<>> /\ got[i] = <<>> /\ held[i] = Zero
  BY DEF Init, PacketsInit
<1>2. Types
  BY EmptySeq DEF Init, PacketsInit, Types
<1>3. \A i \in Ids : Popped(i) = 0 /\ Handed(i) = 0
  BY <1>1 DEF Popped, Handed
<1>4. QueueIsRest
  BY <1>1, <1>3 DEF QueueIsRest, Rest
<1>5. HandedArrived
  BY <1>3 DEF HandedArrived
<1>6. OnlyHanded
  BY <1>1 DEF OnlyHanded
<1>7. Delivered
  BY <1>1 DEF Delivered
<1>. QED
  BY <1>2, <1>4, <1>5, <1>6, <1>7 DEF Inv

LEMMA SameDelivered ==
  ASSUME Delivered, UNCHANGED <<sent, got>>
  PROVE  Delivered'
<1>. SUFFICES ASSUME NEW j \in Ids, NEW k \in DOMAIN got[j]
     PROVE  LET p == got[j][k]
            IN  /\ j \in Addressed(p)
                /\ p.num \in 1 .. Len(sent[p.src]) /\ sent[p.src][p.num] = p
                /\ \A n \in 1 .. p.num - 1 :
                     j \in Addressed(sent[p.src][n]) =>
                       \E l \in 1 .. k - 1 : got[j][l] = sent[p.src][n]
                /\ \A l \in 1 .. k - 1 :
                     got[j][l].src = p.src => got[j][l].num < p.num
  BY DEF Delivered
<1>. QED
  BY DEF Delivered

\* A packet more in the queue changes nothing for those before it.
LEMMA SendInv ==
  ASSUME Inv, NEW s \in Ids, NEW d \in Headers, Send(s, d), UNCHANGED held
  PROVE  Inv'
<1>. DEFINE p == [src |-> s, num |-> Len(sent[s]) + 1, dest |-> d]
<1>1. /\ sent' = [sent EXCEPT ![s] = Append(@, p)]
      /\ queue' = [queue EXCEPT ![s] = Append(@, p)]
      /\ got' = got /\ held' = held
  BY DEF Send
<1>2. p \in Packets
  BY DEF Packets, Inv, Types
<1>. HIDE DEF p
<1>3. Types'
  BY <1>1, <1>2, AppendProperties DEF Inv, Types
<1>4. \A i \in Ids :
        /\ sent[i] \in Seq(Packets) /\ queue[i] \in Seq(Packets)
        /\ i = s => sent'[i] = Append(sent[i], p) /\ queue'[i] = Append(queue[i], p)
        /\ i # s => sent'[i] = sent[i] /\ queue'[i] = queue[i]
  BY <1>1 DEF Inv, Types
<1>5. \A i \in Ids :
        /\ i = s => Len(sent'[i]) = Len(sent[i]) + 1 /\ Len(queue'[i]) = Len(queue[i]) + 1
        /\ i # s => sent'[i] = sent[i] /\ queue'[i] = queue[i]
        /\ \A n \in 1 .. Len(sent[i]) : sent'[i][n] = sent[i][n]
        /\ \A k \in 1 .. Len(queue[i]) : queue'[i][k] = queue[i][k]
        /\ Len(sent[i]) \in Nat /\ Len(queue[i]) \in Nat
  <2>. TAKE i \in Ids
  <2>1. CASE i = s
    <3>1. /\ sent[i] \in Seq(Packets) /\ sent'[i] = Append(sent[i], p)
          /\ queue[i] \in Seq(Packets) /\ queue'[i] = Append(queue[i], p)
      BY <1>4, <2>1
    <3>2. /\ Len(sent'[i]) = Len(sent[i]) + 1 /\ Len(sent[i]) \in Nat
          /\ \A n \in 1 .. Len(sent[i]) : sent'[i][n] = sent[i][n]
      BY <1>2, <3>1, AppendProperties
    <3>3. /\ Len(queue'[i]) = Len(queue[i]) + 1 /\ Len(queue[i]) \in Nat
          /\ \A n \in 1 .. Len(queue[i]) : queue'[i][n] = queue[i][n]
      BY <1>2, <3>1, AppendProperties
    <3>. QED
      BY <2>1, <3>2, <3>3
  <2>2. CASE i # s
    BY <1>4, <2>2
  <2>. QED
    BY <2>1, <2>2
<1>6. \A i \in Ids : Popped(i)' = Popped(i) /\ Handed(i)' = Handed(i)
  <2>1. ASSUME NEW i \in Ids PROVE Popped(i)' = Popped(i)
    <3>1. /\ Len(sent[i]) \in Nat /\ Len(queue[i]) \in Nat
          /\ i = s => Len(sent'[i]) = Len(sent[i]) + 1 /\ Len(queue'[i]) = Len(queue[i]) + 1
          /\ i # s => sent'[i] = sent[i] /\ queue'[i] = queue[i]
      BY <1>5
    <3>2. CASE i = s
      <4>1. Len(sent'[i]) = Len(sent[i]) + 1 /\ Len(queue'[i]) = Len(queue[i]) + 1
        BY <3>1, <3>2
      <4>. QED
        BY <3>1, <4>1 DEF Popped
    <3>3. CASE i # s
      BY <3>1, <3>3 DEF Popped
    <3>. QED
      BY <3>2, <3>3
  <2>. QED
    BY <1>1, <2>1 DEF Handed
<1>7. /\ sent'[s][Len(sent[s]) + 1] = p /\ queue'[s][Len(queue[s]) + 1] = p
  <2>1. /\ sent[s] \in Seq(Packets) /\ sent'[s] = Append(sent[s], p)
        /\ queue[s] \in Seq(Packets) /\ queue'[s] = Append(queue[s], p)
    BY <1>4
  <2>. QED
    BY <1>2, <2>1, AppendProperties
<1>8. p.src = s /\ p.num = Len(sent[s]) + 1
  BY DEF p
<1>9. QueueIsRest'
  <2>. SUFFICES ASSUME NEW i \in Ids
       PROVE /\ Popped(i)' >= 0
             /\ \A n \in 1 .. Len(sent'[i]) : sent'[i][n].src = i /\ sent'[i][n].num = n
             /\ \A k \in 1 .. Len(queue'[i]) : queue'[i][k] = sent'[i][Popped(i)' + k]
             /\ held'[i] # Zero => Popped(i)' >= 1 /\ held'[i] = sent'[i][Popped(i)']
    BY DEF QueueIsRest, Rest
  <2>0. /\ Popped(i) >= 0
        /\ \A n \in 1 .. Len(sent[i]) : sent[i][n].src = i /\ sent[i][n].num = n
        /\ \A k \in 1 .. Len(queue[i]) : queue[i][k] = sent[i][Popped(i) + k]
        /\ held[i] # Zero => Popped(i) >= 1 /\ held[i] = sent[i][Popped(i)]
        /\ Popped(i) = Len(sent[i]) - Len(queue[i])
    BY DEF Inv, QueueIsRest, Rest, Popped
  <2>1. /\ Len(sent[i]) \in Nat /\ Len(queue[i]) \in Nat
        /\ \A n \in 1 .. Len(sent[i]) : sent'[i][n] = sent[i][n]
        /\ \A k \in 1 .. Len(queue[i]) : queue'[i][k] = queue[i][k]
    BY <1>5
  <2>2. /\ Popped(i) \in Nat /\ Popped(i) + Len(queue[i]) = Len(sent[i])
        /\ \A k \in 1 .. Len(queue[i]) : Popped(i) + k \in 1 .. Len(sent[i])
    <3>1. Popped(i) = Len(sent[i]) - Len(queue[i]) /\ Popped(i) >= 0
      BY <2>0
    <3>2. Popped(i) \in Nat /\ Popped(i) + Len(queue[i]) = Len(sent[i])
      BY <2>1, <3>1
    <3>. QED
      BY <2>1, <3>2
  <2>3. CASE i # s
    <3>1. sent'[i] = sent[i] /\ queue'[i] = queue[i]
      BY <2>3, <1>5
    <3>2. Popped(i)' = Popped(i) /\ held'[i] = held[i]
      BY <1>1, <1>6
    <3>. QED
      BY <2>0, <3>1, <3>2
  <2>4. CASE i = s
    <3>1. Len(sent'[i]) = Len(sent[i]) + 1 /\ Len(queue'[i]) = Len(queue[i]) + 1
      BY <2>4, <1>5
    <3>2. \A n \in 1 .. Len(sent'[i]) : sent'[i][n].src = i /\ sent'[i][n].num = n
      <4>. TAKE n \in 1 .. Len(sent'[i])
      <4>1. n \in 1 .. Len(sent[i]) \/ n = Len(sent[i]) + 1
        BY <2>1, <3>1
      <4>. QED
        BY <4>1, <2>0, <2>1, <2>4, <1>7, <1>8
    <3>3. \A k \in 1 .. Len(queue'[i]) : queue'[i][k] = sent'[i][Popped(i) + k]
      <4>. TAKE k \in 1 .. Len(queue'[i])
      <4>1. CASE k \in 1 .. Len(queue[i])
        <5>1. Popped(i) + k \in 1 .. Len(sent[i])
          BY <4>1, <2>2
        <5>. QED
          BY <4>1, <5>1, <2>0, <2>1
      <4>2. CASE k = Len(queue[i]) + 1
        <5>1. Popped(i) + k = Len(sent[i]) + 1
          BY <4>2, <2>1, Difference DEF Popped
        <5>. QED
          BY <4>2, <5>1, <2>4, <1>7
      <4>. QED
        BY <4>1, <4>2, <2>1, <3>1
    <3>4. held'[i] # Zero => held'[i] = sent'[i][Popped(i)]
      BY <2>0, <2>1, <1>1
    <3>. QED
      BY <2>0, <3>2, <3>3, <3>4, <1>1, <1>6
  <2>. QED
    BY <2>3, <2>4
<1>10. \A i \in Ids : Handed(i) \in Int /\ Handed(i) <= Len(sent[i])
  <2>. TAKE i \in Ids
  <2>1. Len(sent[i]) \in Nat /\ Len(queue[i]) \in Nat
    BY <1>5
  <2>2. Popped(i) \in Int /\ Popped(i) <= Len(sent[i])
    BY <2>1, Difference DEF Popped
  <2>. QED
    BY <2>1, <2>2 DEF Handed
<1>11. HandedArrived'
  <2>. SUFFICES ASSUME NEW i \in Ids, NEW n \in 1 .. Handed(i)'
       PROVE  Arrived(sent[i][n])'
    BY DEF HandedArrived
  <2>1. n \in 1 .. Handed(i) /\ sent'[i][n] = sent[i][n]
    BY <1>5, <1>6, <1>10
  <2>2. Arrived(sent[i][n])
    BY <2>1 DEF Inv, HandedArrived
  <2>. QED
    BY <1>1, <2>1, <2>2 DEF Arrived, Addressed
<1>12. OnlyHanded'
  <2>. SUFFICES ASSUME NEW j \in Ids, NEW k \in 1 .. Len(got[j])
       PROVE  (got[j][k].num \in 1 .. Handed(got[j][k].src))'
    BY <1>1 DEF OnlyHanded
  <2>1. k \in DOMAIN got[j]
    BY DEF Inv, Types
  <2>2. PICK i \in Ids : i = got[j][k].src
    BY <2>1, GotType DEF Inv
  <2>3. got[j][k].num \in 1 .. Handed(i)
    BY <2>2 DEF Inv, OnlyHanded
  <2>. QED
    BY <2>2, <2>3, <1>1, <1>6
<1>13. Delivered'
  <2>. SUFFICES ASSUME NEW j \in Ids, NEW k \in DOMAIN got[j]
       PROVE  LET q == got[j][k]
              IN  /\ j \in Addressed(q)
                  /\ q.num \in 1 .. Len(sent'[q.src]) /\ sent'[q.src][q.num] = q
                  /\ \A n \in 1 .. q.num - 1 :
                       j \in Addressed(sent'[q.src][n]) =>
                         \E l \in 1 .. k - 1 : got[j][l] = sent'[q.src][n]
                  /\ \A l \in 1 .. k - 1 : got[j][l].src = q.src => got[j][l].num < q.num
    BY <1>1 DEF Delivered
  <2>1. PICK i \in Ids : i = got[j][k].src
    BY GotType DEF Inv
  <2>2. /\ j \in Addressed(got[j][k])
        /\ got[j][k].num \in 1 .. Len(sent[i]) /\ sent[i][got[j][k].num] = got[j][k]
        /\ \A n \in 1 .. got[j][k].num - 1 :
             j \in Addressed(sent[i][n]) => \E l \in 1 .. k - 1 : got[j][l] = sent[i][n]
        /\ \A l \in 1 .. k - 1 : got[j][l].src = i => got[j][l].num < got[j][k].num
    BY <2>1 DEF Inv, Delivered
  <2>3. /\ got[j][k].num \in 1 .. Len(sent'[i])
        /\ \A n \in 1 .. got[j][k].num : sent'[i][n] = sent[i][n]
    BY <2>2, <1>5
  <2>4. /\ sent'[i][got[j][k].num] = got[j][k]
        /\ \A n \in 1 .. got[j][k].num - 1 : sent'[i][n] = sent[i][n]
    BY <2>2, <2>3
  <2>5. \A n \in 1 .. got[j][k].num - 1 :
          j \in Addressed(sent'[i][n]) => \E l \in 1 .. k - 1 : got[j][l] = sent'[i][n]
    BY <2>2, <2>4
  <2>. QED
    BY <2>1, <2>2, <2>3, <2>4, <2>5
<1>. QED
  BY <1>3, <1>9, <1>11, <1>12, <1>13 DEF Inv

\* What an edge does to the queue of one interface.
LEMMA TransferMoves ==
  ASSUME Inv, NEW poppers \in SUBSET Ids, NEW handing \in SUBSET Ids,
         Transfer(poppers, handing), NEW i \in Ids
  PROVE  /\ queue'[i] \in Seq(Packets) /\ held'[i] \in Packets \union {Zero}
         /\ Rest(i)'
         /\ i \in handing => held[i] # Zero /\ Handed(i)' = Popped(i)
         /\ i \notin handing => Handed(i)' = Handed(i)
<1>1. /\ sent[i] \in Seq(Packets) /\ queue[i] \in Seq(Packets)
      /\ held[i] \in Packets \union {Zero}
      /\ Len(sent[i]) \in Nat /\ Len(queue[i]) \in Nat
  BY DEF Inv, Types
<1>2. /\ sent' = sent
      /\ queue'[i] = IF i \in poppers THEN Tail(queue[i]) ELSE queue[i]
      /\ held'[i] = IF i \in poppers THEN Head(queue[i])
                    ELSE IF i \in handing THEN Zero ELSE held[i]
  BY DEF Transfer, PopAll
<1>3. /\ i \in poppers => queue[i] # <<>> /\ held[i] = Zero
      /\ i \in handing => held[i] # Zero
  BY DEF Transfer, Pndng
<1>4. /\ \A n \in 1 .. Len(sent[i]) : sent[i][n].src = i /\ sent[i][n].num = n
      /\ \A k \in 1 .. Len(queue[i]) : queue[i][k] = sent[i][Popped(i) + k]
      /\ held[i] # Zero => Popped(i) >= 1 /\ held[i] = sent[i][Popped(i)]
      /\ Popped(i) >= 0
  BY DEF Inv, QueueIsRest, Rest
<1>5. Popped(i) \in Nat
  BY <1>1, <1>4 DEF Popped
<1>6. CASE i \in poppers
  <2>1. /\ Head(queue[i]) = queue[i][1] /\ Tail(queue[i]) \in Seq(Packets)
        /\ Len(queue[i]) >= 1 /\ Head(queue[i]) \in Packets
        /\ Len(Tail(queue[i])) = Len(queue[i]) - 1
        /\ \A k \in 1 .. Len(queue[i]) - 1 : Tail(queue[i])[k] = queue[i][k + 1]
    BY <1>1, <1>3, <1>6, HeadTailProperties
  <2>2. queue'[i] = Tail(queue[i]) /\ held'[i] = queue[i][1] /\ held'[i] # Zero
    BY <1>2, <1>6, <2>1, ZeroIsNoPacket
  <2>3. Popped(i)' = Popped(i) + 1
    <3>1. Len(queue'[i]) = Len(queue[i]) - 1
      BY <2>1, <2>2
    <3>. QED
      <4>1. Popped(i)' = Len(sent[i]) - (Len(queue[i]) - 1)
        BY <1>2, <3>1 DEF Popped
      <4>. QED
        BY <1>1, <4>1, Difference DEF Popped
  <2>4. queue[i][1] = sent[i][Popped(i) + 1]
    BY <1>4, <2>1, <1>1
  <2>5. \A k \in 1 .. Len(queue'[i]) : queue'[i][k] = sent[i][Popped(i)' + k]
    <3>. TAKE k \in 1 .. Len(queue'[i])
    <3>1. k \in 1 .. Len(queue[i]) - 1 /\ k + 1 \in 1 .. Len(queue[i])
      BY <1>1, <2>1, <2>2
    <3>2. queue'[i][k] = sent[i][Popped(i) + (k + 1)]
      BY <1>4, <2>1, <2>2, <3>1
    <3>3. Popped(i) + (k + 1) = Popped(i)' + k
      BY <1>5, <2>3
    <3>. QED
      BY <3>2, <3>3
  <2>6. Rest(i)'
    BY <1>2, <1>4, <1>5, <2>2, <2>3, <2>4, <2>5 DEF Rest
  <2>7. Handed(i)' = Popped(i) /\ Handed(i) = Popped(i)
    BY <1>3, <1>5, <1>6, <2>2, <2>3 DEF Handed
  <2>. QED
    BY <1>3, <1>6, <2>1, <2>2, <2>6, <2>7
<1>7. CASE i \notin poppers
  <2>1. queue'[i] = queue[i] /\ Popped(i)' = Popped(i)
    BY <1>2, <1>7 DEF Popped
  <2>2. held'[i] = IF i \in handing THEN Zero ELSE held[i]
    BY <1>2, <1>7
  <2>3. Rest(i)'
    BY <1>2, <1>4, <2>1, <2>2 DEF Rest
  <2>4. /\ i \in handing => Handed(i)' = Popped(i)
        /\ i \notin handing => Handed(i)' = Handed(i)
    BY <2>1, <2>2 DEF Handed
  <2>. QED
    BY <1>1, <1>3, <2>1, <2>2, <2>3, <2>4
<1>. QED
  BY <1>6, <1>7

\* Whoever hands over appends its packet to what the addressees have got.
LEMMA TransferGot ==
  ASSUME Inv, NEW poppers \in SUBSET Ids, NEW handing \in SUBSET Ids,
         Transfer(poppers, handing)
  PROVE  /\ handing = {} => got' = got
         /\ \A s \in handing :
              /\ handing = {s} /\ held[s] \in Packets
              /\ got' = [j \in Ids |-> IF j \in Addressed(held[s])
                                      THEN Append(got[j], held[s]) ELSE got[j]]
<1>1. /\ got' = [j \in Ids |->
                    IF \E i \in handing : j \in Addressed(held[i])
                    THEN Append(got[j], held[CHOOSE i \in handing : TRUE]) ELSE got[j]]
      /\ \A i \in handing : held[i] # Zero
      /\ \A i, j \in handing : i = j
  BY DEF Transfer
<1>2. got = [j \in Ids |-> got[j]]
  BY DEF Inv, Types
<1>3. handing = {} => got' = got
  BY <1>1, <1>2
<1>4. ASSUME NEW s \in handing
      PROVE  /\ handing = {s} /\ held[s] \in Packets
             /\ got' = [j \in Ids |-> IF j \in Addressed(held[s])
                                     THEN Append(got[j], held[s]) ELSE got[j]]
  <2>1. handing = {s} /\ (CHOOSE i \in handing : TRUE) = s
    BY <1>1
  <2>2. held[s] \in Packets
    BY <1>1 DEF Inv, Types
  <2>. QED
    BY <1>1, <2>1, <2>2
<1>. QED
  BY <1>3, <1>4

LEMMA TransferInv ==
  ASSUME Inv, NEW poppers \in SUBSET Ids, NEW handing \in SUBSET Ids,
         Transfer(poppers, handing)
  PROVE  Inv'
<1>1. \A i \in Ids :
        /\ queue'[i] \in Seq(Packets) /\ held'[i] \in Packets \union {Zero}
        /\ Rest(i)'
        /\ i \in handing => held[i] # Zero /\ Handed(i)' = Popped(i)
        /\ i \notin handing => Handed(i)' = Handed(i)
  BY TransferMoves
<1>2. QueueIsRest'
  BY <1>1 DEF QueueIsRest
<1>3. sent' = sent
  BY DEF Transfer, PopAll
<1>4. queue' \in [Ids -> Seq(Packets)] /\ held' \in [Ids -> Packets \union {Zero}]
  <2>1. queue' = [i \in Ids |-> queue'[i]] /\ held' = [i \in Ids |-> held'[i]]
    BY DEF Transfer, PopAll
  <2>. QED
    BY <1>1, <2>1
<1>5. CASE handing = {}
  <2>1. got' = got /\ \A i \in Ids : Handed(i)' = Handed(i)
    BY <1>1, <1>5, TransferGot
  <2>2. Types'
    BY <1>3, <1>4, <2>1 DEF Inv, Types
  <2>3. HandedArrived'
    BY <1>3, <2>1 DEF Inv, HandedArrived, Arrived, Addressed
  <2>4. OnlyHanded'
    <3>. SUFFICES ASSUME NEW j \in Ids, NEW k \in 1 .. Len(got[j])
         PROVE  (got[j][k].num \in 1 .. Handed(got[j][k].src))'
      BY <2>1 DEF OnlyHanded
    <3>1. k \in DOMAIN got[j]
      BY DEF Inv, Types
    <3>2. PICK i \in Ids : i = got[j][k].src
      BY <3>1, GotType DEF Inv
    <3>3. got[j][k].num \in 1 .. Handed(i)
      BY <3>2 DEF Inv, OnlyHanded
    <3>. QED
      BY <2>1, <3>2, <3>3
  <2>5. Delivered'
    BY <1>3, <2>1, SameDelivered DEF Inv
  <2>. QED
    BY <1>2, <2>2, <2>3, <2>4, <2>5 DEF Inv
<1>6. ASSUME NEW s \in handing PROVE Inv'
  <2>. DEFINE q == held[s]
  <2>1. /\ handing = {s} /\ q \in Packets
        /\ got' = [j \in Ids |-> IF j \in Addressed(q) THEN Append(got[j], q) ELSE got[j]]
    <3>1. \A t \in handing :
            /\ handing = {t} /\ held[t] \in Packets
            /\ got' = [j \in Ids |-> IF j \in Addressed(held[t])
                                    THEN Append(got[j], held[t]) ELSE got[j]]
      BY TransferGot
    <3>. QED
      BY <1>6, <3>1
  <2>2. s \in Ids /\ q # Zero
    BY <1>1
  <2>3. /\ q = sent[s][Popped(s)] /\ Popped(s) \in 1 .. Len(sent[s])
        /\ q.src = s /\ q.num = Popped(s) /\ Handed(s) = Popped(s) - 1
    <3>1. /\ Len(sent[s]) \in Nat /\ Len(queue[s]) \in Nat
      BY <2>2 DEF Inv, Types
    <3>2. /\ Popped(s) >= 1 /\ q = sent[s][Popped(s)]
          /\ \A n \in 1 .. Len(sent[s]) : sent[s][n].src = s /\ sent[s][n].num = n
      BY <2>2 DEF Inv, QueueIsRest, Rest
    <3>3. Popped(s) \in 1 .. Len(sent[s])
      <4>1. Popped(s) \in Int /\ Popped(s) <= Len(sent[s])
        BY <3>1, Difference DEF Popped
      <4>. QED
        BY <3>1, <3>2, <4>1
    <3>4. Handed(s) = Popped(s) - 1
      BY <2>2 DEF Handed
    <3>. QED
      BY <3>2, <3>3, <3>4
  <2>. HIDE DEF q
  <2>4. ASSUME NEW i \in Ids
        PROVE  /\ i # s => Handed(i)' = Handed(i)
               /\ i = s => Handed(i)' = Popped(s)
    BY <1>1, <2>1
  <2>5. ASSUME NEW j \in Ids
        PROVE  /\ got[j] \in Seq(Packets) /\ got'[j] \in Seq(Packets)
               /\ Len(got[j]) \in Nat
               /\ \A k \in 1 .. Len(got[j]) : k \in 1 .. Len(got'[j]) /\ got'[j][k] = got[j][k]
               /\ \A k \in 1 .. Len(got'[j]) :
                    \/ k \in 1 .. Len(got[j])
                    \/ /\ k = Len(got[j]) + 1
                       /\ got'[j][k] = q /\ j \in Addressed(q)
               /\ j \in Addressed(q) =>
                    Len(got[j]) + 1 \in 1 .. Len(got'[j]) /\ got'[j][Len(got[j]) + 1] = q
    <3>1. got[j] \in Seq(Packets) /\ Len(got[j]) \in Nat
      BY DEF Inv, Types
    <3>2. CASE j \in Addressed(q)
      <4>1. got'[j] = Append(got[j], q)
        BY <2>1, <3>2
      <4>2. /\ got'[j] \in Seq(Packets) /\ Len(got'[j]) = Len(got[j]) + 1
            /\ \A k \in 1 .. Len(got[j]) : got'[j][k] = got[j][k]
            /\ got'[j][Len(got[j]) + 1] = q
        BY <2>1, <3>1, <4>1, AppendProperties
      <4>. QED
        BY <3>1, <3>2, <4>2
    <3>3. CASE j \notin Addressed(q)
      <4>1. got'[j] = got[j]
        BY <2>1, <3>3
      <4>. QED
        BY <3>1, <3>3, <4>1
    <3>. QED
      BY <3>2, <3>3
  <2>6. Types'
    <3>1. got' = [j \in Ids |-> got'[j]]
      BY <2>1
    <3>. QED
      BY <1>3, <1>4, <2>5, <3>1 DEF Inv, Types
  <2>7. HandedArrived'
    <3>. SUFFICES ASSUME NEW i \in Ids, NEW n \in 1 .. Handed(i)', NEW j \in Addressed(sent[i][n])
         PROVE  \E k \in DOMAIN got'[j] : got'[j][k] = sent[i][n]
      BY <1>3 DEF HandedArrived, Arrived, Addressed
    <3>1. j \in Ids
      BY DEF Addressed
    <3>2. DOMAIN got'[j] = 1 .. Len(got'[j]) /\ DOMAIN got[j] = 1 .. Len(got[j])
      BY <2>5, <3>1
    <3>3. CASE n \in 1 .. Handed(i)
      <4>1. PICK k \in DOMAIN got[j] : got[j][k] = sent[i][n]
        BY <3>3 DEF Inv, HandedArrived, Arrived
      <4>. QED
        BY <2>5, <3>1, <3>2, <4>1
    <3>4. CASE n \notin 1 .. Handed(i)
      <4>1. i = s
        BY <2>4, <3>4
      <4>2. n = Popped(s)
        BY <2>3, <2>4, <3>4, <4>1
      <4>3. sent[i][n] = q /\ j \in Addressed(q)
        BY <2>3, <4>1, <4>2
      <4>. QED
        BY <2>5, <3>1, <3>2, <4>3
    <3>. QED
      BY <3>3, <3>4
  <2>8. OnlyHanded'
    <3>. SUFFICES ASSUME NEW j \in Ids, NEW k \in 1 .. Len(got'[j])
         PROVE  (got[j][k].num \in 1 .. Handed(got[j][k].src))'
      BY DEF OnlyHanded
    <3>1. CASE k \in 1 .. Len(got[j])
      <4>1. k \in DOMAIN got[j] /\ got'[j][k] = got[j][k]
        BY <2>5, <3>1
      <4>2. PICK i \in Ids : i = got[j][k].src
        BY <4>1, GotType DEF Inv
      <4>3. got[j][k].num \in 1 .. Handed(i)
        BY <3>1, <4>2 DEF Inv, OnlyHanded
      <4>4. got[j][k].num \in 1 .. Handed(i)'
        <5>1. CASE i = s
          <6>1. Handed(i)' = Popped(s) /\ Handed(i) = Popped(s) - 1 /\ Popped(s) \in Nat
            BY <2>3, <2>4, <5>1
          <6>. QED
            BY <4>3, <6>1
        <5>2. CASE i # s
          BY <2>4, <4>3, <5>2
        <5>. QED
          BY <5>1, <5>2
      <4>. QED
        BY <4>1, <4>2, <4>4
    <3>2. CASE got'[j][k] = q
      BY <2>2, <2>3, <2>4, <3>2
    <3>. QED
      BY <2>5, <3>1, <3>2
  <2>9. Delivered'
    <3>. SUFFICES ASSUME NEW j \in Ids, NEW k \in DOMAIN got'[j]
         PROVE  LET p == got'[j][k]
                IN  /\ j \in Addressed(p)
                    /\ p.num \in 1 .. Len(sent[p.src]) /\ sent[p.src][p.num] = p
                    /\ \A n \in 1 .. p.num - 1 :
                         j \in Addressed(sent[p.src][n]) =>
                           \E l \in 1 .. k - 1 : got'[j][l] = sent[p.src][n]
                    /\ \A l \in 1 .. k - 1 :
                         got'[j][l].src = p.src => got'[j][l].num < p.num
      BY <1>3 DEF Delivered
    <3>1. k \in 1 .. Len(got'[j])
      BY <2>5
    <3>2. CASE k \in 1 .. Len(got[j])
      <4>1. k \in DOMAIN got[j] /\ \A l \in 1 .. k : got'[j][l] = got[j][l]
        <5>1. /\ got[j] \in Seq(Packets) /\ Len(got[j]) \in Nat
              /\ \A l \in 1 .. Len(got[j]) : got'[j][l] = got[j][l]
          BY <2>5
        <5>2. k \in DOMAIN got[j]
          BY <3>2, <5>1
        <5>3. ASSUME NEW l \in 1 .. k PROVE got'[j][l] = got[j][l]
          <6>1. l \in 1 .. Len(got[j])
            BY <3>2, <5>1
          <6>. QED
            BY <5>1, <6>1
        <5>. QED
          BY <5>2, <5>3
      <4>2. LET p == got[j][k]
            IN  /\ j \in Addressed(p)
                /\ p.num \in 1 .. Len(sent[p.src]) /\ sent[p.src][p.num] = p
                /\ \A n \in 1 .. p.num - 1 :
                     j \in Addressed(sent[p.src][n]) =>
                       \E l \in 1 .. k - 1 : got[j][l] = sent[p.src][n]
                /\ \A l \in 1 .. k - 1 : got[j][l].src = p.src => got[j][l].num < p.num
        BY <4>1 DEF Inv, Delivered
      <4>3. got'[j][k] = got[j][k] /\ \A l \in 1 .. k - 1 : got'[j][l] = got[j][l]
        BY <3>2, <4>1
      <4>. QED
        BY <4>2, <4>3
    <3>3. CASE k = Len(got[j]) + 1 /\ got'[j][k] = q /\ j \in Addressed(q)
      <4>1. k - 1 = Len(got[j])
        BY <2>5, <3>3
      <4>2. ASSUME NEW n \in 1 .. q.num - 1, j \in Addressed(sent[s][n])
            PROVE  \E l \in 1 .. k - 1 : got'[j][l] = sent[s][n]
        <5>1. n \in 1 .. Handed(s)
          BY <2>3
        <5>2. PICK l \in DOMAIN got[j] : got[j][l] = sent[s][n]
          BY <2>2, <4>2, <5>1 DEF Inv, HandedArrived, Arrived
        <5>3. l \in 1 .. Len(got[j])
          BY <2>5
        <5>. QED
          BY <2>5, <4>1, <5>2, <5>3
      <4>3. ASSUME NEW l \in 1 .. k - 1, got'[j][l].src = s
            PROVE  got'[j][l].num < q.num
        <5>1. l \in 1 .. Len(got[j]) /\ got'[j][l] = got[j][l]
          BY <2>5, <4>1
        <5>2. got[j][l].num \in 1 .. Handed(s)
          BY <4>3, <5>1 DEF Inv, OnlyHanded
        <5>. QED
          BY <2>3, <5>1, <5>2
      <4>4. /\ q.src = s /\ q.num \in 1 .. Len(sent[s]) /\ sent[s][q.num] = q
            /\ got'[j][k] = q /\ j \in Addressed(q)
        BY <2>3, <3>3
      <4>. QED
        BY <4>2, <4>3, <4>4
    <3>. QED
      BY <2>5, <3>1, <3>2, <3>3
  <2>. QED
    BY <1>2, <2>6, <2>7, <2>8, <2>9 DEF Inv
<1>. QED
  BY <1>5, <1>6

\* Whatever keeps the promise of a bus delivers: what arrives is, source by source, a
\* prefix of what was sent to that interface, in order and without copies, for any
\* number of interfaces.
THEOREM DeliveredCorrect == Spec => []Delivered
<1>1. Inv /\ [Next]_vars => Inv'
  <2>. SUFFICES ASSUME Inv, [Next]_vars PROVE Inv'
    OBVIOUS
  <2>1. CASE UNCHANGED vars
    <3>1. sent' = sent /\ queue' = queue /\ got' = got /\ held' = held
      BY <2>1 DEF vars
    <3>2. Types'
      BY <3>1 DEF Inv, Types
    <3>3. QueueIsRest'
      BY <3>1 DEF Inv, QueueIsRest, Rest, Popped
    <3>4. HandedArrived'
      <4>1. \A i \in Ids : Handed(i)' = Handed(i)
        BY <3>1 DEF Handed, Popped
      <4>. QED
        BY <3>1, <4>1 DEF Inv, HandedArrived, Arrived, Addressed
    <3>5. OnlyHanded'
      BY <3>1 DEF Inv, OnlyHanded, Handed, Popped
    <3>6. Delivered'
      BY <3>1, SameDelivered DEF Inv
    <3>. QED
      BY <3>2, <3>3, <3>4, <3>5, <3>6 DEF Inv
  <2>2. CASE Next
    BY <2>2, SendInv, TransferInv DEF Next
  <2>. QED
    BY <2>1, <2>2
<1>2. Inv => Delivered
  BY DEF Inv
<1>. QED
  BY InitInv, <1>1, <1>2, PTL DEF Spec
=============================================================================
