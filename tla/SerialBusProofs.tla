--------------------------- MODULE SerialBusProofs ---------------------------
(***************************************************************************)
(* The serial bus for any number of interfaces and any size of packets.    *)
(* Everybody but the writer goes through a transfer in step: Sending(s, p) *)
(* says that as many bits of p as the writer s has counted have arrived in *)
(* the shift registers of all the others, Storing(s, p) that they all hold *)
(* p, and Resetting(s) that they are about to be ready again.              *)
(***************************************************************************)
EXTENDS SerialBus, SequenceTheorems, TLAPS

From(i) == {p \in Packets : p.src = i}

WriteStates == {"rst", "idle", "ld", "pop", "rqst", "bsy", "wrt"}
ReadStates  == {"rst", "rdi", "rd", "cmp", "push", "skip"}

Types ==
  /\ count \in Ids
  /\ wt_st \in [Ids -> WriteStates]
  /\ rd_st \in [Ids -> ReadStates]
  /\ sent \in [Ids -> Seq(Packets)]
  /\ queue \in [Ids -> Seq(Packets)]
  /\ \A i \in Ids : queue[i] \in Seq(From(i))

\* The way of a packet from the FIFO into the shift register.
Loaded ==
  \A i \in Ids :
    /\ wt_st[i] \in {"ld", "pop"} => queue[i] # <<>>
    /\ wt_st[i] = "pop" => sr_w[i] = Word(Head(queue[i]))
    /\ wt_st[i] \in {"rqst", "bsy"} => \E p \in From(i) : sr_w[i] = Word(p)
    /\ wt_st[i] \in {"pop", "rqst", "bsy"} => count_w[i] = 0

\* Who does not read has a register ready for the next word.
Clean == \A j \in Ids : rd_st[j] \in {"rst", "rdi"} => count_r[j] = 0 /\ sr_r[j] = Cleared

\* Who has the bus busy has the turn.
Owner == \A i \in Ids : wt_st[i] \in {"bsy", "wrt"} => count = i

Starting == \A i \in Ids : wt_st[i] = "rst" /\ rd_st[i] = "rst"

Ready == \A j \in Ids : rdi(j) /\ wt_st[j] # "wrt"

\* c bits of p have left the register of the writer; c bits are in that of a reader.
Bits == [of : Packets \union {Zero}, bit : Nat]
Bit(p, k) == [of |-> p, bit |-> k]
Words == {w \in Seq(Bits) : Len(w) = PckgSz}
Rest(w, p, c) ==
  w \in Words /\ \A k \in 1 .. PckgSz : k <= PckgSz - c => w[k] = Bit(p, k + c)
Part(w, p, c) ==
  w \in Words /\ \A k \in 1 .. PckgSz : k > PckgSz - c => w[k] = Bit(p, k - (PckgSz - c))

Sending(s, p) ==
  /\ wt_st[s] = "wrt" /\ rdi(s)
  /\ count_w[s] \in 1 .. PckgSz
  /\ Rest(sr_w[s], p, count_w[s])
  /\ \A j \in Ids : j # s =>
       /\ rd_st[j] = IF count_w[s] = PckgSz THEN "cmp" ELSE "rd"
       /\ count_r[j] = count_w[s]
       /\ Part(sr_r[j], p, count_w[s])

Silent == \A i \in Ids : wt_st[i] \notin {"bsy", "wrt"}

Storing(s, p) ==
  /\ Silent /\ wt_st[s] = "rst" /\ rdi(s)
  /\ \A j \in Ids : j # s =>
       /\ sr_r[j] = Word(p)
       /\ rd_st[j] = IF p.dest \in {j, Bcast} THEN "push" ELSE "skip"

Resetting(s) ==
  /\ Silent /\ wt_st[s] = "idle" /\ rdi(s)
  /\ \A j \in Ids : j # s => rd_st[j] = "rst"

InStep ==
  \/ Starting \/ Ready
  \/ \E s \in Ids : Resetting(s) \/ \E p \in From(s) : Sending(s, p) \/ Storing(s, p)

Inv == Types /\ Loaded /\ Clean /\ Owner /\ InStep

-----------------------------------------------------------------------------
(***************************************************************************)
(* Words and shift registers.                                              *)
(***************************************************************************)
LEMMA ZeroIsNoPacket == Zero \notin Packets
BY DEF Zero, Packets

LEMMA WordTypes ==
  /\ Cleared \in Words
  /\ \A p \in Packets :
       Word(p) \in Words /\ \A k \in 1 .. PckgSz : Word(p)[k] = Bit(p, k)
<1>1. ASSUME NEW f \in [1 .. PckgSz -> Bits] PROVE f \in Words
  <2>1. f \in Seq(Bits)
    BY SizeAssumption, SeqDef
  <2>2. Len(f) = PckgSz
    BY <2>1, SizeAssumption
  <2>. QED
    BY <2>1, <2>2 DEF Words
<1>2. Cleared \in [1 .. PckgSz -> Bits]
  BY DEF Cleared, Blank, Bits
<1>3. ASSUME NEW p \in Packets
      PROVE  /\ Word(p) \in [1 .. PckgSz -> Bits]
             /\ \A k \in 1 .. PckgSz : Word(p)[k] = Bit(p, k)
  BY SizeAssumption DEF Word, Bits, Bit
<1>. QED
  BY <1>1, <1>2, <1>3

LEMMA WordHead ==
  ASSUME NEW w \in Words
  PROVE  Head(w) = w[1] /\ w[1] \in Bits
<1>1. w \in Seq(Bits) /\ Len(w) > 0
  BY SizeAssumption DEF Words
<1>. QED
  BY <1>1

LEMMA HeadOfWord ==
  ASSUME NEW p \in Packets
  PROVE  Head(Word(p)) = Bit(p, 1)
<1>1. Word(p) \in Words /\ Word(p)[1] = Bit(p, 1)
  BY WordTypes, SizeAssumption
<1>. QED
  BY <1>1, WordHead

LEMMA ShiftedWord ==
  ASSUME NEW w \in Words, NEW b \in Bits
  PROVE  /\ Shifted(w, b) \in Words
         /\ \A k \in 1 .. PckgSz : Shifted(w, b)[k] = IF k = PckgSz THEN b ELSE w[k + 1]
<1>1. w \in Seq(Bits) /\ Len(w) = PckgSz /\ w # <<>>
  <2>1. w \in Seq(Bits) /\ Len(w) = PckgSz /\ PckgSz > 0
    BY SizeAssumption DEF Words
  <2>2. Len(<<>>) = 0
    OBVIOUS
  <2>. QED
    BY <2>1, <2>2
<1>2. PICK t : t = Tail(w)
  OBVIOUS
<1>3. /\ t \in Seq(Bits) /\ Len(t) = PckgSz - 1
      /\ \A k \in 1 .. PckgSz - 1 : t[k] = w[k + 1]
  BY <1>1, <1>2, HeadTailProperties
<1>4. Append(t, b) \in Seq(Bits) /\ Len(Append(t, b)) = PckgSz
  BY <1>3, SizeAssumption, AppendProperties
<1>5. \A k \in 1 .. PckgSz : Append(t, b)[k] = IF k = PckgSz THEN b ELSE t[k]
  BY <1>3, SizeAssumption, AppendProperties
<1>. QED
  BY <1>2, <1>3, <1>4, <1>5, SizeAssumption DEF Shifted, Words

LEMMA ShiftOut ==
  ASSUME NEW p \in Packets, NEW c \in 0 .. PckgSz - 1, NEW w, Rest(w, p, c)
  PROVE  Rest(Shifted(w, Blank), p, c + 1) /\ Head(w) = Bit(p, c + 1)
<1>1. w \in Words /\ Blank \in Bits
  BY DEF Rest, Blank, Bits
<1>2. ASSUME NEW k \in 1 .. PckgSz, k <= PckgSz - (c + 1)
      PROVE  Shifted(w, Blank)[k] = Bit(p, k + (c + 1))
  <2>1. k # PckgSz /\ k + 1 \in 1 .. PckgSz /\ k + 1 <= PckgSz - c
    BY <1>2, SizeAssumption
  <2>2. Shifted(w, Blank)[k] = w[k + 1]
    BY <1>1, <2>1, ShiftedWord
  <2>3. w[k + 1] = Bit(p, (k + 1) + c)
    BY <2>1 DEF Rest
  <2>4. (k + 1) + c = k + (c + 1)
    BY SizeAssumption
  <2>. QED
    BY <2>2, <2>3, <2>4
<1>3. Head(w) = Bit(p, c + 1)
  <2>1. 1 \in 1 .. PckgSz /\ 1 <= PckgSz - c /\ 1 + c = c + 1
    BY SizeAssumption
  <2>. QED
    BY <1>1, <2>1, WordHead DEF Rest
<1>. QED
  BY <1>1, <1>2, <1>3, ShiftedWord DEF Rest

LEMMA ShiftIn ==
  ASSUME NEW p \in Packets, NEW c \in 0 .. PckgSz - 1, NEW w, Part(w, p, c)
  PROVE  Part(Shifted(w, Bit(p, c + 1)), p, c + 1)
<1>1. w \in Words /\ Bit(p, c + 1) \in Bits
  BY SizeAssumption DEF Part, Bit, Bits
<1>2. ASSUME NEW k \in 1 .. PckgSz, k > PckgSz - (c + 1)
      PROVE  Shifted(w, Bit(p, c + 1))[k] = Bit(p, k - (PckgSz - (c + 1)))
  <2>1. CASE k = PckgSz
    <3>1. k - (PckgSz - (c + 1)) = c + 1
      BY <2>1, SizeAssumption
    <3>. QED
      BY <1>1, <2>1, <3>1, ShiftedWord
  <2>2. CASE k # PckgSz
    <3>1. k + 1 \in 1 .. PckgSz /\ k + 1 > PckgSz - c
      BY <1>2, <2>2, SizeAssumption
    <3>2. Shifted(w, Bit(p, c + 1))[k] = w[k + 1]
      BY <1>1, <2>2, ShiftedWord
    <3>3. w[k + 1] = Bit(p, (k + 1) - (PckgSz - c))
      BY <3>1 DEF Part
    <3>4. (k + 1) - (PckgSz - c) = k - (PckgSz - (c + 1))
      BY SizeAssumption
    <3>. QED
      BY <3>2, <3>3, <3>4
  <2>. QED
    BY <2>1, <2>2
<1>. QED
  BY <1>1, <1>2, ShiftedWord DEF Part

\* Before the first bit everything is still in one register, and after the last one
\* everything in the other.
LEMMA WordRest ==
  ASSUME NEW p \in Packets
  PROVE  Rest(Word(p), p, 0) /\ Part(Cleared, p, 0)
<1>1. \A k \in 1 .. PckgSz : k + 0 = k /\ ~ (k > PckgSz - 0)
  BY SizeAssumption
<1>. QED
  BY <1>1, WordTypes DEF Rest, Part

LEMMA PartIsWord ==
  ASSUME NEW p \in Packets, NEW w, Part(w, p, PckgSz)
  PROVE  w = Word(p)
<1>1. w \in Seq(Bits) /\ Len(w) = PckgSz /\ Word(p) \in Seq(Bits) /\ Len(Word(p)) = PckgSz
  BY WordTypes DEF Part, Words
<1>2. ASSUME NEW k \in 1 .. PckgSz PROVE w[k] = Word(p)[k]
  <2>1. k > PckgSz - PckgSz /\ k - (PckgSz - PckgSz) = k
    BY SizeAssumption
  <2>2. w[k] = Bit(p, k)
    BY <2>1 DEF Part
  <2>. QED
    BY <2>2, WordTypes
<1>. QED
  BY <1>1, <1>2, SeqEqual

LEMMA PartLast ==
  ASSUME NEW p \in Packets, NEW c \in 1 .. PckgSz, NEW w, Part(w, p, c)
  PROVE  w[PckgSz].of = p
<1>1. PckgSz \in 1 .. PckgSz /\ PckgSz > PckgSz - c
  BY SizeAssumption
<1>2. w[PckgSz] = Bit(p, PckgSz - (PckgSz - c))
  BY <1>1 DEF Part
<1>. QED
  BY <1>2 DEF Bit

LEMMA AfterType == ASSUME NEW i \in Ids PROVE After(i) \in Ids
<1>. USE BusAssumption DEF Ids, After
<1>1. CASE i + 1 < Drvrs
  <2>1. (i + 1) % Drvrs = i + 1
    BY <1>1, SMTT(30)
  <2>. QED
    BY <1>1, <2>1, SMTT(30)
<1>2. CASE i + 1 = Drvrs
  <2>1. (i + 1) % Drvrs = 0
    BY <1>2, SMTT(30)
  <2>. QED
    BY <1>2, <2>1, SMTT(30)
<1>. QED
  BY <1>1, <1>2, SMTT(30)

\* On every bus there is somebody to read.
LEMMA Others == ASSUME NEW i \in Ids PROVE \E j \in Ids : j # i
BY BusAssumption DEF Ids

LEMMA InitInv == Init => Inv
<1>. SUFFICES ASSUME Init PROVE Inv
  OBVIOUS
<1>1. 0 \in Ids
  BY BusAssumption, SMT DEF Ids
<1>2. \A i \in Ids : queue[i] = <<>> /\ <<>> \in Seq(From(i))
  BY EmptySeq DEF Init, PacketsInit
<1>3. Types
  BY <1>1, <1>2, EmptySeq DEF Init, PacketsInit, Types, WriteStates, ReadStates
<1>4. \A i \in Ids : /\ wt_st[i] = "rst" /\ rd_st[i] = "rst"
                     /\ count_r[i] = 0 /\ sr_r[i] = Cleared
  BY DEF Init
<1>5. Loaded /\ Clean /\ Owner /\ Starting
  BY <1>4 DEF Loaded, Clean, Owner, Starting
<1>. QED
  BY <1>3, <1>5 DEF Inv, InStep

-----------------------------------------------------------------------------
(***************************************************************************)
(* What an edge does, machine by machine and register by register.         *)
(***************************************************************************)
LEMMA WriteMachine ==
  ASSUME Types, Edge, NEW i \in Ids
  PROVE  /\ wt_st[i] \in WriteStates
         /\ wt_st[i] = "rst"  => wt_st'[i] = "idle"
         /\ wt_st[i] = "idle" => wt_st'[i] = IF Pndng(i) THEN "ld" ELSE "idle"
         /\ wt_st[i] = "ld"   => wt_st'[i] = "pop"
         /\ wt_st[i] = "pop"  => wt_st'[i] = "rqst"
         /\ wt_st[i] = "rqst" =>
              wt_st'[i] = IF i \in bs_grnt /\ rdi(i) THEN "bsy" ELSE "rqst"
         /\ wt_st[i] = "bsy"  => wt_st'[i] = "wrt"
         /\ wt_st[i] = "wrt"  => wt_st'[i] = IF count_w[i] = PckgSz THEN "rst" ELSE "wrt"
<1>1. wt_st'[i] = nxt_wt(i) /\ wt_st[i] \in WriteStates
  BY DEF Edge, Types
<1>. QED
  BY <1>1 DEF nxt_wt, WriteStates

LEMMA WriteRegisters ==
  ASSUME Edge, NEW i \in Ids
  PROVE  /\ count_w'[i] = IF wt_st'[i] \in {"rst", "ld", "pop"} THEN 0
                          ELSE IF "wrt" \in {wt_st[i], wt_st'[i]} THEN count_w[i] + 1
                          ELSE count_w[i]
         /\ sr_w'[i] = IF wt_st'[i] = "rst" THEN Cleared
                       ELSE IF "ld" \in {wt_st[i], wt_st'[i]} THEN Word(Head(queue[i]))
                       ELSE IF "wrt" \in {wt_st[i], wt_st'[i]} THEN Shifted(sr_w[i], Blank)
                       ELSE sr_w[i]
         /\ queue'[i] = IF wt_st[i] = "pop" THEN Tail(queue[i]) ELSE queue[i]
BY DEF Edge, CountW, ShiftW, PopAll, Rises

LEMMA ReadMachine ==
  ASSUME Types, Edge, NEW j \in Ids
  PROVE  /\ rd_st[j] \in ReadStates
         /\ rd_st[j] = "rst" => rd_st'[j] = "rdi"
         /\ rd_st[j] = "rdi" =>
              rd_st'[j] = IF j \notin bs_grnt /\ bs_bsy THEN "rd" ELSE "rdi"
         /\ rd_st[j] = "rd" =>
              rd_st'[j] = IF count_r[j] = PckgSz - 1 THEN "cmp" ELSE "rd"
         /\ rd_st[j] = "cmp" => rd_st'[j] = IF ForMe(j) THEN "push" ELSE "skip"
         /\ rd_st[j] \in {"push", "skip"} => rd_st'[j] = "rst"
<1>1. rd_st'[j] = nxt_rd(j) /\ rd_st[j] \in ReadStates
  BY DEF Edge, Types
<1>. QED
  BY <1>1 DEF nxt_rd, ReadStates

LEMMA ReadRegisters ==
  ASSUME Edge, NEW j \in Ids
  PROVE  /\ count_r'[j] = IF rd_st'[j] = "rst" THEN 0
                          ELSE IF "rd" \in {rd_st[j], rd_st'[j]} THEN count_r[j] + 1
                          ELSE count_r[j]
         /\ sr_r'[j] = IF rd_st'[j] = "rst" THEN Cleared
                       ELSE IF "rd" \in {rd_st[j], rd_st'[j]} THEN Shifted(sr_r[j], bus)
                       ELSE sr_r[j]
BY DEF Edge, CountR, ShiftR, Rises

\* The arbiter: a grant lasts as long as the request.
LEMMA Turn ==
  ASSUME Types, Edge
  PROVE  /\ count' \in Ids
         /\ wt_st[count] \in Requesting /\ wt_st'[count] \in Requesting => count' = count
<1>1. count \in Ids /\ After(count) \in Ids /\ After(After(count)) \in Ids
  BY AfterType DEF Types
<1>2. count' \in NextTurns
  BY DEF Edge
<1>3. count' \in {count, After(count), After(After(count))}
  BY <1>2 DEF NextTurns
<1>4. ASSUME wt_st[count] \in Requesting, wt_st'[count] \in Requesting PROVE count' = count
  <2>1. count \in bs_grnt /\ count \in {i \in Ids : wt_st'[i] \in Requesting}
    BY <1>1, <1>4 DEF bs_grnt, bs_rqst
  <2>. QED
    BY <1>2, <2>1 DEF NextTurns
<1>. QED
  BY <1>1, <1>3, <1>4

LEMMA OwnerEdge ==
  ASSUME Types, Owner, Edge
  PROVE  Owner'
<1>. SUFFICES ASSUME NEW i \in Ids, wt_st'[i] \in {"bsy", "wrt"}
     PROVE  count' = i
  BY DEF Owner
<1>1. wt_st[i] \in {"rqst", "bsy", "wrt"}
  BY WriteMachine DEF WriteStates
<1>2. count = i
  <2>1. CASE wt_st[i] = "rqst"
    BY <2>1, WriteMachine DEF bs_grnt
  <2>2. CASE wt_st[i] # "rqst"
    BY <1>1, <2>2 DEF Owner
  <2>. QED
    BY <2>1, <2>2
<1>. QED
  BY <1>1, <1>2, Turn DEF Requesting

\* What is on the wires while the owner of the bus has it busy, and otherwise.
LEMMA Busy ==
  ASSUME Types, Owner, NEW s \in Ids, wt_st[s] \in {"bsy", "wrt"}
  PROVE  /\ count = s /\ bs_grnt = {s} /\ bs_bsy /\ bus = Head(sr_w[s])
         /\ \A i \in Ids : i # s => wt_st[i] \notin {"bsy", "wrt"}
<1>1. count = s /\ \A i \in Ids : i # s => wt_st[i] \notin {"bsy", "wrt"}
  BY DEF Owner
<1>2. bs_grnt = {s}
  BY <1>1 DEF bs_grnt, bs_rqst, Requesting
<1>3. (CHOOSE i \in {s} : TRUE) = s
  OBVIOUS
<1>. QED
  BY <1>1, <1>2, <1>3 DEF bs_bsy, bus

LEMMA NotBusy ==
  ASSUME Silent
  PROVE  ~ bs_bsy
BY DEF bs_bsy, Silent, bs_grnt, bs_rqst

-----------------------------------------------------------------------------
(***************************************************************************)
(* The phases of a transfer.                                               *)
(***************************************************************************)
LEMMA StartingEdge ==
  ASSUME Types, Starting, Edge
  PROVE  Ready' /\ Silent'
BY WriteMachine, ReadMachine DEF Starting, Ready, Silent, rdi

LEMMA ReadyEdge ==
  ASSUME Types, Loaded, Clean, Owner, Ready, Edge
  PROVE  /\ ~ bs_bsy => Ready'
         /\ bs_bsy => \E s \in Ids :
                        /\ s = count /\ wt_st[s] = "bsy"
                        /\ \E p \in From(s) : sr_w[s] = Word(p) /\ Sending(s, p)'
<1>1. CASE ~ bs_bsy
  <2>1. ASSUME NEW i \in Ids PROVE rd_st'[i] = "rdi" /\ wt_st'[i] # "wrt"
    <3>1. rd_st'[i] = "rdi"
      BY <1>1, ReadMachine DEF Ready, rdi
    <3>2. wt_st[i] # "bsy" /\ wt_st[i] # "wrt"
      BY <1>1, Busy DEF Ready
    <3>. QED
      BY <3>1, <3>2, WriteMachine DEF WriteStates
  <2>. QED
    BY <1>1, <2>1 DEF Ready, rdi
<1>2. CASE bs_bsy
  <2>1. PICK s \in Ids : s = count /\ wt_st[s] = "bsy"
    BY <1>2 DEF bs_bsy, bs_grnt, bs_rqst, Ready
  <2>2. bs_grnt = {s} /\ bus = Head(sr_w[s])
    BY <2>1, Busy
  <2>3. PICK p \in From(s) : sr_w[s] = Word(p) /\ count_w[s] = 0
    BY <2>1 DEF Loaded
  <2>4. p \in Packets
    BY DEF From
  <2>5. bus = Bit(p, 0 + 1) /\ Rest(Shifted(sr_w[s], Blank), p, 0 + 1)
    <3>1. 0 \in 0 .. PckgSz - 1
      BY SizeAssumption
    <3>. QED
      BY <2>2, <2>3, <2>4, <3>1, WordRest, ShiftOut
  <2>6. wt_st'[s] = "wrt" /\ rd_st'[s] = "rdi"
    BY <2>1, <2>2, WriteMachine, ReadMachine DEF Ready, rdi
  <2>7. count_w'[s] = 1 /\ sr_w'[s] = Shifted(sr_w[s], Blank)
    BY <2>1, <2>3, <2>6, WriteRegisters
  <2>8. ASSUME NEW j \in Ids, j # s
        PROVE  rd_st'[j] = "rd" /\ count_r'[j] = 1 /\ Part(sr_r'[j], p, 1)
    <3>1. rd_st[j] = "rdi" /\ rd_st'[j] = "rd"
      BY <1>2, <2>2, <2>8, ReadMachine DEF Ready, rdi
    <3>2. count_r[j] = 0 /\ sr_r[j] = Cleared
      BY <3>1 DEF Clean
    <3>3. count_r'[j] = 0 + 1 /\ sr_r'[j] = Shifted(Cleared, Bit(p, 0 + 1))
      BY <2>5, <3>1, <3>2, ReadRegisters
    <3>4. Part(Shifted(Cleared, Bit(p, 0 + 1)), p, 0 + 1)
      <4>1. 0 \in 0 .. PckgSz - 1
        BY SizeAssumption
      <4>. QED
        BY <2>4, <4>1, WordRest, ShiftIn
    <3>. QED
      BY <3>1, <3>3, <3>4
  <2>9. Rest(sr_w'[s], p, 1)
    BY <2>5, <2>7
  <2>10. 1 \in 1 .. PckgSz /\ 1 # PckgSz
    BY SizeAssumption
  <2>11. Sending(s, p)'
    BY <2>6, <2>7, <2>8, <2>9, <2>10 DEF Sending, rdi, Rest, Part
  <2>. QED
    BY <1>2, <2>1, <2>3, <2>11
<1>. QED
  BY <1>1, <1>2

LEMMA SendingEdge ==
  ASSUME Types, Owner, Edge, NEW s \in Ids, NEW p \in From(s), Sending(s, p)
  PROVE  IF count_w[s] = PckgSz THEN Storing(s, p)' ELSE Sending(s, p)'
<1>1. p \in Packets /\ p.src = s
  BY DEF From
<1>2. /\ count = s /\ bs_grnt = {s} /\ bus = Head(sr_w[s])
      /\ \A i \in Ids : i # s => wt_st[i] \notin {"bsy", "wrt"}
  BY Busy DEF Sending
<1>3. rd_st'[s] = "rdi"
  BY <1>2, ReadMachine DEF Sending, rdi
<1>4. PICK c : c = count_w[s]
  OBVIOUS
<1>5. /\ wt_st[s] = "wrt" /\ c \in 1 .. PckgSz /\ Rest(sr_w[s], p, c)
      /\ \A j \in Ids : j # s => /\ rd_st[j] = IF c = PckgSz THEN "cmp" ELSE "rd"
                                 /\ count_r[j] = c /\ Part(sr_r[j], p, c)
  BY <1>4 DEF Sending
<1>6. CASE c = PckgSz
  <2>1. wt_st'[s] = "rst"
    BY <1>4, <1>5, <1>6, WriteMachine
  <2>2. ASSUME NEW j \in Ids, j # s
        PROVE  /\ sr_r'[j] = Word(p)
               /\ rd_st'[j] = IF p.dest \in {j, Bcast} THEN "push" ELSE "skip"
    <3>1. rd_st[j] = "cmp" /\ sr_r[j] = Word(p)
      BY <1>1, <1>5, <1>6, <2>2, PartIsWord
    <3>2. ForMe(j) <=> p.dest \in {j, Bcast}
      BY <1>1, <3>1, HeadOfWord DEF ForMe, Bit
    <3>3. rd_st'[j] = IF p.dest \in {j, Bcast} THEN "push" ELSE "skip"
      BY <3>1, <3>2, ReadMachine
    <3>4. sr_r'[j] = sr_r[j]
      BY <3>1, <3>3, ReadRegisters
    <3>. QED
      BY <3>1, <3>3, <3>4
  <2>3. Silent'
    <3>1. ASSUME NEW i \in Ids, i # s PROVE wt_st'[i] \notin {"bsy", "wrt"}
      BY <1>2, <3>1, WriteMachine DEF WriteStates
    <3>. QED
      BY <2>1, <3>1 DEF Silent
  <2>4. Word(p)' = Word(p)
    BY DEF Word
  <2>5. Storing(s, p)'
    BY <1>3, <2>1, <2>2, <2>3, <2>4 DEF Storing, rdi
  <2>. QED
    BY <1>4, <1>6, <2>5
<1>7. CASE c # PckgSz
  <2>1. /\ c \in 0 .. PckgSz - 1 /\ c + 1 \in 1 .. PckgSz
        /\ (c = PckgSz - 1) <=> (c + 1 = PckgSz)
    BY <1>5, <1>7, SizeAssumption
  <2>2. wt_st'[s] = "wrt"
    BY <1>4, <1>5, <1>7, WriteMachine
  <2>3. count_w'[s] = c + 1 /\ sr_w'[s] = Shifted(sr_w[s], Blank)
    BY <1>4, <1>5, <2>2, WriteRegisters
  <2>4. Rest(Shifted(sr_w[s], Blank), p, c + 1) /\ bus = Bit(p, c + 1)
    BY <1>1, <1>2, <1>5, <2>1, ShiftOut
  <2>5. ASSUME NEW j \in Ids, j # s
        PROVE  /\ rd_st'[j] = IF c + 1 = PckgSz THEN "cmp" ELSE "rd"
               /\ count_r'[j] = c + 1 /\ Part(sr_r'[j], p, c + 1)
    <3>1. rd_st[j] = "rd" /\ count_r[j] = c /\ Part(sr_r[j], p, c)
      BY <1>5, <1>7, <2>5
    <3>2. rd_st'[j] = IF c + 1 = PckgSz THEN "cmp" ELSE "rd"
      BY <2>1, <3>1, ReadMachine
    <3>3. count_r'[j] = c + 1 /\ sr_r'[j] = Shifted(sr_r[j], Bit(p, c + 1))
      BY <2>4, <3>1, <3>2, ReadRegisters
    <3>. QED
      BY <1>1, <2>1, <3>1, <3>2, <3>3, ShiftIn
  <2>6. Rest(sr_w'[s], p, c + 1)
    BY <2>3, <2>4
  <2>7. Sending(s, p)'
    BY <1>3, <2>1, <2>2, <2>3, <2>5, <2>6 DEF Sending, rdi, Rest, Part
  <2>. QED
    BY <1>4, <1>7, <2>7
<1>. QED
  BY <1>6, <1>7

LEMMA StoringEdge ==
  ASSUME Types, Edge, NEW s \in Ids, NEW p \in From(s), Storing(s, p)
  PROVE  Resetting(s)'
<1>1. ~ bs_bsy
  BY NotBusy DEF Storing
<1>2. wt_st'[s] = "idle" /\ rd_st'[s] = "rdi"
  BY <1>1, WriteMachine, ReadMachine DEF Storing, rdi
<1>3. ASSUME NEW j \in Ids, j # s
      PROVE  rd_st'[j] = "rst" /\ wt_st'[j] \notin {"bsy", "wrt"}
  <2>1. rd_st[j] \in {"push", "skip"} /\ wt_st[j] \notin {"bsy", "wrt"}
    BY <1>3 DEF Storing, Silent
  <2>2. ~ rdi(j)
    BY <2>1 DEF rdi
  <2>. QED
    BY <2>1, <2>2, WriteMachine, ReadMachine DEF WriteStates
<1>. QED
  BY <1>2, <1>3 DEF Resetting, Silent, rdi

LEMMA ResettingEdge ==
  ASSUME Types, Edge, NEW s \in Ids, Resetting(s)
  PROVE  Ready' /\ Silent'
<1>1. ~ bs_bsy
  BY NotBusy DEF Resetting
<1>2. ASSUME NEW j \in Ids
      PROVE  rd_st'[j] = "rdi" /\ wt_st'[j] \notin {"bsy", "wrt"}
  <2>1. CASE j = s
    BY <1>1, <2>1, WriteMachine, ReadMachine DEF Resetting, rdi
  <2>2. CASE j # s
    <3>1. rd_st[j] = "rst" /\ wt_st[j] \notin {"bsy", "wrt"}
      BY <2>2 DEF Resetting, Silent
    <3>2. ~ rdi(j)
      BY <3>1 DEF rdi
    <3>. QED
      BY <3>1, <3>2, WriteMachine, ReadMachine DEF WriteStates
  <2>. QED
    BY <2>1, <2>2
<1>. QED
  BY <1>2 DEF Ready, Silent, rdi

-----------------------------------------------------------------------------
(***************************************************************************)
(* The invariant is kept, conjunct by conjunct.                            *)
(***************************************************************************)
LEMMA InStepEdge ==
  ASSUME Types, Loaded, Clean, Owner, InStep, Edge
  PROVE  InStep'
<1>1. CASE Starting
  BY <1>1, StartingEdge DEF InStep
<1>2. CASE Ready
  <2>1. CASE ~ bs_bsy
    BY <1>2, <2>1, ReadyEdge DEF InStep
  <2>2. CASE bs_bsy
    <3>1. PICK s \in Ids : \E p \in From(s) : Sending(s, p)'
      BY <1>2, <2>2, ReadyEdge
    <3>2. Ids' = Ids /\ From(s)' = From(s)
      BY DEF Ids, From, Packets, Headers
    <3>. QED
      BY <3>1, <3>2 DEF InStep
  <2>. QED
    BY <2>1, <2>2
<1>3. ASSUME NEW s \in Ids, Resetting(s) PROVE InStep'
  BY <1>3, ResettingEdge DEF InStep
<1>4. ASSUME NEW s \in Ids, NEW p \in From(s), Sending(s, p) PROVE InStep'
  <2>1. Storing(s, p)' \/ Sending(s, p)'
    BY <1>4, SendingEdge
  <2>2. Ids' = Ids /\ From(s)' = From(s)
    BY DEF Ids, From, Packets, Headers
  <2>. QED
    BY <2>1, <2>2 DEF InStep
<1>5. ASSUME NEW s \in Ids, NEW p \in From(s), Storing(s, p) PROVE InStep'
  <2>1. Resetting(s)'
    BY <1>5, StoringEdge
  <2>2. Ids' = Ids
    BY DEF Ids
  <2>. QED
    BY <2>1, <2>2 DEF InStep
<1>. QED
  BY <1>1, <1>2, <1>3, <1>4, <1>5 DEF InStep

LEMMA LoadedEdge ==
  ASSUME Types, Loaded, Edge
  PROVE  Loaded'
<1>. SUFFICES ASSUME NEW i \in Ids
     PROVE  /\ wt_st'[i] \in {"ld", "pop"} => queue'[i] # <<>>
            /\ wt_st'[i] = "pop" => sr_w'[i] = Word(Head(queue'[i]))
            /\ wt_st'[i] \in {"rqst", "bsy"} => \E p \in From(i) : sr_w'[i] = Word(p)
            /\ wt_st'[i] \in {"pop", "rqst", "bsy"} => count_w'[i] = 0
  BY DEF Loaded, Word
<1>1. CASE wt_st'[i] = "ld"
  <2>1. wt_st[i] = "idle" /\ Pndng(i)
    BY <1>1, WriteMachine DEF WriteStates
  <2>2. queue'[i] = queue[i]
    BY <2>1, WriteRegisters
  <2>. QED
    BY <1>1, <2>1, <2>2 DEF Pndng
<1>2. CASE wt_st'[i] = "pop"
  <2>1. wt_st[i] = "ld"
    BY <1>2, WriteMachine DEF WriteStates
  <2>2. queue'[i] = queue[i] /\ sr_w'[i] = Word(Head(queue[i])) /\ count_w'[i] = 0
    BY <1>2, <2>1, WriteRegisters
  <2>3. queue[i] # <<>>
    BY <2>1 DEF Loaded
  <2>. QED
    BY <1>2, <2>2, <2>3
<1>3. CASE wt_st'[i] = "rqst" /\ wt_st[i] = "pop"
  <2>1. sr_w'[i] = sr_w[i] /\ count_w'[i] = count_w[i]
    BY <1>3, WriteRegisters
  <2>2. sr_w[i] = Word(Head(queue[i])) /\ count_w[i] = 0 /\ queue[i] # <<>>
    BY <1>3 DEF Loaded
  <2>3. Head(queue[i]) \in From(i)
    <3>1. queue[i] \in Seq(From(i))
      BY DEF Types
    <3>. QED
      BY <2>2, <3>1, HeadTailProperties
  <2>. QED
    BY <1>3, <2>1, <2>2, <2>3
<1>4. CASE wt_st'[i] \in {"rqst", "bsy"} /\ wt_st[i] = "rqst"
  <2>1. sr_w'[i] = sr_w[i] /\ count_w'[i] = count_w[i]
    BY <1>4, WriteRegisters
  <2>2. count_w[i] = 0 /\ \E p \in From(i) : sr_w[i] = Word(p)
    BY <1>4 DEF Loaded
  <2>. QED
    BY <1>4, <2>1, <2>2
<1>5. wt_st'[i] = "rqst" => wt_st[i] \in {"pop", "rqst"}
  BY WriteMachine DEF WriteStates
<1>6. wt_st'[i] = "bsy" => wt_st[i] = "rqst"
  BY WriteMachine DEF WriteStates
<1>. QED
  BY <1>1, <1>2, <1>3, <1>4, <1>5, <1>6

LEMMA CleanEdge ==
  ASSUME Types, Clean, Edge
  PROVE  Clean'
<1>. SUFFICES ASSUME NEW j \in Ids, rd_st'[j] \in {"rst", "rdi"}
     PROVE  count_r'[j] = 0 /\ sr_r'[j] = Cleared
  BY DEF Clean, Cleared, Blank, Zero
<1>1. CASE rd_st'[j] = "rst"
  BY <1>1, ReadRegisters
<1>2. CASE rd_st'[j] = "rdi"
  <2>1. rd_st[j] \in {"rst", "rdi"}
    BY <1>2, ReadMachine DEF ReadStates
  <2>2. count_r[j] = 0 /\ sr_r[j] = Cleared
    BY <2>1 DEF Clean
  <2>3. count_r'[j] = count_r[j] /\ sr_r'[j] = sr_r[j]
    BY <1>2, <2>1, ReadRegisters
  <2>. QED
    BY <2>2, <2>3
<1>. QED
  BY <1>1, <1>2

LEMMA EdgeTypes ==
  ASSUME Types, Loaded, Edge
  PROVE  Types'
<1>1. count' \in Ids
  BY Turn
<1>2. wt_st' \in [Ids -> WriteStates]
  <2>1. wt_st' = [i \in Ids |-> wt_st'[i]]
    BY DEF Edge
  <2>2. \A i \in Ids : wt_st'[i] \in WriteStates
    BY WriteMachine DEF WriteStates
  <2>. QED
    BY <2>1, <2>2
<1>3. rd_st' \in [Ids -> ReadStates]
  <2>1. rd_st' = [i \in Ids |-> rd_st'[i]]
    BY DEF Edge
  <2>2. \A i \in Ids : rd_st'[i] \in ReadStates
    BY ReadMachine DEF ReadStates
  <2>. QED
    BY <2>1, <2>2
<1>4. sent' \in [Ids -> Seq(Packets)]
  BY DEF Edge, PopAll, Types
<1>5. ASSUME NEW i \in Ids
      PROVE  queue'[i] \in Seq(Packets) /\ queue'[i] \in Seq(From(i))
  <2>1. queue'[i] = IF wt_st[i] = "pop" THEN Tail(queue[i]) ELSE queue[i]
    BY WriteRegisters
  <2>2. wt_st[i] = "pop" => queue[i] # <<>>
    BY DEF Loaded
  <2>3. queue[i] \in Seq(Packets) /\ queue[i] \in Seq(From(i))
    BY DEF Types
  <2>. QED
    BY <2>1, <2>2, <2>3, HeadTailProperties
<1>6. queue' = [i \in Ids |-> queue'[i]]
  BY DEF Edge, PopAll
<1>7. queue' \in [Ids -> Seq(Packets)]
  BY <1>5, <1>6
<1>. QED
  BY <1>1, <1>2, <1>3, <1>4, <1>5, <1>7 DEF Types, From

\* What the FIFOs do between the edges concerns neither machines nor registers.
LEMMA Undisturbed ==
  ASSUME UNCHANGED <<machines, registers>>, Clean, Owner, InStep
  PROVE  Clean' /\ Owner' /\ InStep'
<1>1. /\ count' = count /\ wt_st' = wt_st /\ rd_st' = rd_st
      /\ count_w' = count_w /\ count_r' = count_r /\ sr_w' = sr_w /\ sr_r' = sr_r
  BY DEF machines, registers
<1>2. Clean' /\ Owner'
  BY <1>1 DEF Clean, Owner
<1>3. (Starting => Starting') /\ (Ready => Ready')
  BY <1>1 DEF Starting, Ready, rdi
<1>4. Silent => Silent'
  BY <1>1 DEF Silent
<1>5. ASSUME NEW s \in Ids, Resetting(s) PROVE Resetting(s)'
  BY <1>1, <1>4, <1>5 DEF Resetting, rdi
<1>6. ASSUME NEW s \in Ids, NEW p \in From(s), Sending(s, p) PROVE Sending(s, p)'
  BY <1>1, <1>6 DEF Sending, rdi, Rest, Part
<1>7. ASSUME NEW s \in Ids, NEW p \in From(s), Storing(s, p) PROVE Storing(s, p)'
  BY <1>1, <1>4, <1>7 DEF Storing, rdi
<1>. QED
  BY <1>2, <1>3, <1>5, <1>6, <1>7 DEF InStep

\* A packet more in a queue leaves its head alone.
LEMMA SendInv ==
  ASSUME Inv, NEW s \in Ids, NEW d \in Headers,
         Send(s, d), UNCHANGED <<machines, registers>>
  PROVE  Inv'
<1>. DEFINE p == [src |-> s, num |-> Len(sent[s]) + 1, dest |-> d]
<1>1. /\ sent' = [sent EXCEPT ![s] = Append(@, p)]
      /\ queue' = [queue EXCEPT ![s] = Append(@, p)]
      /\ count' = count /\ wt_st' = wt_st /\ rd_st' = rd_st
      /\ count_w' = count_w /\ sr_w' = sr_w
  BY DEF Send, machines, registers
<1>2. p \in Packets /\ p \in From(s)
  BY DEF Packets, From, Inv, Types
<1>. HIDE DEF p
<1>3. Types'
  BY <1>1, <1>2, AppendProperties DEF Inv, Types
<1>4. Loaded'
  <2>. SUFFICES ASSUME NEW i \in Ids
       PROVE  /\ wt_st[i] \in {"ld", "pop"} => queue'[i] # <<>>
              /\ wt_st[i] = "pop" => sr_w[i] = Word(Head(queue'[i]))
              /\ wt_st[i] \in {"rqst", "bsy"} => \E q \in From(i) : sr_w[i] = Word(q)
              /\ wt_st[i] \in {"pop", "rqst", "bsy"} => count_w[i] = 0
    BY <1>1 DEF Loaded
  <2>1. queue[i] \in Seq(Packets)
    BY DEF Inv, Types
  <2>2. queue'[i] = queue[i] \/ queue'[i] = Append(queue[i], p)
    BY <1>1 DEF Inv, Types
  <2>3. queue[i] # <<>> => queue'[i] # <<>> /\ Head(queue'[i]) = Head(queue[i])
    BY <1>2, <2>1, <2>2, AppendProperties, HeadTailProperties
  <2>. QED
    BY <2>3 DEF Inv, Loaded
<1>. QED
  BY <1>3, <1>4, Undisturbed DEF Inv

LEMMA StepInv == Inv /\ [Next]_vars => Inv'
<1>. SUFFICES ASSUME Inv, [Next]_vars PROVE Inv'
  OBVIOUS
<1>1. CASE UNCHANGED vars
  <2>1. Types' /\ Loaded' /\ UNCHANGED <<machines, registers>>
    BY <1>1 DEF vars, machines, registers, Inv, Types, Loaded
  <2>. QED
    BY <2>1, Undisturbed DEF Inv
<1>2. CASE Edge
  BY <1>2, EdgeTypes, LoadedEdge, CleanEdge, OwnerEdge, InStepEdge DEF Inv
<1>3. CASE \E i \in Ids, d \in Headers : Send(i, d) /\ UNCHANGED <<machines, registers>>
  BY <1>3, SendInv
<1>. QED
  BY <1>1, <1>2, <1>3 DEF Next

LEMMA InvHolds == Spec => []Inv
BY InitInv, StepInv, PTL DEF Spec

-----------------------------------------------------------------------------
\* Although readers start an edge after the writer and stop an edge before it, what
\* they compare is a whole packet with its bits in their places, for packets of any
\* size and any number of interfaces.
THEOREM WordIsAlignedCorrect == Spec => []WordIsAligned
<1>1. Inv => WordIsAligned
  <2>. SUFFICES ASSUME Inv, NEW j \in Ids, rd_st[j] \in {"cmp", "push"}
       PROVE  LET p == Head(sr_r[j]).of
              IN  p \in Packets /\ p.src # j /\ sr_r[j] = Word(p)
    BY DEF WordIsAligned
  <2>0. PICK s \in Ids : \E p \in From(s) : Sending(s, p) \/ Storing(s, p)
    BY DEF Inv, InStep, Starting, Ready, Resetting, rdi
  <2>1. PICK p \in From(s) : Sending(s, p) \/ Storing(s, p)
    BY <2>0
  <2>2. j # s
    BY <2>1 DEF Sending, Storing, rdi
  <2>3. sr_r[j] = Word(p)
    <3>1. CASE Storing(s, p)
      BY <2>2, <3>1 DEF Storing
    <3>2. CASE Sending(s, p)
      <4>1. count_w[s] = PckgSz /\ Part(sr_r[j], p, count_w[s])
        BY <2>2, <3>2 DEF Sending
      <4>. QED
        BY <4>1, PartIsWord DEF From
    <3>. QED
      BY <2>1, <3>1, <3>2
  <2>4. Head(sr_r[j]).of = p
    BY <2>3, HeadOfWord DEF From, Bit
  <2>. QED
    BY <2>2, <2>3, <2>4 DEF From
<1>. QED
  BY InvHolds, <1>1, PTL

\* The counter of the arbiter stops in time: a grant lasts as long as the request,
\* for any number of interfaces.
THEOREM GrantIsKeptCorrect == Spec => GrantIsKept
<1>1. Inv /\ [Next]_vars => [\A i \in bs_grnt : i \in bs_rqst' => i \in bs_grnt']_vars
  <2>. SUFFICES ASSUME Inv, Next, NEW i \in bs_grnt, i \in bs_rqst'
       PROVE  i \in bs_grnt'
    OBVIOUS
  <2>1. i = count /\ wt_st[i] \in Requesting /\ wt_st'[i] \in Requesting
    BY DEF bs_grnt, bs_rqst
  <2>2. count' = count
    BY <2>1, Turn DEF Inv, Next, machines
  <2>. QED
    BY <2>1, <2>2 DEF bs_grnt
<1>. QED
  BY InvHolds, <1>1, PTL DEF Spec, GrantIsKept

-----------------------------------------------------------------------------
(***************************************************************************)
(* The refinement.                                                         *)
(***************************************************************************)
\* Who holds a packet, by the phase of the bus.
Quiet == Starting \/ Ready \/ \E s \in Ids : Resetting(s)

HeldByPhase(i) ==
  /\ wt_st[i] \in {"rqst", "bsy"} => Held(i) = Head(sr_w[i]).of
  /\ wt_st[i] \notin {"rqst", "bsy"} =>
       /\ Quiet => Held(i) = Zero
       /\ \A s \in Ids : \A p \in From(s) :
            Sending(s, p) \/ Storing(s, p) => Held(i) = IF i = s THEN p ELSE Zero

LEMMA HeldIs == Inv => \A i \in Ids : HeldByPhase(i)
<1>. SUFFICES ASSUME Inv, NEW i \in Ids PROVE HeldByPhase(i)
  OBVIOUS
<1>1. wt_st[i] \in {"rqst", "bsy"} => Held(i) = Head(sr_w[i]).of
  BY DEF Held
<1>2. ASSUME wt_st[i] \notin {"rqst", "bsy"}, Quiet PROVE Held(i) = Zero
  <2>1. \A j \in Ids : ~ Reading(j)
    BY <1>2 DEF Quiet, Starting, Ready, Resetting, Reading, rdi
  <2>. QED
    BY <1>2, <2>1 DEF Held
<1>3. ASSUME wt_st[i] \notin {"rqst", "bsy"}, NEW s \in Ids, NEW p \in From(s),
             Sending(s, p) \/ Storing(s, p)
      PROVE  Held(i) = IF i = s THEN p ELSE Zero
  <2>1. ~ Reading(s) /\ \A j \in Ids : j # s => Reading(j)
    BY <1>3 DEF Sending, Storing, Reading, rdi
  <2>2. CASE i # s
    BY <1>3, <2>1, <2>2 DEF Held
  <2>3. CASE i = s
    <3>1. PICK k : k = CHOOSE j \in Ids : Reading(j)
      OBVIOUS
    <3>2. k \in Ids /\ k # s
      BY <2>1, <3>1, Others
    <3>3. Held(i) = sr_r[k][PckgSz].of
      BY <1>3, <2>1, <2>3, <3>1, <3>2 DEF Held
    <3>4. sr_r[k][PckgSz].of = p
      <4>1. CASE Sending(s, p)
        BY <3>2, <4>1, PartLast DEF Sending, From
      <4>2. CASE Storing(s, p)
        <5>1. sr_r[k] = Word(p) /\ PckgSz \in 1 .. PckgSz
          BY <3>2, <4>2, SizeAssumption DEF Storing
        <5>2. p \in Packets
          BY DEF From
        <5>3. sr_r[k][PckgSz] = Bit(p, PckgSz)
          BY <5>1, <5>2, WordTypes
        <5>. QED
          BY <5>3 DEF Bit
      <4>. QED
        BY <1>3, <4>1, <4>2
    <3>. QED
      BY <2>3, <3>3, <3>4
  <2>. QED
    BY <2>2, <2>3
<1>. QED
  BY <1>1, <1>2, <1>3 DEF HeldByPhase

LEMMA HeldIsNext == Inv' => (\A i \in Ids : HeldByPhase(i))'
BY HeldIs, PTL

\* The same, in the form in which a step uses it.
LEMMA HeldAfter ==
  ASSUME Inv', NEW i \in Ids
  PROVE  /\ wt_st'[i] \in {"rqst", "bsy"} => Held(i)' = Head(sr_w'[i]).of
         /\ wt_st'[i] \notin {"rqst", "bsy"} =>
              /\ Quiet' => Held(i)' = Zero
              /\ \A s \in Ids : \A p \in From(s) :
                   Sending(s, p)' \/ Storing(s, p)' =>
                     Held(i)' = IF i = s THEN p ELSE Zero
<1>1. HeldByPhase(i)'
  BY HeldIsNext DEF Ids
<1>2. \A s \in Ids : From(s)' = From(s)
  BY DEF From, Packets, Headers, Ids
<1>3. Ids' = Ids
  BY DEF Ids
<1>. QED
  BY <1>1, <1>2, <1>3 DEF HeldByPhase, Zero

\* Who does not hand over keeps what it holds, or gets what it pops.
LEMMA HeldStays ==
  ASSUME Inv, Edge, Inv', NEW i \in Ids, \A p \in From(i) : ~ Storing(i, p)
  PROVE  /\ wt_st[i] = "pop" => Held(i) = Zero /\ Held(i)' = Head(queue[i])
         /\ wt_st[i] # "pop" => Held(i)' = Held(i)
<1>0. Types /\ Loaded /\ Clean /\ Owner /\ InStep
  BY DEF Inv
<1>1. HeldByPhase(i)
  BY HeldIs
<1>2. ASSUME wt_st[i] \notin {"rqst", "bsy", "wrt"} PROVE Held(i) = Zero
  <2>1. CASE Quiet
    BY <1>1, <1>2, <2>1 DEF HeldByPhase
  <2>2. CASE ~ Quiet
    <3>1. PICK s \in Ids : \E p \in From(s) : Sending(s, p) \/ Storing(s, p)
      BY <1>0, <2>2 DEF InStep, Quiet
    <3>2. PICK p \in From(s) : Sending(s, p) \/ Storing(s, p)
      BY <3>1
    <3>3. s # i
      BY <1>2, <3>2 DEF Sending
    <3>. QED
      BY <1>1, <1>2, <3>2, <3>3 DEF HeldByPhase
  <2>. QED
    BY <2>1, <2>2
<1>3. CASE wt_st[i] = "rqst"
  <2>1. wt_st'[i] \in {"rqst", "bsy"}
    BY <1>0, <1>3, WriteMachine
  <2>2. sr_w'[i] = sr_w[i]
    BY <1>3, <2>1, WriteRegisters
  <2>. QED
    BY <1>1, <1>3, <2>1, <2>2, HeldAfter DEF HeldByPhase
<1>4. CASE wt_st[i] = "bsy"
  <2>1. count = i /\ bs_bsy
    BY <1>0, <1>4, Busy
  <2>2. Ready
    <3>1. ~ Starting /\ ~ Silent
      BY <1>4 DEF Starting, Silent
    <3>2. ASSUME NEW s \in Ids, NEW p \in From(s), Sending(s, p) PROVE FALSE
      BY <1>0, <1>4, <2>1, <3>2, Busy DEF Sending
    <3>. QED
      BY <1>0, <3>1, <3>2 DEF InStep, Resetting, Storing
  <2>3. PICK s \in Ids :
          s = count /\ \E p \in From(s) : sr_w[s] = Word(p) /\ Sending(s, p)'
    BY <1>0, <2>1, <2>2, ReadyEdge
  <2>4. PICK p \in From(s) : sr_w[s] = Word(p) /\ Sending(s, p)'
    BY <2>3
  <2>5. s = i /\ Held(i) = p
    BY <1>1, <1>4, <2>1, <2>3, <2>4, HeadOfWord DEF HeldByPhase, From, Bit
  <2>6. wt_st'[i] = "wrt"
    BY <1>0, <1>4, WriteMachine
  <2>. QED
    BY <1>4, <2>4, <2>5, <2>6, HeldAfter
<1>5. CASE wt_st[i] = "wrt"
  <2>1. count = i
    BY <1>0, <1>5 DEF Owner
  <2>2. PICK s \in Ids : \E p \in From(s) : Sending(s, p)
    BY <1>0, <1>5 DEF InStep, Starting, Ready, Silent, Resetting, Storing
  <2>3. PICK p \in From(s) : Sending(s, p)
    BY <2>2
  <2>4. s = i
    BY <1>0, <2>1, <2>3 DEF Sending, Owner
  <2>5. Held(i) = p
    BY <1>1, <1>5, <2>3, <2>4 DEF HeldByPhase
  <2>6. Sending(s, p)' \/ Storing(s, p)'
    BY <1>0, <2>3, SendingEdge
  <2>7. wt_st'[i] \in {"wrt", "rst"}
    BY <1>0, <1>5, WriteMachine
  <2>8. Held(i)' = p
    BY <2>4, <2>6, <2>7, HeldAfter
  <2>. QED
    BY <1>5, <2>5, <2>8
<1>6. CASE wt_st[i] = "pop"
  <2>1. Held(i) = Zero
    BY <1>2, <1>6
  <2>2. wt_st'[i] = "rqst"
    BY <1>0, <1>6, WriteMachine
  <2>3. sr_w'[i] = Word(Head(queue[i])) /\ Head(queue[i]) \in Packets
    <3>1. sr_w'[i] = sr_w[i]
      BY <1>6, <2>2, WriteRegisters
    <3>2. sr_w[i] = Word(Head(queue[i])) /\ queue[i] # <<>> /\ queue[i] \in Seq(Packets)
      BY <1>0, <1>6 DEF Loaded, Types
    <3>3. Head(queue[i]) \in Packets
      BY <3>2, HeadTailProperties
    <3>. QED
      BY <3>1, <3>2, <3>3
  <2>4. Held(i)' = Head(Word(Head(queue[i]))).of
    BY <2>2, <2>3, HeldAfter
  <2>5. Held(i)' = Head(queue[i])
    BY <2>3, <2>4, HeadOfWord DEF Bit
  <2>. QED
    BY <1>6, <2>1, <2>5
<1>7. CASE wt_st[i] \in {"rst", "idle", "ld"}
  <2>1. Held(i) = Zero
    BY <1>2, <1>7
  <2>2. wt_st'[i] \in {"idle", "ld", "pop"}
    BY <1>0, <1>7, WriteMachine
  <2>3. \/ Quiet'
        \/ \E s \in Ids : s # i /\ \E p \in From(s) : Sending(s, p)' \/ Storing(s, p)'
    <3>0. Ids' = Ids
      BY DEF Ids
    <3>1. CASE Starting
      BY <1>0, <3>1, StartingEdge DEF Quiet
    <3>2. CASE Ready
      <4>1. CASE ~ bs_bsy
        BY <1>0, <3>2, <4>1, ReadyEdge DEF Quiet
      <4>2. CASE bs_bsy
        <5>1. PICK s \in Ids : wt_st[s] = "bsy" /\ \E p \in From(s) : Sending(s, p)'
          BY <1>0, <3>2, <4>2, ReadyEdge
        <5>2. s # i
          BY <1>7, <5>1
        <5>. QED
          BY <5>1, <5>2
      <4>. QED
        BY <4>1, <4>2
    <3>3. ASSUME NEW s \in Ids, Resetting(s) PROVE Quiet'
      BY <1>0, <3>3, ResettingEdge DEF Quiet
    <3>4. ASSUME NEW s \in Ids, NEW p \in From(s), Sending(s, p)
          PROVE  s # i /\ (Sending(s, p)' \/ Storing(s, p)')
      <4>1. s # i
        BY <1>7, <3>4 DEF Sending
      <4>. QED
        BY <1>0, <3>4, <4>1, SendingEdge
    <3>5. ASSUME NEW s \in Ids, NEW p \in From(s), Storing(s, p) PROVE Quiet'
      BY <1>0, <3>0, <3>5, StoringEdge DEF Quiet
    <3>. QED
      BY <1>0, <3>1, <3>2, <3>3, <3>4, <3>5 DEF InStep
  <2>4. Held(i)' = Zero
    <3>1. CASE Quiet'
      BY <2>2, <3>1, HeldAfter
    <3>2. ASSUME NEW s \in Ids, s # i, NEW p \in From(s), Sending(s, p)' \/ Storing(s, p)'
          PROVE  Held(i)' = Zero
      BY <2>2, <3>2, HeldAfter
    <3>. QED
      BY <2>3, <3>1, <3>2
  <2>. QED
    BY <1>7, <2>1, <2>4
<1>8. wt_st[i] \in WriteStates
  BY <1>0, WriteMachine
<1>. QED
  BY <1>3, <1>4, <1>5, <1>6, <1>7, <1>8 DEF WriteStates

LEMMA InitRefines == Init => Abstract!Init
<1>. SUFFICES ASSUME Init PROVE Abstract!Init
  OBVIOUS
<1>1. \A i \in Ids : wt_st[i] = "rst" /\ rd_st[i] = "rst"
  BY DEF Init
<1>2. \A i \in Ids : Held(i) = Zero
  BY <1>1 DEF Held, Reading
<1>. QED
  BY <1>2 DEF Init, PacketsInit, Abstract!Init, Abstract!PacketsInit, Abstract!Ids, Ids,
              Abstract!Zero, Zero

LEMMA EdgeRefines ==
  ASSUME Inv, Inv', Edge
  PROVE  \E poppers, handing \in SUBSET Ids : Abstract!Transfer(poppers, handing)
<1>. DEFINE poppers == {i \in Ids : wt_st[i] = "pop"}
            handing == {i \in Ids : \E p \in From(i) : Storing(i, p)}
<1>0. Types /\ Loaded /\ Clean /\ Owner /\ InStep
  BY DEF Inv
<1>1. ASSUME NEW s \in Ids, NEW p \in From(s), Storing(s, p)
      PROVE  /\ Held(s) = p /\ Held(s)' = Zero /\ wt_st[s] = "rst"
             /\ handing = {s}
             /\ \A j \in Ids :
                  /\ rd_st[j] = "push" <=> j \in Addressed(p)
                  /\ rd_st[j] = "push" => D_push(j) = p
  <2>1. wt_st[s] = "rst" /\ p \in Packets /\ p.src = s
    BY <1>1 DEF Storing, From
  <2>2. Held(s) = p
    BY <1>1, <2>1, HeldIs DEF HeldByPhase
  <2>3. Resetting(s)' /\ wt_st'[s] = "idle"
    BY <1>0, <1>1, <2>1, StoringEdge, WriteMachine
  <2>4. Ids' = Ids
    BY DEF Ids
  <2>5. Held(s)' = Zero
    <3>1. Quiet'
      BY <2>3, <2>4 DEF Quiet
    <3>. QED
      BY <2>3, <3>1, HeldAfter
  <2>6. rd_st[s] = "rdi" /\ \A j \in Ids : j # s => rd_st[j] \in {"push", "skip"}
    BY <1>1 DEF Storing, rdi
  <2>7. ASSUME NEW t \in handing PROVE t = s
    <3>1. rd_st[t] = "rdi"
      BY DEF Storing, rdi
    <3>. QED
      BY <2>6, <3>1
  <2>8. ASSUME NEW j \in Ids
        PROVE  /\ rd_st[j] = "push" <=> j \in Addressed(p)
               /\ rd_st[j] = "push" => D_push(j) = p
    <3>1. CASE j = s
      BY <2>1, <2>6, <3>1 DEF Addressed
    <3>2. CASE j # s
      <4>1. /\ sr_r[j] = Word(p)
            /\ rd_st[j] = IF p.dest \in {j, Bcast} THEN "push" ELSE "skip"
        BY <1>1, <3>2 DEF Storing
      <4>2. Head(sr_r[j]).of = p
        BY <2>1, <4>1, HeadOfWord DEF Bit
      <4>3. D_push(j) = p
        BY <4>1, <4>2 DEF D_push
      <4>. QED
        BY <2>1, <3>2, <4>1, <4>3 DEF Addressed
    <3>. QED
      BY <3>1, <3>2
  <2>9. handing = {s}
    BY <1>1, <2>7
  <2>. QED
    BY <2>1, <2>2, <2>5, <2>8, <2>9
<1>2. ASSUME NEW i \in Ids
      PROVE  /\ i \in poppers => queue[i] # <<>> /\ Held(i) = Zero /\ Held(i)' = Head(queue[i])
             /\ i \in handing => Held(i) # Zero /\ Held(i)' = Zero /\ i \notin poppers
             /\ i \notin poppers /\ i \notin handing => Held(i)' = Held(i)
  <2>1. CASE i \in handing
    <3>1. PICK p \in From(i) : Storing(i, p)
      BY <2>1
    <3>2. Held(i) = p /\ Held(i)' = Zero /\ wt_st[i] = "rst"
      BY <1>1, <3>1
    <3>3. p # Zero
      BY ZeroIsNoPacket DEF From
    <3>4. i \notin poppers
      BY <3>2
    <3>. QED
      BY <2>1, <3>2, <3>3, <3>4
  <2>2. CASE i \notin handing
    <3>1. \A p \in From(i) : ~ Storing(i, p)
      BY <2>2
    <3>2. wt_st[i] = "pop" => queue[i] # <<>>
      BY <1>0 DEF Loaded
    <3>3. /\ wt_st[i] = "pop" => Held(i) = Zero /\ Held(i)' = Head(queue[i])
          /\ wt_st[i] # "pop" => Held(i)' = Held(i)
      BY <3>1, HeldStays
    <3>4. i \in poppers <=> wt_st[i] = "pop"
      OBVIOUS
    <3>. QED
      BY <2>2, <3>2, <3>3, <3>4
  <2>. QED
    BY <2>1, <2>2
<1>3. ASSUME NEW s \in handing
      PROVE  /\ handing = {s}
             /\ \A j \in Ids :
                  /\ rd_st[j] = "push" <=> j \in Addressed(Held(s))
                  /\ rd_st[j] = "push" => D_push(j) = Held(s)
  <2>1. PICK p \in From(s) : Storing(s, p)
    OBVIOUS
  <2>. HIDE DEF handing
  <2>. QED
    BY <1>1, <2>1 DEF handing
<1>4. ASSUME handing = {}, NEW j \in Ids PROVE rd_st[j] # "push"
  <2>1. Quiet \/ \E s \in Ids : \E p \in From(s) : Sending(s, p)
    BY <1>0, <1>4 DEF InStep, Quiet
  <2>2. CASE Quiet
    BY <2>2 DEF Quiet, Starting, Ready, Resetting, rdi
  <2>3. ASSUME NEW s \in Ids, NEW p \in From(s), Sending(s, p) PROVE rd_st[j] # "push"
    BY <2>3 DEF Sending, rdi
  <2>. QED
    BY <2>1, <2>2, <2>3
<1>. DEFINE h == [i \in Ids |-> Held(i)]
<1>5. /\ \A i \in poppers : queue[i] # <<>> /\ h[i] = Zero
      /\ \A i \in handing : h[i] # Zero
      /\ \A i, j \in handing : i = j
  BY <1>2, <1>3
<1>6. PopAll(poppers)
  BY DEF Edge
<1>7. h' = [i \in Ids |-> IF i \in poppers THEN Head(queue[i])
                         ELSE IF i \in handing THEN Zero ELSE h[i]]
  BY <1>2
<1>8. got' = [j \in Ids |->
                IF \E i \in handing : j \in Addressed(h[i])
                THEN Append(got[j], h[CHOOSE i \in handing : TRUE]) ELSE got[j]]
  <2>1. got' = [j \in Ids |-> IF rd_st[j] = "push" THEN Append(got[j], D_push(j)) ELSE got[j]]
    BY DEF Edge
  <2>2. CASE handing = {}
    BY <1>4, <2>1, <2>2
  <2>3. ASSUME NEW s \in handing
        PROVE got' = [j \in Ids |->
                       IF \E i \in handing : j \in Addressed(h[i])
                       THEN Append(got[j], h[CHOOSE i \in handing : TRUE]) ELSE got[j]]
    <3>1. handing = {s} /\ (CHOOSE i \in handing : TRUE) = s /\ h[s] = Held(s)
      BY <1>3
    <3>2. ASSUME NEW j \in Ids
          PROVE  (IF rd_st[j] = "push" THEN Append(got[j], D_push(j)) ELSE got[j])
                   = (IF \E i \in handing : j \in Addressed(h[i])
                      THEN Append(got[j], h[CHOOSE i \in handing : TRUE]) ELSE got[j])
      <4>1. (\E i \in handing : j \in Addressed(h[i])) <=> j \in Addressed(Held(s))
        BY <3>1
      <4>2. h[CHOOSE i \in handing : TRUE] = Held(s)
        BY <3>1
      <4>3. CASE rd_st[j] = "push"
        <5>1. j \in Addressed(Held(s)) /\ D_push(j) = Held(s)
          BY <1>3, <2>3, <4>3
        <5>. HIDE DEF h, handing
        <5>. QED
          BY <4>1, <4>2, <4>3, <5>1
      <4>4. CASE rd_st[j] # "push"
        <5>1. j \notin Addressed(Held(s))
          BY <1>3, <2>3, <4>4
        <5>. HIDE DEF h, handing
        <5>. QED
          BY <4>1, <4>4, <5>1
      <4>. QED
        BY <4>3, <4>4
    <3>. QED
      BY <2>1, <3>2
  <2>. QED
    BY <2>2, <2>3
<1>. HIDE DEF poppers, handing
<1>9. Abstract!Transfer(poppers, handing)
  BY <1>5, <1>6, <1>7, <1>8
     DEF Abstract!Transfer, Abstract!PopAll, PopAll, Abstract!Pndng, Abstract!Ids, Ids,
         Abstract!Zero, Zero, Abstract!Addressed, Addressed
<1>. QED
  BY <1>9 DEF poppers, handing

LEMMA StepRefines == Inv /\ Inv' /\ [Next]_vars => [Abstract!Next]_(Abstract!vars)
<1>. SUFFICES ASSUME Inv, Inv', [Next]_vars PROVE [Abstract!Next]_(Abstract!vars)
  OBVIOUS
<1>1. CASE UNCHANGED vars
  BY <1>1 DEF vars, machines, registers, Abstract!vars, Held, Reading
<1>2. CASE Edge
  BY <1>2, EdgeRefines DEF Abstract!Next, Abstract!Ids, Ids
<1>3. ASSUME NEW i \in Ids, NEW d \in Headers,
             Send(i, d) /\ UNCHANGED <<machines, registers>>
      PROVE  Abstract!Next
  <2>1. UNCHANGED [j \in Ids |-> Held(j)]
    BY <1>3 DEF machines, registers, Held, Reading
  <2>2. Abstract!Send(i, d)
    BY <1>3 DEF Send, Abstract!Send
  <2>. QED
    BY <2>1, <2>2 DEF Abstract!Next, Abstract!Ids, Ids, Abstract!Headers, Headers
<1>. QED
  BY <1>1, <1>2, <1>3 DEF Next

\* The serial bus keeps the promise of a bus, for any number of interfaces and of
\* packets, and for packets of any size.
THEOREM TransfersPacketsCorrect == Spec => TransfersPackets
BY InitRefines, StepRefines, InvHolds, PTL DEF Spec, TransfersPackets, Abstract!Spec

Promise == INSTANCE BusTransferProofs WITH held <- [i \in Ids |-> Held(i)]

\* On the serial bus, as on the parallel one, every interface gets, source by source, a
\* prefix of the packets sent to it, in order and each once, for any number of
\* interfaces, and for packets of any size.
THEOREM DeliveredCorrect == Spec => []Delivered
<1>1. Abstract!Init => Promise!Init
  BY DEF Abstract!Init, Promise!Init, Abstract!PacketsInit, Promise!PacketsInit,
         Abstract!Ids, Promise!Ids, Abstract!Zero, Promise!Zero
<1>2. [Abstract!Next]_(Abstract!vars) => [Promise!Next]_(Promise!vars)
  BY DEF Abstract!Next, Promise!Next, Abstract!vars, Promise!vars, Abstract!Transfer,
         Promise!Transfer, Abstract!PopAll, Promise!PopAll, Abstract!Pndng, Promise!Pndng,
         Abstract!Send, Promise!Send, Abstract!Addressed, Promise!Addressed,
         Abstract!Headers, Promise!Headers, Abstract!Ids, Promise!Ids,
         Abstract!Zero, Promise!Zero
<1>3. Promise!Spec => []Promise!Delivered
  BY BusAssumption, Promise!DeliveredCorrect, PTL DEF Promise!BusAssumption, Promise!Ids, Ids
<1>4. Promise!Delivered => Delivered
  BY DEF Promise!Delivered, Delivered, Promise!Addressed, Addressed, Promise!Ids, Ids
<1>. QED
  BY TransfersPacketsCorrect, <1>1, <1>2, <1>3, <1>4, PTL
     DEF TransfersPackets, Abstract!Spec, Promise!Spec
=============================================================================
