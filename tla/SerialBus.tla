------------------------------ MODULE SerialBus ------------------------------
(***************************************************************************)
(* The serial bus with a central arbiter (bs_gnrtr): an interface that has *)
(* the grant raises bs_bsy and shifts its packet out bit by bit; all the   *)
(* others shift it in and then look at its header.  One step is one rising *)
(* edge of clk: the state machines move on what they see before it.        *)
(*                                                                         *)
(* Shift registers and bit counters have gated clocks (clk && en).  When a *)
(* machine enters a state with en up, just after the edge, the gated clock *)
(* rises at once, with clk still high; when it leaves the state the clock  *)
(* rises a last time with the edge.  A state of n cycles thus gives n + 1  *)
(* rises, and writer and readers, which stay for different times, must end *)
(* up with the same bits.  The wires are those before the rise.            *)
(***************************************************************************)
EXTENDS BusPackets

CONSTANT PckgSz    \* pckg_sz: bits of a packet

ASSUME SizeAssumption == PckgSz \in Nat /\ PckgSz > 1

VARIABLES
  count,     \* Arbiter: whose turn it is
  wt_st,     \* per interface: state of Write_st_Mchn
  rd_st,     \* per interface: state of Read_st_Mchn
  count_w, count_r,   \* per interface: the bit counters
  sr_w,      \* per interface: srlzr_wt, the bit sent next first
  sr_r       \* per interface: srlzr_rd, the bit received last last

machines  == <<count, wt_st, rd_st>>
registers == <<count_w, count_r, sr_w, sr_r>>
vars == <<sent, queue, got, machines, registers>>

\* A packet bit by bit, and a register after reset.
Word(p) == [k \in 1 .. PckgSz |-> [of |-> p, bit |-> k]]
Blank == [of |-> Zero, bit |-> 0]
Cleared == [k \in 1 .. PckgSz |-> Blank]

Init ==
  /\ PacketsInit
  /\ count = 0
  /\ wt_st = [i \in Ids |-> "rst"]
  /\ rd_st = [i \in Ids |-> "rst"]
  /\ count_w = [i \in Ids |-> 0]
  /\ count_r = [i \in Ids |-> 0]
  /\ sr_w = [i \in Ids |-> Cleared]
  /\ sr_r = [i \in Ids |-> Cleared]

-----------------------------------------------------------------------------
(***************************************************************************)
(* The wires.                                                              *)
(***************************************************************************)
Requesting == {"pop", "rqst", "bsy", "wrt"}
bs_rqst == {i \in Ids : wt_st[i] \in Requesting}

\* Mutant: every request is granted.
bs_grnt_All == bs_rqst

bs_grnt == bs_rqst \intersect {count}

bs_bsy == \E i \in bs_grnt : wt_st[i] \in {"bsy", "wrt"}
rdi(i) == rd_st[i] = "rdi"

\* The bit on the bus.
bus == Head(sr_w[CHOOSE i \in bs_grnt : TRUE])

\* The header check, when the whole packet should be in.
ForMe(j) ==
  LET header == Head(sr_r[j])
  IN  header.bit = 1 /\ header.of.dest \in {j, Bcast}

-----------------------------------------------------------------------------
(***************************************************************************)
(* The state machines.                                                     *)
(***************************************************************************)
\* Write_st_Mchn: states 0, 1, 3, 7, 5, 2, 4.
nxt_wt(i) ==
  CASE wt_st[i] = "rst"  -> "idle"
    [] wt_st[i] = "idle" -> IF Pndng(i) THEN "ld" ELSE "idle"
    [] wt_st[i] = "ld"   -> "pop"
    [] wt_st[i] = "pop"  -> "rqst"
    [] wt_st[i] = "rqst" -> IF i \in bs_grnt /\ rdi(i) THEN "bsy" ELSE "rqst"
    [] wt_st[i] = "bsy"  -> "wrt"
    [] wt_st[i] = "wrt"  -> IF count_w[i] = PckgSz THEN "rst" ELSE "wrt"

\* Mutant: the reader counts as far as the writer.
nxt_rd_OneMore(i) ==
  CASE rd_st[i] = "rst" -> "rdi"
    [] rd_st[i] = "rdi" -> IF i \notin bs_grnt /\ bs_bsy THEN "rd" ELSE "rdi"
    [] rd_st[i] = "rd"  -> IF count_r[i] = PckgSz THEN "cmp" ELSE "rd"
    [] rd_st[i] = "cmp" -> IF ForMe(i) THEN "push" ELSE "skip"
    [] OTHER            -> "rst"

\* Read_st_Mchn: states 0, 1, 3, 7, 6, 5.
nxt_rd(i) ==
  CASE rd_st[i] = "rst" -> "rdi"
    [] rd_st[i] = "rdi" -> IF i \notin bs_grnt /\ bs_bsy THEN "rd" ELSE "rdi"
    [] rd_st[i] = "rd"  -> IF count_r[i] = PckgSz - 1 THEN "cmp" ELSE "rd"
    [] rd_st[i] = "cmp" -> IF ForMe(i) THEN "push" ELSE "skip"
    [] OTHER            -> "rst"

After(i) == (i + 1) % Drvrs

\* Mutants: the turn goes on although it is granted; it does not go on.
NextTurns_Restless == {After(count)}
NextTurns_Stuck == {count}

\* Arbiter: cntr_clk = clk && cntr_clk_en && rqst_xst counts while there are requests
\* but no grant, with the edge or, if that is so only once the machines have moved,
\* just after it.  A request that comes with the edge, at the turn that ends with
\* it, is granted for a moment; whether that is seen as a second edge is left open.
NextTurns ==
  LET Rqst == {i \in Ids : wt_st'[i] \in Requesting}
  IN  IF bs_grnt = {} /\ bs_rqst # {}
      THEN {After(count)} \union
             (IF count \in Rqst /\ After(count) \notin Rqst
              THEN {After(After(count))} ELSE {})
      ELSE IF Rqst # {} /\ count \notin Rqst THEN {After(count)}
      ELSE {count}

-----------------------------------------------------------------------------
(***************************************************************************)
(* The registers.                                                          *)
(***************************************************************************)
\* The gated clock of a state rises with the edges at which it is entered, stayed in
\* and left.
Rises(st, i, s) == s \in {st[i], st'[i]}

Shifted(word, bit) == Append(Tail(word), bit)

CountW ==
  count_w' = [i \in Ids |-> IF wt_st'[i] \in {"rst", "ld", "pop"} THEN 0
                            ELSE IF Rises(wt_st, i, "wrt") THEN count_w[i] + 1
                            ELSE count_w[i]]

ShiftW ==
  sr_w' = [i \in Ids |-> IF wt_st'[i] = "rst" THEN Cleared
                         ELSE IF Rises(wt_st, i, "ld") THEN Word(Head(queue[i]))
                         ELSE IF Rises(wt_st, i, "wrt") THEN Shifted(sr_w[i], Blank)
                         ELSE sr_w[i]]

CountR ==
  count_r' = [i \in Ids |-> IF rd_st'[i] = "rst" THEN 0
                            ELSE IF Rises(rd_st, i, "rd") THEN count_r[i] + 1
                            ELSE count_r[i]]

ShiftR ==
  sr_r' = [i \in Ids |-> IF rd_st'[i] = "rst" THEN Cleared
                         ELSE IF Rises(rd_st, i, "rd") THEN Shifted(sr_r[i], bus)
                         ELSE sr_r[i]]

\* D_push as the FIFO gets it: a packet, if it is one.
D_push(j) == LET p == Head(sr_r[j]).of IN IF sr_r[j] = Word(p) THEN p ELSE Zero

Edge ==
  /\ wt_st' = [i \in Ids |-> nxt_wt(i)]
  /\ rd_st' = [i \in Ids |-> nxt_rd(i)]
  /\ count' \in NextTurns
  /\ CountW /\ ShiftW /\ CountR /\ ShiftR
  /\ got' = [j \in Ids |-> IF rd_st[j] = "push" THEN Append(got[j], D_push(j))
                           ELSE got[j]]
  /\ PopAll({i \in Ids : wt_st[i] = "pop"})

Next ==
  \/ Edge
  \/ \E i \in Ids, d \in Headers : Send(i, d) /\ UNCHANGED <<machines, registers>>

\* The clock does not stop.
Spec == Init /\ [][Next]_vars /\ WF_vars(Edge)

-----------------------------------------------------------------------------
\* Although readers start an edge after the writer and stop an edge before it, what
\* they compare is a whole packet with its bits in their places, of another one.
WordIsAligned ==
  \A j \in Ids : rd_st[j] \in {"cmp", "push"} =>
    LET p == Head(sr_r[j]).of IN p \in Packets /\ p.src # j /\ sr_r[j] = Word(p)

\* A grant, once given, stays until the packet is through: the counter of the arbiter
\* stops in time, also when it steps in mid cycle.
GrantIsKept == [][\A i \in bs_grnt : i \in bs_rqst' => i \in bs_grnt']_vars

Reading(j) == rd_st[j] \in {"rd", "cmp", "push", "skip"}

\* The packet an interface has popped and not handed over: in its own register, or,
\* once its first bit is out, what the others have of it.
Held(i) ==
  IF wt_st[i] \in {"rqst", "bsy"} THEN Head(sr_w[i]).of
  ELSE IF ~ Reading(i) /\ \E j \in Ids : Reading(j)
       THEN sr_r[CHOOSE j \in Ids : Reading(j)][PckgSz].of
       ELSE Zero

Abstract == INSTANCE BusTransfer WITH held <- [i \in Ids |-> Held(i)]

\* The serial bus keeps the same promise as the parallel one: one packet at a time,
\* to all its addressees at once and to nobody else.
TransfersPackets == Abstract!Spec

\* Every packet arrives, whoever else is sending.
AllArrive == <>[](\A i \in Ids : \A n \in DOMAIN sent[i] : Arrived(sent[i][n]))
=============================================================================
