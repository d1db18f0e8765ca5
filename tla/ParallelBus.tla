----------------------------- MODULE ParallelBus -----------------------------
(***************************************************************************)
(* The parallel bus without a central arbiter (prll_bs_gnrtr_n_rbtr): all  *)
(* interfaces count the turns by themselves, with a wire trn_chng as       *)
(* clock that the one whose turn it is drives.  One step is one rising     *)
(* edge of clk, with the change of turn it may bring about.                *)
(*                                                                         *)
(* The grant bs_grnt is the turn one edge late: after a change of turn the *)
(* old holder still drives the data wires and believes it has the grant,   *)
(* while trn_chng and wrt are already the new holder's.                    *)
(***************************************************************************)
EXTENDS BusPackets

VARIABLES
  cnt,       \* cnt_rbtr: whose turn it is, the same in all interfaces
  bs_grnt,   \* the interfaces with the grant: none before the first edge
  wt_st,     \* per interface: state of prll_wt_st_mchn
  rd_st,     \* per interface: state of prll_rd_st_mchn
  nthng,     \* trn_chng_nthng_t_snd: the interfaces that pass the turn on unused
  D_wt,      \* per interface: D_reg_wt, the packet to write
  D_rd       \* per interface: D_reg_rd, the packet read

control == <<cnt, bs_grnt, wt_st, rd_st, nthng>>
vars == <<sent, queue, got, control, D_wt, D_rd>>

Init ==
  /\ PacketsInit
  /\ cnt = 0
  /\ bs_grnt = {}
  /\ wt_st = [i \in Ids |-> "rst"]
  /\ rd_st = [i \in Ids |-> "rst"]
  /\ nthng = {}
  /\ D_wt = [i \in Ids |-> Zero]
  /\ D_rd = [i \in Ids |-> Zero]

-----------------------------------------------------------------------------
(***************************************************************************)
(* The wires.                                                              *)
(***************************************************************************)
bs_rqst(i) == wt_st[i] \in {"pop", "rqst", "wrt"}
rdi(i) == rd_st[i] = "rdi"

\* wrt and trn_chng are driven by the interface whose turn it is, the data wires by
\* the one with the grant.
wrt == wt_st[cnt] = "wrt"
trn_chng(holder) == holder \in nthng \/ wt_st[holder] = "rst"
bus == D_wt[CHOOSE i \in bs_grnt : TRUE]

\* ld_r: its rise loads D_reg_rd.
ld_r(j) == j \notin bs_grnt /\ wrt

\* Mutant: broadcasts are not for me.
ForMe_Unicast(j) == D_rd[j].dest = j

\* sv_flg
ForMe(j) == D_rd[j].dest \in {j, Bcast}

-----------------------------------------------------------------------------
(***************************************************************************)
(* The state machines.                                                     *)
(***************************************************************************)
\* Mutants: the request is written without the grant; without being ready to read.
nxt_wt_Ungranted(i) ==
  CASE wt_st[i] = "rst"  -> "idle"
    [] wt_st[i] = "idle" -> IF Pndng(i) THEN "ld" ELSE "idle"
    [] wt_st[i] = "ld"   -> "pop"
    [] wt_st[i] = "pop"  -> "rqst"
    [] wt_st[i] = "rqst" -> IF rdi(i) THEN "wrt" ELSE "rqst"
    [] wt_st[i] = "wrt"  -> "rst"
nxt_wt_Unready(i) ==
  CASE wt_st[i] = "rst"  -> "idle"
    [] wt_st[i] = "idle" -> IF Pndng(i) THEN "ld" ELSE "idle"
    [] wt_st[i] = "ld"   -> "pop"
    [] wt_st[i] = "pop"  -> "rqst"
    [] wt_st[i] = "rqst" -> IF i \in bs_grnt THEN "wrt" ELSE "rqst"
    [] wt_st[i] = "wrt"  -> "rst"

\* prll_wt_st_mchn: states 0, 1, 3, 7, 5, 4.
nxt_wt(i) ==
  CASE wt_st[i] = "rst"  -> "idle"
    [] wt_st[i] = "idle" -> IF Pndng(i) THEN "ld" ELSE "idle"
    [] wt_st[i] = "ld"   -> "pop"
    [] wt_st[i] = "pop"  -> "rqst"
    [] wt_st[i] = "rqst" -> IF rdi(i) /\ i \in bs_grnt THEN "wrt" ELSE "rqst"
    [] wt_st[i] = "wrt"  -> "rst"

\* prll_rd_st_mchn: states 0, 1, 3, 7, 2.
nxt_rd(i) ==
  CASE rd_st[i] = "rst"  -> "rdi"
    [] rd_st[i] = "rdi"  -> IF ld_r(i) THEN "cmp" ELSE "rdi"
    [] rd_st[i] = "cmp"  -> IF ForMe(i) THEN "push" ELSE "skip"
    [] OTHER             -> "rst"

\* Mutant: an interface that once passed the turn on does so for ever.
nxt_nthng_Stays == nthng \union {i \in bs_grnt : ~ bs_rqst(i)}

\* Arbiter_st_Mchn, with condition_a = bs_grnt && ~bs_rqst.
nxt_nthng == {i \in bs_grnt \ nthng : ~ bs_rqst(i)}

\* Mutant: the turn stays with the same interface.
After_Stay(i) == i

\* Counter_arb
After(i) == (i + 1) % Drvrs

\* What is on trn_chng once the machines have moved.
TrnRises ==
  /\ ~ trn_chng(cnt)
  /\ cnt \in nthng' \/ wt_st'[cnt] = "rst"

Edge ==
  /\ bs_grnt' = {cnt}
  /\ wt_st' = [i \in Ids |-> nxt_wt(i)]
  /\ rd_st' = [i \in Ids |-> nxt_rd(i)]
  /\ nthng' = nxt_nthng
  /\ cnt' = IF TrnRises THEN After(cnt) ELSE cnt
  /\ D_wt' = [i \in Ids |-> IF wt_st'[i] = "rst" THEN Zero
                            ELSE IF wt_st'[i] = "ld" THEN Head(queue[i])
                            ELSE D_wt[i]]
  /\ D_rd' = [j \in Ids |-> IF rd_st'[j] = "rst" THEN Zero
                            ELSE IF ~ ld_r(j) /\ ld_r(j)' THEN bus'
                            ELSE D_rd[j]]
  /\ got' = [j \in Ids |-> IF rd_st[j] = "push" THEN Append(got[j], D_rd[j])
                           ELSE got[j]]
  /\ PopAll({i \in Ids : wt_st[i] = "pop"})

Next ==
  \/ Edge
  \/ \E i \in Ids, d \in Headers : Send(i, d) /\ UNCHANGED <<control, D_wt, D_rd>>

\* The clock does not stop.
Spec == Init /\ [][Next]_vars /\ WF_vars(Edge)

-----------------------------------------------------------------------------
Reading(j) == rd_st[j] \in {"cmp", "push", "skip"}

\* Machines, turns and registers of the bus keep their types, and what an interface
\* is reading is a whole packet of another one.
TypeOK ==
  /\ cnt \in Ids
  /\ bs_grnt \subseteq Ids /\ nthng \subseteq Ids
  /\ wt_st \in [Ids -> {"rst", "idle", "ld", "pop", "rqst", "wrt"}]
  /\ rd_st \in [Ids -> {"rst", "rdi", "cmp", "push", "skip"}]
  /\ D_wt \in [Ids -> Packets \union {Zero}]
  /\ D_rd \in [Ids -> Packets \union {Zero}]
  /\ \A j \in Ids : Reading(j) => D_rd[j] \in Packets /\ D_rd[j].src # j

\* Whoever writes has turn and grant, although the grant of the one before it
\* outlives its turn, and every other interface is ready to read.
WriterAlone ==
  \A i \in Ids : wt_st[i] = "wrt" =>
    cnt = i /\ bs_grnt = {i} /\ \A j \in Ids : rdi(j)

\* trn_chng is low again before the next rise: nobody gets the turn with its own
\* trn_chng_pre up, which would swallow a rise and leave the turn where it is.
TurnIsPassedOn == [][cnt' # cnt => ~ trn_chng(cnt)']_vars

\* The packet an interface has popped and not handed over: in D_reg_wt, or, once it
\* was written, in the registers of all the others.
Held(i) ==
  IF wt_st[i] \in {"rqst", "wrt"} THEN D_wt[i]
  ELSE IF ~ Reading(i) /\ \E j \in Ids : Reading(j)
       THEN D_rd[CHOOSE j \in Ids : Reading(j)]
       ELSE Zero

Abstract == INSTANCE BusTransfer WITH held <- [i \in Ids |-> Held(i)]

\* The bus does what a bus promises: one packet at a time, to all its addressees at
\* once and to nobody else, in order and never twice.
TransfersPackets == Abstract!Spec

\* Every packet arrives, whoever else is sending.
AllArrive == <>[](\A i \in Ids : \A n \in DOMAIN sent[i] : Arrived(sent[i][n]))
=============================================================================
