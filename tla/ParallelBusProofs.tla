-------------------------- MODULE ParallelBusProofs --------------------------
(***************************************************************************)
(* The parallel bus for any number of interfaces.  Before and after a      *)
(* write all interfaces are ready to read; a write takes everybody but the *)
(* writer s through three cycles in step, and Cmp(s), Store(s), Reset(s)   *)
(* say what the bus looks like in each of them.  That the grant lags       *)
(* behind the turn does no harm because of GrantLags: an interface that    *)
(* has the grant but no longer the turn has just written or had nothing    *)
(* to write.                                                               *)
(***************************************************************************)
EXTENDS ParallelBus, SequenceTheorems, TLAPS

From(i) == {p \in Packets : p.src = i}

Types ==
  /\ cnt \in Ids
  /\ bs_grnt \subseteq Ids
  /\ nthng \subseteq Ids
  /\ wt_st \in [Ids -> {"rst", "idle", "ld", "pop", "rqst", "wrt"}]
  /\ rd_st \in [Ids -> {"rst", "rdi", "cmp", "push", "skip"}]
  /\ D_wt \in [Ids -> Packets \union {Zero}]
  /\ D_rd \in [Ids -> Packets \union {Zero}]
  /\ sent \in [Ids -> Seq(Packets)]
  /\ got \in [Ids -> Seq(Packets)]
  /\ queue \in [Ids -> Seq(Packets)]
  /\ \A i \in Ids : queue[i] \in Seq(From(i))

\* Before the first edge.
Starting ==
  /\ bs_grnt = {} /\ nthng = {}
  /\ \A i \in Ids : wt_st[i] = "rst" /\ rd_st[i] = "rst"

Granted == \E g \in Ids : bs_grnt = {g}

\* The way of a packet from the FIFO into D_reg_wt.
Loaded ==
  \A i \in Ids :
    /\ wt_st[i] \in {"ld", "pop"} => queue[i] # <<>> /\ D_wt[i] = Head(queue[i])
    /\ wt_st[i] \in {"rqst", "wrt"} => D_wt[i] \in From(i)

NothingToSend == \A i \in nthng : wt_st[i] \in {"idle", "ld", "pop"}

GrantLags == cnt \notin bs_grnt => \A i \in bs_grnt : wt_st[i] \notin {"rqst", "wrt"}

AllReady == \A j \in Ids : rdi(j)

Writing ==
  \A i \in Ids : wt_st[i] = "wrt" =>
    /\ cnt = i /\ bs_grnt = {i} /\ AllReady
    /\ \A j \in Ids : j # i => D_rd[j] = D_wt[i]

Cmp(s) ==
  /\ rdi(s) /\ wt_st[s] = "rst" /\ cnt = After(s) /\ bs_grnt = {s}
  /\ \E p \in From(s) : \A j \in Ids : j # s => rd_st[j] = "cmp" /\ D_rd[j] = p

Store(s) ==
  /\ rdi(s) /\ wt_st[s] = "idle" /\ cnt = After(s) /\ bs_grnt = {After(s)}
  /\ \E p \in From(s) : \A j \in Ids : j # s =>
       D_rd[j] = p /\ rd_st[j] = IF p.dest \in {j, Bcast} THEN "push" ELSE "skip"

Reset(s) ==
  /\ rdi(s) /\ bs_grnt = {After(s)}
  /\ \A j \in Ids : j # s => rd_st[j] = "rst"

InStep == AllReady \/ \E s \in Ids : Cmp(s) \/ Store(s) \/ Reset(s)

Running ==
  Granted /\ Loaded /\ NothingToSend /\ GrantLags /\ Writing /\ InStep

Inv == Types /\ (Starting \/ Running)

LEMMA ZeroIsNoPacket == Zero \notin Packets
BY DEF Zero, Packets

LEMMA AfterType ==
  ASSUME NEW i \in Ids
  PROVE  After(i) \in Ids /\ After(i) # i
<1>. USE BusAssumption DEF Ids, After
<1>1. CASE i + 1 < Drvrs
  <2>1. (i + 1) % Drvrs = i + 1
    BY <1>1, SMT
  <2>. QED
    BY <1>1, <2>1, SMT
<1>2. CASE i + 1 = Drvrs
  <2>1. (i + 1) % Drvrs = 0
    BY <1>2, SMT
  <2>. QED
    BY <1>2, <2>1, SMT
<1>. QED
  BY <1>1, <1>2, SMT

LEMMA InitInv == Init => Inv
<1>. SUFFICES ASSUME Init PROVE Inv
  OBVIOUS
<1>1. 0 \in Ids
  BY BusAssumption, SMT DEF Ids
<1>2. \A i \in Ids : queue[i] = <<>> /\ <<>> \in Seq(From(i))
  BY EmptySeq DEF Init, PacketsInit
<1>3. Types
  BY <1>1, <1>2, EmptySeq DEF Init, PacketsInit, Types
<1>4. Starting
  BY DEF Init, Starting
<1>. QED
  BY <1>3, <1>4 DEF Inv

-----------------------------------------------------------------------------
(***************************************************************************)
(* What an edge does, machine by machine and register by register.         *)
(***************************************************************************)
LEMMA WriteMachine ==
  ASSUME Types, Edge, NEW i \in Ids
  PROVE  /\ wt_st[i] = "rst"  => wt_st'[i] = "idle"
         /\ wt_st[i] = "idle" => wt_st'[i] = IF Pndng(i) THEN "ld" ELSE "idle"
         /\ wt_st[i] = "ld"   => wt_st'[i] = "pop"
         /\ wt_st[i] = "pop"  => wt_st'[i] = "rqst"
         /\ wt_st[i] = "rqst" => wt_st'[i] = IF rdi(i) /\ i \in bs_grnt THEN "wrt" ELSE "rqst"
         /\ wt_st[i] = "wrt"  => wt_st'[i] = "rst"
         /\ wt_st[i] \in {"rst", "idle", "ld", "pop", "rqst", "wrt"}
         /\ D_wt'[i] = IF wt_st'[i] = "rst" THEN Zero
                       ELSE IF wt_st'[i] = "ld" THEN Head(queue[i]) ELSE D_wt[i]
<1>1. wt_st'[i] = nxt_wt(i) /\ wt_st[i] \in {"rst", "idle", "ld", "pop", "rqst", "wrt"}
  BY DEF Edge, Types
<1>2. D_wt'[i] = IF wt_st'[i] = "rst" THEN Zero
                 ELSE IF wt_st'[i] = "ld" THEN Head(queue[i]) ELSE D_wt[i]
  BY DEF Edge
<1>. QED
  BY <1>1, <1>2 DEF nxt_wt

LEMMA ReadMachine ==
  ASSUME Types, Edge, NEW j \in Ids
  PROVE  /\ rd_st[j] = "rst" => rd_st'[j] = "rdi"
         /\ rd_st[j] = "rdi" => rd_st'[j] = IF ld_r(j) THEN "cmp" ELSE "rdi"
         /\ rd_st[j] = "cmp" => rd_st'[j] = IF ForMe(j) THEN "push" ELSE "skip"
         /\ rd_st[j] \in {"push", "skip"} => rd_st'[j] = "rst"
         /\ rd_st[j] \in {"rst", "rdi", "cmp", "push", "skip"}
<1>1. rd_st'[j] = nxt_rd(j) /\ rd_st[j] \in {"rst", "rdi", "cmp", "push", "skip"}
  BY DEF Edge, Types
<1>. QED
  BY <1>1 DEF nxt_rd

LEMMA NextGrant ==
  ASSUME Types, Edge
  PROVE  /\ bs_grnt' = {cnt} /\ cnt \in Ids
         /\ cnt' = IF TrnRises THEN After(cnt) ELSE cnt
         /\ cnt' \in Ids
         /\ bus' = D_wt'[cnt]
         /\ \A i \in Ids : i \in nthng' <=> i \in bs_grnt /\ i \notin nthng /\ ~ bs_rqst(i)
<1>1. bs_grnt' = {cnt} /\ cnt \in Ids /\ cnt' = IF TrnRises THEN After(cnt) ELSE cnt
  BY DEF Edge, Types
<1>2. (CHOOSE i \in {cnt} : TRUE) = cnt
  OBVIOUS
<1>3. bus' = D_wt'[cnt]
  BY <1>1, <1>2 DEF bus
<1>4. \A i \in Ids : i \in nthng' <=> i \in bs_grnt /\ i \notin nthng /\ ~ bs_rqst(i)
  BY DEF Edge, nxt_nthng, Types
<1>. QED
  BY <1>1, <1>3, <1>4, AfterType

\* Whoever starts to write has turn and grant, and everybody is ready.
LEMMA NewWriter ==
  ASSUME Types, Running, Edge, NEW i \in Ids, wt_st'[i] = "wrt"
  PROVE  /\ wt_st[i] = "rqst" /\ cnt = i /\ bs_grnt = {i} /\ cnt' = i
         /\ AllReady /\ ~ wrt /\ AllReady'
<1>1. wt_st[i] = "rqst" /\ rdi(i) /\ i \in bs_grnt
  BY WriteMachine
<1>2. bs_grnt = {i}
  BY <1>1 DEF Running, Granted
<1>3. cnt = i
  BY <1>1, <1>2 DEF Running, GrantLags
<1>4. AllReady
  <2>1. ASSUME NEW s \in Ids, Cmp(s) \/ Store(s) \/ Reset(s) PROVE FALSE
    <3>1. s = i
      <4>1. rd_st[i] = "rdi"
        BY <1>1 DEF rdi
      <4>2. CASE s # i
        BY <2>1, <4>1, <4>2 DEF Cmp, Store, Reset
      <4>. QED
        BY <4>2
    <3>2. bs_grnt = {After(i)} \/ wt_st[i] = "rst"
      BY <2>1, <3>1 DEF Cmp, Store, Reset
    <3>. QED
      BY <1>1, <1>2, <3>2, AfterType
  <2>. QED
    BY <2>1 DEF Running, InStep
<1>5. ~ wrt
  BY <1>1, <1>3 DEF wrt
<1>6. cnt' = i
  <2>1. i \notin nthng'
    BY <1>1, NextGrant DEF bs_rqst
  <2>2. ~ TrnRises
    BY <1>3, <2>1 DEF TrnRises
  <2>. QED
    BY <1>3, <2>2, NextGrant
<1>7. AllReady'
  BY <1>4, <1>5, ReadMachine DEF AllReady, rdi, ld_r
<1>. QED
  BY <1>1, <1>2, <1>3, <1>4, <1>5, <1>6, <1>7

\* D_reg_rd takes a new word only as somebody starts to write.
LEMMA ReadRegister ==
  ASSUME Types, Edge, NEW j \in Ids
  PROVE  /\ rd_st'[j] = "rst" => D_rd'[j] = Zero
         /\ rd_st'[j] # "rst" /\ (ld_r(j) \/ ~ ld_r(j)') => D_rd'[j] = D_rd[j]
         /\ rd_st'[j] # "rst" /\ ~ ld_r(j) /\ ld_r(j)' => D_rd'[j] = D_wt'[cnt]
<1>1. D_rd'[j] = IF rd_st'[j] = "rst" THEN Zero
                 ELSE IF ~ ld_r(j) /\ ld_r(j)' THEN bus' ELSE D_rd[j]
  BY DEF Edge
<1>. QED
  BY <1>1, NextGrant

-----------------------------------------------------------------------------
(***************************************************************************)
(* The invariant is kept, conjunct by conjunct.                            *)
(***************************************************************************)
LEMMA StartingEdge ==
  ASSUME Types, Starting, Edge
  PROVE  Running'
<1>1. \A i \in Ids : wt_st'[i] = "idle" /\ rd_st'[i] = "rdi" /\ i \notin nthng'
  BY WriteMachine, ReadMachine, NextGrant DEF Starting
<1>2. Granted'
  BY NextGrant DEF Granted
<1>3. Loaded' /\ Writing'
  BY <1>1 DEF Loaded, Writing
<1>4. NothingToSend'
  <2>1. nthng' \subseteq Ids
    BY DEF Edge, nxt_nthng, Types
  <2>. QED
    BY <1>1, <2>1 DEF NothingToSend
<1>5. GrantLags'
  BY <1>1, NextGrant DEF GrantLags
<1>6. InStep'
  BY <1>1 DEF InStep, AllReady, rdi
<1>. QED
  BY <1>2, <1>3, <1>4, <1>5, <1>6 DEF Running

LEMMA LoadedEdge ==
  ASSUME Types, Loaded, Edge
  PROVE  Loaded'
<1>. SUFFICES ASSUME NEW i \in Ids
     PROVE  /\ wt_st'[i] \in {"ld", "pop"} => queue'[i] # <<>> /\ D_wt'[i] = Head(queue'[i])
            /\ wt_st'[i] \in {"rqst", "wrt"} => D_wt'[i] \in From(i)
  BY DEF Loaded
<1>1. queue'[i] = IF wt_st[i] = "pop" THEN Tail(queue[i]) ELSE queue[i]
  BY DEF Edge, PopAll
<1>2. CASE wt_st'[i] = "ld"
  BY <1>1, <1>2, WriteMachine DEF Pndng
<1>3. CASE wt_st'[i] = "pop"
  BY <1>1, <1>3, WriteMachine DEF Loaded
<1>4. CASE wt_st'[i] = "rqst"
  <2>1. CASE wt_st[i] = "pop"
    <3>1. D_wt'[i] = Head(queue[i]) /\ queue[i] # <<>> /\ queue[i] \in Seq(From(i))
      BY <1>4, <2>1, WriteMachine DEF Loaded, Types
    <3>. QED
      BY <1>4, <3>1, HeadTailProperties
  <2>2. CASE wt_st[i] = "rqst"
    BY <1>4, <2>2, WriteMachine DEF Loaded
  <2>. QED
    BY <1>4, <2>1, <2>2, WriteMachine
<1>5. CASE wt_st'[i] = "wrt"
  BY <1>5, WriteMachine DEF Loaded
<1>. QED
  BY <1>2, <1>3, <1>4, <1>5

LEMMA NothingToSendEdge ==
  ASSUME Types, Edge
  PROVE  NothingToSend'
<1>1. nthng' \subseteq Ids
  BY DEF Edge, nxt_nthng, Types
<1>. SUFFICES ASSUME NEW i \in Ids, i \in nthng'
     PROVE  wt_st'[i] \in {"idle", "ld", "pop"}
  BY <1>1 DEF NothingToSend
<1>2. wt_st[i] \in {"rst", "idle", "ld"}
  BY NextGrant, WriteMachine DEF bs_rqst
<1>. QED
  BY <1>2, WriteMachine

LEMMA GrantLagsEdge ==
  ASSUME Types, Edge
  PROVE  GrantLags'
<1>. SUFFICES ASSUME cnt' \notin bs_grnt', NEW i \in bs_grnt'
     PROVE  wt_st'[i] \notin {"rqst", "wrt"}
  BY DEF GrantLags
<1>1. i = cnt /\ cnt \in Ids /\ TrnRises
  BY NextGrant
<1>2. CASE cnt \in nthng'
  BY <1>1, <1>2, NothingToSendEdge DEF NothingToSend
<1>3. CASE wt_st'[cnt] = "rst"
  BY <1>1, <1>3
<1>. QED
  BY <1>1, <1>2, <1>3 DEF TrnRises

LEMMA WritingEdge ==
  ASSUME Types, Running, Edge
  PROVE  Writing'
<1>. SUFFICES ASSUME NEW i \in Ids, wt_st'[i] = "wrt"
     PROVE  /\ cnt' = i /\ bs_grnt' = {i} /\ AllReady'
            /\ \A j \in Ids : j # i => D_rd'[j] = D_wt'[i]
  BY DEF Writing
<1>1. cnt = i /\ cnt' = i /\ bs_grnt' = {i} /\ AllReady' /\ ~ wrt
  BY NewWriter, NextGrant
<1>2. ASSUME NEW j \in Ids, j # i PROVE D_rd'[j] = D_wt'[i]
  <2>1. ~ ld_r(j) /\ ld_r(j)'
    BY <1>1, <1>2 DEF ld_r, wrt
  <2>2. rd_st'[j] # "rst"
    BY <1>1 DEF AllReady, rdi
  <2>. QED
    BY <1>1, <2>1, <2>2, ReadRegister
<1>. QED
  BY <1>1, <1>2

\* Unless everybody is ready nobody writes, and the writer stays ready itself.
LEMMA NobodyWrites ==
  ASSUME Types, Running, Edge, NEW s \in Ids, Cmp(s) \/ Store(s) \/ Reset(s)
  PROVE  /\ ~ wrt /\ ~ wrt'
         /\ rd_st[s] = "rdi" /\ rd_st'[s] = "rdi"
         /\ \A j \in Ids : rd_st'[j] # "rst" => D_rd'[j] = D_rd[j]
<1>1. ~ AllReady
  <2>1. After(s) \in Ids /\ After(s) # s
    BY AfterType
  <2>2. rd_st[After(s)] # "rdi"
    BY <2>1 DEF Cmp, Store, Reset
  <2>. QED
    BY <2>1, <2>2 DEF AllReady, rdi
<1>2. ~ wrt
  BY <1>1, NextGrant DEF wrt, Running, Writing
<1>3. ~ wrt'
  BY <1>1, NewWriter, NextGrant DEF wrt
<1>4. rd_st[s] = "rdi"
  BY DEF Cmp, Store, Reset, rdi
<1>5. rd_st'[s] = "rdi"
  BY <1>2, <1>4, ReadMachine DEF ld_r
<1>6. \A j \in Ids : rd_st'[j] # "rst" => D_rd'[j] = D_rd[j]
  BY <1>3, ReadRegister DEF ld_r
<1>. QED
  BY <1>2, <1>3, <1>4, <1>5, <1>6

LEMMA WriteEdge ==
  ASSUME Types, Running, Edge, AllReady
  PROVE  AllReady' \/ \E s \in Ids : Cmp(s)'
<1>0. PICK s \in Ids : s = cnt
  BY NextGrant
<1>1. CASE ~ wrt
  BY <1>1, ReadMachine DEF AllReady, rdi, ld_r
<1>2. CASE wrt
  <2>1. /\ wt_st[s] = "wrt" /\ bs_grnt = {s}
        /\ \A j \in Ids : j # s => D_rd[j] = D_wt[s]
        /\ D_wt[s] \in From(s)
    BY <1>0, <1>2 DEF wrt, Running, Writing, Loaded
  <2>2. wt_st'[s] = "rst"
    BY <2>1, WriteMachine
  <2>3. TrnRises
    <3>1. s \notin nthng
      BY <2>1 DEF Running, NothingToSend
    <3>. QED
      BY <1>0, <2>1, <2>2, <3>1 DEF TrnRises, trn_chng
  <2>4. rd_st'[s] = "rdi"
    BY <2>1, ReadMachine DEF AllReady, rdi, ld_r
  <2>5. ASSUME NEW j \in Ids, j # s PROVE rd_st'[j] = "cmp" /\ D_rd'[j] = D_wt[s]
    <3>1. ld_r(j)
      BY <1>2, <2>1, <2>5 DEF ld_r
    <3>2. rd_st'[j] = "cmp"
      BY <3>1, ReadMachine DEF AllReady, rdi
    <3>. QED
      BY <2>1, <2>5, <3>1, <3>2, ReadRegister
  <2>6. cnt' = After(s) /\ bs_grnt' = {s}
    BY <1>0, <2>3, NextGrant
  <2>. QED
    BY <2>1, <2>2, <2>4, <2>5, <2>6 DEF Cmp, rdi, After
<1>. QED
  BY <1>1, <1>2

LEMMA CmpEdge ==
  ASSUME Types, Running, Edge, NEW s \in Ids, Cmp(s)
  PROVE  Store(s)'
<1>1. /\ wt_st[s] = "rst" /\ cnt = After(s) /\ bs_grnt = {s}
      /\ After(s) # s /\ After(s) \in Ids
  BY AfterType DEF Cmp
<1>2. /\ ~ wrt /\ rd_st'[s] = "rdi"
      /\ \A j \in Ids : rd_st'[j] # "rst" => D_rd'[j] = D_rd[j]
  BY NobodyWrites
<1>3. PICK p \in From(s) : \A j \in Ids : j # s => rd_st[j] = "cmp" /\ D_rd[j] = p
  BY DEF Cmp
<1>4. wt_st'[s] = "idle"
  BY <1>1, WriteMachine
<1>5. cnt' = After(s) /\ bs_grnt' = {After(s)}
  <2>1. cnt \notin nthng'
    BY <1>1, NextGrant
  <2>2. wt_st'[cnt] # "rst"
    BY <1>1, <1>2, WriteMachine DEF wrt
  <2>. QED
    BY <1>1, <2>1, <2>2, NextGrant DEF TrnRises
<1>6. ASSUME NEW j \in Ids, j # s
      PROVE  D_rd'[j] = p /\ rd_st'[j] = IF p.dest \in {j, Bcast} THEN "push" ELSE "skip"
  <2>1. rd_st'[j] = IF p.dest \in {j, Bcast} THEN "push" ELSE "skip"
    BY <1>3, <1>6, ReadMachine DEF ForMe
  <2>. QED
    BY <1>2, <1>3, <1>6, <2>1
<1>. QED
  BY <1>2, <1>4, <1>5, <1>6 DEF Store, rdi, After

LEMMA StoreEdge ==
  ASSUME Types, Running, Edge, NEW s \in Ids, Store(s)
  PROVE  Reset(s)'
<1>1. rd_st'[s] = "rdi"
  BY NobodyWrites
<1>2. \A j \in Ids : j # s => rd_st'[j] = "rst"
  BY ReadMachine DEF Store
<1>3. bs_grnt' = {After(s)}
  BY NextGrant DEF Store
<1>. QED
  BY <1>1, <1>2, <1>3 DEF Reset, rdi, After

LEMMA ResetEdge ==
  ASSUME Types, Running, Edge, NEW s \in Ids, Reset(s)
  PROVE  AllReady'
<1>1. rd_st'[s] = "rdi"
  BY NobodyWrites
<1>2. \A j \in Ids : j # s => rd_st'[j] = "rdi"
  BY ReadMachine DEF Reset
<1>. QED
  BY <1>1, <1>2 DEF AllReady, rdi

LEMMA RunningEdge ==
  ASSUME Types, Running, Edge
  PROVE  Running'
<1>1. Granted'
  BY NextGrant DEF Granted
<1>2. InStep'
  BY WriteEdge, CmpEdge, StoreEdge, ResetEdge DEF Running, InStep
<1>. QED
  BY <1>1, <1>2, LoadedEdge, NothingToSendEdge, GrantLagsEdge, WritingEdge DEF Running

\* What an interface stores is a packet of another one.
LEMMA StoresPackets ==
  ASSUME Inv, NEW j \in Ids, Reading(j)
  PROVE  D_rd[j] \in Packets /\ D_rd[j].src # j
<1>1. rd_st[j] \notin {"rst", "rdi"}
  BY DEF Reading
<1>2. PICK s \in Ids : Cmp(s) \/ Store(s) \/ Reset(s)
  BY <1>1 DEF Inv, Starting, Running, InStep, AllReady, rdi
<1>3. j # s
  BY <1>1, <1>2 DEF Cmp, Store, Reset, rdi
<1>4. D_rd[j] \in From(s)
  BY <1>1, <1>2, <1>3 DEF Cmp, Store, Reset
<1>. QED
  BY <1>3, <1>4 DEF From

LEMMA EdgeTypes ==
  ASSUME Inv, Edge
  PROVE  Types'
<1>. USE DEF Types
<1>1. Types
  BY DEF Inv
<1>2. Loaded
  BY DEF Inv, Running, Starting, Loaded
<1>3. cnt' \in Ids /\ bs_grnt' \subseteq Ids /\ nthng' \subseteq Ids
  BY <1>1, NextGrant DEF Edge, nxt_nthng
<1>4. wt_st' \in [Ids -> {"rst", "idle", "ld", "pop", "rqst", "wrt"}]
  <2>1. wt_st' = [i \in Ids |-> wt_st'[i]]
    BY DEF Edge
  <2>2. \A i \in Ids : wt_st'[i] \in {"rst", "idle", "ld", "pop", "rqst", "wrt"}
    BY <1>1, WriteMachine
  <2>. QED
    BY <2>1, <2>2
<1>5. rd_st' \in [Ids -> {"rst", "rdi", "cmp", "push", "skip"}]
  <2>1. rd_st' = [i \in Ids |-> rd_st'[i]]
    BY DEF Edge
  <2>2. \A i \in Ids : rd_st'[i] \in {"rst", "rdi", "cmp", "push", "skip"}
    BY <1>1, ReadMachine
  <2>. QED
    BY <2>1, <2>2
<1>6. D_wt' \in [Ids -> Packets \union {Zero}]
  <2>1. D_wt' = [i \in Ids |-> D_wt'[i]]
    BY DEF Edge
  <2>2. ASSUME NEW i \in Ids PROVE D_wt'[i] \in Packets \union {Zero}
    <3>1. CASE wt_st'[i] = "ld"
      <4>1. Pndng(i)
        BY <1>1, <3>1, WriteMachine
      <4>2. queue[i] \in Seq(Packets) /\ queue[i] # <<>>
        BY <1>1, <4>1 DEF Pndng
      <4>3. Head(queue[i]) \in Packets
        BY <4>2, HeadTailProperties
      <4>4. D_wt'[i] = Head(queue[i])
        BY <1>1, <3>1, WriteMachine
      <4>. QED
        BY <4>3, <4>4
    <3>2. CASE wt_st'[i] # "ld"
      BY <1>1, <3>2, WriteMachine
    <3>. QED
      BY <3>1, <3>2
  <2>. QED
    BY <2>1, <2>2
<1>7. D_rd' \in [Ids -> Packets \union {Zero}]
  <2>1. D_rd' = [i \in Ids |-> D_rd'[i]]
    BY DEF Edge
  <2>2. \A i \in Ids : D_rd'[i] \in Packets \union {Zero}
    BY <1>1, <1>6, ReadRegister, NextGrant
  <2>. QED
    BY <2>1, <2>2
<1>8. sent' \in [Ids -> Seq(Packets)]
  BY <1>1 DEF Edge, PopAll
<1>9. got' \in [Ids -> Seq(Packets)]
  <2>1. got' = [j \in Ids |-> IF rd_st[j] = "push" THEN Append(got[j], D_rd[j]) ELSE got[j]]
    BY DEF Edge
  <2>2. ASSUME NEW j \in Ids, rd_st[j] = "push" PROVE Append(got[j], D_rd[j]) \in Seq(Packets)
    <3>1. D_rd[j] \in Packets
      BY <2>2, StoresPackets DEF Reading
    <3>. QED
      BY <1>1, <3>1, AppendProperties
  <2>. QED
    BY <1>1, <2>1, <2>2
<1>10. ASSUME NEW i \in Ids
       PROVE  queue'[i] \in Seq(Packets) /\ queue'[i] \in Seq(From(i))
  <2>1. queue'[i] = IF wt_st[i] = "pop" THEN Tail(queue[i]) ELSE queue[i]
    BY DEF Edge, PopAll
  <2>2. wt_st[i] = "pop" => queue[i] # <<>>
    BY <1>2 DEF Loaded
  <2>3. queue[i] \in Seq(Packets) /\ queue[i] \in Seq(From(i))
    BY <1>1
  <2>. QED
    BY <2>1, <2>2, <2>3, HeadTailProperties
<1>11. queue' = [i \in Ids |-> queue'[i]]
  BY DEF Edge, PopAll
<1>12. queue' \in [Ids -> Seq(Packets)]
  BY <1>10, <1>11
<1>. QED
  BY <1>3, <1>4, <1>5, <1>6, <1>7, <1>8, <1>9, <1>10, <1>12

\* What the FIFOs do between the edges concerns neither machines nor registers.
LEMMA Undisturbed ==
  ASSUME UNCHANGED <<control, D_wt, D_rd>>, Running, Loaded'
  PROVE  Running'
<1>1. /\ cnt' = cnt /\ bs_grnt' = bs_grnt /\ wt_st' = wt_st /\ rd_st' = rd_st
      /\ nthng' = nthng /\ D_wt' = D_wt /\ D_rd' = D_rd
  BY DEF control
<1>2. Granted' /\ NothingToSend' /\ GrantLags'
  BY <1>1 DEF Running, Granted, NothingToSend, GrantLags
<1>3. AllReady' = AllReady
  BY <1>1 DEF AllReady, rdi
<1>4. Writing'
  BY <1>1, <1>3 DEF Running, Writing
<1>5. ASSUME NEW s \in Ids, Cmp(s) PROVE Cmp(s)'
  BY <1>1, <1>5 DEF Cmp, rdi, After
<1>6. ASSUME NEW s \in Ids, Store(s) PROVE Store(s)'
  BY <1>1, <1>6 DEF Store, rdi, After
<1>7. ASSUME NEW s \in Ids, Reset(s) PROVE Reset(s)'
  BY <1>1, <1>7 DEF Reset, rdi, After
<1>8. InStep'
  BY <1>3, <1>5, <1>6, <1>7 DEF Running, InStep
<1>. QED
  BY <1>2, <1>4, <1>8 DEF Running

\* A packet more in a queue leaves its head alone.
LEMMA SendInv ==
  ASSUME Inv, NEW s \in Ids, NEW d \in Headers, Send(s, d), UNCHANGED <<control, D_wt, D_rd>>
  PROVE  Inv'
<1>. DEFINE p == [src |-> s, num |-> Len(sent[s]) + 1, dest |-> d]
<1>1. /\ sent' = [sent EXCEPT ![s] = Append(@, p)]
      /\ queue' = [queue EXCEPT ![s] = Append(@, p)]
      /\ got' = got
      /\ cnt' = cnt /\ bs_grnt' = bs_grnt /\ wt_st' = wt_st /\ rd_st' = rd_st
      /\ nthng' = nthng /\ D_wt' = D_wt /\ D_rd' = D_rd
  BY DEF Send, control
<1>2. p \in Packets /\ p \in From(s)
  BY DEF Packets, From, Inv, Types
<1>. HIDE DEF p
<1>3. Types'
  BY <1>1, <1>2, AppendProperties DEF Inv, Types
<1>4. Loaded => Loaded'
  <2>. SUFFICES ASSUME Loaded, NEW i \in Ids
       PROVE  /\ wt_st[i] \in {"ld", "pop"} => queue'[i] # <<>> /\ D_wt[i] = Head(queue'[i])
              /\ wt_st[i] \in {"rqst", "wrt"} => D_wt[i] \in From(i)
    BY <1>1 DEF Loaded
  <2>1. queue[i] \in Seq(Packets)
    BY DEF Inv, Types
  <2>2. queue'[i] = queue[i] \/ queue'[i] = Append(queue[i], p)
    BY <1>1 DEF Inv, Types
  <2>3. queue[i] # <<>> => queue'[i] # <<>> /\ Head(queue'[i]) = Head(queue[i])
    BY <1>2, <2>1, <2>2, AppendProperties, HeadTailProperties
  <2>. QED
    BY <2>3 DEF Loaded
<1>5. Running => Running'
  BY <1>4, Undisturbed DEF Running
<1>6. Starting => Starting'
  BY <1>1 DEF Starting
<1>. QED
  BY <1>3, <1>5, <1>6 DEF Inv

LEMMA StepInv == Inv /\ [Next]_vars => Inv'
<1>. SUFFICES ASSUME Inv, [Next]_vars PROVE Inv'
  OBVIOUS
<1>1. CASE UNCHANGED vars
  <2>1. Types' /\ UNCHANGED <<control, D_wt, D_rd>>
    BY <1>1 DEF vars, control, Inv, Types
  <2>2. Starting => Starting'
    BY <1>1 DEF vars, control, Starting
  <2>3. Loaded => Loaded'
    BY <1>1 DEF vars, control, Loaded
  <2>. QED
    BY <2>1, <2>2, <2>3, Undisturbed DEF Inv, Running
<1>2. CASE Edge
  BY <1>2, EdgeTypes, StartingEdge, RunningEdge DEF Inv
<1>3. CASE \E i \in Ids, d \in Headers : Send(i, d) /\ UNCHANGED <<control, D_wt, D_rd>>
  BY <1>3, SendInv
<1>. QED
  BY <1>1, <1>2, <1>3 DEF Next

LEMMA InvHolds == Spec => []Inv
BY InitInv, StepInv, PTL DEF Spec

-----------------------------------------------------------------------------
\* The machines keep their types, and what an interface reads is a packet of another
\* one, for any number of interfaces.
THEOREM TypeCorrect == Spec => []TypeOK
<1>1. Inv => TypeOK
  BY StoresPackets DEF Inv, Types, TypeOK
<1>. QED
  BY InvHolds, <1>1, PTL

\* No two interfaces ever write at the same time, although the grant lags behind the
\* turn, and nobody writes to an interface that is not ready.
THEOREM WriterAloneCorrect == Spec => []WriterAlone
<1>1. Inv => WriterAlone
  BY DEF Inv, Starting, Running, Writing, AllReady, WriterAlone
<1>. QED
  BY InvHolds, <1>1, PTL

\* The clock of the turn counters is low again before the next interface needs it.
THEOREM TurnIsPassedOnCorrect == Spec => TurnIsPassedOn
<1>1. Inv /\ [Next]_vars => [cnt' # cnt => ~ trn_chng(cnt)']_vars
  <2>. SUFFICES ASSUME Inv, Next, cnt' # cnt PROVE ~ trn_chng(cnt)'
    OBVIOUS
  <2>1. Types /\ Edge
    BY DEF Inv, Next, control
  <2>2. TrnRises /\ cnt \in Ids /\ cnt' = After(cnt) /\ After(cnt) # cnt
    BY <2>1, NextGrant, AfterType
  <2>3. Running /\ bs_grnt = {cnt}
    <3>1. CASE cnt \in nthng'
      BY <2>1, <2>2, <3>1, NextGrant DEF Inv, Starting, Running, Granted
    <3>2. CASE wt_st'[cnt] = "rst"
      <4>1. wt_st[cnt] = "wrt"
        BY <2>1, <2>2, <3>2, WriteMachine
      <4>. QED
        BY <2>2, <4>1 DEF Inv, Starting, Running, Writing
    <3>. QED
      BY <2>2, <3>1, <3>2 DEF TrnRises
  <2>4. cnt' \notin nthng' /\ cnt' \in Ids
    BY <2>1, <2>2, <2>3, NextGrant
  <2>5. wt_st'[cnt'] # "rst"
    <3>1. wt_st[cnt'] # "wrt"
      BY <2>2, <2>3, <2>4 DEF Running, Writing
    <3>. QED
      BY <2>1, <2>4, <3>1, WriteMachine
  <2>. QED
    BY <2>4, <2>5 DEF trn_chng
<1>. QED
  BY InvHolds, <1>1, PTL DEF Spec, TurnIsPassedOn

-----------------------------------------------------------------------------
(***************************************************************************)
(* The refinement.                                                         *)
(***************************************************************************)
\* Who holds a packet, by the phase of the bus.
Busy(s) == Cmp(s) \/ Store(s)

HeldByPhase(i) ==
  /\ wt_st[i] \in {"rqst", "wrt"} => Held(i) = D_wt[i]
  /\ wt_st[i] \notin {"rqst", "wrt"} =>
       /\ AllReady => Held(i) = Zero
       /\ \A s \in Ids : Reset(s) \/ (Busy(s) /\ i # s) => Held(i) = Zero
  /\ Busy(i) => \A j \in Ids : j # i => Held(i) = D_rd[j]

LEMMA HeldIs == Types /\ Running => \A i \in Ids : HeldByPhase(i)
<1>. SUFFICES ASSUME Types, Running, NEW i \in Ids PROVE HeldByPhase(i)
  OBVIOUS
<1>. USE DEF Busy
<1>1. wt_st[i] \in {"rqst", "wrt"} => Held(i) = D_wt[i]
  BY DEF Held
<1>2. wt_st[i] \notin {"rqst", "wrt"} /\ AllReady => Held(i) = Zero
  BY DEF Held, AllReady, Reading, rdi
<1>3. ASSUME NEW s \in Ids, Reset(s), wt_st[i] \notin {"rqst", "wrt"} PROVE Held(i) = Zero
  <2>1. \A j \in Ids : ~ Reading(j)
    BY <1>3 DEF Reset, Reading, rdi
  <2>. QED
    BY <1>3, <2>1 DEF Held
<1>4. ASSUME NEW s \in Ids, Cmp(s) \/ Store(s)
      PROVE  /\ ~ Reading(s) /\ wt_st[s] \notin {"rqst", "wrt"}
             /\ \A j \in Ids : j # s => Reading(j)
             /\ \A j, k \in Ids : j # s /\ k # s => D_rd[j] = D_rd[k]
  BY <1>4 DEF Cmp, Store, Reading, rdi
<1>5. ASSUME NEW s \in Ids, Cmp(s) \/ Store(s), i # s, wt_st[i] \notin {"rqst", "wrt"}
      PROVE  Held(i) = Zero
  BY <1>4, <1>5 DEF Held
<1>6. ASSUME NEW s \in Ids, Cmp(s) \/ Store(s), NEW j \in Ids, j # s
      PROVE  Held(s) = D_rd[j]
  <2>. DEFINE k == CHOOSE m \in Ids : Reading(m)
  <2>1. k \in Ids /\ Reading(k)
    BY <1>4, <1>6
  <2>2. k # s
    BY <1>4, <1>6, <2>1
  <2>3. Held(s) = D_rd[k]
    BY <1>4, <1>6 DEF Held
  <2>. QED
    BY <1>4, <1>6, <2>1, <2>2, <2>3
<1>. QED
  BY <1>1, <1>2, <1>3, <1>5, <1>6 DEF HeldByPhase

LEMMA HeldIsNext == Types' /\ Running' => (\A i \in Ids : HeldByPhase(i))'
BY HeldIs, PTL

LEMMA InitRefines == Init => Abstract!Init
<1>. SUFFICES ASSUME Init PROVE Abstract!Init
  OBVIOUS
<1>1. \A i \in Ids : wt_st[i] = "rst" /\ rd_st[i] = "rst"
  BY DEF Init
<1>2. \A i \in Ids : Held(i) = Zero
  BY <1>1 DEF Held, Reading
<1>. QED
  BY <1>2 DEF Init, PacketsInit, Abstract!Init, Abstract!PacketsInit, Abstract!Ids, Ids,
              Abstract!Zero, Zero

\* An interface that hands nothing over holds what it held, or what it popped.
LEMMA HeldStays ==
  ASSUME Types, Running, Edge, Types', Running', NEW i \in Ids, ~ Store(i)
  PROVE  /\ wt_st[i] = "pop" => Held(i) = Zero /\ Held(i)' = Head(queue[i])
         /\ wt_st[i] # "pop" => Held(i)' = Held(i)
<1>1. HeldByPhase(i) /\ HeldByPhase(i)'
  BY HeldIs, HeldIsNext
<1>2. CASE wt_st[i] = "rqst"
  <2>1. wt_st'[i] \in {"rqst", "wrt"} /\ D_wt'[i] = D_wt[i]
    BY <1>2, WriteMachine
  <2>. QED
    BY <1>1, <1>2, <2>1 DEF HeldByPhase
<1>3. CASE wt_st[i] = "wrt"
  <2>1. AllReady /\ wrt /\ cnt = i /\ bs_grnt = {i} /\ \A j \in Ids : j # i => D_rd[j] = D_wt[i]
    BY <1>3 DEF Running, Writing, wrt
  <2>2. ~ AllReady'
    <3>1. After(i) \in Ids /\ After(i) # i
      BY AfterType
    <3>2. rd_st'[After(i)] = "cmp"
      BY <2>1, <3>1, ReadMachine DEF AllReady, rdi, ld_r
    <3>. QED
      BY <3>1, <3>2 DEF AllReady, rdi
  <2>3. PICK s \in Ids : Cmp(s)'
    BY <2>1, <2>2, WriteEdge
  <2>4. s = i
    <3>1. bs_grnt' = {i}
      BY <2>1, NextGrant
    <3>. QED
      BY <2>3, <3>1 DEF Cmp
  <2>5. After(i) \in Ids /\ After(i) # i
    BY AfterType
  <2>6. D_rd'[After(i)] = D_wt[i]
    <3>1. ld_r(After(i)) /\ rd_st'[After(i)] # "rst"
      BY <2>1, <2>5, ReadMachine DEF ld_r, AllReady, rdi
    <3>. QED
      BY <2>1, <2>5, <3>1, ReadRegister
  <2>7. Held(i)' = D_rd'[After(i)]
    BY <1>1, <2>3, <2>4, <2>5 DEF HeldByPhase, Busy
  <2>. QED
    BY <1>1, <1>3, <2>6, <2>7 DEF HeldByPhase
<1>4. CASE wt_st[i] = "pop"
  <2>1. wt_st'[i] = "rqst" /\ D_wt'[i] = Head(queue[i])
    BY <1>4, WriteMachine DEF Running, Loaded
  <2>2. ~ Busy(i)
    BY <1>4 DEF Busy, Cmp, Store
  <2>3. Held(i) = Zero
    BY <1>1, <1>4, <2>2 DEF HeldByPhase, Running, InStep, Busy
  <2>. QED
    BY <1>1, <1>4, <2>1, <2>3 DEF HeldByPhase
<1>5. CASE wt_st[i] \in {"rst", "idle", "ld"}
  <2>1. wt_st'[i] \notin {"rqst", "wrt"} /\ wt_st[i] \notin {"rqst", "wrt"}
    BY <1>5, WriteMachine
  <2>2. CASE Cmp(i)
    <3>1. Store(i)'
      BY <2>2, CmpEdge
    <3>2. After(i) \in Ids /\ After(i) # i
      BY AfterType
    <3>3. Held(i) = D_rd[After(i)] /\ Held(i)' = D_rd'[After(i)]
      BY <1>1, <2>2, <3>1, <3>2 DEF HeldByPhase, Busy
    <3>4. rd_st'[After(i)] # "rst"
      BY <2>2, <3>2, ReadMachine DEF Cmp
    <3>5. D_rd'[After(i)] = D_rd[After(i)]
      BY <2>2, <3>2, <3>4, NobodyWrites
    <3>. QED
      BY <1>5, <3>3, <3>5
  <2>3. CASE ~ Cmp(i)
    <3>1. Held(i) = Zero
      BY <1>1, <2>1, <2>3 DEF HeldByPhase, Running, InStep, Busy
    <3>2. AllReady' \/ \E s \in Ids : Reset(s)' \/ (Busy(s)' /\ s # i)
      <4>1. CASE AllReady
        <5>1. CASE AllReady'
          BY <5>1
        <5>2. CASE ~ AllReady'
          <6>1. PICK s \in Ids : Cmp(s)'
            BY <4>1, <5>2, WriteEdge
          <6>2. s # i
            <7>1. wt_st[cnt] = "wrt"
              <8>1. CASE ~ wrt
                BY <4>1, <5>2, <8>1, ReadMachine DEF AllReady, rdi, ld_r
              <8>. QED
                BY <8>1 DEF wrt
            <7>2. bs_grnt' = {cnt}
              BY NextGrant
            <7>. QED
              BY <1>5, <6>1, <7>1, <7>2 DEF Cmp
          <6>. QED
            BY <6>1, <6>2 DEF Busy
        <5>. QED
          BY <5>1, <5>2
      <4>2. ASSUME NEW s \in Ids, Cmp(s) PROVE Busy(s)' /\ s # i
        BY <2>3, <4>2, CmpEdge DEF Busy
      <4>3. ASSUME NEW s \in Ids, Store(s) PROVE Reset(s)'
        BY <4>3, StoreEdge
      <4>4. ASSUME NEW s \in Ids, Reset(s) PROVE AllReady'
        BY <4>4, ResetEdge
      <4>. QED
        BY <4>1, <4>2, <4>3, <4>4 DEF Running, InStep
    <3>3. Held(i)' = Zero
      BY <1>1, <2>1, <3>2 DEF HeldByPhase
    <3>. QED
      BY <1>5, <3>1, <3>3
  <2>. QED
    BY <2>2, <2>3
<1>. QED
  BY <1>2, <1>3, <1>4, <1>5 DEF Types

LEMMA EdgeRefines ==
  ASSUME Inv, Inv', Edge
  PROVE  \E poppers, handing \in SUBSET Ids : Abstract!Transfer(poppers, handing)
<1>. DEFINE poppers == {i \in Ids : wt_st[i] = "pop"}
            handing == {i \in Ids : Running /\ Store(i)}
<1>1. Types /\ Types' /\ Running'
  BY StartingEdge, RunningEdge DEF Inv
<1>2. ASSUME NEW i \in Ids
      PROVE  /\ i \in poppers => queue[i] # <<>> /\ Held(i) = Zero /\ Held(i)' = Head(queue[i])
             /\ i \in handing => Held(i) # Zero /\ Held(i)' = Zero /\ i \notin poppers
             /\ i \notin poppers /\ i \notin handing => Held(i)' = Held(i)
  <2>1. CASE Starting
    <3>1. /\ wt_st[i] = "rst" /\ wt_st'[i] = "idle"
          /\ \A j \in Ids : ~ Reading(j) /\ ~ Reading(j)'
      BY <1>1, <2>1, WriteMachine, ReadMachine DEF Starting, Reading
    <3>2. Held(i) = Zero /\ Held(i)' = Zero
      BY <3>1 DEF Held
    <3>3. i \notin handing
      BY <2>1 DEF Starting, Running, Granted
    <3>4. i \notin poppers
      BY <3>1
    <3>. QED
      BY <3>2, <3>3, <3>4
  <2>2. CASE Running /\ Store(i)
    <3>1. HeldByPhase(i) /\ HeldByPhase(i)' /\ After(i) \in Ids /\ After(i) # i
      BY <1>1, <2>2, HeldIs, HeldIsNext, AfterType
    <3>2. Held(i) = D_rd[After(i)] /\ D_rd[After(i)] \in Packets
      BY <2>2, <3>1 DEF HeldByPhase, Busy, Store, From
    <3>3. wt_st'[i] \in {"idle", "ld"} /\ Reset(i)'
      BY <1>1, <2>2, WriteMachine, StoreEdge DEF Store
    <3>4. Held(i)' = Zero
      BY <3>1, <3>3 DEF HeldByPhase
    <3>5. wt_st[i] = "idle"
      BY <2>2 DEF Store
    <3>6. i \in handing /\ i \notin poppers
      BY <2>2, <3>5
    <3>7. Held(i) # Zero
      BY <3>2, ZeroIsNoPacket
    <3>. QED
      BY <3>4, <3>6, <3>7
  <2>3. CASE Running /\ ~ Store(i)
    <3>1. wt_st[i] = "pop" => queue[i] # <<>>
      BY <2>3 DEF Running, Loaded
    <3>. QED
      BY <1>1, <2>3, <3>1, HeldStays
  <2>. QED
    BY <2>1, <2>2, <2>3 DEF Inv
<1>3. ASSUME NEW s \in handing
      PROVE  /\ handing = {s}
             /\ \A j \in Ids :
                  /\ rd_st[j] = "push" <=> j \in Addressed(Held(s))
                  /\ rd_st[j] = "push" => D_rd[j] = Held(s)
  <2>1. Running /\ Store(s) /\ s \in Ids
    OBVIOUS
  <2>2. HeldByPhase(s) /\ After(s) \in Ids /\ After(s) # s
    BY <1>1, <2>1, HeldIs, AfterType
  <2>3. PICK p \in From(s) : \A j \in Ids : j # s =>
          D_rd[j] = p /\ rd_st[j] = IF p.dest \in {j, Bcast} THEN "push" ELSE "skip"
    BY <2>1 DEF Store
  <2>4. Held(s) = p
    BY <2>1, <2>2, <2>3 DEF HeldByPhase, Busy
  <2>5. p.src = s
    BY DEF From
  <2>6. rd_st[s] = "rdi"
    BY <2>1 DEF Store, rdi
  <2>7. ASSUME NEW j \in Ids
        PROVE  /\ rd_st[j] = "push" <=> j \in Addressed(p)
               /\ rd_st[j] = "push" => D_rd[j] = p
    BY <2>3, <2>5, <2>6 DEF Addressed
  <2>8. ASSUME NEW t \in handing PROVE t = s
    <3>1. rd_st[t] = "rdi"
      BY DEF Store, rdi
    <3>. QED
      BY <2>3, <3>1
  <2>. QED
    BY <2>4, <2>7, <2>8
<1>4. ASSUME handing = {}, NEW j \in Ids PROVE rd_st[j] # "push"
  BY <1>4 DEF Inv, Starting, Running, InStep, AllReady, Cmp, Reset, rdi
<1>. DEFINE h == [i \in Ids |-> Held(i)]
<1>5. /\ \A i \in poppers : queue[i] # <<>> /\ h[i] = Zero
      /\ \A i \in handing : h[i] # Zero
      /\ \A i, j \in handing : i = j
  BY <1>2, <1>3
<1>6. PopAll(poppers)
  BY DEF Edge
<1>7. h' = [i \in Ids |-> IF i \in poppers THEN Head(queue[i])
                         ELSE IF i \in handing THEN Zero ELSE h[i]]
  BY <1>2
<1>8. got' = [j \in Ids |->
                IF \E i \in handing : j \in Addressed(h[i])
                THEN Append(got[j], h[CHOOSE i \in handing : TRUE]) ELSE got[j]]
  <2>1. got' = [j \in Ids |-> IF rd_st[j] = "push" THEN Append(got[j], D_rd[j]) ELSE got[j]]
    BY DEF Edge
  <2>2. CASE handing = {}
    BY <1>4, <2>1, <2>2
  <2>3. ASSUME NEW s \in handing
        PROVE got' = [j \in Ids |->
                       IF \E i \in handing : j \in Addressed(h[i])
                       THEN Append(got[j], h[CHOOSE i \in handing : TRUE]) ELSE got[j]]
    <3>1. handing = {s} /\ (CHOOSE i \in handing : TRUE) = s /\ h[s] = Held(s)
      BY <1>3
    <3>2. ASSUME NEW j \in Ids
          PROVE  (IF rd_st[j] = "push" THEN Append(got[j], D_rd[j]) ELSE got[j])
                   = (IF \E i \in handing : j \in Addressed(h[i])
                      THEN Append(got[j], h[CHOOSE i \in handing : TRUE]) ELSE got[j])
      <4>1. (\E i \in handing : j \in Addressed(h[i])) <=> j \in Addressed(Held(s))
        BY <3>1
      <4>2. h[CHOOSE i \in handing : TRUE] = Held(s)
        BY <3>1
      <4>3. CASE rd_st[j] = "push"
        <5>1. j \in Addressed(Held(s)) /\ D_rd[j] = Held(s)
          BY <1>3, <2>3, <4>3
        <5>. HIDE DEF h, handing
        <5>. QED
          BY <4>1, <4>2, <4>3, <5>1
      <4>4. CASE rd_st[j] # "push"
        <5>1. j \notin Addressed(Held(s))
          BY <1>3, <2>3, <4>4
        <5>. HIDE DEF h, handing
        <5>. QED
          BY <4>1, <4>4, <5>1
      <4>. QED
        BY <4>3, <4>4
    <3>. QED
      BY <2>1, <3>2
  <2>. QED
    BY <2>2, <2>3
<1>. HIDE DEF poppers, handing
<1>9. Abstract!Transfer(poppers, handing)
  BY <1>5, <1>6, <1>7, <1>8
     DEF Abstract!Transfer, Abstract!PopAll, PopAll, Abstract!Pndng, Abstract!Ids, Ids,
         Abstract!Zero, Zero, Abstract!Addressed, Addressed
<1>. QED
  BY <1>9 DEF poppers, handing

LEMMA StepRefines == Inv /\ Inv' /\ [Next]_vars => [Abstract!Next]_(Abstract!vars)
<1>. SUFFICES ASSUME Inv, Inv', [Next]_vars PROVE [Abstract!Next]_(Abstract!vars)
  OBVIOUS
<1>1. CASE UNCHANGED vars
  BY <1>1 DEF vars, control, Abstract!vars, Held, Reading
<1>2. CASE Edge
  BY <1>2, EdgeRefines DEF Abstract!Next, Abstract!Ids, Ids
<1>3. ASSUME NEW i \in Ids, NEW d \in Headers,
             Send(i, d) /\ UNCHANGED <<control, D_wt, D_rd>>
      PROVE  Abstract!Next
  <2>1. UNCHANGED [j \in Ids |-> Held(j)]
    BY <1>3 DEF control, Held, Reading
  <2>2. Abstract!Send(i, d)
    BY <1>3 DEF Send, Abstract!Send
  <2>. QED
    BY <2>1, <2>2 DEF Abstract!Next, Abstract!Ids, Ids, Abstract!Headers, Headers
<1>. QED
  BY <1>1, <1>2, <1>3 DEF Next

\* The parallel bus without a central arbiter keeps the promise of a bus, for any
\* number of interfaces and of packets.
THEOREM TransfersPacketsCorrect == Spec => TransfersPackets
BY InitRefines, StepRefines, InvHolds, PTL DEF Spec, TransfersPackets, Abstract!Spec

Promise == INSTANCE BusTransferProofs WITH held <- [i \in Ids |-> Held(i)]

\* On the parallel bus every interface gets, source by source, a prefix of the packets
\* sent to it, in order and each once, for any number of interfaces and of packets.
THEOREM DeliveredCorrect == Spec => []Delivered
<1>1. Abstract!Init => Promise!Init
  BY DEF Abstract!Init, Promise!Init, Abstract!PacketsInit, Promise!PacketsInit,
         Abstract!Ids, Promise!Ids, Abstract!Zero, Promise!Zero
<1>2. [Abstract!Next]_(Abstract!vars) => [Promise!Next]_(Promise!vars)
  BY DEF Abstract!Next, Promise!Next, Abstract!vars, Promise!vars, Abstract!Transfer,
         Promise!Transfer, Abstract!PopAll, Promise!PopAll, Abstract!Pndng, Promise!Pndng,
         Abstract!Send, Promise!Send, Abstract!Addressed, Promise!Addressed,
         Abstract!Headers, Promise!Headers, Abstract!Ids, Promise!Ids,
         Abstract!Zero, Promise!Zero
<1>3. Promise!Spec => []Promise!Delivered
  BY BusAssumption, Promise!DeliveredCorrect, PTL DEF Promise!BusAssumption, Promise!Ids, Ids
<1>4. Promise!Delivered => Delivered
  BY DEF Promise!Delivered, Delivered, Promise!Addressed, Addressed, Promise!Ids, Ids
<1>. QED
  BY TransfersPacketsCorrect, <1>1, <1>2, <1>3, <1>4, PTL
     DEF TransfersPackets, Abstract!Spec, Promise!Spec
=============================================================================
