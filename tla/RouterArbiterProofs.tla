------------------------ MODULE RouterArbiterProofs -------------------------
(***************************************************************************)
(* The arbiter keeps its grants clean for any number of interfaces and any *)
(* choice of the ones fed by a driver.                                     *)
(***************************************************************************)
EXTENDS RouterArbiter, TLAPS

\* The modulo of Counter_arb stays within the interfaces.
LEMMA TurnStays ==
  ASSUME NEW i \in Ntrfs
  PROVE  After(i) \in Ntrfs
  BY ArbiterAssumption, SMT DEF After, Ntrfs

\* The history counters are capped.
LEMMA HistoryBounded ==
  ASSUME TypeOK, NEW nextPndng \in SUBSET Ntrfs, Edge(nextPndng)
  PROVE  wait' \in 0 .. MaxWait /\ skips' \in 0 .. MaxSkips
<1> USE ArbiterAssumption DEF TypeOK, Edge, ControlEdge
<1>1. wait' \in 0 .. MaxWait
  BY SMT DEF NextWait
<1>2. skips' \in 0 .. MaxSkips
  BY SMT
<1> QED BY <1>1, <1>2

\* The variables keep their types along every step.
LEMMA TypeStep ==
  ASSUME TypeOK, [Next]_vars
  PROVE  TypeOK'
<1>1. CASE Next
  <2>1. PICK nextPndng \in NextPending : Edge(nextPndng)
    BY <1>1 DEF Next
  <2>2. nextPndng \in SUBSET Ntrfs
    BY DEF NextPending
  <2>3. cur_st' \in {"rst", "psh1", "pop1", "cnt1"}
    BY <2>1 DEF Edge, ControlEdge, nxt_st, TypeOK
  <2>4. trn' \in Ntrfs
    BY <2>1, TurnStays DEF Edge, ControlEdge, TypeOK
  <2>5. pndng_i' \subseteq Ntrfs
    BY <2>1, <2>2 DEF Edge, ControlEdge
  <2>6. popped' \subseteq Ntrfs
    BY <2>1 DEF Edge, ControlEdge, popin, TypeOK
  <2>7. wait' \in 0 .. MaxWait /\ skips' \in 0 .. MaxSkips
    BY <2>1, <2>2, HistoryBounded
  <2> QED BY <2>3, <2>4, <2>5, <2>6, <2>7 DEF TypeOK
<1>2. CASE UNCHANGED vars
  BY <1>2 DEF vars, TypeOK
<1> QED BY <1>1, <1>2

\* The state and the turn of the arbiter stay in range.
THEOREM TypeCorrect == Spec => []TypeOK
<1>1. Init => TypeOK
  BY ArbiterAssumption, SMT DEF Init, ControlInit, TypeOK, Ntrfs
<1> QED BY <1>1, TypeStep, PTL DEF Spec

-----------------------------------------------------------------------------
\* The inductive invariant: besides the grant being pending, an interface that was
\* just popped (whose driver may still lower its bit) is found only in cnt1, so
\* that no bit falls while the machine is on its way to a push.
GrantInv ==
  /\ GrantIsPending
  /\ popped # {} => cur_st = "cnt1"

\* An edge without a counter edge leaves the turn alone.
LEMMA TurnKept ==
  ASSUME NEW nextPndng, Edge(nextPndng), cur_st # "cnt1", nxt_st # "cnt1"
  PROVE  trn' = trn
  BY DEF Edge, ControlEdge, TurnEdges

LEMMA GrantStep ==
  ASSUME TypeOK, GrantInv, [Next]_vars
  PROVE  GrantInv'
<1>1. CASE UNCHANGED vars
  BY <1>1 DEF vars, GrantInv, GrantIsPending
<1>2. CASE Next
  <2>1. PICK nextPndng \in NextPending : Edge(nextPndng)
    BY <1>2 DEF Next
  <2>2. CASE cur_st = "rst"
    <3>1. pndng_i \subseteq pndng_i'
      BY <2>1, <2>2 DEF GrantInv, NextPending, MayFall, popin, Edge, ControlEdge
    <3>2. popped' = {}
      BY <2>1, <2>2 DEF Edge, ControlEdge, popin
    <3>3. CASE trn \in pndng_i
      <4>1. cur_st' = "psh1"
        BY <2>1, <2>2, <3>3 DEF Edge, ControlEdge, Clocked, nxt_st
      <4>2. trn' = trn
        BY <2>1, <2>2, <3>3, TurnKept DEF nxt_st
      <4> QED BY <3>1, <3>2, <3>3, <4>1, <4>2 DEF GrantInv, GrantIsPending
    <3>4. CASE trn \notin pndng_i
      <4>1. cur_st' \in {"rst", "cnt1"}
        BY <2>1, <2>2, <3>4 DEF Edge, ControlEdge, nxt_st
      <4> QED BY <3>2, <4>1 DEF GrantInv, GrantIsPending
    <3> QED BY <3>3, <3>4
  <2>3. CASE cur_st = "psh1"
    <3>1. trn \in pndng_i /\ popped = {}
      BY <2>3 DEF GrantInv, GrantIsPending
    <3>2. cur_st' = "pop1" /\ trn' = trn
      BY <2>1, <2>3, <3>1, TurnKept DEF Edge, ControlEdge, Clocked, nxt_st
    <3>3. trn \in pndng_i' /\ popped' = {}
      BY <2>1, <2>3, <3>1 DEF Edge, ControlEdge, NextPending, MayFall, popin
    <3> QED BY <3>2, <3>3 DEF GrantInv, GrantIsPending
  <2>4. CASE cur_st = "pop1"
    <3>1. cur_st' = "cnt1"
      BY <2>1, <2>4 DEF GrantInv, GrantIsPending, Edge, ControlEdge, Clocked, nxt_st
    <3> QED BY <3>1 DEF GrantInv, GrantIsPending
  <2>5. CASE cur_st = "cnt1"
    <3>1. cur_st' \in {"rst", "cnt1"} /\ popped' = {}
      BY <2>1, <2>5 DEF Edge, ControlEdge, nxt_st, popin
    <3> QED BY <3>1 DEF GrantInv, GrantIsPending
  <2> QED BY <2>2, <2>3, <2>4, <2>5 DEF TypeOK
<1> QED BY <1>1, <1>2

\* From the push to the pop the granted interface stays pending, whatever the other
\* interfaces do and however often the turn counter is clocked twice.
THEOREM GrantCorrect == Spec => []GrantIsPending
<1>1. Init => TypeOK /\ GrantInv
  BY ArbiterAssumption, SMT DEF Init, ControlInit, TypeOK, Ntrfs, GrantInv, GrantIsPending
<1>2. TypeOK /\ GrantInv /\ [Next]_vars => TypeOK' /\ GrantInv'
  BY TypeStep, GrantStep
<1>3. GrantInv => GrantIsPending
  BY DEF GrantInv
<1> QED BY <1>1, <1>2, <1>3, PTL DEF Spec

\* The pop of an interface comes one edge after its push and never without it: the
\* flit that was copied is the flit that is dropped from the source.
THEOREM PopFollowsPushCorrect == Spec => PopFollowsPush
<1> DEFINE Clean == /\ cur_st' = "pop1" => cur_st = "psh1" /\ trn' = trn
                    /\ cur_st = "psh1" => cur_st' = "pop1"
<1>1. ASSUME TypeOK, GrantInv, [Next]_vars
      PROVE  [Clean]_vars
  <2>1. CASE UNCHANGED vars
    BY <2>1
  <2>2. CASE Next
    <3>1. PICK nextPndng \in NextPending : Edge(nextPndng)
      BY <2>2 DEF Next
    <3>2. CASE cur_st = "psh1"
      <4>1. cur_st' = "pop1" /\ trn' = trn
        BY <1>1, <3>1, <3>2, TurnKept
           DEF GrantInv, GrantIsPending, Edge, ControlEdge, Clocked, nxt_st
      <4> QED BY <3>2, <4>1
    <3>3. CASE cur_st \in {"rst", "cnt1"}
      <4>1. cur_st' # "pop1"
        BY <3>1, <3>3 DEF Edge, ControlEdge, nxt_st
      <4> QED BY <3>3, <4>1
    <3>4. CASE cur_st = "pop1"
      <4>1. cur_st' = "cnt1"
        BY <1>1, <3>1, <3>4 DEF GrantInv, GrantIsPending, Edge, ControlEdge, Clocked, nxt_st
      <4> QED BY <3>4, <4>1
    <3> QED BY <1>1, <3>2, <3>3, <3>4 DEF TypeOK
  <2> QED BY <1>1, <2>1, <2>2
<1>2. Init => TypeOK /\ GrantInv
  BY ArbiterAssumption, SMT DEF Init, ControlInit, TypeOK, Ntrfs, GrantInv, GrantIsPending
<1>3. TypeOK /\ GrantInv /\ [Next]_vars => TypeOK' /\ GrantInv'
  BY TypeStep, GrantStep
<1> QED BY <1>1, <1>2, <1>3, PTL DEF Spec, PopFollowsPush

-----------------------------------------------------------------------------
(***************************************************************************)
(* How long an interface waits.  The turn needs at most four edges to pass *)
(* an interface, so the cycles that are left until Watched is popped are   *)
(* at most those of Remaining.  Waited and remaining cycles together stay  *)
(* within a rotation for each time the turn has jumped over Watched.       *)
(***************************************************************************)
Distance(i) == IF i <= Watched THEN Watched - i ELSE (Watched - i) + N

Phase(st) ==
  CASE st = "cnt1" -> 3 [] st = "rst" -> 2 [] st = "psh1" -> 1 [] OTHER -> 0

Remaining == 4 * Distance(trn) + Phase(cur_st)

WaitInv ==
  /\ wait = 0 => skips = 0
  /\ wait > 0 =>
       /\ Watched \in pndng_i /\ Watched \notin popped
       /\ skips < MaxSkips => wait + Remaining <= Rotation * (skips + 1)

\* Passing the turn on brings it one closer to Watched, or all the way round.
LEMMA TurnApproaches ==
  ASSUME NEW i \in Ntrfs
  PROVE  /\ Distance(i) \in 0 .. N - 1
         /\ Distance(i) = 0 <=> i = Watched
         /\ Distance(After(i)) = IF i = Watched THEN N - 1 ELSE Distance(i) - 1
<1>1. i \in Int /\ 0 <= i /\ i < N /\ N \in Int /\ N > 1
  BY ArbiterAssumption DEF Ntrfs
<1>2. Watched \in Int /\ 0 <= Watched /\ Watched < N
  BY ArbiterAssumption
<1>3. After(i) = IF i + 1 = N THEN 0 ELSE i + 1
  <2>1. CASE i + 1 = N
    <3>1. (i + 1) % N = 0
      BY <1>1, <2>1, SMTT(30)
    <3>. QED
      BY <2>1, <3>1 DEF After
  <2>2. CASE i + 1 < N
    <3>1. (i + 1) % N = i + 1
      BY <1>1, <2>2, SMTT(30)
    <3>. QED
      BY <1>1, <2>2, <3>1 DEF After
  <2>. QED
    BY <1>1, <2>1, <2>2
<1>. QED
  BY <1>1, <1>2, <1>3 DEF Distance

\* One more skipped turn allows for one more rotation.
LEMMA RotationMore ==
  ASSUME NEW n \in Nat
  PROVE  /\ Rotation \in Nat /\ Rotation = 4 * N
         /\ Rotation * (n + 1) \in Nat
         /\ Rotation * ((n + 1) + 1) = Rotation * (n + 1) + Rotation
<1>1. Rotation \in Nat /\ Rotation = 4 * N
  BY ArbiterAssumption DEF Rotation
<1>2. \A r \in Nat : r * (n + 1) \in Nat /\ r * ((n + 1) + 1) = r * (n + 1) + r
  OBVIOUS
<1>. QED
  BY <1>1, <1>2

\* The turn moves only with an edge that enters cnt1, or with the second edge that
\* leaves it.
LEMMA RemainingStep ==
  ASSUME TypeOK, NEW nextPndng, Edge(nextPndng), Clocked, Watched \notin popin
  PROVE  /\ ~ (cur_st = "cnt1" /\ TurnEdges(nextPndng) = 1 /\ trn = Watched) =>
              (cur_st = "rst" /\ trn = Watched /\ Watched \notin pndng_i)
                \/ Remaining' + 1 <= Remaining
         /\ Remaining' <= 4 * N - 1
         /\ cur_st = "cnt1" /\ TurnEdges(nextPndng) = 1 /\ trn = Watched =>
              Remaining' + 1 <= Remaining + 4 * N
<1>1. PICK d : d = Distance(trn)
  OBVIOUS
<1>2. PICK e : e = Distance(trn)'
  OBVIOUS
<1>3. /\ trn' = IF TurnEdges(nextPndng) = 1 THEN After(trn) ELSE trn
      /\ cur_st' = nxt_st
      /\ trn \in Ntrfs /\ trn' \in Ntrfs
  BY TurnStays DEF Edge, ControlEdge, TypeOK
<1>4. d \in 0 .. N - 1 /\ (d = 0 <=> trn = Watched) /\ e \in 0 .. N - 1 /\ N \in Nat /\ N > 1
  BY <1>1, <1>2, <1>3, TurnApproaches, ArbiterAssumption DEF Distance
<1>5. /\ TurnEdges(nextPndng) = 1 => e = IF trn = Watched THEN N - 1 ELSE d - 1
      /\ TurnEdges(nextPndng) # 1 => e = d
  BY <1>1, <1>2, <1>3, TurnApproaches DEF Distance
<1>6. Remaining = 4 * d + Phase(cur_st) /\ Remaining' = 4 * e + Phase(cur_st')
  BY <1>1, <1>2 DEF Remaining, Phase
<1>7. CASE cur_st = "rst"
  <2>1. CASE trn \in pndng_i
    <3>1. cur_st' = "psh1" /\ TurnEdges(nextPndng) # 1
      BY <1>3, <1>7, <2>1 DEF nxt_st, TurnEdges
    <3>2. Remaining = 4 * d + 2 /\ Remaining' = 4 * e + 1 /\ e = d
      BY <1>5, <1>6, <1>7, <3>1 DEF Phase
    <3>. QED
      BY <1>4, <1>7, <3>2
  <2>2. CASE trn \notin pndng_i
    <3>1. cur_st' = "cnt1" /\ TurnEdges(nextPndng) = 1
      BY <1>3, <1>7, <2>2 DEF nxt_st, TurnEdges
    <3>2. Remaining = 4 * d + 2 /\ Remaining' = 4 * e + 3
      BY <1>6, <1>7, <3>1 DEF Phase
    <3>. QED
      BY <1>4, <1>5, <1>7, <2>2, <3>1, <3>2
  <2>. QED
    BY <2>1, <2>2
<1>8. CASE cur_st = "psh1"
  <2>1. cur_st' = "pop1" /\ TurnEdges(nextPndng) # 1
    BY <1>3, <1>8 DEF nxt_st, TurnEdges
  <2>2. Remaining = 4 * d + 1 /\ Remaining' = 4 * e /\ e = d
    BY <1>4, <1>5, <1>6, <1>8, <2>1 DEF Phase
  <2>. QED
    BY <1>4, <1>8, <2>2
<1>9. CASE cur_st = "pop1"
  <2>1. cur_st' = "cnt1" /\ TurnEdges(nextPndng) = 1 /\ trn # Watched
    BY <1>3, <1>9 DEF nxt_st, TurnEdges, popin
  <2>2. Remaining = 4 * d /\ Remaining' = 4 * e + 3 /\ e = d - 1
    BY <1>4, <1>5, <1>6, <1>9, <2>1 DEF Phase
  <2>. QED
    BY <1>4, <1>9, <2>2
<1>10. CASE cur_st = "cnt1"
  <2>1. cur_st' = "rst"
    BY <1>3, <1>10 DEF nxt_st
  <2>2. Remaining = 4 * d + 3 /\ Remaining' = 4 * e + 2
    BY <1>6, <1>10, <2>1 DEF Phase
  <2>. QED
    BY <1>4, <1>5, <1>10, <2>2
<1>. QED
  BY <1>7, <1>8, <1>9, <1>10 DEF TypeOK

LEMMA WaitStep ==
  ASSUME TypeOK, WaitInv, [Next]_vars
  PROVE  WaitInv'
<1>1. CASE UNCHANGED vars
  BY <1>1 DEF vars, WaitInv, Remaining, Phase, Distance
<1>2. CASE Next
  <2>1. PICK nextPndng \in NextPending : Edge(nextPndng)
    BY <1>2 DEF Next
  <2>2. /\ wait' = NextWait(nextPndng) /\ popped' = popin /\ pndng_i' = nextPndng
        /\ skips' = IF NextWait(nextPndng) = 0 THEN 0
                    ELSE IF SkipsWatched(nextPndng) /\ skips < MaxSkips THEN skips + 1
                    ELSE skips
    BY <2>1 DEF Edge, ControlEdge
  <2>3. wait \in Nat /\ skips \in Nat /\ MaxSkips \in Nat
    BY ArbiterAssumption DEF TypeOK
  <2>4. CASE Watched \in popin
    BY <2>2, <2>4 DEF NextWait, WaitInv
  <2>5. CASE Watched \notin popin /\ wait = 0
    <3>1. NextWait(nextPndng) \in {0, 1} /\ skips = 0 /\ skips' = 0
      BY <2>2, <2>3, <2>5 DEF NextWait, WaitInv, SkipsWatched
    <3>2. CASE NextWait(nextPndng) = 0
      BY <2>2, <3>1, <3>2 DEF WaitInv
    <3>3. CASE NextWait(nextPndng) = 1
      <4>1. Watched \in pndng_i'
        BY <2>2, <2>5, <3>3 DEF NextWait
      <4>2. Remaining' <= 4 * N - 1 /\ Remaining' \in Int
        <5>1. /\ Distance(trn)' \in 0 .. N - 1
              /\ Phase(cur_st') \in 0 .. 3 /\ N \in Nat
              /\ Remaining' = 4 * Distance(trn)' + Phase(cur_st')
          <6>1. trn' \in Ntrfs
            BY <1>2, TypeStep DEF TypeOK
          <6>. QED
            BY <6>1, TurnApproaches, ArbiterAssumption DEF Distance, Phase, Remaining
        <5>2. PICK e : e = Distance(trn)'
          OBVIOUS
        <5>. QED
          BY <5>1, <5>2
      <4>3. 1 + Remaining' <= Rotation * (0 + 1)
        <5>1. Rotation \in Nat /\ Rotation = 4 * N /\ N \in Nat
          BY RotationMore, ArbiterAssumption
        <5>2. \A r \in Nat : r * (0 + 1) = r
          OBVIOUS
        <5>3. Rotation * (0 + 1) = 4 * N
          BY <5>1, <5>2
        <5>4. PICK full \in Int : full = 4 * N
          BY <5>1
        <5>5. PICK next \in Int : next = Remaining'
          BY <4>2
        <5>6. next <= full - 1
          BY <4>2, <5>4, <5>5
        <5>7. 1 + next <= full
          BY <5>6
        <5>. QED
          BY <5>3, <5>4, <5>5, <5>7
      <4>. QED
        BY <2>2, <2>5, <3>1, <3>3, <4>1, <4>3 DEF WaitInv, Rotation
    <3>. QED
      BY <3>1, <3>2, <3>3
  <2>6. CASE Watched \notin popin /\ wait > 0
    <3>1. Watched \in pndng_i /\ Watched \notin popped
      BY <2>6 DEF WaitInv
    <3>2. Watched \in pndng_i' /\ Watched \notin popped' /\ Clocked
      <4>1. Watched \notin MayFall
        BY <2>6, <3>1 DEF MayFall
      <4>. QED
        BY <2>2, <2>6, <3>1, <4>1 DEF NextPending, Clocked
    <3>3. wait' \in {wait, wait + 1} /\ wait' > 0
      BY <2>2, <2>3, <2>6 DEF NextWait
    <3>4. ASSUME skips' < MaxSkips
          PROVE  wait' + Remaining' <= Rotation * (skips' + 1)
      <4>1. skips' = IF SkipsWatched(nextPndng) /\ skips < MaxSkips THEN skips + 1 ELSE skips
        BY <2>2, <3>3
      <4>2. skips < MaxSkips
        BY <2>3, <3>4, <4>1
      <4>3. PICK left : left = Remaining
        OBVIOUS
      <4>4. PICK next : next = Remaining'
        OBVIOUS
      <4>5. left \in Int /\ next \in Int
        <5>1. trn \in Ntrfs /\ trn' \in Ntrfs
          BY <1>2, TypeStep DEF TypeOK
        <5>2. Distance(trn) \in Int /\ Distance(trn)' \in Int
          BY <5>1, TurnApproaches, ArbiterAssumption DEF Distance
        <5>3. Phase(cur_st) \in Int /\ Phase(cur_st)' \in Int
          BY DEF Phase
        <5>. QED
          BY <4>3, <4>4, <5>2, <5>3 DEF Remaining
      <4>6. wait + left <= Rotation * (skips + 1)
        BY <2>6, <4>2, <4>3 DEF WaitInv
      <4>7. CASE ~ SkipsWatched(nextPndng)
        <5>1. skips' = skips
          BY <4>1, <4>7
        <5>2. next + 1 <= left
          <6>1. ~ (cur_st = "cnt1" /\ TurnEdges(nextPndng) = 1 /\ trn = Watched)
            BY <2>6, <4>7 DEF SkipsWatched
          <6>. QED
            BY <2>1, <2>6, <3>1, <3>2, <4>3, <4>4, <6>1, RemainingStep
        <5>3. PICK r \in Int : r = Rotation * (skips + 1)
          BY <2>3, RotationMore
        <5>4. wait + left <= r
          BY <4>6, <5>3
        <5>5. wait' + next <= r
          <6>1. CASE wait' = wait
            BY <2>3, <4>5, <5>2, <5>4, <6>1
          <6>2. CASE wait' = wait + 1
            BY <2>3, <4>5, <5>2, <5>4, <6>2
          <6>. QED
            BY <3>3, <6>1, <6>2
        <5>. QED
          BY <4>4, <5>1, <5>3, <5>5
      <4>8. CASE SkipsWatched(nextPndng)
        <5>1. skips' = skips + 1
          BY <4>1, <4>2, <4>8
        <5>2. next + 1 <= left + 4 * N
          BY <2>1, <2>6, <3>2, <4>3, <4>4, <4>8, RemainingStep DEF SkipsWatched
        <5>3. PICK r : r = Rotation * (skips + 1)
          OBVIOUS
        <5>4. r \in Int /\ Rotation = 4 * N /\ 4 * N \in Int
              /\ Rotation * ((skips + 1) + 1) = r + Rotation
          BY <2>3, <5>3, RotationMore, ArbiterAssumption
        <5>5. PICK full \in Int : full = 4 * N
          BY <5>4
        <5>6. wait' + next <= r + full
          BY <2>3, <3>3, <4>5, <4>6, <5>2, <5>3, <5>4, <5>5
        <5>. QED
          BY <4>4, <5>1, <5>4, <5>5, <5>6
      <4>. QED
        BY <4>7, <4>8
    <3>. QED
      BY <3>2, <3>3, <3>4 DEF WaitInv
  <2>. QED
    BY <2>3, <2>4, <2>5, <2>6
<1>. QED
  BY <1>1, <1>2

\* An interface whose turn is never skipped is popped within a rotation, in which all
\* the others are served, and every skip costs it at most another rotation, for any
\* number of interfaces.
THEOREM WaitIsBoundedCorrect == Spec => []WaitIsBounded
<1>1. Init => WaitInv
  BY DEF Init, WaitInv
<1>2. TypeOK /\ WaitInv /\ [Next]_vars => WaitInv'
  BY WaitStep
<1>3. TypeOK /\ WaitInv => WaitIsBounded
  <2>. SUFFICES ASSUME TypeOK, WaitInv, skips < MaxSkips
       PROVE  wait <= Rotation * (skips + 1)
    BY DEF WaitIsBounded
  <2>1. wait \in Nat /\ skips \in Nat
    BY ArbiterAssumption DEF TypeOK
  <2>2. PICK r \in Nat : r = Rotation * (skips + 1)
    BY <2>1, RotationMore
  <2>3. CASE wait = 0
    BY <2>2, <2>3
  <2>4. CASE wait > 0
    <3>1. PICK left : left = Remaining
      OBVIOUS
    <3>2. left \in Nat
      <4>1. trn \in Ntrfs
        BY DEF TypeOK
      <4>2. Distance(trn) \in Nat /\ Phase(cur_st) \in Nat
        BY <4>1, TurnApproaches, ArbiterAssumption DEF Phase
      <4>. QED
        BY <3>1, <4>2 DEF Remaining
    <3>3. wait + left <= r
      BY <2>2, <2>4, <3>1 DEF WaitInv
    <3>. QED
      BY <2>1, <2>2, <3>2, <3>3
  <2>. QED
    BY <2>1, <2>3, <2>4
<1>. QED
  BY <1>1, <1>2, <1>3, TypeCorrect, PTL DEF Spec
=============================================================================
