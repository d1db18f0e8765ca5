----------------------------- MODULE BusPackets ------------------------------
(***************************************************************************)
(* What the buses of Library.sv have in common: interfaces numbered from   *)
(* 0, each between a FIFO it pops packets from and one it pushes packets   *)
(* into.  The top byte of a packet is the number of the interface it is    *)
(* for, or Bcast.  The FIFOs are outside the library; they take any packet *)
(* at any time.                                                            *)
(***************************************************************************)
EXTENDS Integers, Sequences

CONSTANTS
  Drvrs,       \* drvrs: number of interfaces on the bus
  Bcast,       \* the header for everybody
  MaxPackets   \* per interface: how many packets it is given

ASSUME BusAssumption ==
  /\ Drvrs \in Nat /\ Drvrs > 1
  /\ Bcast \notin 0 .. Drvrs - 1
  /\ MaxPackets \in [0 .. Drvrs - 1 -> Nat]

Ids == 0 .. Drvrs - 1
Headers == Ids \union {Bcast}

\* The packets, each known by its source and its number there.
Packets == [src : Ids, num : Nat \ {0}, dest : Headers]

\* The word of a register after reset.
Zero == [src |-> 0, num |-> 0, dest |-> 0]

VARIABLES
  sent,    \* history: per interface, the packets put into its input FIFO
  queue,   \* per interface: the packets still in it
  got      \* per interface: the packets pushed into its output FIFO

Pndng(i) == queue[i] # <<>>

\* The interfaces that are to get packet p: nobody reads while it writes.
Addressed(p) == {j \in Ids \ {p.src} : p.dest \in {j, Bcast}}

Arrived(p) == \A j \in Addressed(p) : \E k \in DOMAIN got[j] : got[j][k] = p

PacketsInit ==
  /\ sent = [i \in Ids |-> <<>>]
  /\ queue = [i \in Ids |-> <<>>]
  /\ got = [i \in Ids |-> <<>>]

\* A packet for d is put into the input FIFO of interface i.
Send(i, d) ==
  LET p == [src |-> i, num |-> Len(sent[i]) + 1, dest |-> d]
  IN  /\ Len(sent[i]) < MaxPackets[i]
      /\ sent' = [sent EXCEPT ![i] = Append(@, p)]
      /\ queue' = [queue EXCEPT ![i] = Append(@, p)]
      /\ UNCHANGED got

\* The FIFOs of the interfaces in `popped' lose their heads.
PopAll(popped) ==
  /\ queue' = [i \in Ids |-> IF i \in popped THEN Tail(queue[i]) ELSE queue[i]]
  /\ UNCHANGED sent

-----------------------------------------------------------------------------
\* What has arrived was sent, and to this interface; from every other one it is a
\* prefix of the packets meant for it, in the order they were sent, each once.  On a
\* bus that serves a packet only when everybody is ready, one reader that misses a
\* packet, or reads one twice, leaves a gap or a copy here.
Delivered ==
  \A j \in Ids : \A k \in DOMAIN got[j] :
    LET p == got[j][k]
    IN  /\ j \in Addressed(p)
        /\ p.num \in 1 .. Len(sent[p.src]) /\ sent[p.src][p.num] = p
        /\ \A n \in 1 .. p.num - 1 :
             j \in Addressed(sent[p.src][n]) =>
               \E l \in 1 .. k - 1 : got[j][l] = sent[p.src][n]
        /\ \A l \in 1 .. k - 1 : got[j][l].src = p.src => got[j][l].num < p.num
=============================================================================
