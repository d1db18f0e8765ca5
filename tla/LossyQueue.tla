----------------------------- MODULE LossyQueue -----------------------------
(***************************************************************************)
(* What a router expects of an output FIFO without a full flag: a bounded  *)
(* queue that hands its values out in the order they came in, and that     *)
(* makes room for a value that arrives when it is full by discarding the   *)
(* oldest one.                                                             *)
(***************************************************************************)
EXTENDS Sequences, Integers

CONSTANTS
  Data,       \* the values
  Capacity,   \* how many fit
  Nothing     \* what `taken' holds before anything was handed out

VARIABLES
  items,   \* the queue, oldest value first
  taken    \* the value handed out last

vars == <<items, taken>>

Init == items = <<>> /\ taken = Nothing

Put(d) ==
  /\ Len(items) < Capacity
  /\ items' = Append(items, d)
  /\ UNCHANGED taken

\* The only way to lose a value.
Overflow(d) ==
  /\ Len(items) = Capacity
  /\ items' = Append(Tail(items), d)
  /\ UNCHANGED taken

Take ==
  /\ items # <<>>
  /\ taken' = Head(items)
  /\ items' = Tail(items)

TakeAndPut(d) ==
  /\ items # <<>>
  /\ taken' = Head(items)
  /\ items' = Append(Tail(items), d)

Clear == items' = <<>> /\ taken' = Nothing

Next == \/ Take \/ Clear
        \/ \E d \in Data : Put(d) \/ Overflow(d) \/ TakeAndPut(d)

Spec == Init /\ [][Next]_vars
=============================================================================
