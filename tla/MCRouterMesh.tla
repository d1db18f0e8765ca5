---------------------------- MODULE MCRouterMesh -----------------------------
EXTENDS RouterMesh

To(row, col, mode) == [row |-> row, col |-> col, mode |-> mode]

\* Terminals of the 2x2 mesh: 0, 1 on top, 2, 3 left, 4, 5 bottom, 6, 7 right.
MCScript == [t \in Terminals |->
  CASE t = 4 -> <<To(1, 3, 1), To(1, 3, 1), To(0, 2, 0)>>
    [] t = 5 -> <<To(0, 1, 0), To(2, 0, 1)>>
    [] OTHER -> <<>>]
=============================================================================
