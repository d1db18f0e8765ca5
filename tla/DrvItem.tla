------------------------------ MODULE DrvItem -------------------------------
(***************************************************************************)
(* How the testbench addresses a flit: drv_item.term_to_rc and build_flit  *)
(* of TypesandTransactions.sv, for the 4x4 mesh they are written for.      *)
(***************************************************************************)
EXTENDS Integers

\* Values of dest_addr the constraint c_dest_addr can produce; its comments call only
\* 0 .. 15 valid ("Validas").
DestAddresses == 0 .. 32

\* Mutant: the wrong two bits.
SideOf_Low(term_id) == term_id % 4

\* side_e'(term_id[4:2]) keeps two of the three bits it is given.
SideOf(term_id) == (term_id \div 4) % 4

\* The row and the column of a terminal.  term_id is 5 bits wide, dest_addr is an
\* int: the call truncates it.
TermToRC(dest_addr) ==
  LET term_id == dest_addr % 32
      pos     == term_id % 4
  IN  CASE SideOf(term_id) = 0 -> <<0, pos + 1>>
        [] SideOf(term_id) = 1 -> <<pos + 1, 0>>
        [] SideOf(term_id) = 2 -> <<5, pos + 1>>
        [] SideOf(term_id) = 3 -> <<pos + 1, 5>>

\* The rows and columns term_to_rc draws from when error_flag is set.
ErrorRC == (6 .. 7) \X (6 .. 7)

\* The flits build_flit can make for dest_addr.
BuildFlit(dest_addr, error_flag, mode) ==
  {[row |-> rc[1], col |-> rc[2], mode |-> mode, dst |-> dest_addr] :
     rc \in IF error_flag THEN ErrorRC ELSE {TermToRC(dest_addr)}}

\* What the data_in register of an interface holds before the first flit.
ZeroFlit == [row |-> 0, col |-> 0, mode |-> 0, dst |-> 0]

\* The flits the testbench ever offers to the mesh.
TestFlits ==
  {ZeroFlit} \union
  UNION {BuildFlit(a, e, m) : a \in DestAddresses, e \in BOOLEAN, m \in {0, 1}}
=============================================================================
