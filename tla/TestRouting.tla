---------------------------- MODULE TestRouting -----------------------------
(***************************************************************************)
(* The mesh of MeshRouting and the addresses the testbench gives its flits *)
(* (DrvItem): do the two number the terminals alike?                       *)
(***************************************************************************)
EXTENDS MeshRouting, DrvItem

\* A flit built without injected error leaves through terminal dest_addr % 16: term_to_rc
\* numbers the sides as mesh_gnrtr wires them, so that a valid address is its terminal,
\* and its two truncations alias every invalid one, 16 .. 32, to a terminal as well.
FlitsReachAddress ==
  \A a \in DestAddresses, m \in {0, 1} :
    (where = "out" /\ flit \in BuildFlit(a, FALSE, m)) => exit = a % 16
=============================================================================
