--------------------------- MODULE MCMeshRouting ----------------------------
\* The 4x4 mesh of tb_top, with every flit the testbench builds and the flits
\* addressed to each router of the mesh.
EXTENDS TestRouting

MCFlits ==
  TestFlits \union
  [row : 1 .. ROWS, col : 1 .. COLUMNS, mode : {0, 1}, dst : {0}]
=============================================================================
