--------------------------- MODULE MCConnectionPool ---------------------------
(***************************************************************************)
(* An instance of ConnectionPool for TLC.  What is open at once is bounded *)
(* by OpenConnectionsAreLimited, which is proved for every set Conns: with *)
(* one more than that no step is cut off.                                  *)
(***************************************************************************)
EXTENDS ConnectionPool

AllConnections == 1..(PoolSize * (MaxCloses + 1) + 1)

=============================================================================
