---------------------------- MODULE MCMysqlProxy ----------------------------
(* MysqlProxy for TLC.                                                     *)
EXTENDS MysqlProxy, TLC

\* Connections are interchangeable, and so are the sessions.  The symmetry is
\* used in runs without a liveness property only.
Symmetry == Permutations(Conns) \cup Permutations(Sessions)

=============================================================================
