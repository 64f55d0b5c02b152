-------------------------- MODULE MCConnectionPool --------------------------
(* ConnectionPool for TLC: which goroutine plays which part.               *)
EXTENDS ConnectionPool, TLC

\* Connections are interchangeable, and so are the sessions.  The symmetry is
\* used in runs without a liveness property only.
Symmetry == Permutations(Conns) \cup Permutations(Users)

=============================================================================
