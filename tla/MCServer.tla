------------------------------ MODULE MCServer ------------------------------
(* Server for TLC: interchangeable descriptors and workers. *)
EXTENDS Server, TLC

Symmetry == Permutations(Conns) \cup Permutations(Workers)

\* Any client may reach any worker.
AnyWorker == Conns \X Workers

\* One connection always comes to the same worker, the others to any.
OneFixed ==
  LET c == CHOOSE d \in Conns : TRUE
      w == CHOOSE v \in Workers : TRUE
  IN {r \in Conns \X Workers : r[1] = c => r[2] = w}

==============================================================================
