--------------------------- MODULE MCOrchestration ---------------------------
(* An instance of Orchestration for TLC: a coordinator that runs two checks  *)
(* at once, a worker, and a task that depends on another.  Each budget lets  *)
(* one part of the document be exercised hard and the others a little.       *)
EXTENDS Orchestration, TLC

CONSTANTS t1, t2, coord, worker, c1, c2

MCTasks == {t1, t2}
MCDeps == t1 :> {} @@ t2 :> {t1}
MCHandles == {coord, worker}
MCCommands == {c1, c2}
MCOwner == c1 :> coord @@ c2 :> coord

Mix(d, st, g, u, rep, m, res, k, read) ==
  [dispatch |-> d, start |-> st, gate |-> g, update |-> u, report |-> rep,
   message |-> m, reset |-> res, kill |-> k, read |-> read]

MCBudgets == {Mix(2, 0, 1, 1, 1, 0, 0, 0, 0), Mix(1, 0, 2, 0, 1, 0, 1, 0, 0),
              Mix(1, 1, 1, 1, 0, 0, 0, 0, 0), Mix(0, 1, 1, 1, 1, 0, 0, 0, 0),
              Mix(1, 1, 0, 0, 1, 0, 1, 0, 0),
              Mix(0, 0, 0, 0, 0, 1, 1, 2, 1), Mix(0, 0, 0, 0, 0, 2, 0, 0, 1)}
=============================================================================
