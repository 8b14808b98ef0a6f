------------------------------- MODULE HivePool -------------------------------
(***************************************************************************)
(* Module Hive implements module TaskPool.  A task waits from the moment   *)
(* its index is reserved, through the batch, the channel and the hand of   *)
(* the worker that received it; it runs from the transfer of the counters  *)
(* on; and its outcome is the same whether it is stored, sent or taken.    *)
(***************************************************************************)
EXTENDS Hive

StatusOf(t) ==
  IF outcomes[t] # "none" THEN outcomes[t]
  ELSE IF sent[t] # "none" THEN sent[t]
  ELSE IF taken[t] # "none" THEN taken[t]
  ELSE IF t \in lost THEN "lost"
  ELSE IF t \in Executing THEN "running"
  ELSE IF t \in Prepared THEN "waiting"
  ELSE "new"
Status == [t \in Tasks |-> StatusOf(t)]

Pool == INSTANCE TaskPool WITH
          Capacity <- Cardinality(Workers),
          MaxRetries <- 0,
          retries <- [t \in Tasks |-> 0],
          status <- Status,
          open <- ~ShutDown

(***************************************************************************)
(* Every behaviour of the hive is one of the task pool: indices without    *)
(* gaps, no task started twice, no outcome changed or given twice, and,    *)
(* before shutdown, no task given back unstarted or lost but by its own    *)
(* execution.  A hive with more threads than its active counter can count  *)
(* breaks down when a transfer overflows it: that drops one waiting task.  *)
(***************************************************************************)
ImplementsTaskPool == Pool!Spec
===============================================================================
