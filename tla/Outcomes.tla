-------------------------------- MODULE Outcomes --------------------------------
(***************************************************************************)
(* The outcome of a task and what may be asked of it (outcome.rs), and how *)
(* a worker's result becomes one: error.rs, worker.rs, panic.rs and the    *)
(* workers of bee/stock.  The value of a success and the error of a        *)
(* failure are those of the input they were computed from and are not kept *)
(* apart from it; whether the input itself comes back is.                  *)
(***************************************************************************)
EXTENDS Integers

CONSTANT RetryBuild    \* whether the `retry` feature is on

\* of: the input the outcome belongs to; input: whether it is given back.
Outcome(kind, index, of, input) ==
  [kind |-> kind, index |-> index, of |-> of, input |-> input]

\* What a call comes to: a function of the code returns or panics.
Panics == [panics |-> TRUE]
Returns(v) == [panics |-> FALSE, value |-> v]

-----------------------------------------------------------------------------
(***************************************************************************)
(* Worker::apply: the function inside a worker returns a value or an error *)
(* or panics, and the worker makes a WorkerResult of that.                 *)
(***************************************************************************)
Behaviours == {"ok", "error", "retryable", "cancelled", "panic"}

\* A kind of worker: what the function inside it can do, by its type; whether a panic
\* of that function is caught or unwinds the thread; and whether the input is only lent
\* to the function, so that it is still there when that fails.
Caller == [may |-> {"ok", "panic"}, catches |-> FALSE, lends |-> FALSE]
OnceCaller == [may |-> {"ok", "error", "panic"}, catches |-> FALSE, lends |-> FALSE]
\* The function returns the ApplyError itself; a fatal one without its input.
RetryCaller == [may |-> Behaviours, catches |-> FALSE, lends |-> FALSE]
ThunkWorker == [may |-> {"ok", "panic"}, catches |-> FALSE, lends |-> FALSE]
FunkWorker == [may |-> {"ok", "error", "panic"}, catches |-> FALSE, lends |-> FALSE]
PunkWorker == [may |-> {"ok", "panic"}, catches |-> TRUE, lends |-> FALSE]
EchoWorker == [may |-> {"ok"}, catches |-> FALSE, lends |-> FALSE]

\* What a client implements RefWorker for, and the one implementation in the crate.
RefWorker == [may |-> Behaviours, catches |-> TRUE, lends |-> TRUE]
RefCaller == [RefWorker EXCEPT !.may = {"ok", "error", "panic"}]

\* What a panic comes to; "unwinds" stands for no WorkerResult.
TryCall(worker) ==
  IF worker.catches THEN [tag |-> "Panic", input |-> worker.lends]
  ELSE [tag |-> "unwinds", input |-> FALSE]

Result(worker, behaviour) ==
  CASE behaviour = "ok" -> [tag |-> "Ok", input |-> FALSE]
    [] behaviour = "error" -> [tag |-> "Fatal", input |-> worker.lends]
    [] behaviour = "retryable" -> [tag |-> "Retryable", input |-> TRUE]
    [] behaviour = "cancelled" -> [tag |-> "Cancelled", input |-> TRUE]
    [] behaviour = "panic" -> TryCall(worker)

KindOf(tag) ==
  CASE tag = "Ok" -> "Success"
    [] tag = "Fatal" -> "Failure"
    [] tag = "Retryable" -> IF RetryBuild THEN "MaxRetriesAttempted" ELSE "Failure"
    [] tag = "Cancelled" -> "Unprocessed"
    [] tag = "Panic" -> "Panic"

FromWorkerResult(r, index, of) == Outcome(KindOf(r.tag), index, of, r.input)

\* Task::into_unprocessed.
IntoUnprocessed(index, of) == Outcome("Unprocessed", index, of, TRUE)

Missing(index) == Outcome("Missing", index, index, FALSE)

-----------------------------------------------------------------------------
Success == {"Success"}
Unprocessed == {"Unprocessed"}
\* Mutant: panics are no failures.
Errors == {"Failure", "MaxRetriesAttempted"}
Failure == {"Failure", "Panic", "MaxRetriesAttempted"}

IsSuccess(o) == o.kind \in Success
IsUnprocessed(o) == o.kind \in Unprocessed
IsFailure(o) == o.kind \in Failure

Unwrap(o) == IF IsSuccess(o) THEN Returns(o.of) ELSE Panics

\* The unwrap of it by those who expect an input panics if there is none.
IntoInput(o) == IF o.input THEN Returns(o.of) ELSE Panics

\* A panic that was caught is resumed.
IntoError(o) ==
  IF o.kind \in {"Failure", "MaxRetriesAttempted"} THEN Returns(o.of) ELSE Panics

\* Outcome::into, the TaskResult.
IntoResult(o) == IF IsSuccess(o) THEN Returns(o.of) ELSE IntoError(o)
===============================================================================
