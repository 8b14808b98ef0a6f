-------------------------------- MODULE MapCall --------------------------------
(***************************************************************************)
(* A call that submits inputs and consumes their outcomes: map and swarm,  *)
(* which put an OutcomeIterator over the channel, scan and swarm_unordered,*)
(* which take as many outcomes as they sent, and the adapters of iter.rs   *)
(* that filter the outcomes of a channel by index; and those that leave    *)
(* the outcomes in the hive (scan_store, map_store); with util::map and    *)
(* try_map on top, and the batch they are collected into.  The tasks are   *)
(* executed by workers of the stock kinds, may unwind, and may be given    *)
(* back by a hive that is dropped.                                         *)
(***************************************************************************)
EXTENDS OutcomeIterator, OutcomeStore

CONSTANTS Modes,    \* "ordered", "unordered", "filtered", "stored"
          Adapters, \* "outcomes", "results", "outputs"
          Workers   \* kinds of workers

ASSUME MapCallAssumption == \A w \in Workers : w.may \subseteq Behaviours

VARIABLES mode, adapter, worker, \* chosen by the client, never changed
          phase,      \* of the client: sending, iterating, and how it ended
          toSend,     \* indices of inputs that are yet to be sent
          pending,    \* tasks sent that have not ended
          outcomeOf,  \* the outcomes that were sent, by index
          unwound,    \* tasks whose worker panicked
          stored,     \* Shared::outcomes
          listening,  \* the receiver of the channel exists
          discarded,  \* history: outcomes dropped with the receiver and the iterator
          yielded,    \* what an unordered call has yielded, by index
          batch,      \* the OutcomeBatch collected
          answer      \* what was made of the batch

choice == <<mode, adapter, worker>>
ends == <<pending, outcomeOf, unwound, stored>>
receiverVars == <<listening, discarded>>
mapVars == <<vars, choice, receiverVars, phase, toSend, ends, yielded, batch, answer>>

MapInit ==
  /\ Init
  /\ mode \in Modes /\ adapter \in Adapters /\ worker \in Workers
  /\ phase = "sending" /\ toSend = Own
  /\ pending = {} /\ outcomeOf = NoOutcomes /\ unwound = {} /\ stored = NoOutcomes
  /\ listening = (mode # "stored") /\ discarded = {}
  /\ yielded = <<>> /\ batch = NoOutcomes /\ answer = {}

(***************************************************************************)
(* Submission: one apply_send per input, with a clone of the sender, or    *)
(* one apply_store.                                                        *)
(***************************************************************************)
SendNext ==
  /\ phase = "sending"
  /\ \E i \in toSend :
       /\ \A j \in toSend : i <= j
       /\ pending' = pending \cup {i}
       /\ toSend' = toSend \ {i}
  /\ UNCHANGED <<vars, choice, receiverVars, phase, outcomeOf, unwound, stored>>
  /\ UNCHANGED <<yielded, batch, answer>>

\* try_scan and try_scan_store: the function of the client fails and the call returns
\* its error; what was sent before goes on.
ScanFails ==
  /\ phase = "sending" /\ toSend # {} /\ mode \in {"unordered", "stored"}
  /\ phase' = "failed"
  /\ UNCHANGED <<vars, choice, receiverVars, toSend, ends, yielded, batch, answer>>

\* The call that stores returns the indices.
SentAll ==
  /\ phase = "sending" /\ toSend = {}
  /\ phase' = IF mode = "stored" THEN "returned" ELSE "iterating"
  /\ UNCHANGED <<vars, choice, receiverVars, toSend, ends, yielded, batch, answer>>

(***************************************************************************)
(* The workers.  "cancelled" is also what a task comes to that a hive      *)
(* gives back when it is dropped.                                          *)
(***************************************************************************)
\* Mutant: an outcome that cannot be sent is not stored.
DeliverOrForget(o) ==
  IF listening
    THEN SendOutcome(o.index) /\ outcomeOf' = Insert(outcomeOf, o) /\ UNCHANGED stored
    ELSE UNCHANGED <<vars, outcomeOf, stored>>

DeliverTo(o) ==
  IF listening
    THEN SendOutcome(o.index) /\ outcomeOf' = Insert(outcomeOf, o) /\ UNCHANGED stored
    ELSE stored' = Insert(stored, o) /\ UNCHANGED <<vars, outcomeOf>>

EndTask(i, behaviour) ==
  /\ i \in pending /\ pending' = pending \ {i}
  /\ LET r == Result(worker, behaviour) IN
       IF r.tag = "unwinds"
         THEN unwound' = unwound \cup {i} /\ UNCHANGED <<vars, outcomeOf, stored>>
         ELSE DeliverTo(FromWorkerResult(r, i, i)) /\ UNCHANGED unwound
  /\ UNCHANGED <<choice, receiverVars, phase, toSend, yielded, batch, answer>>

\* Another client uses the sender of a channel that is not the call's own.
SendForeign(i) ==
  /\ mode \in {"ordered", "filtered"} /\ listening
  /\ SendOutcome(i)
  /\ outcomeOf' = Insert(outcomeOf, Outcome("Success", i, i, FALSE))
  /\ UNCHANGED <<choice, receiverVars, phase, toSend, pending, unwound, stored>>
  /\ UNCHANGED <<yielded, batch, answer>>

\* Mutant: the sender of a task whose worker unwinds is leaked.
DisconnectUnlessUnwound ==
  /\ phase # "sending" /\ pending = {} /\ unwound = {}
  /\ DropSenders
  /\ UNCHANGED <<choice, receiverVars, phase, toSend, ends, yielded, batch, answer>>

\* The senders go with the tasks and the call that made them.
Disconnect ==
  /\ phase # "sending" /\ pending = {}
  /\ DropSenders
  /\ UNCHANGED <<choice, receiverVars, phase, toSend, ends, yielded, batch, answer>>

(***************************************************************************)
(* Consumption.                                                            *)
(***************************************************************************)
\* Outcome::into, Outcome::unwrap, or neither.
Adapt(o) ==
  CASE adapter = "outcomes" -> Returns(o.of)
    [] adapter = "results" -> IntoResult(o)
    [] adapter = "outputs" -> Unwrap(o)

\* The client collects what the iterator yields, unless the adapter panics.
Collect(o) ==
  /\ phase' = IF Adapt(o).panics THEN "panicked" ELSE phase
  /\ batch' = IF Adapt(o).panics THEN batch ELSE Insert(batch, o)

Collected == phase' = "collected" /\ UNCHANGED batch

\* One step of OutcomeIterator::next and of the client that calls it.
NextOrdered ==
  /\ phase = "iterating" /\ mode = "ordered"
  /\ Iterate
  /\ IF out' # out THEN Collect(outcomeOf[Last(out')])
     ELSE IF missing' # missing THEN Collect(Missing(Head(indices)))
     ELSE IF done' THEN Collected
     ELSE UNCHANGED <<phase, batch>>
  /\ UNCHANGED <<choice, receiverVars, toSend, ends, yielded, answer>>

\* Of which outcomes the take(n) of the call counts, and how many.
Counts(i) == mode = "filtered" => i \in Own
Full == Len(yielded) = Len(Given)

\* Mutant: what is filtered out is counted all the same.
NextUnfiltered ==
  /\ phase = "iterating" /\ mode \in {"unordered", "filtered"}
  /\ IF Full \/ (channel = <<>> /\ ~connected)
       THEN Collected /\ UNCHANGED <<vars, yielded>>
       ELSE /\ channel # <<>>
            /\ channel' = Tail(channel)
            /\ UNCHANGED <<connected, arrived, iterVars>>
            /\ yielded' = Append(yielded, Head(channel))
            /\ IF Counts(Head(channel)) THEN Collect(outcomeOf[Head(channel)])
               ELSE UNCHANGED <<phase, batch>>
  /\ UNCHANGED <<choice, receiverVars, toSend, ends, answer>>

NextUnordered ==
  /\ phase = "iterating" /\ mode \in {"unordered", "filtered"}
  /\ IF Full \/ (channel = <<>> /\ ~connected)
       THEN Collected /\ UNCHANGED <<vars, yielded>>
       ELSE /\ channel # <<>>
            /\ channel' = Tail(channel)
            /\ UNCHANGED <<connected, arrived, iterVars>>
            /\ IF Counts(Head(channel))
                 THEN yielded' = Append(yielded, Head(channel)) /\ Collect(outcomeOf[Head(channel)])
                 ELSE UNCHANGED <<yielded, phase, batch>>
  /\ UNCHANGED <<choice, receiverVars, toSend, ends, answer>>

\* The client loses interest before the end of the iterator.
Abandon ==
  /\ phase = "iterating" /\ ~calling
  /\ phase' = "abandoned"
  /\ UNCHANGED <<vars, choice, receiverVars, toSend, ends, yielded, batch, answer>>

\* The receiver goes out of scope, and the iterator over it: of try_scan when `?` returns,
\* of a call that panics when that unwinds, of the client.  With them go the outcomes that
\* are in the channel and in the buffer; a worker that sends one from now on gets it back.
DropReceiver ==
  /\ listening /\ phase \in {"failed", "panicked", "abandoned", "collected"}
  /\ listening' = FALSE
  /\ discarded' = discarded \cup Range(channel) \cup buf
  /\ channel' = <<>> /\ buf' = {}
  /\ UNCHANGED <<connected, arrived, indices, limit, calling, out, missing, done>>
  /\ UNCHANGED <<choice, phase, toSend, ends, yielded, batch, answer>>

\* Which method was called, "discarding" being ok_or_unwrap_errors(true), and its result.
Answer(call, result) == [call |-> call, result |-> result]

\* What becomes of the batch: one of the methods that consume it, or
\* remove_all_failures first.
Consume ==
  /\ phase = "collected" /\ adapter = "outcomes" /\ ~listening
  /\ phase' = "consumed"
  /\ \/ answer' = {Answer("ok_or_unwrap_errors", OkOrUnwrapErrors(batch, FALSE))}
     \/ answer' = {Answer("discarding", OkOrUnwrapErrors(batch, TRUE))}
     \/ answer' = {Answer("unwrap", UnwrapAll(batch))}
     \/ answer' = {Answer("failures", Returns([failures |-> RemoveAllFailures(batch)]))}
     \/ \E ordered \in BOOLEAN : \E inputs \in IntoInputs(batch, ordered) :
          answer' = {Answer("inputs", Returns([inputs |-> inputs]))}
  /\ UNCHANGED <<vars, choice, receiverVars, toSend, ends, yielded, batch>>

Ended == phase \in {"failed", "returned", "panicked", "abandoned", "collected", "consumed"}
MapRest == Ended /\ ~listening /\ ~connected /\ UNCHANGED mapVars

ClientStep == SendNext \/ SentAll \/ NextOrdered \/ NextUnordered \/ DropReceiver

MapNext ==
  \/ ClientStep \/ ScanFails \/ Abandon \/ Consume
  \/ \E i \in Own, b \in worker.may \cup {"cancelled"} : EndTask(i, b)
  \/ \E i \in Foreign : SendForeign(i)
  \/ Disconnect
  \/ MapRest

\* The client goes on, every task ends, and the senders are dropped.
MapFairness ==
  /\ WF_mapVars(ClientStep)
  /\ WF_mapVars(\E i \in Own, b \in worker.may \cup {"cancelled"} : EndTask(i, b))
  /\ WF_mapVars(Disconnect)

MapSpec == MapInit /\ [][MapNext]_mapVars /\ MapFairness

-----------------------------------------------------------------------------
(***************************************************************************)
(* The outcome of a task that ended is in one place: in the channel, the   *)
(* buffer of the iterator, among what was yielded, or in the hive's store. *)
(* Only a call that failed, panicked or was given up loses any: those that *)
(* arrived before its receiver was dropped; the later ones are stored.     *)
(***************************************************************************)
OutcomesConserved ==
  /\ \A i \in Own :
       Cardinality({k \in DOMAIN channel : channel[k] = i})
       + Cardinality({i} \cap buf) + Cardinality({i} \cap Range(out))
       + Cardinality({k \in DOMAIN yielded : yielded[k] = i})
       + Cardinality({i} \cap DOMAIN stored) + Cardinality({i} \cap discarded)
       = IF i \in toSend \cup pending \cup unwound THEN 0 ELSE 1
  /\ discarded \cap Own # {} => ~listening /\ phase \in {"failed", "panicked", "abandoned"}

(***************************************************************************)
(* A call that collects its outcomes has one for every input, except for   *)
(* those whose worker unwound.                                             *)
(***************************************************************************)
BatchComplete ==
  phase = "collected" =>
    DOMAIN batch = Own \ unwound /\ \A i \in DOMAIN batch : batch[i] = outcomeOf[i]

(***************************************************************************)
(* What is made of a batch accounts for every outcome that was sent.  Ok   *)
(* has the value of every success, and then nothing failed and, unless     *)
(* they are to be discarded, nothing is unprocessed (assert_empty, which   *)
(* counts the kinds in its own way, agrees); after map and swarm nothing   *)
(* lacks an outcome either.  Err has all the errors, and then there are    *)
(* some and no panic was caught.  A method panics only for a panic or for  *)
(* unprocessed inputs, unwrap for any failure; for a call that discards    *)
(* the unprocessed see UnprocessedAreDropped.  remove_all_failures and     *)
(* into_unprocessed return each failure and each unprocessed input.        *)
(***************************************************************************)
Sent(kinds) == {i \in Own \ unwound : outcomeOf[i].kind \in kinds}

NoErrorSwallowed ==
  \A a \in answer :
    LET r == a.result
    IN  IF r.panics
          THEN Sent((IF a.call = "unwrap" THEN Failure ELSE {"Panic"}) \cup Unprocessed) # {}
          ELSE /\ "ok" \in DOMAIN r.value =>
                    /\ r.value.ok = Sent(Success) /\ Sent(Failure) = {}
                    /\ a.call # "discarding" =>
                         Sent(Unprocessed) = {} /\ ~AssertEmpty(batch, TRUE).panics
                    /\ mode = "ordered" => unwound = {}
               /\ "err" \in DOMAIN r.value =>
                    /\ r.value.err = Sent(Failure)
                    /\ r.value.err # {} /\ Sent({"Panic"}) = {}
               /\ "failures" \in DOMAIN r.value =>
                    r.value.failures = {{outcomeOf[i]} : i \in Sent(Failure)}
               /\ "inputs" \in DOMAIN r.value =>
                    /\ ToSet(r.value.inputs) = Sent(Unprocessed)
                    /\ Len(r.value.inputs) = Cardinality(Sent(Unprocessed))

(***************************************************************************)
(* What the comment of ok_or_unwrap_errors says of drop_unprocessed = true *)
(* (store.rs:237-240): unprocessed inputs are discarded, and so they are   *)
(* no reason to panic.                                                     *)
(***************************************************************************)
UnprocessedAreDropped ==
  \A a \in answer : a.call = "discarding" /\ a.result.panics => Sent({"Panic"}) # {}

(***************************************************************************)
(* The consumer of an ordered call gets every outcome that was sent ahead, *)
(* in the order of the batch, of the first one that never is.              *)
(***************************************************************************)
OutcomesReachConsumer ==
  \A i \in Own :
    mode = "ordered" /\ UpTo(i) \subseteq arrived ~> Shared \/ Ended \/ i \in Range(out)

(***************************************************************************)
(* The call ends, except that an ordered one goes on with Missing outcomes *)
(* when a worker unwound.                                                  *)
(***************************************************************************)
CallEnds == <>(Ended \/ (mode = "ordered" /\ (unwound # {} \/ Shared)))
===============================================================================
