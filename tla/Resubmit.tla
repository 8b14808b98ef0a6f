-------------------------------- MODULE Resubmit --------------------------------
(***************************************************************************)
(* What becomes of the inputs of cancelled tasks: a suspended hive stores  *)
(* them as Unprocessed; resume_store and resume_send clear the flag, open  *)
(* the resume gate, take them from the store and submit them as new tasks; *)
(* take_stored and remove_all_* give them to the client; a Husk puts them  *)
(* into a hive of its own.  The resume gate is that of module ResumeGate,  *)
(* step by step.  A worker receives in one step: the mutex of the receiver *)
(* and the counters are those of module Hive.                              *)
(***************************************************************************)
EXTENDS ResumeGate, OutcomeStore

CONSTANTS Payloads,     \* the inputs clients submit, each once
          MaxSuspends,  \* bound: how often the hive is suspended
          Destinations, \* of applied tasks: their outcomes are stored or sent
          Does          \* what each client does

VARIABLES stage, active,  \* workers: where in the loop, and the task received
          queue,          \* the task channel
          store,          \* Shared::outcomes
          nextIndex,      \* Shared::next_task_index
          call,           \* what each client is in the middle of
          holds,          \* the tasks it has yet to send
          todo, got,      \* remove_all_*: indices to remove, outcomes removed
          received,       \* history: outcomes sent over channels,
          returned,       \* handed to clients,
          dropped,        \* dropped with a Husk or by a client that panics;
          suspends,       \* suspensions so far;
          applied,        \* inputs that clients submitted;
          intruded        \* clients whose remove_all_* others interfered with

gateVars == <<at, mutex, suspended, notifying>>
clientVars == <<call, holds, todo, got, intruded>>
outVars == <<received, returned, dropped>>
historyVars == <<suspends, applied>>
resubmitVars ==
  <<gateVars, stage, active, queue, store, nextIndex, clientVars, outVars, historyVars>>

ResubmitInit ==
  /\ Init
  /\ stage = [t \in Threads |-> "gate"] /\ active = [t \in Threads |-> {}]
  /\ queue = <<>> /\ store = NoOutcomes /\ nextIndex = 0
  /\ call = [c \in Clients |-> "idle"] /\ holds = [c \in Clients |-> <<>>]
  /\ todo = [c \in Clients |-> {}] /\ got = [c \in Clients |-> {}]
  /\ received = {} /\ returned = {} /\ dropped = {}
  /\ suspends = 0 /\ applied = {} /\ intruded = {}

Task(index, of, dest) == [index |-> index, of |-> of, dest |-> dest]

Deliver(o, dest) ==
  IF dest = "store"
    THEN store' = Insert(store, o) /\ UNCHANGED outVars
    ELSE received' = received \cup {o} /\ UNCHANGED <<store, returned, dropped>>

(***************************************************************************)
(* The loop of a worker.                                                   *)
(***************************************************************************)
Enter(t) ==
  /\ stage[t] = "gate" /\ Arrive(t)
  /\ UNCHANGED <<stage, active, queue, store, nextIndex, clientVars, outVars, historyVars>>

PassGate(t) ==
  /\ stage[t] = "gate" /\ Wait(t)
  /\ stage' = [stage EXCEPT ![t] = IF at'[t] = "out" THEN "poll" ELSE "gate"]
  /\ UNCHANGED <<active, queue, store, nextIndex, clientVars, outVars, historyVars>>

Receive(t) ==
  /\ stage[t] = "poll" /\ queue # <<>>
  /\ active' = [active EXCEPT ![t] = {Head(queue)}]
  /\ queue' = Tail(queue)
  /\ stage' = [stage EXCEPT ![t] = "work"]
  /\ UNCHANGED <<gateVars, store, nextIndex, clientVars, outVars, historyVars>>

RecvTimeout(t) ==
  /\ stage[t] = "poll" /\ queue = <<>>
  /\ stage' = [stage EXCEPT ![t] = "gate"]
  /\ Arrive(t)
  /\ UNCHANGED <<active, queue, store, nextIndex, clientVars, outVars, historyVars>>

EndTask(t, result) ==
  /\ \E task \in active[t] :
       Deliver(FromWorkerResult(result, task.index, task.of), task.dest)
  /\ stage' = [stage EXCEPT ![t] = "gate"]
  /\ active' = [active EXCEPT ![t] = {}]
  /\ Arrive(t)
  /\ UNCHANGED <<queue, nextIndex, clientVars, historyVars>>

Complete(t) == stage[t] = "work" /\ EndTask(t, Result(RefWorker, "ok"))

\* The worker looks at the flag while it executes a task ...
IsCancelled(t) ==
  /\ stage[t] = "work" /\ suspended
  /\ stage' = [stage EXCEPT ![t] = "cancelled"]
  /\ UNCHANGED <<gateVars, active, queue, store, nextIndex, clientVars, outVars, historyVars>>

\* ... and gives the input back some time later.
Cancel(t) == stage[t] = "cancelled" /\ EndTask(t, Result(RefWorker, "cancelled"))

(***************************************************************************)
(* The clients, each with a clone of the hive.                             *)
(***************************************************************************)
Idle(c, does) == call[c] = "idle" /\ does \in Does[c]

InUse(x) ==
  \/ \E k \in DOMAIN queue : queue[k].of = x
  \/ \E t \in Threads : \E task \in active[t] : task.of = x
  \/ \E c \in Clients : \E k \in DOMAIN holds[c] : holds[c][k].of = x

Known(x) ==
  \/ InUse(x)
  \/ \E i \in DOMAIN store : store[i].of = x
  \/ \E o \in received \cup returned \cup dropped \cup UNION {got[c] : c \in Clients} : o.of = x

\* apply_store, apply_send.
Apply(c, x, dest) ==
  /\ Idle(c, "apply") /\ x \notin applied
  /\ queue' = Append(queue, Task(nextIndex, x, dest))
  /\ nextIndex' = nextIndex + 1
  /\ applied' = applied \cup {x}
  /\ UNCHANGED <<gateVars, stage, active, store, clientVars, outVars, suspends>>

Suspend(c) ==
  /\ Idle(c, "suspend") /\ suspends < MaxSuspends
  /\ SetSuspended(c, TRUE)
  /\ suspends' = suspends + 1
  /\ UNCHANGED <<stage, active, queue, store, nextIndex, clientVars, outVars, applied>>

\* resume, resume_store, resume_send; nothing happens if the hive is not suspended.
Resume(c, how) ==
  /\ Idle(c, how) /\ how \in {"resume", "resume_store", "resume_send"}
  /\ SetSuspended(c, FALSE)
  /\ call' = [call EXCEPT ![c] = how]
  /\ UNCHANGED <<stage, active, queue, store, nextIndex, holds, todo, got, intruded,
                 outVars, historyVars>>

OpenGate(c) ==
  /\ Notify(c)
  /\ call' = [call EXCEPT ![c] = IF @ = "resume" THEN "idle" ELSE @]
  /\ UNCHANGED <<stage, active, queue, store, nextIndex, holds, todo, got, intruded,
                 outVars, historyVars>>

\* Those in the middle of remove_all_* notice that the store is changed.
Intrude(c) ==
  intruded' = intruded \cup {d \in Clients \ {c} : call[d] \in {"remove_unprocessed",
                                                              "remove_successes"}}

\* Mutant: the indices of a batch start from 0.
PreparedFromZero(outcomes, start, dest) ==
  [k \in DOMAIN outcomes |-> Task(k - 1, outcomes[k].of, dest)]

\* prepare_batch: new indices for the inputs of the outcomes.
Prepared(outcomes, start, dest) ==
  [k \in DOMAIN outcomes |-> Task(start + k - 1, outcomes[k].of, dest)]

\* Mutant: every stored outcome is submitted again.
TakeAnything(c) ==
  /\ call[c] \in {"resume_store", "resume_send"} /\ c \notin notifying
  /\ Intrude(c)
  /\ \E taken \in InSomeOrder(store, Success \cup Unprocessed \cup Failure) :
       /\ holds' = [holds EXCEPT ![c] = Prepared(taken, nextIndex, "send")]
       /\ nextIndex' = nextIndex + Len(taken)
       /\ call' = [call EXCEPT ![c] = IF taken = <<>> THEN "idle" ELSE "send"]
  /\ store' = NoOutcomes
  /\ UNCHANGED <<gateVars, stage, active, queue, todo, got, outVars, historyVars>>

\* take_unprocessed under the lock; the batch then gets its indices, in an order
\* of the HashMap's.
TakeUnprocessed(c) ==
  /\ call[c] \in {"resume_store", "resume_send"} /\ c \notin notifying
  /\ Intrude(c)
  /\ \E taken \in InSomeOrder(store, Unprocessed) :
       /\ holds' = [holds EXCEPT ![c] =
                      Prepared(taken, nextIndex,
                               IF call[c] = "resume_store" THEN "store" ELSE "send")]
       /\ nextIndex' = nextIndex + Len(taken)
       /\ call' = [call EXCEPT ![c] = IF taken = <<>> THEN "idle" ELSE "send"]
  /\ store' = Without(store, Indices(store, Unprocessed))
  /\ UNCHANGED <<gateVars, stage, active, queue, todo, got, outVars, historyVars>>

\* send_batch sends one task after the other.
SendNext(c) ==
  /\ holds[c] # <<>>
  /\ queue' = Append(queue, Head(holds[c]))
  /\ holds' = [holds EXCEPT ![c] = Tail(@)]
  /\ call' = [call EXCEPT ![c] = IF Len(holds[c]) = 1 THEN "idle" ELSE @]
  /\ UNCHANGED <<gateVars, stage, active, store, nextIndex, todo, got, intruded,
                 outVars, historyVars>>

TakeStored(c) ==
  /\ Idle(c, "take") /\ store # NoOutcomes
  /\ Intrude(c)
  /\ returned' = returned \cup Range(store)
  /\ store' = NoOutcomes
  /\ UNCHANGED <<gateVars, stage, active, queue, nextIndex, call, holds, todo, got,
                 received, dropped, historyVars>>

Removed(what) == IF what = "remove_unprocessed" THEN Unprocessed ELSE Success

\* remove_all_*: the indices under one lock ...
RemoveAll(c, what) ==
  /\ Idle(c, what) /\ what \in {"remove_unprocessed", "remove_successes"}
  /\ todo' = [todo EXCEPT ![c] = Indices(store, Removed(what))]
  /\ todo'[c] # {}
  /\ call' = [call EXCEPT ![c] = what]
  /\ UNCHANGED <<gateVars, stage, active, queue, store, nextIndex, holds, got, intruded,
                 outVars, historyVars>>

\* ... and each of them under another: the unwrap panics if it is gone.
RemoveNext(c) ==
  \E i \in todo[c] :
    LET removed == RemoveAs(store, i, Removed(call[c]))
    IN  /\ Intrude(c)
        /\ store' = Without(store, {i})
        /\ IF removed.panics \/ removed.value = {}
             THEN /\ call' = [call EXCEPT ![c] = "panicked"]
                  /\ todo' = [todo EXCEPT ![c] = {}]
                  /\ got' = [got EXCEPT ![c] = {}]
                  /\ dropped' = dropped \cup got[c] \cup {store[j] : j \in DOMAIN store \cap {i}}
                  /\ UNCHANGED <<received, returned>>
             ELSE LET all == got[c] \cup removed.value
                      last == todo[c] = {i}
                  IN  /\ call' = [call EXCEPT ![c] = IF last THEN "idle" ELSE @]
                      /\ todo' = [todo EXCEPT ![c] = @ \ {i}]
                      /\ got' = [got EXCEPT ![c] = IF last THEN {} ELSE all]
                      /\ returned' = IF last THEN returned \cup all ELSE returned
                      /\ UNCHANGED <<received, dropped>>
        /\ UNCHANGED <<gateVars, stage, active, queue, nextIndex, holds, historyVars>>

Drop(c) ==
  /\ Idle(c, "drop") /\ \E d \in Clients \ {c} : call[d] \notin {"gone", "panicked"}
  /\ call' = [call EXCEPT ![c] = "gone"]
  /\ UNCHANGED <<gateVars, stage, active, queue, store, nextIndex, holds, todo, got, intruded,
                 outVars, historyVars>>

\* try_into_husk of the last handle, once no work is left and the threads are
\* gone, and Husk::into_hive_swarm_unprocessed_store or _to: a new hive, with
\* new threads and indices, gets the unprocessed inputs.
Rebuild(c, dest) ==
  /\ Idle(c, "rebuild") /\ \A d \in Clients \ {c} : call[d] \in {"gone", "panicked"}
  /\ ~suspended /\ queue = <<>>
  /\ \A t \in Threads : stage[t] = "poll"
  /\ store # NoOutcomes
  /\ \E taken \in InSomeOrder(store, Unprocessed) :
       /\ holds' = [holds EXCEPT ![c] = Prepared(taken, 0, dest)]
       /\ nextIndex' = Len(taken)
       /\ call' = [call EXCEPT ![c] = IF taken = <<>> THEN "idle" ELSE "send"]
  /\ dropped' = dropped \cup {store[i] : i \in DOMAIN store \ Indices(store, Unprocessed)}
  /\ store' = NoOutcomes
  /\ stage' = [t \in Threads |-> "gate"]
  /\ UNCHANGED <<gateVars, active, queue, todo, got, intruded, received, returned, historyVars>>

Scheduled(t) ==
  Enter(t) \/ PassGate(t) \/ Receive(t) \/ RecvTimeout(t) \/ Complete(t) \/ Cancel(t)

FollowUp(c) ==
  OpenGate(c) \/ TakeUnprocessed(c) \/ SendNext(c) \/ RemoveNext(c)

StartCall(c) ==
  \/ \E x \in Payloads, dest \in Destinations : Apply(c, x, dest)
  \/ Suspend(c)
  \/ \E how \in Does[c] : Resume(c, how) \/ RemoveAll(c, how)
  \/ TakeStored(c)
  \/ Drop(c)
  \/ \E dest \in {"store", "send"} : Rebuild(c, dest)

ResubmitNext ==
  \/ \E t \in Threads : Scheduled(t) \/ IsCancelled(t)
  \/ \E c \in Clients : FollowUp(c) \/ StartCall(c)

\* Workers are scheduled, a task ends, and a call that was begun goes on; nobody
\* is obliged to call anything, and no worker to look at the flag.
ResubmitFairness ==
  /\ \A t \in Threads : WF_resubmitVars(Scheduled(t))
  /\ \A c \in Clients : WF_resubmitVars(FollowUp(c))

ResubmitSpec == ResubmitInit /\ [][ResubmitNext]_resubmitVars /\ ResubmitFairness

-----------------------------------------------------------------------------
(***************************************************************************)
(* Every input that was submitted is in exactly one place, in one task or  *)
(* in one outcome: it is never submitted twice, nor given back while it is *)
(* still to be processed, and it never vanishes, which it would if the     *)
(* outcome of a resubmitted input took the place of another's under the    *)
(* same index.                                                             *)
(***************************************************************************)
OutcomesOf(x) == {o \in received \cup returned \cup dropped \cup Range(store)
                       \cup UNION {got[c] : c \in Clients} : o.of = x}
InputsConserved ==
  \A x \in Payloads :
    Cardinality({k \in DOMAIN queue : queue[k].of = x})
    + Cardinality({t \in Threads : x \in {task.of : task \in active[t]}})
    + Cardinality(UNION {{c} \X {k \in DOMAIN holds[c] : holds[c][k].of = x} : c \in Clients})
    + Cardinality(OutcomesOf(x))
      = IF x \in applied THEN 1 ELSE 0

(***************************************************************************)
(* An input goes through the life of module InputLife: it is neither lost  *)
(* nor processed twice, however often it was cancelled and submitted anew. *)
(***************************************************************************)
LifeOf(x) ==
  IF InUse(x) THEN "due"
  ELSE IF \E o \in Range(store) : o.of = x /\ IsUnprocessed(o) THEN "undone"
  ELSE IF \E o \in Range(store) : o.of = x /\ IsSuccess(o) THEN "processed"
  ELSE IF Known(x) THEN "left"
  ELSE "new"
Life == INSTANCE InputLife WITH Inputs <- Payloads, life <- [x \in Payloads |-> LifeOf(x)]
ImplementsInputLife == Life!Spec

(***************************************************************************)
(* Another client has to take outcomes meanwhile for what remove_all_*     *)
(* wants to remove to be gone, or of another kind: only then it panics.    *)
(***************************************************************************)
RemovalUndisturbed ==
  \A c \in Clients \ intruded :
    /\ call[c] # "panicked"
    /\ \A i \in todo[c] : i \in DOMAIN store /\ store[i].kind \in Removed(call[c])

(***************************************************************************)
(* No input is due for ever: one that was taken from the store, while the  *)
(* gate was being opened, comes to a worker again like every other, unless *)
(* the hive is suspended again and again.                                  *)
(***************************************************************************)
InputsSettle == \A x \in Payloads : []<>(suspended \/ ~InUse(x))
===============================================================================
