---------------------------- MODULE OutcomeIterator ----------------------------
(***************************************************************************)
(* OutcomeIterator of src/hive/outcome/iter.rs: puts the outcomes that     *)
(* arrive on a channel, in whatever order the workers finish, into the     *)
(* order of the indices of a batch.  The consumer is the client that calls *)
(* next; the channel is filled by the workers and closes when the last     *)
(* sender is dropped, perhaps before every outcome was sent, since the     *)
(* sender of a task that panics is dropped without one.  Module MapCall    *)
(* adds the workers and the client around it.                              *)
(***************************************************************************)
EXTENDS Naturals, Sequences, Functions

CONSTANTS Given,     \* the indices of the batch, in the order asked for
          Foreign    \* indices of other tasks that use the same channel

ASSUME IteratorAssumption ==
  /\ Given \in Seq(Nat) /\ IsInjective(Given)
  /\ Foreign \subseteq Nat /\ Foreign \cap Range(Given) = {}

VARIABLES channel,    \* outcomes sent and not yet received, by index
          connected,  \* some sender is alive
          arrived,    \* history: outcomes sent
          indices, buf, \* the fields of the iterator
          limit,      \* what is left of inner's take(indices.len())
          calling,    \* the consumer is inside next
          out,        \* outcomes returned
          missing,    \* indices returned as Missing
          done        \* next returned None

iterVars == <<indices, buf, limit, calling, out, missing, done>>
vars == <<channel, connected, arrived, iterVars>>

Own == Range(Given)

Init ==
  /\ channel = <<>> /\ connected = TRUE /\ arrived = {}
  /\ indices = Given /\ buf = {} /\ limit = Len(Given)
  /\ calling = FALSE /\ out = <<>> /\ missing = {} /\ done = FALSE

(***************************************************************************)
(* The workers.                                                            *)
(***************************************************************************)
SendOutcome(i) ==
  /\ connected /\ i \notin arrived
  /\ channel' = Append(channel, i)
  /\ arrived' = arrived \cup {i}
  /\ UNCHANGED <<connected, iterVars>>

DropSenders ==
  /\ connected
  /\ connected' = FALSE
  /\ UNCHANGED <<channel, arrived, iterVars>>

(***************************************************************************)
(* One call of next: rounds of its loop until something is returned.       *)
(***************************************************************************)
Call ==
  /\ ~calling /\ ~done
  /\ calling' = TRUE
  /\ UNCHANGED <<channel, connected, arrived, indices, buf, limit, out, missing, done>>

Return(i) ==
  /\ out' = Append(out, i)
  /\ indices' = Tail(indices)
  /\ calling' = FALSE

\* Mutant: any buffered outcome is returned.
FromBufferAny ==
  /\ calling /\ indices # <<>>
  /\ \E i \in buf : buf' = buf \ {i} /\ Return(i)
  /\ UNCHANGED <<channel, connected, arrived, limit, missing, done>>

FromBuffer ==
  /\ calling /\ indices # <<>>
  /\ Head(indices) \in buf
  /\ buf' = buf \ {Head(indices)}
  /\ Return(Head(indices))
  /\ UNCHANGED <<channel, connected, arrived, limit, missing, done>>

\* Mutant: the batch is taken to be in increasing order.
FromChannelAscending ==
  /\ calling /\ indices # <<>>
  /\ Head(indices) \notin buf
  /\ limit > 0 /\ channel # <<>>
  /\ limit' = limit - 1
  /\ channel' = Tail(channel)
  /\ LET i == Head(channel) IN
       \/ i = Head(indices) /\ Return(i) /\ UNCHANGED buf
       \/ /\ i # Head(indices)
          /\ buf' = IF i > Head(indices) THEN buf \cup {i} ELSE buf
          /\ UNCHANGED <<indices, calling, out>>
  /\ UNCHANGED <<connected, arrived, missing, done>>

\* inner.next() blocks while the channel is empty and connected.
FromChannel ==
  /\ calling /\ indices # <<>>
  /\ Head(indices) \notin buf
  /\ limit > 0 /\ channel # <<>>
  /\ limit' = limit - 1
  /\ channel' = Tail(channel)
  /\ LET i == Head(channel) IN
       \/ /\ i = Head(indices)
          /\ Return(i)
          /\ UNCHANGED buf
       \/ /\ i # Head(indices)
          /\ buf' = IF i \in Range(indices) THEN buf \cup {i} ELSE buf
          /\ UNCHANGED <<indices, calling, out>>
  /\ UNCHANGED <<connected, arrived, missing, done>>

\* Mutant: gives up as soon as the senders are gone.
MissingOnceDisconnected ==
  /\ calling /\ indices # <<>>
  /\ Head(indices) \notin buf
  /\ limit = 0 \/ ~connected
  /\ missing' = missing \cup {Head(indices)}
  /\ calling' = FALSE
  /\ UNCHANGED <<channel, connected, arrived, indices, buf, limit, out, done>>

\* inner is exhausted: by its limit, or because the channel is disconnected.
ReturnMissing ==
  /\ calling /\ indices # <<>>
  /\ Head(indices) \notin buf
  /\ limit = 0 \/ (channel = <<>> /\ ~connected)
  /\ missing' = missing \cup {Head(indices)}
  /\ calling' = FALSE
  /\ UNCHANGED <<channel, connected, arrived, indices, buf, limit, out, done>>

ReturnNone ==
  /\ calling /\ indices = <<>>
  /\ calling' = FALSE
  /\ done' = TRUE
  /\ UNCHANGED <<channel, connected, arrived, indices, buf, limit, out, missing>>

Iterate == Call \/ FromBuffer \/ FromChannel \/ ReturnMissing \/ ReturnNone

-----------------------------------------------------------------------------
(***************************************************************************)
(* Outcomes are returned in the order of the batch, each once, and none is *)
(* skipped.                                                                *)
(***************************************************************************)
InOrder == out \o indices = Given

\* take(indices.len()) counts the outcomes of other tasks as well.
Shared == Foreign \cap arrived # {}

(***************************************************************************)
(* An index is only reported Missing when its outcome never arrived, as    *)
(* long as no other task's outcome comes over the channel.                 *)
(***************************************************************************)
MissingIsMissing == ~Shared => missing \cap arrived = {}

\* The indices of the batch up to i, in the order asked for.
UpTo(i) == {Given[k] : k \in 1 .. (CHOOSE m \in DOMAIN Given : Given[m] = i)}
===============================================================================
