---------------------------- MODULE MapCallProofs ----------------------------
(***************************************************************************)
(* Proofs about MapCall, and the OutcomeIterator in it, for every batch,   *)
(* other users of the channel and kinds of workers: outcomes are neither   *)
(* lost nor doubled nor reordered, a batch is complete when it has been    *)
(* collected, and what is made of it accounts for every outcome.           *)
(***************************************************************************)
EXTENDS MapCall, SequenceTheorems, FiniteSetTheorems, TLAPS

-----------------------------------------------------------------------------
(***************************************************************************)
(* What is in a sequence.                                                  *)
(***************************************************************************)
\* Taking the head of a sequence without repetitions takes it out.
LEMMA TailRange ==
  ASSUME NEW S, NEW s \in Seq(S), s # <<>>, IsInjective(s)
  PROVE  /\ Head(s) \in Range(s)
         /\ Range(Tail(s)) = Range(s) \ {Head(s)}
         /\ IsInjective(Tail(s))
<1>1. /\ Head(s) = s[1] /\ DOMAIN s = 1 .. Len(s) /\ Len(s) \in Nat \ {0}
      /\ Tail(s) \in Seq(S) /\ Len(Tail(s)) = Len(s) - 1
      /\ \A i \in 1 .. Len(Tail(s)) : Tail(s)[i] = s[i + 1]
  BY HeadTailProperties, LenProperties
<1>2. DOMAIN Tail(s) = 1 .. Len(s) - 1
  BY <1>1, LenProperties
<1>3. \A i, j \in DOMAIN s : s[i] = s[j] => i = j
  BY DEF IsInjective
<1>4. ASSUME NEW x \in Range(s) \ {Head(s)} PROVE x \in Range(Tail(s))
  <2>1. PICK i \in DOMAIN s : x = s[i]
    BY <1>4 DEF Range
  <2>2. i - 1 \in DOMAIN Tail(s) /\ Tail(s)[i - 1] = x
    BY <1>1, <1>2, <1>4, <2>1
  <2> QED BY <2>2 DEF Range
<1>5. ASSUME NEW x \in Range(Tail(s)) PROVE x \in Range(s) \ {Head(s)}
  <2>1. PICK i \in DOMAIN Tail(s) : x = Tail(s)[i]
    BY <1>5 DEF Range
  <2>2. i + 1 \in DOMAIN s /\ x = s[i + 1] /\ 1 \in DOMAIN s /\ i + 1 # 1
    BY <1>1, <1>2, <2>1
  <2>3. x # s[1]
    BY <1>3, <2>2
  <2> QED BY <1>1, <2>2, <2>3 DEF Range
<1>6. ASSUME NEW i \in DOMAIN Tail(s), NEW j \in DOMAIN Tail(s), Tail(s)[i] = Tail(s)[j]
      PROVE  i = j
  <2>1. i + 1 \in DOMAIN s /\ j + 1 \in DOMAIN s /\ s[i + 1] = s[j + 1]
    BY <1>1, <1>2, <1>6
  <2> QED BY <1>2, <1>3, <2>1
<1> QED BY <1>1, <1>4, <1>5, <1>6 DEF Range, IsInjective

\* Appending what is not in a sequence puts it in, once.
LEMMA AppendRange ==
  ASSUME NEW S, NEW s \in Seq(S), NEW e \in S
  PROVE  /\ Range(Append(s, e)) = Range(s) \cup {e}
         /\ IsInjective(s) /\ e \notin Range(s) => IsInjective(Append(s, e))
<1>1. /\ DOMAIN s = 1 .. Len(s) /\ Len(s) \in Nat
      /\ DOMAIN Append(s, e) = 1 .. Len(s) + 1
      /\ \A i \in 1 .. Len(s) : Append(s, e)[i] = s[i]
      /\ Append(s, e)[Len(s) + 1] = e
  BY AppendProperties, LenProperties
<1>2. Range(Append(s, e)) = Range(s) \cup {e}
  BY <1>1 DEF Range
<1>3. ASSUME IsInjective(s), e \notin Range(s),
             NEW i \in DOMAIN Append(s, e), NEW j \in DOMAIN Append(s, e),
             Append(s, e)[i] = Append(s, e)[j]
      PROVE  i = j
  BY <1>1, <1>3 DEF IsInjective, Range
<1> QED BY <1>2, <1>3 DEF IsInjective

\* A sequence without repetitions has as many elements as it is long.
LEMMA InjectiveLength ==
  ASSUME NEW S, NEW s \in Seq(S), IsInjective(s)
  PROVE  IsFiniteSet(Range(s)) /\ Cardinality(Range(s)) = Len(s)
<1>1. s \in [1 .. Len(s) -> S] /\ Len(s) \in Nat
  BY LenProperties
<1>2. s \in Bijection(1 .. Len(s), Range(s))
  BY <1>1 DEF Bijection, Injection, Surjection, IsInjective, Range
<1>3. ExistsBijection(1 .. Len(s), Range(s))
  BY <1>2 DEF ExistsBijection
<1> QED BY <1>1, <1>3, FS_CountingElements, FS_NatBijection

\* How often an element is in such a sequence.
Occurrences(s, x) == {k \in DOMAIN s : s[k] = x}
LEMMA OccurrencesFacts ==
  ASSUME NEW s, IsInjective(s), NEW x
  PROVE  Cardinality(Occurrences(s, x)) = IF x \in Range(s) THEN 1 ELSE 0
<1>1. CASE x \in Range(s)
  <2>1. PICK k \in DOMAIN s : s[k] = x
    BY <1>1 DEF Range
  <2>2. Occurrences(s, x) = {k}
    BY <2>1 DEF Occurrences, IsInjective
  <2> QED BY <1>1, <2>2, FS_Singleton
<1>2. CASE x \notin Range(s)
  <2>1. Occurrences(s, x) = {}
    BY <1>2 DEF Occurrences, Range
  <2> QED BY <1>2, <2>1, FS_EmptySet
<1> QED BY <1>1, <1>2

\* A sequence without repetitions that is split in two.
LEMMA SplitSequence ==
  ASSUME NEW S, NEW s \in Seq(S), NEW t \in Seq(S), IsInjective(s \o t)
  PROVE  /\ \A x : ~(x \in Range(s) /\ x \in Range(t))
         /\ IsInjective(s) /\ IsInjective(t)
<1> DEFINE u == s \o t
<1>1. /\ Len(u) = Len(s) + Len(t) /\ Len(s) \in Nat /\ Len(t) \in Nat
      /\ \A k \in 1 .. Len(s) + Len(t) : u[k] = IF k <= Len(s) THEN s[k] ELSE t[k - Len(s)]
      /\ DOMAIN s = 1 .. Len(s) /\ DOMAIN t = 1 .. Len(t) /\ DOMAIN u = 1 .. Len(u)
  BY ConcatProperties, LenProperties
<1>2. \A j, k \in DOMAIN u : u[j] = u[k] => j = k
  BY DEF IsInjective
<1> HIDE DEF u
<1>3. /\ \A k \in DOMAIN s : u[k] = s[k] /\ k \in DOMAIN u
      /\ \A k \in DOMAIN t : u[Len(s) + k] = t[k] /\ Len(s) + k \in DOMAIN u
  BY <1>1
<1>4. ASSUME NEW j \in DOMAIN s, NEW k \in DOMAIN t, s[j] = t[k] PROVE FALSE
  <2>1. j = Len(s) + k
    BY <1>2, <1>3, <1>4
  <2> QED BY <1>1, <2>1
<1>5. IsInjective(s)
  BY <1>2, <1>3 DEF IsInjective
<1>6. ASSUME NEW j \in DOMAIN t, NEW k \in DOMAIN t, t[j] = t[k] PROVE j = k
  <2>1. Len(s) + j = Len(s) + k
    BY <1>2, <1>3, <1>6
  <2> QED BY <1>1, <2>1
<1> QED BY <1>4, <1>5, <1>6 DEF IsInjective, Range

\* The head of the second sequence goes to the end of the first.
LEMMA MoveHead ==
  ASSUME NEW S, NEW s \in Seq(S), NEW t \in Seq(S), t # <<>>
  PROVE  Append(s, Head(t)) \o Tail(t) = s \o t
OBVIOUS

-----------------------------------------------------------------------------
(***************************************************************************)
(* The inductive invariant.                                                *)
(***************************************************************************)
AllIndices == Own \cup Foreign
Kinds == Success \cup Unprocessed \cup Failure

\* The phases in which the client has the iterator or what came out of it.
Collecting == {"iterating", "collected", "consumed"}

Types ==
  /\ channel \in Seq(AllIndices) /\ connected \in BOOLEAN /\ arrived \subseteq AllIndices
  /\ indices \in Seq(Own) /\ buf \subseteq Own /\ limit \in Nat
  /\ calling \in BOOLEAN /\ out \in Seq(Own) /\ missing \subseteq Own /\ done \in BOOLEAN
  /\ worker \in Workers
  /\ toSend \subseteq Own /\ pending \subseteq Own /\ unwound \subseteq Own
  /\ yielded \in Seq(Own)
  /\ listening \in BOOLEAN /\ discarded \subseteq AllIndices

\* What the client has collected.
Has == Range(out) \cup Range(yielded)

UnderWay == toSend \cup pending \cup unwound
One(b) == IF b THEN 1 ELSE 0

\* In how many places an index or its outcome is.
PlacesOf(i) ==
  One(i \in UnderWay) + One(i \in Range(channel)) + One(i \in buf) + One(i \in Range(out))
    + One(i \in Range(yielded)) + One(i \in DOMAIN stored) + One(i \in discarded)

OnePlace ==
  /\ IsInjective(channel) /\ IsInjective(yielded)
  /\ \A i \in Own : One(i \in toSend) + One(i \in pending) + One(i \in unwound) <= 1
  /\ \A i \in Own : PlacesOf(i) = 1

\* What was sent over the channel is still there or has come to the client.
Arrivals ==
  /\ Range(channel) \subseteq arrived
  /\ \A i \in Own : i \in arrived <=> \/ i \in Range(channel) \cup buf
                                      \/ i \in Range(out) \cup Range(yielded)
                                      \/ i \in discarded
  /\ DOMAIN outcomeOf = arrived
  /\ \A i \in arrived :
       /\ outcomeOf[i].index = i /\ outcomeOf[i].of = i /\ outcomeOf[i].kind \in Kinds
       /\ outcomeOf[i].kind \in Unprocessed => outcomeOf[i].input

\* What only some kinds of calls do.
ByMode ==
  /\ mode # "ordered" => buf = {} /\ out = <<>> /\ missing = {} /\ ~done
  /\ mode \notin {"unordered", "filtered"} => yielded = <<>>
  /\ mode \notin {"ordered", "filtered"} => Range(channel) \subseteq Own
  /\ mode = "stored" => phase \notin Collecting /\ ~listening

\* How far the call and the tasks are.
Progress ==
  /\ phase \in {"sending", "failed", "returned", "panicked", "abandoned"} \cup Collecting
  /\ phase \notin {"sending", "failed"} => toSend = {}
  /\ phase \in {"collected", "consumed"} => pending = {}
  /\ ~connected => phase # "sending" /\ pending = {}
  /\ done => phase \notin {"sending", "iterating"}
  /\ mode # "stored" /\ (listening \/ phase \in Collecting) => DOMAIN stored = {}
  /\ phase # "consumed" => answer = {}

\* As long as the client may take outcomes, there is the receiver; after that what was
\* collected is what was sent, if the call collects anything.
Receiving ==
  /\ listening => discarded = {} /\ phase # "consumed"
  /\ mode # "stored" /\ phase \in {"sending", "iterating"} => listening
  /\ mode = "stored" => discarded = {}
  /\ phase \in {"collected", "consumed"} => Own \subseteq unwound \cup Has
  /\ discarded \cap Own # {} => phase \in {"failed", "panicked", "abandoned"}

FlowInv == Types /\ InOrder /\ OnePlace /\ Arrivals /\ ByMode /\ Progress /\ Receiving

USE IteratorAssumption, MapCallAssumption

\* The batch is finite and has an index once.
LEMMA BatchFacts ==
  /\ Given \in Seq(Own) /\ Own \subseteq Nat /\ Own \cap Foreign = {}
  /\ IsFiniteSet(Own) /\ Cardinality(Own) = Len(Given)
<1>1. Given \in Seq(Own)
  BY SeqOfRange DEF Own
<1>2. Own \subseteq Nat
  BY RangeOfSeq DEF Own
<1> QED BY <1>1, <1>2, InjectiveLength DEF Own

\* An index was returned or is still to be returned.
LEMMA OrderFacts ==
  ASSUME Types, InOrder
  PROVE  /\ \A i \in Own : i \in Range(out) <=> i \notin Range(indices)
         /\ IsInjective(out) /\ IsInjective(indices)
         /\ indices = <<>> => Range(out) = Own
<1>1. out \in Seq(Own) /\ indices \in Seq(Own)
  BY DEF Types
<1>2. Range(out \o indices) = Range(out) \cup Range(indices)
  BY <1>1, RangeConcatenation
<1>3. /\ \A i : ~(i \in Range(out) /\ i \in Range(indices))
      /\ IsInjective(out) /\ IsInjective(indices)
      /\ Range(out) \cup Range(indices) = Own
  BY <1>1, <1>2, SplitSequence DEF InOrder, Own
<1>4. Range(<<>>) = {}
  BY DEF Range
<1> QED BY <1>3, <1>4

\* The outcome that a worker makes of its result.
LEMMA WorkerOutcome ==
  ASSUME NEW w \in Workers, NEW b \in w.may \cup {"cancelled"}, NEW i,
         Result(w, b).tag # "unwinds"
  PROVE  LET o == FromWorkerResult(Result(w, b), i, i)
         IN  /\ o.index = i /\ o.of = i /\ o.kind \in Kinds
             /\ o.kind \in Unprocessed => o.input
<1> DEFINE r == Result(w, b)
           o == FromWorkerResult(r, i, i)
<1>1. b \in Behaviours
  BY DEF Behaviours
<1>2. /\ r.tag \in {"Ok", "Fatal", "Retryable", "Cancelled", "Panic"}
      /\ r.tag = "Cancelled" => r.input
  <2>1. CASE b = "ok"
    BY <2>1 DEF Result
  <2>2. CASE b = "error"
    BY <2>2 DEF Result
  <2>3. CASE b = "retryable"
    BY <2>3 DEF Result
  <2>4. CASE b = "cancelled"
    BY <2>4 DEF Result
  <2>5. CASE b = "panic"
    BY <2>5 DEF Result, TryCall
  <2> QED BY <1>1, <2>1, <2>2, <2>3, <2>4, <2>5 DEF Behaviours
<1> HIDE DEF r
<1>3. KindOf(r.tag) \in Kinds /\ (KindOf(r.tag) \in Unprocessed => r.tag = "Cancelled")
  BY <1>2 DEF KindOf, Kinds, Success, Unprocessed, Failure
<1>4. o.index = i /\ o.of = i /\ o.kind = KindOf(r.tag) /\ o.input = r.input
  BY DEF FromWorkerResult, Outcome
<1> HIDE DEF o
<1>5. o.index = i /\ o.of = i /\ o.kind \in Kinds /\ (o.kind \in Unprocessed => o.input)
  BY <1>2, <1>3, <1>4
<1> QED BY <1>5 DEF o, r

\* Everything starts with the inputs that are to be sent.
LEMMA InitFlow == MapInit => FlowInv
<1> SUFFICES ASSUME MapInit PROVE FlowInv
  OBVIOUS
<1> USE DEF MapInit, Init, NoOutcomes
<1>1. Range(<<>>) = {} /\ IsInjective(<<>>) /\ DOMAIN <<>> = {}
  BY DEF Range, IsInjective
<1>2. Types
  <2>1. Given \in Seq(Own) /\ Len(Given) \in Nat
    BY BatchFacts, LenProperties
  <2>2. <<>> \in Seq(AllIndices) /\ <<>> \in Seq(Own)
    BY EmptySeq
  <2>3. /\ channel = <<>> /\ out = <<>> /\ yielded = <<>> /\ toSend = Own /\ pending = {}
        /\ indices = Given /\ limit = Len(Given) /\ unwound = {} /\ worker \in Workers
        /\ buf = {} /\ missing = {} /\ arrived = {} /\ connected = TRUE /\ calling = FALSE
        /\ done = FALSE
    OBVIOUS
  <2> QED BY <2>1, <2>2, <2>3 DEF Types
<1>3. InOrder
  BY BatchFacts, ConcatEmptySeq DEF InOrder
<1>4. OnePlace
  BY <1>1 DEF OnePlace, PlacesOf, One, UnderWay
<1>5. Arrivals /\ ByMode /\ Progress /\ Receiving
  BY <1>1 DEF Arrivals, ByMode, Progress, Receiving, Has, Collecting
<1> QED BY <1>2, <1>3, <1>4, <1>5 DEF FlowInv

-----------------------------------------------------------------------------
(***************************************************************************)
(* The client submits, and the call ends.                                  *)
(***************************************************************************)
LEMMA SendNextFlow == FlowInv /\ SendNext => FlowInv'
<1> SUFFICES ASSUME FlowInv, SendNext PROVE FlowInv'
  OBVIOUS
<1>1. PICK i \in toSend : pending' = pending \cup {i} /\ toSend' = toSend \ {i}
  BY DEF SendNext
<1>2. /\ UNCHANGED <<vars, choice, receiverVars, phase, outcomeOf, unwound, stored, yielded, answer>>
      /\ phase = "sending" /\ connected
  BY DEF SendNext, FlowInv, Types, Progress
<1> USE <1>1, <1>2 DEF FlowInv, vars, iterVars, choice, receiverVars
<1>3. Types' /\ InOrder'
  BY DEF Types, InOrder
<1>4. OnePlace'
  BY DEF Types, OnePlace, PlacesOf, One, UnderWay
<1>5. Arrivals' /\ ByMode' /\ Progress' /\ Receiving'
  BY DEF Types, Arrivals, ByMode, Progress, Receiving, Has, Collecting
<1> QED BY <1>3, <1>4, <1>5

\* Only the phase changes, the answer, and what was collected.
LEMMA PhaseFlow ==
  ASSUME FlowInv, UNCHANGED <<vars, choice, receiverVars, toSend, ends, yielded>>, Progress',
         mode = "stored" => phase' \notin Collecting, Receiving'
  PROVE  FlowInv'
BY DEF FlowInv, Types, InOrder, OnePlace, PlacesOf, UnderWay, One, Arrivals, ByMode,
       vars, iterVars, choice, receiverVars, ends

LEMMA CallEndsFlow == FlowInv /\ (ScanFails \/ SentAll \/ Abandon \/ Consume) => FlowInv'
<1> SUFFICES ASSUME FlowInv, ScanFails \/ SentAll \/ Abandon \/ Consume PROVE FlowInv'
  OBVIOUS
<1>1. UNCHANGED <<vars, choice, receiverVars, toSend, ends, yielded>>
  BY DEF ScanFails, SentAll, Abandon, Consume
<1>2. Progress'
  BY <1>1 DEF FlowInv, Progress, Receiving, Collecting, ScanFails, SentAll, Abandon, Consume,
              vars, iterVars, choice, receiverVars, ends
<1>3. mode = "stored" => phase' \notin Collecting
  BY DEF FlowInv, ByMode, Collecting, ScanFails, SentAll, Abandon, Consume
<1>4. Receiving'
  BY <1>1 DEF FlowInv, Progress, ByMode, Receiving, Has, Collecting, ScanFails, SentAll, Abandon,
              Consume, vars, iterVars, choice, receiverVars, ends
<1> QED BY <1>1, <1>2, <1>3, <1>4, PhaseFlow

\* The receiver is dropped, with what is in the channel and the buffer.
LEMMA DropReceiverFlow == FlowInv /\ DropReceiver => FlowInv'
<1> SUFFICES ASSUME FlowInv, DropReceiver PROVE FlowInv'
  OBVIOUS
<1>1. /\ listening /\ phase \in {"failed", "panicked", "abandoned", "collected"}
      /\ listening' = FALSE /\ channel' = <<>> /\ buf' = {}
      /\ discarded' = discarded \cup Range(channel) \cup buf
      /\ UNCHANGED <<connected, arrived, indices, limit, calling, out, missing, done>>
      /\ UNCHANGED <<mode, adapter, worker, phase, toSend, pending, outcomeOf, unwound, stored>>
      /\ UNCHANGED <<yielded, batch, answer>>
  BY DEF DropReceiver, choice, ends
<1>2. Range(channel') = {} /\ IsInjective(channel') /\ channel' \in Seq(AllIndices)
  BY <1>1, EmptySeq DEF Range, IsInjective
<1>3. Range(channel) \subseteq AllIndices /\ discarded = {}
  BY <1>1, RangeOfSeq DEF FlowInv, Types, Receiving
<1> USE DEF FlowInv
<1>4. Types' /\ InOrder'
  BY <1>1, <1>2, <1>3 DEF Types, InOrder, AllIndices
<1>5. OnePlace'
  BY <1>1, <1>2, <1>3 DEF OnePlace, PlacesOf, UnderWay, One
<1>6. Arrivals' /\ ByMode' /\ Progress'
  BY <1>1, <1>2, <1>3 DEF Types, Arrivals, ByMode, Progress, Collecting
<1>7. Receiving'
  <2>1. ASSUME phase = "collected" PROVE discarded' \cap Own = {}
    <3>1. ASSUME NEW i \in discarded' \cap Own PROVE FALSE
      <4>1. i \in unwound \cup Has /\ i \in Range(channel) \cup buf
        BY <1>1, <1>3, <2>1, <3>1 DEF Receiving
      <4> QED BY <3>1, <4>1 DEF Has, OnePlace, PlacesOf, UnderWay, One
    <3> QED BY <3>1
  <2> QED BY <1>1, <2>1 DEF Receiving, ByMode, Has
<1> QED BY <1>4, <1>5, <1>6, <1>7

\* The senders are dropped.
LEMMA DisconnectFlow == FlowInv /\ Disconnect => FlowInv'
<1> SUFFICES ASSUME FlowInv, Disconnect PROVE FlowInv'
  OBVIOUS
<1> USE DEF FlowInv, Disconnect, DropSenders, iterVars, choice, receiverVars, ends
<1>1. Types' /\ InOrder' /\ OnePlace'
  BY DEF Types, InOrder, OnePlace, PlacesOf, UnderWay, One
<1>2. Arrivals' /\ ByMode' /\ Progress' /\ Receiving'
  BY DEF Arrivals, ByMode, Progress, Receiving, Has, Collecting
<1> QED BY <1>1, <1>2

-----------------------------------------------------------------------------
(***************************************************************************)
(* The workers.                                                            *)
(***************************************************************************)
\* An outcome of the batch or of another task is sent.
LEMMA SendingFlow ==
  ASSUME FlowInv, NEW i \in AllIndices, NEW o, i \notin Range(channel),
         SendOutcome(i), outcomeOf' = Insert(outcomeOf, o),
         o.index = i, o.of = i, o.kind \in Kinds, o.kind \in Unprocessed => o.input,
         i \in Own => i \in pending /\ pending' = pending \ {i},
         i \notin Own => pending' = pending /\ mode \in {"ordered", "filtered"},
         UNCHANGED <<choice, receiverVars, phase, toSend, unwound, stored, yielded, answer>>
  PROVE  FlowInv'
<1> USE DEF FlowInv, SendOutcome, iterVars, choice, receiverVars
<1>1. /\ channel \in Seq(AllIndices) /\ channel' = Append(channel, i)
      /\ arrived' = arrived \cup {i} /\ connected /\ i \notin arrived
      /\ UNCHANGED <<connected, indices, buf, limit, calling, out, missing, done>>
  BY DEF Types
<1>2. /\ channel' \in Seq(AllIndices)
      /\ Range(channel') = Range(channel) \cup {i}
      /\ IsInjective(channel')
  BY <1>1, AppendRange, AppendProperties DEF OnePlace
<1>3. /\ DOMAIN outcomeOf' = DOMAIN outcomeOf \cup {i}
      /\ outcomeOf'[i] = o
      /\ \A j \in DOMAIN outcomeOf \ {i} : outcomeOf'[j] = outcomeOf[j]
  BY DEF Insert
<1>4. Types' /\ InOrder'
  BY <1>1, <1>2 DEF Types, InOrder
<1>5. OnePlace'
  BY <1>1, <1>2 DEF Types, OnePlace, PlacesOf, UnderWay, One
<1>6. Arrivals'
  BY <1>1, <1>2, <1>3 DEF Arrivals
<1>7. ByMode' /\ Progress' /\ Receiving'
  BY <1>1, <1>2 DEF ByMode, Progress, Receiving, Has, Types
<1> QED BY <1>4, <1>5, <1>6, <1>7

\* An outcome is stored.
LEMMA StoringFlow ==
  ASSUME FlowInv, ~listening, NEW i \in pending, NEW o, o.index = i,
         stored' = Insert(stored, o), pending' = pending \ {i},
         UNCHANGED <<vars, choice, receiverVars, phase, toSend, outcomeOf, unwound, yielded, answer>>
  PROVE  FlowInv'
<1> USE DEF FlowInv, vars, iterVars, choice, receiverVars
<1>1. DOMAIN stored' = DOMAIN stored \cup {i}
  BY DEF Insert
<1>2. mode = "stored" \/ phase \notin {"sending", "iterating", "collected", "consumed"}
  BY DEF Progress, Receiving
<1>3. Types' /\ InOrder'
  BY DEF Types, InOrder
<1>4. OnePlace'
  BY <1>1 DEF Types, OnePlace, PlacesOf, UnderWay, One
<1>5. Arrivals' /\ ByMode' /\ Progress' /\ Receiving'
  BY <1>1, <1>2 DEF Types, Arrivals, ByMode, Progress, Receiving, Has, Collecting
<1> QED BY <1>3, <1>4, <1>5

LEMMA EndTaskFlow ==
  ASSUME FlowInv, NEW i \in Own, NEW b \in worker.may \cup {"cancelled"}, EndTask(i, b)
  PROVE  FlowInv'
<1> DEFINE r == Result(worker, b)
           o == FromWorkerResult(r, i, i)
<1>1. /\ i \in pending /\ pending' = pending \ {i}
      /\ UNCHANGED <<choice, receiverVars, phase, toSend, yielded, batch, answer>>
      /\ IF r.tag = "unwinds"
           THEN unwound' = unwound \cup {i} /\ UNCHANGED <<vars, outcomeOf, stored>>
           ELSE DeliverTo(o) /\ UNCHANGED unwound
  BY DEF EndTask
<1>2. CASE r.tag = "unwinds"
  <2> USE <1>1, <1>2 DEF FlowInv, vars, iterVars, choice, receiverVars
  <2>1. Types' /\ InOrder'
    BY DEF Types, InOrder
  <2>2. OnePlace'
    BY DEF Types, OnePlace, PlacesOf, UnderWay, One
  <2>3. Arrivals' /\ ByMode' /\ Progress' /\ Receiving'
    BY DEF Types, Arrivals, ByMode, Progress, Receiving, Has, Collecting
  <2> QED BY <2>1, <2>2, <2>3
<1>3. CASE r.tag # "unwinds"
  <2>1. o.index = i /\ o.of = i /\ o.kind \in Kinds /\ (o.kind \in Unprocessed => o.input)
    BY <1>3, WorkerOutcome DEF FlowInv, Types
  <2> HIDE DEF r, o
  <2>2. i \in AllIndices
    BY DEF AllIndices
  <2>3. i \notin Range(channel)
    BY <1>1 DEF FlowInv, OnePlace, PlacesOf, UnderWay, One
  <2>4. UNCHANGED unwound /\ DeliverTo(o)
    BY <1>1, <1>3
  <2>5. CASE listening
    <3>1. SendOutcome(i) /\ outcomeOf' = Insert(outcomeOf, o) /\ UNCHANGED stored
      BY <2>1, <2>4, <2>5 DEF DeliverTo
    <3> QED BY <1>1, <2>1, <2>2, <2>3, <2>4, <3>1, SendingFlow
  <2>6. CASE ~listening
    <3>1. stored' = Insert(stored, o) /\ UNCHANGED <<vars, outcomeOf>>
      BY <2>4, <2>6 DEF DeliverTo
    <3> QED BY <1>1, <2>1, <2>4, <2>6, <3>1, StoringFlow
  <2> QED BY <2>5, <2>6
<1> QED BY <1>2, <1>3

LEMMA SendForeignFlow ==
  ASSUME FlowInv, NEW i \in Foreign, SendForeign(i)
  PROVE  FlowInv'
<1> DEFINE o == Outcome("Success", i, i, FALSE)
<1>1. o.index = i /\ o.of = i /\ o.kind \in Kinds /\ (o.kind \in Unprocessed => o.input)
  BY DEF Outcome, Kinds, Success, Unprocessed
<1>2. /\ mode \in {"ordered", "filtered"} /\ SendOutcome(i)
      /\ outcomeOf' = Insert(outcomeOf, o)
      /\ UNCHANGED <<choice, receiverVars, phase, toSend, pending, unwound, stored, yielded, answer>>
  BY DEF SendForeign
<1> HIDE DEF o
<1>3. i \in AllIndices /\ i \notin Own /\ i \notin Range(channel)
  BY <1>2, BatchFacts DEF AllIndices, SendOutcome, FlowInv, Arrivals
<1> QED BY <1>1, <1>2, <1>3, SendingFlow

-----------------------------------------------------------------------------
(***************************************************************************)
(* The client consumes: what a round of OutcomeIterator::next comes to.    *)
(***************************************************************************)
\* The outcome of the first index is returned, from the buffer or the channel.
GivesOut(i) ==
  /\ indices # <<>> /\ i = Head(indices)
  /\ indices' = Tail(indices) /\ out' = Append(out, i)
  /\ Collect(outcomeOf[i])
  /\ UNCHANGED <<connected, arrived, missing, done>>

Buffered(i) == i \in buf /\ buf' = buf \ {i} /\ UNCHANGED <<channel, limit>> /\ GivesOut(i)

\* An outcome is taken from the channel.
TakesOne ==
  /\ limit > 0 /\ limit' = limit - 1
  /\ channel # <<>> /\ channel' = Tail(channel)

Direct(i) ==
  TakesOne /\ i \notin buf /\ i = Head(channel) /\ GivesOut(i) /\ UNCHANGED buf

\* It is one for later, or another's.
SetAside ==
  /\ TakesOne /\ indices # <<>> /\ Head(channel) # Head(indices)
  /\ buf' = IF Head(channel) \in Range(indices) THEN buf \cup {Head(channel)} ELSE buf
  /\ UNCHANGED <<connected, arrived, indices, out, missing, done, phase, batch>>

Absent ==
  /\ ReturnMissing
  /\ \/ Head(indices) \in missing /\ UNCHANGED <<phase, batch>>
     \/ Collect(Missing(Head(indices)))

LEMMA OrderedCases ==
  ASSUME Types, Progress, NextOrdered
  PROVE  /\ phase = "iterating" /\ mode = "ordered"
         /\ UNCHANGED <<choice, receiverVars, toSend, ends, yielded, answer>>
         /\ \/ Call /\ UNCHANGED <<phase, batch>>
            \/ \E i \in Own : Buffered(i) \/ Direct(i)
            \/ SetAside
            \/ Absent
            \/ ReturnNone /\ Collected
<1>1. /\ phase = "iterating" /\ mode = "ordered" /\ Iterate
      /\ UNCHANGED <<choice, receiverVars, toSend, ends, yielded, answer>>
      /\ IF out' # out THEN Collect(outcomeOf[Last(out')])
         ELSE IF missing' # missing THEN Collect(Missing(Head(indices)))
         ELSE IF done' THEN Collected
         ELSE UNCHANGED <<phase, batch>>
  BY DEF NextOrdered
<1>2. ~done
  BY <1>1 DEF Progress, Types
<1>3. ASSUME NEW i \in Own, indices # <<>>, i = Head(indices), Return(i)
      PROVE  Collect(outcomeOf[i])
  <2>1. out \in Seq(Own) /\ out' = Append(out, i)
    BY <1>3 DEF Return, Types
  <2>2. out' # out /\ Last(out') = i
    BY <2>1, AppendProperties, LenProperties DEF Last
  <2> QED BY <1>1, <2>2
<1>4. ASSUME indices # <<>> PROVE Head(indices) \in Own
  BY <1>4, HeadTailProperties DEF Types
<1>5. CASE Call
  BY <1>1, <1>2, <1>5 DEF Call
<1>6. CASE FromBuffer
  <2>1. Buffered(Head(indices))
    BY <1>3, <1>4, <1>6 DEF FromBuffer, Buffered, GivesOut, Return
  <2> QED BY <1>1, <1>4, <1>6, <2>1 DEF FromBuffer
<1>7. CASE FromChannel
  <2>1. CASE Head(channel) = Head(indices) /\ Return(Head(channel)) /\ UNCHANGED buf
    <3>1. Direct(Head(indices))
      BY <1>3, <1>4, <1>7, <2>1 DEF FromChannel, Direct, TakesOne, GivesOut, Return
    <3> QED BY <1>1, <1>4, <1>7, <3>1 DEF FromChannel
  <2>2. CASE Head(channel) # Head(indices)
    <3>1. SetAside
      BY <1>1, <1>2, <1>7, <2>2 DEF FromChannel, SetAside, TakesOne
    <3> QED BY <1>1, <3>1
  <2> QED BY <1>7, <2>1, <2>2 DEF FromChannel
<1>8. CASE ReturnMissing
  <2>1. out' = out /\ ~done' /\ missing' = missing \cup {Head(indices)}
    BY <1>2, <1>8 DEF ReturnMissing
  <2>2. Absent
    BY <1>1, <1>8, <2>1 DEF Absent
  <2> QED BY <1>1, <2>2
<1>9. CASE ReturnNone
  BY <1>1, <1>9 DEF ReturnNone
<1> QED BY <1>1, <1>5, <1>6, <1>7, <1>8, <1>9 DEF Iterate

\* What is taken from the channel.
LEMMA ChannelFacts ==
  ASSUME FlowInv, channel # <<>>, channel' = Tail(channel)
  PROVE  /\ Head(channel) \in AllIndices /\ Head(channel) \in Range(channel)
         /\ channel' \in Seq(AllIndices) /\ IsInjective(channel')
         /\ Range(channel') = Range(channel) \ {Head(channel)}
<1>1. channel \in Seq(AllIndices) /\ IsInjective(channel)
  BY DEF FlowInv, Types, OnePlace
<1> QED BY <1>1, HeadTailProperties, TailRange

\* What is returned goes from the front of the rest to the end of the result.
LEMMA GivesOutFacts ==
  ASSUME FlowInv, NEW i \in Own, GivesOut(i)
  PROVE  /\ indices' \in Seq(Own) /\ out' \in Seq(Own) /\ InOrder'
         /\ Range(out') = Range(out) \cup {i} /\ i \notin Range(out)
         /\ phase' \in {phase, "panicked"}
<1>1. /\ indices \in Seq(Own) /\ out \in Seq(Own) /\ indices # <<>> /\ i = Head(indices)
      /\ indices' = Tail(indices) /\ out' = Append(out, i)
  BY DEF FlowInv, Types, GivesOut
<1>2. indices' \in Seq(Own) /\ out' \in Seq(Own) /\ Range(out') = Range(out) \cup {i}
  BY <1>1, HeadTailProperties, AppendProperties, AppendRange
<1>3. out' \o indices' = out \o indices
  BY <1>1, MoveHead
<1>4. i \in Range(indices) /\ i \notin Range(out)
  BY <1>1, OrderFacts, TailRange DEF FlowInv
<1> QED BY <1>2, <1>3, <1>4 DEF FlowInv, InOrder, GivesOut, Collect

LEMMA OrderedFlow == FlowInv /\ NextOrdered => FlowInv'
<1> SUFFICES ASSUME FlowInv, NextOrdered PROVE FlowInv'
  OBVIOUS
<1>1. /\ phase = "iterating" /\ mode = "ordered"
      /\ UNCHANGED <<choice, receiverVars, toSend, ends, yielded, answer>>
      /\ \/ Call /\ UNCHANGED <<phase, batch>>
         \/ \E i \in Own : Buffered(i) \/ Direct(i)
         \/ SetAside
         \/ Absent
         \/ ReturnNone /\ Collected
  BY OrderedCases DEF FlowInv
<1> USE <1>1 DEF FlowInv, choice, receiverVars, ends
<1>2. calling' \in BOOLEAN /\ done' \in BOOLEAN
  BY DEF Types, Call, Buffered, Direct, GivesOut, SetAside, TakesOne, Absent, ReturnMissing,
         ReturnNone, NextOrdered, Iterate, FromBuffer, FromChannel, Return
<1>3. CASE Call /\ UNCHANGED <<phase, batch>>
  <2> USE <1>2, <1>3 DEF Call
  <2>1. Types' /\ InOrder' /\ OnePlace'
    BY DEF Types, InOrder, OnePlace, PlacesOf, UnderWay, One
  <2>2. Arrivals' /\ ByMode' /\ Progress' /\ Receiving'
    BY DEF Arrivals, ByMode, Progress, Receiving, Has
  <2> QED BY <2>1, <2>2
<1>4. ASSUME NEW i \in Own, Buffered(i) PROVE FlowInv'
  <2> USE <1>2, <1>4 DEF Buffered
  <2>1. /\ indices' \in Seq(Own) /\ out' \in Seq(Own) /\ InOrder'
        /\ Range(out') = Range(out) \cup {i} /\ i \notin Range(out)
        /\ phase' \in {phase, "panicked"}
    BY GivesOutFacts
  <2>2. UNCHANGED <<connected, arrived, missing, done>>
    BY DEF GivesOut
  <2> HIDE <1>2
  <2>3. Types'
    BY <1>2, <2>1, <2>2 DEF Types
  <2>4. OnePlace'
    BY <2>1, <2>2 DEF OnePlace, PlacesOf, UnderWay, One
  <2>5. Arrivals' /\ ByMode' /\ Progress' /\ Receiving'
    BY <2>1, <2>2 DEF Arrivals, ByMode, Progress, Receiving, Has, Collecting
  <2> QED BY <2>1, <2>3, <2>4, <2>5
<1>5. ASSUME NEW i \in Own, Direct(i) PROVE FlowInv'
  <2>1. /\ indices' \in Seq(Own) /\ out' \in Seq(Own) /\ InOrder'
        /\ Range(out') = Range(out) \cup {i} /\ i \notin Range(out)
        /\ phase' \in {phase, "panicked"}
    BY <1>5, GivesOutFacts DEF Direct
  <2>2. UNCHANGED <<connected, arrived, missing, done, buf>> /\ limit' = limit - 1 /\ limit > 0
    BY <1>5 DEF Direct, GivesOut, TakesOne
  <2>3. /\ i \in Range(channel) /\ channel' \in Seq(AllIndices) /\ IsInjective(channel')
        /\ Range(channel') = Range(channel) \ {i}
    BY <1>5, ChannelFacts DEF Direct, TakesOne
  <2>4. Types'
    BY <1>2, <2>1, <2>2, <2>3 DEF Types
  <2>5. OnePlace'
    BY <2>1, <2>2, <2>3 DEF OnePlace, PlacesOf, UnderWay, One
  <2>6. Arrivals' /\ ByMode' /\ Progress' /\ Receiving'
    BY <2>1, <2>2, <2>3 DEF Arrivals, ByMode, Progress, Receiving, Has, Collecting
  <2> QED BY <2>1, <2>4, <2>5, <2>6
<1>6. CASE SetAside
  <2> DEFINE i == Head(channel)
  <2>1. /\ UNCHANGED <<connected, arrived, indices, out, missing, done, phase, batch>>
        /\ limit' = limit - 1 /\ limit > 0
        /\ buf' = IF i \in Range(indices) THEN buf \cup {i} ELSE buf
    BY <1>6 DEF SetAside, TakesOne
  <2>2. /\ i \in AllIndices /\ i \in Range(channel)
        /\ channel' \in Seq(AllIndices) /\ IsInjective(channel')
        /\ Range(channel') = Range(channel) \ {i}
    BY <1>6, ChannelFacts DEF SetAside, TakesOne
  <2> HIDE DEF i
  <2>3. i \in Range(indices) <=> i \in Own
    <3>1. Range(indices) \subseteq Own
      BY RangeOfSeq DEF Types
    <3>2. i \in Own => i \notin Range(out)
      BY <2>2 DEF OnePlace, PlacesOf, One
    <3> QED BY <3>1, <3>2, OrderFacts
  <2>4. Types' /\ InOrder'
    BY <1>2, <2>1, <2>2, <2>3 DEF Types, InOrder
  <2>5. OnePlace'
    BY <2>1, <2>2, <2>3 DEF OnePlace, PlacesOf, UnderWay, One
  <2>6. Arrivals' /\ ByMode' /\ Progress' /\ Receiving'
    BY <2>1, <2>2, <2>3 DEF Arrivals, ByMode, Progress, Receiving, Has, Collecting
  <2> QED BY <2>4, <2>5, <2>6
<1>7. CASE Absent
  <2>1. /\ UNCHANGED <<channel, connected, arrived, indices, buf, limit, out, done>>
        /\ indices # <<>> /\ missing' = missing \cup {Head(indices)}
        /\ phase' \in {phase, "panicked"}
    BY <1>7 DEF Absent, ReturnMissing, Collect
  <2>2. Head(indices) \in Own
    BY <2>1, HeadTailProperties DEF Types
  <2>3. Types' /\ InOrder' /\ OnePlace'
    BY <1>2, <2>1, <2>2 DEF Types, InOrder, OnePlace, PlacesOf, UnderWay, One
  <2>4. Arrivals' /\ ByMode' /\ Progress' /\ Receiving'
    BY <2>1 DEF Arrivals, ByMode, Progress, Receiving, Has, Collecting
  <2> QED BY <2>3, <2>4
<1>8. CASE ReturnNone /\ Collected
  <2>1. /\ UNCHANGED <<channel, connected, arrived, indices, buf, limit, out, missing>>
        /\ indices = <<>> /\ phase' = "collected"
    BY <1>8 DEF ReturnNone, Collected
  <2>0. Range(out) = Own
    BY <2>1, OrderFacts
  <2>2. pending = {}
    <3>1. ASSUME NEW i \in pending PROVE FALSE
      <4>1. i \in Own /\ i \in UnderWay /\ i \in Range(out)
        BY <2>0, <3>1 DEF Types, UnderWay
      <4> QED BY <4>1 DEF OnePlace, PlacesOf, One
    <3> QED BY <3>1
  <2>3. Types' /\ InOrder' /\ OnePlace'
    BY <1>2, <2>1 DEF Types, InOrder, OnePlace, PlacesOf, UnderWay, One
  <2>4. Arrivals' /\ ByMode' /\ Progress'
    BY <2>1, <2>2 DEF Arrivals, ByMode, Progress, Collecting
  <2>5. Receiving'
    BY <2>0, <2>1 DEF Receiving, Has, receiverVars
  <2> QED BY <2>3, <2>4, <2>5
<1> QED BY <1>1, <1>3, <1>4, <1>5, <1>6, <1>7, <1>8

-----------------------------------------------------------------------------
(***************************************************************************)
(* What a round of a call comes to that takes the outcomes as they arrive. *)
(***************************************************************************)
EndsCall == (Full \/ (channel = <<>> /\ ~connected)) /\ Collected /\ UNCHANGED <<vars, yielded>>

\* An outcome is taken from the channel, and yielded or filtered out.
TakesNext ==
  /\ channel # <<>> /\ channel' = Tail(channel)
  /\ UNCHANGED <<connected, arrived, iterVars>>

Yields(i) ==
  /\ TakesNext /\ i = Head(channel)
  /\ yielded' = Append(yielded, i) /\ Collect(outcomeOf[i])

Skips(i) ==
  TakesNext /\ i = Head(channel) /\ i \notin Own /\ UNCHANGED <<yielded, phase, batch>>

LEMMA UnorderedCases ==
  ASSUME FlowInv, NextUnordered
  PROVE  /\ phase = "iterating" /\ mode \in {"unordered", "filtered"}
         /\ UNCHANGED <<choice, receiverVars, toSend, ends, answer>>
         /\ \/ EndsCall
            \/ \E i \in Own : Yields(i)
            \/ \E i \in AllIndices : Skips(i)
<1>1. /\ phase = "iterating" /\ mode \in {"unordered", "filtered"}
      /\ UNCHANGED <<choice, receiverVars, toSend, ends, answer>>
  BY DEF NextUnordered
<1>2. CASE Full \/ (channel = <<>> /\ ~connected)
  BY <1>1, <1>2 DEF NextUnordered, EndsCall
<1>3. CASE ~(Full \/ (channel = <<>> /\ ~connected))
  <2> DEFINE i == Head(channel)
  <2>1. /\ TakesNext
        /\ IF Counts(i) THEN yielded' = Append(yielded, i) /\ Collect(outcomeOf[i])
           ELSE UNCHANGED <<yielded, phase, batch>>
    BY <1>3 DEF NextUnordered, TakesNext
  <2>2. i \in AllIndices /\ i \in Range(channel)
    BY <2>1, ChannelFacts DEF TakesNext
  <2> HIDE DEF i
  <2>3. Counts(i) <=> i \in Own
    BY <1>1, <2>2 DEF Counts, FlowInv, ByMode
  <2> QED BY <1>1, <2>1, <2>2, <2>3 DEF Yields, Skips, i
<1> QED BY <1>2, <1>3

\* A sequence of indices without repetitions that is as long as the batch has all.
LEMMA FullFacts ==
  ASSUME FlowInv, Full
  PROVE  Range(yielded) = Own
<1>1. yielded \in Seq(Own) /\ IsInjective(yielded)
  BY DEF FlowInv, Types, OnePlace
<1>2. Cardinality(Range(yielded)) = Cardinality(Own) /\ Range(yielded) \subseteq Own
  BY <1>1, InjectiveLength, BatchFacts, RangeOfSeq DEF Full
<1> QED BY <1>2, BatchFacts, FS_Subset

\* At its end the client has every outcome that was sent.
LEMMA EndedFacts ==
  ASSUME FlowInv, phase = "iterating", mode \in {"unordered", "filtered"}, EndsCall
  PROVE  Own \subseteq unwound \cup Has
<1>1. missing = {} /\ buf = {} /\ out = <<>> /\ DOMAIN stored = {} /\ toSend = {} /\ discarded = {}
  BY DEF FlowInv, ByMode, Progress, Receiving, Collecting
<1>2. CASE Full
  BY <1>2, FullFacts DEF Has
<1>3. CASE channel = <<>> /\ ~connected
  <2>1. Range(channel) = {} /\ pending = {}
    BY <1>3 DEF Range, FlowInv, Progress
  <2>2. ASSUME NEW i \in Own \ unwound PROVE i \in Has
    <3>1. i \notin UnderWay
      BY <1>1, <2>1, <2>2 DEF UnderWay
    <3> QED BY <1>1, <2>1, <2>2, <3>1 DEF FlowInv, OnePlace, PlacesOf, One, Has
  <2> QED BY <2>2
<1> QED BY <1>2, <1>3 DEF EndsCall

LEMMA UnorderedFlow == FlowInv /\ NextUnordered => FlowInv'
<1> SUFFICES ASSUME FlowInv, NextUnordered PROVE FlowInv'
  OBVIOUS
<1>1. /\ phase = "iterating" /\ mode \in {"unordered", "filtered"}
      /\ UNCHANGED <<choice, receiverVars, toSend, ends, answer>>
      /\ \/ EndsCall
         \/ \E i \in Own : Yields(i)
         \/ \E i \in AllIndices : Skips(i)
  BY UnorderedCases
<1> USE <1>1 DEF FlowInv, choice, receiverVars, ends
<1>2. CASE EndsCall
  <2>1. pending = {}
    <3>1. ASSUME NEW i \in pending PROVE FALSE
      <4>1. Full
        BY <1>2, <3>1 DEF EndsCall, Progress
      <4>2. i \in Own /\ i \in UnderWay /\ i \in Range(yielded)
        BY <4>1, FullFacts DEF Types, UnderWay
      <4> QED BY <4>2 DEF OnePlace, PlacesOf, One
    <3> QED BY <3>1
  <2>2. UNCHANGED <<vars, yielded>> /\ phase' = "collected"
    BY <1>2 DEF EndsCall, Collected
  <2>3. Progress'
    BY <2>1, <2>2 DEF Progress, Collecting, vars, iterVars
  <2>4. Own \subseteq unwound \cup Has
    BY <1>2, EndedFacts
  <2>5. Receiving'
    BY <2>2, <2>4 DEF Receiving, Has, vars, iterVars, receiverVars
  <2> QED BY <2>2, <2>3, <2>5, PhaseFlow
<1>3. ASSUME NEW i \in AllIndices, TakesNext, i = Head(channel), phase' \in {phase, "panicked"},
             \/ i \in Own /\ yielded' = Append(yielded, i)
             \/ i \notin Own /\ yielded' = yielded
      PROVE  FlowInv'
  <2>1. /\ i \in Range(channel) /\ channel' \in Seq(AllIndices) /\ IsInjective(channel')
        /\ Range(channel') = Range(channel) \ {i}
    BY <1>3, ChannelFacts DEF TakesNext
  <2>2. i \notin Own \/ i \notin Range(yielded)
    BY <2>1 DEF OnePlace, PlacesOf, One
  <2>3. /\ yielded' \in Seq(Own) /\ IsInjective(yielded')
        /\ i \in Own => Range(yielded') = Range(yielded) \cup {i}
        /\ i \notin Own => yielded' = yielded
    <3>1. yielded \in Seq(Own) /\ IsInjective(yielded)
      BY DEF Types, OnePlace
    <3>2. CASE i \in Own
      <4>1. yielded' = Append(yielded, i) /\ i \notin Range(yielded)
        BY <1>3, <2>2, <3>2
      <4> HIDE <1>1
      <4> QED BY <3>1, <3>2, <4>1, AppendProperties, AppendRange
    <3>3. CASE i \notin Own
      BY <1>3, <3>1, <3>3
    <3> QED BY <3>2, <3>3
  <2>4. UNCHANGED <<connected, arrived, indices, buf, limit, calling, out, missing, done>>
    BY <1>3 DEF TakesNext, iterVars
  <2>5. Types' /\ InOrder'
    BY <2>1, <2>3, <2>4 DEF Types, InOrder
  <2>6. OnePlace'
    BY <2>1, <2>3, <2>4 DEF OnePlace, PlacesOf, UnderWay, One
  <2>7. Arrivals' /\ ByMode' /\ Progress' /\ Receiving'
    BY <1>3, <2>1, <2>3, <2>4 DEF Arrivals, ByMode, Progress, Receiving, Has, Collecting
  <2> QED BY <2>5, <2>6, <2>7
<1>4. ASSUME NEW i \in Own, Yields(i) PROVE FlowInv'
  BY <1>3, <1>4 DEF Yields, Collect, AllIndices
<1>5. ASSUME NEW i \in AllIndices, Skips(i) PROVE FlowInv'
  BY <1>3, <1>5 DEF Skips
<1> QED BY <1>1, <1>2, <1>4, <1>5

LEMMA StepFlow == FlowInv /\ [MapNext]_mapVars => FlowInv'
<1> SUFFICES ASSUME FlowInv, [MapNext]_mapVars PROVE FlowInv'
  OBVIOUS
<1>1. CASE UNCHANGED mapVars
  BY <1>1, PhaseFlow DEF mapVars, FlowInv, Progress, Receiving, Has, ByMode, vars, iterVars, choice,
                         receiverVars, ends
<1>2. ASSUME NEW i \in Own, NEW b \in worker.may \cup {"cancelled"}, EndTask(i, b)
      PROVE  FlowInv'
  BY <1>2, EndTaskFlow
<1>3. ASSUME NEW i \in Foreign, SendForeign(i) PROVE FlowInv'
  BY <1>3, SendForeignFlow
<1> QED BY <1>1, <1>2, <1>3, SendNextFlow, CallEndsFlow, OrderedFlow, UnorderedFlow,
           DropReceiverFlow, DisconnectFlow DEF MapNext, ClientStep, MapRest

LEMMA AlwaysFlow == MapSpec => []FlowInv
BY InitFlow, StepFlow, PTL DEF MapSpec

(***************************************************************************)
(* Outcomes are returned in the order of the batch, each once, and none is *)
(* skipped, whatever order they arrive in.                                 *)
(***************************************************************************)
THEOREM ReturnedInOrder == MapSpec => []InOrder
BY AlwaysFlow, PTL DEF FlowInv

(***************************************************************************)
(* An outcome of the batch is always in exactly one place, or was dropped  *)
(* with the receiver: in a call that failed, panicked or was given up, and *)
(* only what had arrived by then.                                          *)
(***************************************************************************)
THEOREM OutcomesStayConserved == MapSpec => []OutcomesConserved
<1>0. FlowInv => (discarded \cap Own # {} => ~listening /\ phase \in {"failed", "panicked", "abandoned"})
  <2> SUFFICES ASSUME Receiving, discarded \cap Own # {}
               PROVE  ~listening /\ phase \in {"failed", "panicked", "abandoned"}
    BY DEF FlowInv
  <2>1. ~listening
    BY DEF Receiving
  <2> QED BY <2>1 DEF Receiving
<1>1. FlowInv => OutcomesConserved
  <2> SUFFICES ASSUME FlowInv, NEW i \in Own
               PROVE  Cardinality(Occurrences(channel, i)) + Cardinality({i} \cap buf)
                      + Cardinality({i} \cap Range(out)) + Cardinality(Occurrences(yielded, i))
                      + Cardinality({i} \cap DOMAIN stored) + Cardinality({i} \cap discarded)
                      = IF i \in UnderWay THEN 0 ELSE 1
    BY <1>0 DEF OutcomesConserved, Occurrences, UnderWay
  <2>1. \A S : Cardinality({i} \cap S) = One(i \in S)
    <3> SUFFICES ASSUME NEW S PROVE Cardinality({i} \cap S) = One(i \in S)
      OBVIOUS
    <3>1. CASE i \in S
      <4>1. {i} \cap S = {i}
        BY <3>1
      <4> QED BY <3>1, <4>1, FS_Singleton DEF One
    <3>2. CASE i \notin S
      <4>1. {i} \cap S = {}
        BY <3>2
      <4> QED BY <3>2, <4>1, FS_EmptySet DEF One
    <3> QED BY <3>1, <3>2
  <2>2. /\ Cardinality(Occurrences(channel, i)) = One(i \in Range(channel))
        /\ Cardinality(Occurrences(yielded, i)) = One(i \in Range(yielded))
    BY OccurrencesFacts DEF FlowInv, OnePlace, One
  <2>3. PlacesOf(i) = 1
    BY DEF FlowInv, OnePlace
  <2> QED BY <2>1, <2>2, <2>3 DEF PlacesOf, One
<1> QED BY <1>1, AlwaysFlow, PTL

-----------------------------------------------------------------------------
(***************************************************************************)
(* When the iterator gives up: no more comes from the channel, and what it *)
(* looks for is not in the buffer.  As long as no other task uses the      *)
(* channel, its limit is exactly what is not buffered yet, and so the      *)
(* channel is closed by then.                                              *)
(***************************************************************************)
Stuck ==
  missing # {} =>
    /\ indices # <<>> /\ Head(indices) \notin buf
    /\ limit = 0 \/ (channel = <<>> /\ ~connected)
    /\ ~Shared => ~connected

Counted == listening /\ ~Shared => limit + Cardinality(buf) = Len(indices)

GiveUpInv == Stuck /\ Counted /\ MissingIsMissing

LEMMA BufferFacts ==
  ASSUME FlowInv
  PROVE  /\ IsFiniteSet(buf) /\ Cardinality(buf) \in Nat /\ Len(indices) \in Nat
         /\ buf \subseteq Range(indices)
         /\ IsFiniteSet(Range(indices)) /\ Cardinality(Range(indices)) = Len(indices)
<1>1. buf \subseteq Own /\ indices \in Seq(Own)
  BY DEF FlowInv, Types
<1>2. IsFiniteSet(buf) /\ Cardinality(buf) \in Nat /\ Len(indices) \in Nat
  BY <1>1, BatchFacts, FS_Subset, FS_CardinalityType, LenProperties
<1>3. IsFiniteSet(Range(indices)) /\ Cardinality(Range(indices)) = Len(indices)
  BY <1>1, OrderFacts, InjectiveLength DEF FlowInv
<1>4. ASSUME NEW i \in buf PROVE i \in Range(indices)
  <2>1. i \notin Range(out)
    BY <1>1 DEF FlowInv, OnePlace, PlacesOf, One
  <2> QED BY <1>1, <2>1, OrderFacts DEF FlowInv
<1> QED BY <1>2, <1>3, <1>4

\* An iterator that uses up its limit has buffered all that it has yet to return.
LEMMA LimitSuffices ==
  ASSUME FlowInv, Counted, listening, ~Shared, indices # <<>>, Head(indices) \notin buf
  PROVE  limit # 0
<1> SUFFICES ASSUME limit = 0 PROVE FALSE
  OBVIOUS
<1>1. Cardinality(buf) = Cardinality(Range(indices))
  BY BufferFacts DEF Counted
<1>2. buf = Range(indices)
  BY <1>1, BufferFacts, FS_Subset
<1>3. Head(indices) \in Range(indices)
  BY OrderFacts, TailRange DEF FlowInv, Types
<1> QED BY <1>2, <1>3

\* Nothing that is in the channel or was returned can be missing.
LEMMA InitGiveUp == MapInit => GiveUpInv
BY BatchFacts, LenProperties, FS_EmptySet
   DEF MapInit, Init, GiveUpInv, Stuck, Counted, MissingIsMissing, Shared

\* A step in which the iterator stands still.
LEMMA IteratorRests ==
  ASSUME GiveUpInv, UNCHANGED <<indices, buf, limit, missing>>, listening' => listening, arrived \subseteq arrived',
         connected' \in BOOLEAN,
         missing # {} =>
           \/ UNCHANGED <<channel, arrived>> /\ (~connected => ~connected')
           \/ connected /\ connected'
  PROVE  GiveUpInv'
BY DEF GiveUpInv, Stuck, Counted, MissingIsMissing, Shared

LEMMA OrderedGiveUp == FlowInv /\ GiveUpInv /\ NextOrdered => GiveUpInv'
<1> SUFFICES ASSUME FlowInv, GiveUpInv, NextOrdered PROVE GiveUpInv'
  OBVIOUS
<1>1. \/ Call /\ UNCHANGED <<phase, batch>>
      \/ \E i \in Own : Buffered(i) \/ Direct(i)
      \/ SetAside
      \/ Absent
      \/ ReturnNone /\ Collected
  BY OrderedCases DEF FlowInv
<1>0. listening /\ listening' /\ discarded = {}
  BY DEF NextOrdered, receiverVars, FlowInv, Receiving
<1>2. arrived' = arrived /\ connected' = connected /\ (Shared' <=> Shared)
  BY <1>1 DEF Call, Buffered, Direct, GivesOut, SetAside, Absent, ReturnMissing, ReturnNone,
              Shared
<1>3. connected \in BOOLEAN /\ limit \in Nat /\ indices \in Seq(Own)
  BY DEF FlowInv, Types
<1>4. CASE Call \/ ReturnNone
  BY <1>0, <1>2, <1>3, <1>4, IteratorRests DEF Call, ReturnNone
<1>5. ASSUME NEW i \in Own, Buffered(i) \/ Direct(i) PROVE GiveUpInv'
  <2>1. /\ missing' = missing /\ indices # <<>> /\ indices' = Tail(indices)
        /\ Len(indices') = Len(indices) - 1
    BY <1>3, <1>5, HeadTailProperties DEF Buffered, Direct, GivesOut
  <2>2. missing = {}
    BY <1>5 DEF GiveUpInv, Stuck, Buffered, Direct, GivesOut, TakesOne
  <2>3. limit' + Cardinality(buf') = limit + Cardinality(buf) - 1
    <3>1. CASE Buffered(i)
      <4>1. Cardinality(buf \ {i}) = Cardinality(buf) - 1
        BY <3>1, BufferFacts, FS_RemoveElement DEF Buffered
      <4> QED BY <3>1, <4>1, <1>3, BufferFacts DEF Buffered
    <3>2. CASE Direct(i)
      BY <3>2, <1>3, BufferFacts DEF Direct, TakesOne
    <3> QED BY <1>5, <3>1, <3>2
  <2>4. Counted'
    <3>1. ~Shared => limit + Cardinality(buf) = Len(indices)
      BY <1>0 DEF GiveUpInv, Counted
    <3>2. ~Shared' => limit' + Cardinality(buf') = Len(indices')
      BY <1>2, <1>3, <2>1, <2>3, <3>1, BufferFacts
    <3> QED BY <3>2 DEF Counted
  <2> QED BY <2>1, <2>2, <2>4 DEF GiveUpInv, Stuck, MissingIsMissing
<1>6. CASE SetAside
  <2> DEFINE i == Head(channel)
  <2>1. /\ UNCHANGED <<indices, missing>> /\ limit > 0 /\ limit' = limit - 1 /\ channel # <<>>
        /\ buf' = IF i \in Range(indices) THEN buf \cup {i} ELSE buf
    BY <1>6 DEF SetAside, TakesOne
  <2>2. missing = {}
    BY <2>1 DEF GiveUpInv, Stuck
  <2>3. i \in AllIndices /\ i \in Range(channel)
    BY <1>6, ChannelFacts DEF SetAside, TakesOne
  <2> HIDE DEF i
  <2>4. ASSUME ~Shared PROVE limit' + Cardinality(buf') = limit + Cardinality(buf)
    <3>1. i \in Own /\ i \notin buf /\ i \notin Range(out)
      <4>1. i \in Own
        BY <2>3, <2>4 DEF Shared, AllIndices, FlowInv, Arrivals
      <4> QED BY <2>3, <4>1 DEF FlowInv, OnePlace, PlacesOf, One
    <3>2. i \in Range(indices)
      BY <3>1, OrderFacts DEF FlowInv
    <3>3. Cardinality(buf \cup {i}) = Cardinality(buf) + 1
      BY <3>1, BufferFacts, FS_AddElement
    <3> QED BY <1>3, <2>1, <3>2, <3>3, BufferFacts
  <2>5. Counted'
    BY <1>0, <1>2, <2>1, <2>4 DEF GiveUpInv, Counted
  <2> QED BY <2>1, <2>2, <2>5 DEF GiveUpInv, Stuck, MissingIsMissing
<1>7. CASE Absent
  <2> DEFINE i == Head(indices)
  <2>1. /\ UNCHANGED <<channel, indices, buf, limit>>
        /\ indices # <<>> /\ i \notin buf
        /\ limit = 0 \/ (channel = <<>> /\ ~connected)
        /\ missing' = missing \cup {i}
    BY <1>7 DEF Absent, ReturnMissing
  <2>2. ASSUME ~Shared PROVE channel = <<>> /\ ~connected
    BY <1>0, <2>1, <2>2, LimitSuffices DEF GiveUpInv
  <2>3. ASSUME ~Shared PROVE i \notin arrived
    <3>1. i \in Own /\ i \in Range(indices)
      BY <2>1, <1>3, HeadTailProperties, OrderFacts, TailRange DEF FlowInv
    <3>2. i \notin Range(out)
      BY <3>1, OrderFacts DEF FlowInv
    <3>3. Range(channel) = {}
      BY <2>2, <2>3 DEF Range
    <3>4. yielded = <<>>
      BY DEF NextOrdered, FlowInv, ByMode
    <3>5. Range(yielded) = {}
      BY <3>4 DEF Range
    <3> HIDE DEF i
    <3> QED BY <1>0, <2>1, <3>1, <3>2, <3>3, <3>5 DEF FlowInv, Arrivals
  <2>4. Stuck'
    BY <1>2, <2>1, <2>2 DEF Stuck
  <2>5. Counted'
    BY <1>0, <1>2, <2>1 DEF GiveUpInv, Counted
  <2>6. MissingIsMissing'
    BY <1>2, <2>1, <2>3 DEF GiveUpInv, MissingIsMissing
  <2> QED BY <2>4, <2>5, <2>6 DEF GiveUpInv
<1> QED BY <1>1, <1>4, <1>5, <1>6, <1>7

LEMMA StepGiveUp == FlowInv /\ GiveUpInv /\ [MapNext]_mapVars => GiveUpInv'
<1> SUFFICES ASSUME FlowInv, GiveUpInv, [MapNext]_mapVars PROVE GiveUpInv'
  OBVIOUS
<1>1. connected \in BOOLEAN
  BY DEF FlowInv, Types
<1>2. ASSUME UNCHANGED vars, listening' = listening PROVE GiveUpInv'
  BY <1>1, <1>2, IteratorRests DEF vars, iterVars
<1>3. ASSUME NEW i, SendOutcome(i), listening' = listening PROVE GiveUpInv'
  BY <1>1, <1>3, IteratorRests DEF SendOutcome, iterVars
<1>4. ASSUME DropSenders, listening' = listening PROVE GiveUpInv'
  BY <1>1, <1>4, IteratorRests DEF DropSenders, iterVars
<1>5. ASSUME NextUnordered PROVE GiveUpInv'
  <2>1. missing = {}
    BY <1>5 DEF NextUnordered, FlowInv, ByMode
  <2>2. listening' = listening
    BY <1>5 DEF NextUnordered, receiverVars
  <2> QED BY <1>1, <1>2, <1>5, <2>1, <2>2, IteratorRests DEF NextUnordered, iterVars
<1>6. ASSUME NEW i \in Own, NEW b, EndTask(i, b) PROVE GiveUpInv'
  BY <1>2, <1>3, <1>6 DEF EndTask, DeliverTo, receiverVars
<1>7. ASSUME NEW i \in Foreign, SendForeign(i) PROVE GiveUpInv'
  BY <1>3, <1>7 DEF SendForeign, receiverVars
<1>8. ASSUME SendNext \/ SentAll \/ ScanFails \/ Abandon \/ Consume \/ MapRest \/ UNCHANGED mapVars
      PROVE  GiveUpInv'
  BY <1>2, <1>8 DEF SendNext, SentAll, ScanFails, Abandon, Consume, MapRest, mapVars, receiverVars
<1>9. ASSUME DropReceiver PROVE GiveUpInv'
  BY <1>9 DEF DropReceiver, GiveUpInv, Stuck, Counted, MissingIsMissing, Shared
<1>10. ASSUME Disconnect PROVE GiveUpInv'
  BY <1>4, <1>10 DEF Disconnect, receiverVars
<1> QED BY <1>5, <1>6, <1>7, <1>8, <1>9, <1>10, OrderedGiveUp DEF MapNext, ClientStep

LEMMA AlwaysGiveUp == MapSpec => []GiveUpInv
BY InitGiveUp, StepGiveUp, AlwaysFlow, PTL DEF MapSpec

(***************************************************************************)
(* Unless other tasks use the channel, an index is only reported as        *)
(* Missing when its outcome never arrives.                                 *)
(***************************************************************************)
THEOREM MissingNeverArrived == MapSpec => []MissingIsMissing
BY AlwaysGiveUp, PTL DEF GiveUpInv

-----------------------------------------------------------------------------
(***************************************************************************)
(* The batch.                                                              *)
(***************************************************************************)
Gathered ==
  phase \in {"sending"} \cup Collecting =>
    /\ DOMAIN batch = Has \cup missing
    /\ \A i \in Has : batch[i] = outcomeOf[i]

Settled ==
  phase \in {"collected", "consumed"} =>
    missing = {} /\ Has = Own \ unwound /\ (mode = "ordered" => unwound = {})

BatchInv == Gathered /\ Settled

LEMMA InitBatch == MapInit => BatchInv
<1>1. Range(<<>>) = {} /\ DOMAIN <<>> = {}
  BY DEF Range
<1> QED BY <1>1 DEF MapInit, Init, NoOutcomes, BatchInv, Gathered, Settled, Has, Collecting

\* What the client has arrived.
LEMMA HasFacts ==
  ASSUME FlowInv
  PROVE  /\ Has \subseteq Own /\ Has \subseteq arrived /\ Has \cap UnderWay = {}
         /\ \A i \in Has : i \in DOMAIN outcomeOf
<1>1. Has \subseteq Own
  BY RangeOfSeq DEF FlowInv, Types, Has
<1>2. Has \subseteq arrived
  BY <1>1 DEF FlowInv, Arrivals, Has
<1>3. ASSUME NEW i \in Has PROVE i \notin UnderWay
  <2>1. i \in Own /\ (i \in Range(out) \/ i \in Range(yielded))
    BY <1>1 DEF Has
  <2> QED BY <2>1 DEF FlowInv, OnePlace, PlacesOf, One
<1> QED BY <1>1, <1>2, <1>3 DEF FlowInv, Arrivals

\* Outcomes that were collected stay as they are.
LEMMA BatchRests ==
  ASSUME FlowInv, BatchInv, UNCHANGED <<mode, out, yielded, missing, batch>>,
         \A i \in arrived : outcomeOf'[i] = outcomeOf[i],
         phase' \in {"sending"} \cup Collecting => phase \in {"sending"} \cup Collecting,
         phase' \in {"collected", "consumed"} =>
           phase \in {"collected", "consumed"} /\ unwound' = unwound
  PROVE  BatchInv'
<1> USE DEF BatchInv, Collecting
<1>1. Has' = Has
  BY DEF Has
<1>2. Gathered'
  BY <1>1, HasFacts DEF Gathered
<1>3. Settled'
  BY <1>1 DEF Settled
<1> QED BY <1>2, <1>3

\* An outcome is collected, or the adapter panics.
LEMMA BatchGrows ==
  ASSUME FlowInv, BatchInv, phase = "iterating", NEW i \in arrived, Collect(outcomeOf[i]),
         Has' = Has \cup {i}, UNCHANGED <<outcomeOf, missing>>
  PROVE  BatchInv'
<1>1. phase' = "panicked" \/ (phase' = "iterating" /\ batch' = Insert(batch, outcomeOf[i]))
  BY DEF Collect
<1>2. outcomeOf[i].index = i
  BY DEF FlowInv, Arrivals
<1>3. Settled'
  BY <1>1 DEF Settled
<1>4. CASE phase' = "panicked"
  BY <1>4, <1>3 DEF BatchInv, Gathered, Collecting
<1>5. CASE phase' = "iterating" /\ batch' = Insert(batch, outcomeOf[i])
  <2>1. /\ DOMAIN batch' = DOMAIN batch \cup {i}
        /\ \A j \in DOMAIN batch' : batch'[j] = IF j = i THEN outcomeOf[i] ELSE batch[j]
    BY <1>2, <1>5 DEF Insert
  <2>2. /\ DOMAIN batch = Has \cup missing
        /\ \A j \in Has : batch[j] = outcomeOf[j]
    BY DEF BatchInv, Gathered, Collecting
  <2> QED BY <1>3, <2>1, <2>2 DEF BatchInv, Gathered
<1> QED BY <1>1, <1>4, <1>5

LEMMA OrderedBatch == FlowInv /\ GiveUpInv /\ BatchInv /\ NextOrdered => BatchInv'
<1> SUFFICES ASSUME FlowInv, GiveUpInv, BatchInv, NextOrdered PROVE BatchInv'
  OBVIOUS
<1>1. /\ phase = "iterating" /\ mode = "ordered"
      /\ UNCHANGED <<choice, receiverVars, toSend, ends, yielded, answer>>
      /\ \/ Call /\ UNCHANGED <<phase, batch>>
         \/ \E i \in Own : Buffered(i) \/ Direct(i)
         \/ SetAside
         \/ Absent
         \/ ReturnNone /\ Collected
  BY OrderedCases DEF FlowInv
<1>2. UNCHANGED <<mode, outcomeOf, unwound, yielded>>
  BY <1>1 DEF choice, receiverVars, ends
<1>3. CASE (Call /\ UNCHANGED <<phase, batch>>) \/ SetAside
  BY <1>1, <1>2, <1>3, BatchRests DEF Call, SetAside
<1>4. ASSUME NEW i \in Own, Buffered(i) \/ Direct(i) PROVE BatchInv'
  <2>1. GivesOut(i) /\ Collect(outcomeOf[i]) /\ missing' = missing
    BY <1>4 DEF Buffered, Direct, GivesOut
  <2>2. Has' = Has \cup {i}
    BY <1>2, <2>1, GivesOutFacts DEF Has
  <2>3. i \in arrived
    <3>1. i \in Range(channel) \cup buf
      BY <1>4, ChannelFacts DEF Buffered, Direct, TakesOne
    <3> QED BY <3>1 DEF FlowInv, Arrivals
  <2> QED BY <1>1, <1>2, <2>1, <2>2, <2>3, BatchGrows
<1>5. CASE Absent
  <2> DEFINE i == Head(indices)
             o == Missing(i)
  <2>1. /\ UNCHANGED out /\ indices # <<>> /\ missing' = missing \cup {i}
        /\ \/ i \in missing /\ UNCHANGED <<phase, batch>>
           \/ Collect(o)
    BY <1>5 DEF Absent, ReturnMissing
  <2>2. i \in Own /\ i \in Range(indices) /\ i \notin Range(out)
    <3>1. indices \in Seq(Own) /\ IsInjective(indices)
      BY OrderFacts DEF FlowInv, Types
    <3>2. i \in Own /\ i \in Range(indices)
      BY <2>1, <3>1, HeadTailProperties, TailRange
    <3> QED BY <3>2, OrderFacts DEF FlowInv
  <2>3. o.index = i
    BY DEF Missing, Outcome
  <2> HIDE DEF i, o
  <2>4. Has' = Has /\ i \notin Has
    <3>1. yielded = <<>>
      BY <1>1 DEF FlowInv, ByMode
    <3>2. Range(yielded) = {}
      BY <3>1 DEF Range
    <3> QED BY <1>2, <2>1, <2>2, <3>2 DEF Has
  <2>5. CASE i \in missing /\ UNCHANGED <<phase, batch>>
    <3>1. missing' = missing
      BY <2>1, <2>5
    <3> QED BY <1>1, <1>2, <2>1, <2>5, <3>1, BatchRests
  <2>6. CASE phase' = "panicked"
    BY <2>6 DEF BatchInv, Gathered, Settled, Collecting
  <2>7. CASE phase' = "iterating" /\ batch' = Insert(batch, o)
    <3>1. /\ DOMAIN batch' = DOMAIN batch \cup {i}
          /\ \A j \in DOMAIN batch \ {i} : batch'[j] = batch[j]
      BY <2>3, <2>7 DEF Insert
    <3>2. /\ DOMAIN batch = Has \cup missing
          /\ \A j \in Has : batch[j] = outcomeOf[j]
      BY <1>1 DEF BatchInv, Gathered, Collecting
    <3>3. Gathered'
      BY <1>2, <2>1, <2>4, <3>1, <3>2 DEF Gathered
    <3> QED BY <2>7, <3>3 DEF BatchInv, Settled
  <2> QED BY <1>1, <2>1, <2>5, <2>6, <2>7 DEF Collect
<1>6. CASE ReturnNone /\ Collected
  <2>1. /\ UNCHANGED <<out, missing, batch>> /\ indices = <<>> /\ phase' = "collected"
    BY <1>6 DEF ReturnNone, Collected
  <2>2. missing = {}
    BY <2>1 DEF GiveUpInv, Stuck
  <2>3. Range(out) = Own
    BY <2>1, OrderFacts DEF FlowInv
  <2>4. unwound = {} /\ Has = Own
    <3>1. Has = Own
      BY <2>3, HasFacts DEF Has
    <3>2. unwound \subseteq Own /\ unwound \subseteq UnderWay
      BY DEF FlowInv, Types, UnderWay
    <3> QED BY <3>1, <3>2, HasFacts
  <2>5. Has' = Has
    BY <1>2, <2>1 DEF Has
  <2> QED BY <1>1, <1>2, <2>1, <2>2, <2>4, <2>5 DEF BatchInv, Gathered, Settled, Collecting
<1> QED BY <1>1, <1>3, <1>4, <1>5, <1>6

LEMMA UnorderedBatch == FlowInv /\ BatchInv /\ NextUnordered => BatchInv'
<1> SUFFICES ASSUME FlowInv, BatchInv, NextUnordered PROVE BatchInv'
  OBVIOUS
<1>1. /\ phase = "iterating" /\ mode \in {"unordered", "filtered"}
      /\ UNCHANGED <<choice, receiverVars, toSend, ends, answer>>
      /\ \/ EndsCall
         \/ \E i \in Own : Yields(i)
         \/ \E i \in AllIndices : Skips(i)
  BY UnorderedCases
<1>2. UNCHANGED <<mode, outcomeOf, unwound>>
  BY <1>1 DEF choice, receiverVars, ends
<1>3. CASE EndsCall
  <2>1. UNCHANGED <<out, yielded, missing, batch>> /\ phase' = "collected"
    BY <1>3 DEF EndsCall, Collected, vars, iterVars
  <2>2. missing = {}
    BY <1>1 DEF FlowInv, ByMode
  <2>3. Own \ unwound \subseteq Has
    BY <1>1, <1>3, EndedFacts
  <2>4. Has = Own \ unwound
    BY <2>3, HasFacts DEF UnderWay
  <2>5. Has' = Has
    BY <2>1 DEF Has
  <2> QED BY <1>1, <1>2, <2>1, <2>2, <2>4, <2>5 DEF BatchInv, Gathered, Settled, Collecting
<1>4. ASSUME NEW i \in Own, Yields(i) PROVE BatchInv'
  <2>1. /\ yielded' = Append(yielded, i) /\ Collect(outcomeOf[i]) /\ UNCHANGED <<out, missing>>
        /\ i \in Range(channel)
    BY <1>4, ChannelFacts DEF Yields, TakesNext, iterVars
  <2>2. Has' = Has \cup {i}
    <3>1. Range(yielded') = Range(yielded) \cup {i}
      BY <2>1, AppendRange DEF FlowInv, Types
    <3> QED BY <2>1, <3>1 DEF Has
  <2>3. i \in arrived
    BY <2>1 DEF FlowInv, Arrivals
  <2> QED BY <1>1, <1>2, <2>1, <2>2, <2>3, BatchGrows
<1>5. ASSUME NEW i \in AllIndices, Skips(i) PROVE BatchInv'
  BY <1>1, <1>2, <1>5, BatchRests DEF Skips, TakesNext, iterVars
<1> QED BY <1>1, <1>3, <1>4, <1>5

LEMMA StepBatch == FlowInv /\ GiveUpInv /\ BatchInv /\ [MapNext]_mapVars => BatchInv'
<1> SUFFICES ASSUME FlowInv, GiveUpInv, BatchInv, [MapNext]_mapVars PROVE BatchInv'
  OBVIOUS
<1>1. ASSUME UNCHANGED <<vars, mode, ends, yielded, batch>>,
             \/ phase' = phase
             \/ phase' \in {"failed", "returned", "abandoned"}
             \/ phase = "sending" /\ phase' = "iterating"
             \/ phase = "collected" /\ phase' = "consumed"
      PROVE  BatchInv'
  BY <1>1, BatchRests DEF vars, iterVars, ends, Collecting
<1>2. CASE SendNext
  BY <1>2, BatchRests DEF SendNext, vars, iterVars, choice, receiverVars
<1>3. CASE SentAll \/ ScanFails \/ Abandon \/ Consume \/ UNCHANGED mapVars
  BY <1>1, <1>3 DEF SentAll, ScanFails, Abandon, Consume, mapVars, choice, receiverVars
<1>8. CASE DropReceiver
  BY <1>8, BatchRests DEF DropReceiver, choice, ends
<1>4. CASE Disconnect
  BY <1>4, BatchRests DEF Disconnect, DropSenders, iterVars, choice, receiverVars, ends
<1>5. ASSUME NEW i \in AllIndices, NEW o, o.index = i, SendOutcome(i),
             outcomeOf' = Insert(outcomeOf, o), UNCHANGED <<choice, receiverVars, phase, unwound, yielded, batch>>
      PROVE  BatchInv'
  <2>1. \A j \in arrived : outcomeOf'[j] = outcomeOf[j]
    BY <1>5 DEF SendOutcome, Insert, FlowInv, Arrivals
  <2> QED BY <1>5, <2>1, BatchRests DEF SendOutcome, iterVars, choice, receiverVars
<1>6. ASSUME NEW i \in Own, NEW b \in worker.may \cup {"cancelled"}, EndTask(i, b)
      PROVE  BatchInv'
  <2> DEFINE r == Result(worker, b)
             o == FromWorkerResult(r, i, i)
  <2>1. /\ i \in pending
        /\ UNCHANGED <<choice, receiverVars, phase, toSend, yielded, batch, answer>>
        /\ IF r.tag = "unwinds"
             THEN unwound' = unwound \cup {i} /\ UNCHANGED <<vars, outcomeOf, stored>>
             ELSE DeliverTo(o) /\ UNCHANGED unwound
    BY <1>6 DEF EndTask
  <2>2. phase \notin {"collected", "consumed"}
    BY <2>1 DEF FlowInv, Progress
  <2>3. CASE UNCHANGED <<vars, outcomeOf>>
    BY <2>1, <2>2, <2>3, BatchRests DEF vars, iterVars, choice, receiverVars
  <2>4. CASE r.tag # "unwinds" /\ SendOutcome(o.index) /\ outcomeOf' = Insert(outcomeOf, o)
    <3>1. o.index = i
      BY DEF FromWorkerResult, Outcome
    <3> HIDE DEF o
    <3> QED BY <1>5, <2>1, <2>4, <3>1 DEF AllIndices
  <2> QED BY <2>1, <2>3, <2>4 DEF DeliverTo
<1>7. ASSUME NEW i \in Foreign, SendForeign(i) PROVE BatchInv'
  <2>1. Outcome("Success", i, i, FALSE).index = i
    BY DEF Outcome
  <2> QED BY <1>5, <1>7, <2>1 DEF SendForeign, AllIndices
<1> QED BY <1>2, <1>3, <1>4, <1>6, <1>7, <1>8, OrderedBatch, UnorderedBatch
        DEF MapNext, ClientStep, MapRest

LEMMA AlwaysBatch == MapSpec => []BatchInv
BY InitBatch, StepBatch, AlwaysFlow, AlwaysGiveUp, PTL DEF MapSpec

(***************************************************************************)
(* A call that has collected its outcomes has the one of every input,      *)
(* except for those whose worker unwound.                                  *)
(***************************************************************************)
THEOREM BatchesAreComplete == MapSpec => []BatchComplete
<1>1. BatchInv => BatchComplete
  BY DEF BatchInv, Gathered, Settled, BatchComplete, Collecting
<1> QED BY <1>1, AlwaysBatch, PTL

-----------------------------------------------------------------------------
(***************************************************************************)
(* What is made of a batch.                                                *)
(***************************************************************************)
\* A batch that accounts for what was sent.
Accounts ==
  /\ DOMAIN batch = Own \ unwound
  /\ \A i \in DOMAIN batch :
       /\ batch[i] = outcomeOf[i] /\ batch[i].of = i /\ batch[i].kind \in Kinds
       /\ batch[i].kind \in Unprocessed => batch[i].input
  /\ mode = "ordered" => unwound = {}

LEMMA CollectedAccounts ==
  ASSUME FlowInv, BatchInv, phase \in {"collected", "consumed"}
  PROVE  Accounts
<1>1. /\ DOMAIN batch = Has /\ Has = Own \ unwound /\ (mode = "ordered" => unwound = {})
      /\ \A i \in Has : batch[i] = outcomeOf[i]
  BY DEF BatchInv, Gathered, Settled, Collecting
<1> QED BY <1>1, HasFacts DEF FlowInv, Arrivals, Accounts

LEMMA ReturnsFacts == \A v : Returns(v).panics = FALSE /\ Returns(v).value = v
BY DEF Returns

\* The kinds of outcomes are told apart, and counted.
LEMMA KindFacts ==
  ASSUME Accounts
  PROVE  /\ \A K : Indices(batch, K) = Sent(K)
         /\ \A i \in DOMAIN batch : batch[i].of = i
         /\ IsFiniteSet(DOMAIN batch)
         /\ Sent(Failure) = {} /\ Sent(Unprocessed) = {} => ~AssertEmpty(batch, TRUE).panics
<1>1. ASSUME NEW K PROVE Indices(batch, K) = Sent(K)
  BY DEF Accounts, Indices, Sent
<1>2. IsFiniteSet(DOMAIN batch)
  BY BatchFacts, FS_Subset DEF Accounts
<1>3. ASSUME Sent(Failure) = {}, Sent(Unprocessed) = {}
      PROVE  ~AssertEmpty(batch, TRUE).panics
  <2> DEFINE n == Cardinality(DOMAIN batch)
  <2>1. Indices(batch, Unprocessed) = {} /\ Indices(batch, Success) = DOMAIN batch
    BY <1>1, <1>3 DEF Accounts, Indices, Sent, Kinds, Success, Failure, Unprocessed
  <2>2. Cardinality(Indices(batch, Unprocessed)) = 0 /\ n \in Nat
    BY <1>2, <2>1, FS_EmptySet, FS_CardinalityType
  <2> HIDE DEF n
  <2>3. Count(batch) = [unprocessed |-> 0, successes |-> n, failures |-> n - 0 - n]
    BY <2>1, <2>2 DEF Count, n
  <2>4. n - 0 - n = 0
    BY <2>2
  <2>5. Count(batch) = [unprocessed |-> 0, successes |-> n, failures |-> 0]
    BY <2>3, <2>4
  <2>6. AssertEmpty(batch, TRUE) = Returns({})
    BY <2>5 DEF AssertEmpty
  <2>7. AssertEmpty(batch, TRUE).panics = FALSE
    BY <2>6, ReturnsFacts
  <2> QED BY <2>7
<1> QED BY <1>1, <1>2, <1>3 DEF Accounts

\* The values of the outcomes of some kinds.
LEMMA ValuesFacts == ASSUME Accounts, NEW K PROVE Values(batch, Indices(batch, K)) = Sent(K)
<1>1. Indices(batch, K) = Sent(K) /\ Sent(K) \subseteq DOMAIN batch
  BY KindFacts DEF Accounts, Sent
<1> QED BY <1>1, KindFacts DEF Values

\* What NoErrorSwallowed says of one answer.
Fair(a) ==
  LET r == a.result
  IN  IF r.panics
        THEN Sent((IF a.call = "unwrap" THEN Failure ELSE {"Panic"}) \cup Unprocessed) # {}
        ELSE /\ "ok" \in DOMAIN r.value =>
                  /\ r.value.ok = Sent(Success) /\ Sent(Failure) = {}
                  /\ a.call # "discarding" =>
                       Sent(Unprocessed) = {} /\ ~AssertEmpty(batch, TRUE).panics
                  /\ mode = "ordered" => unwound = {}
             /\ "err" \in DOMAIN r.value =>
                  /\ r.value.err = Sent(Failure)
                  /\ r.value.err # {} /\ Sent({"Panic"}) = {}
             /\ "failures" \in DOMAIN r.value =>
                  r.value.failures = {{outcomeOf[i]} : i \in Sent(Failure)}
             /\ "inputs" \in DOMAIN r.value =>
                  /\ ToSet(r.value.inputs) = Sent(Unprocessed)
                  /\ Len(r.value.inputs) = Cardinality(Sent(Unprocessed))

LEMMA FairRests ==
  ASSUME UNCHANGED <<outcomeOf, unwound, mode, batch>>, NEW a, Fair(a)
  PROVE  Fair(a)'
BY DEF Fair, Sent

\* An answer that is a panic, and one that is Ok.
LEMMA FairPanic ==
  ASSUME NEW c, Sent((IF c = "unwrap" THEN Failure ELSE {"Panic"}) \cup Unprocessed) # {}
  PROVE  Fair(Answer(c, Panics))
BY DEF Fair, Answer, Panics

LEMMA FairSuccess ==
  ASSUME Accounts, NEW c, Sent(Failure) = {}, Sent(Unprocessed) = {}
  PROVE  Fair(Answer(c, UnwrapAll(batch)))
<1> DEFINE v == Sent(Success)
<1>1. UnwrapAll(batch) = Returns([ok |-> v])
  BY KindFacts, ValuesFacts DEF UnwrapAll
<1>2. ~AssertEmpty(batch, TRUE).panics /\ (mode = "ordered" => unwound = {})
  BY KindFacts DEF Accounts
<1> DEFINE a == Answer(c, Returns([ok |-> v]))
<1>3. a.result.panics = FALSE /\ a.result.value = [ok |-> v]
  BY DEF Answer, Returns
<1>4. DOMAIN a.result.value = {"ok"} /\ a.result.value.ok = Sent(Success)
  BY <1>3
<1> HIDE DEF a, v
<1>5. Fair(a)
  BY <1>2, <1>3, <1>4 DEF Fair
<1> QED BY <1>1, <1>5 DEF a

LEMMA FairUnwrap == ASSUME Accounts PROVE Fair(Answer("unwrap", UnwrapAll(batch)))
<1>1. CASE Sent(Failure) \cup Sent(Unprocessed) # {}
  <2>1. UnwrapAll(batch) = Panics
    BY <1>1, KindFacts DEF UnwrapAll
  <2>2. Sent(Failure \cup Unprocessed) # {}
    BY <1>1 DEF Sent
  <2> QED BY <2>1, <2>2, FairPanic
<1>2. CASE Sent(Failure) = {} /\ Sent(Unprocessed) = {}
  BY <1>2, FairSuccess
<1> QED BY <1>1, <1>2

LEMMA FairOk ==
  ASSUME Accounts, NEW drop \in BOOLEAN, NEW c, c # "unwrap"
  PROVE  Fair(Answer(c, OkOrUnwrapErrors(batch, drop)))
<1> DEFINE r == OkOrUnwrapErrors(batch, drop)
<1>1. CASE ~drop /\ Sent(Unprocessed) # {}
  <2>1. r = Panics
    BY <1>1, KindFacts DEF OkOrUnwrapErrors
  <2>2. Sent({"Panic"} \cup Unprocessed) # {}
    BY <1>1 DEF Sent
  <2> QED BY <2>1, <2>2, FairPanic
<1>2. CASE ~(~drop /\ Sent(Unprocessed) # {}) /\ Sent(Failure) # {}
  <2> DEFINE v == Sent(Failure)
  <2>1. /\ r = IF \E i \in Sent(Failure) : IntoError(batch[i]).panics THEN Panics
              ELSE Returns([err |-> v])
    BY <1>2, KindFacts, ValuesFacts DEF OkOrUnwrapErrors
  <2>2. ASSUME NEW i \in Sent(Failure)
        PROVE  IntoError(batch[i]).panics <=> i \in Sent({"Panic"})
    <3>1. batch[i].kind = outcomeOf[i].kind /\ batch[i].kind \in Failure
      BY DEF Accounts, Sent
    <3>2. batch[i].kind = "Panic" <=> i \in Sent({"Panic"})
      BY <3>1 DEF Sent
    <3>3. CASE batch[i].kind = "Panic"
      BY <3>2, <3>3 DEF IntoError, Panics
    <3>4. CASE batch[i].kind \in {"Failure", "MaxRetriesAttempted"}
      BY <3>2, <3>4 DEF IntoError, Returns
    <3> QED BY <3>1, <3>3, <3>4 DEF Failure
  <2>3. CASE \E i \in Sent(Failure) : IntoError(batch[i]).panics
    <3>1. r = Panics
      BY <2>1, <2>3
    <3>2. Sent({"Panic"} \cup Unprocessed) # {}
      BY <2>2, <2>3 DEF Sent
    <3> HIDE DEF r
    <3>3. Fair(Answer(c, r))
      BY <3>1, <3>2, FairPanic
    <3> QED BY <3>3 DEF r
  <2>4. CASE ~(\E i \in Sent(Failure) : IntoError(batch[i]).panics)
    <3>1. r = Returns([err |-> v])
      BY <2>1, <2>4
    <3>2. Sent({"Panic"}) = {}
      BY <2>2, <2>4 DEF Sent, Failure
    <3> DEFINE a == Answer(c, Returns([err |-> v]))
    <3>3. a.result.panics = FALSE /\ a.result.value = [err |-> v]
      BY DEF Answer, Returns
    <3>4. DOMAIN a.result.value = {"err"} /\ a.result.value.err = Sent(Failure)
      BY <3>3
    <3> HIDE DEF a, r, v
    <3>5. Fair(a)
      BY <1>2, <3>2, <3>3, <3>4 DEF Fair
    <3> QED BY <3>1, <3>5 DEF a, r
  <2> QED BY <2>3, <2>4
<1>3. CASE ~(~drop /\ Sent(Unprocessed) # {}) /\ Sent(Failure) = {}
  <2>1. r = UnwrapAll(batch)
    BY <1>3, KindFacts DEF OkOrUnwrapErrors
  <2>2. CASE Sent(Unprocessed) = {}
    BY <1>3, <2>1, <2>2, FairSuccess
  <2>3. CASE Sent(Unprocessed) # {}
    <3>1. r = Panics
      BY <2>1, <2>3, KindFacts DEF UnwrapAll
    <3>2. Sent({"Panic"} \cup Unprocessed) # {}
      BY <2>3 DEF Sent
    <3> QED BY <3>1, <3>2, FairPanic
  <2> QED BY <2>2, <2>3
<1> QED BY <1>1, <1>2, <1>3

LEMMA FairFailures ==
  ASSUME Accounts, NEW c
  PROVE  Fair(Answer(c, Returns([failures |-> RemoveAllFailures(batch)])))
<1> DEFINE v == RemoveAllFailures(batch)
<1>1. \A i \in Sent(Failure) : RemoveAs(batch, i, Failure).value = {outcomeOf[i]}
  BY DEF Accounts, Sent, RemoveAs, Returns
<1>2. v = {RemoveAs(batch, i, Failure).value : i \in Sent(Failure)}
  BY KindFacts DEF RemoveAllFailures
<1> HIDE DEF v
<1>3. v = {{outcomeOf[i]} : i \in Sent(Failure)}
  BY <1>1, <1>2
<1> DEFINE a == Answer(c, Returns([failures |-> v]))
<1>4. a.result.panics = FALSE /\ a.result.value = [failures |-> v]
  BY DEF Answer, Returns
<1> HIDE DEF a
<1>5. DOMAIN a.result.value = {"failures"} /\ a.result.value.failures = v
  BY <1>4
<1>6. Fair(a)
  BY <1>3, <1>4, <1>5, "err" # "failures", "ok" # "failures", "inputs" # "failures" DEF Fair
<1> QED BY <1>6 DEF a, v

LEMMA FairInputs ==
  ASSUME Accounts, NEW c, NEW ordered \in BOOLEAN, NEW inputs \in IntoInputs(batch, ordered)
  PROVE  Fair(Answer(c, Returns([inputs |-> inputs])))
<1> DEFINE U == Sent(Unprocessed)
           n == Cardinality(U)
<1>1. Indices(batch, Unprocessed) = U /\ U \subseteq DOMAIN batch /\ IsFiniteSet(U) /\ n \in Nat
  BY KindFacts, FS_Subset, FS_CardinalityType DEF Accounts, Sent
<1>2. PICK q \in SetToSeqs(U) : inputs = [k \in DOMAIN q |-> IntoInput(batch[q[k]]).value]
  BY <1>1 DEF IntoInputs
<1>3. \A i \in U : IntoInput(batch[i]).value = i
  BY <1>1 DEF Accounts, Sent, IntoInput, Returns
<1> HIDE DEF U
<1>4. q \in [1 .. n -> U] /\ \A j, k \in 1 .. n : q[j] = q[k] => j = k
  BY <1>2 DEF SetToSeqs
<1>5. inputs = q
  BY <1>2, <1>3, <1>4
<1>6. q \in Injection(1 .. n, U)
  BY <1>4 DEF Injection, IsInjective
<1>7. q \in Surjection(1 .. n, U)
  BY <1>1, <1>6, FS_Injection, FS_Interval
<1>8. ToSet(inputs) = U
  BY <1>4, <1>5, <1>7 DEF ToSet, Surjection
<1>9. Len(inputs) = n
  BY <1>1, <1>4, <1>5
<1> DEFINE a == Answer(c, Returns([inputs |-> inputs]))
<1>10. a.result.panics = FALSE /\ a.result.value = [inputs |-> inputs]
  BY DEF Answer, Returns
<1> HIDE DEF a, n
<1>11. Fair(a)
  BY <1>8, <1>9, <1>10 DEF Fair, U, n
<1> QED BY <1>11 DEF a

\* An answer is fair when it is given, and nothing it depends on changes afterwards.
LEMMA StepAnswer ==
  FlowInv /\ BatchInv /\ NoErrorSwallowed /\ [MapNext]_mapVars => NoErrorSwallowed'
<1> SUFFICES ASSUME FlowInv, BatchInv, NoErrorSwallowed, [MapNext]_mapVars
             PROVE  NoErrorSwallowed'
  OBVIOUS
<1>1. NoErrorSwallowed <=> \A a \in answer : Fair(a)
  BY DEF NoErrorSwallowed, Fair
<1>2. ASSUME UNCHANGED <<outcomeOf, unwound, mode, batch, answer>> PROVE NoErrorSwallowed'
  BY <1>2 DEF NoErrorSwallowed, Sent
<1>3. ASSUME answer = {}, answer' = answer PROVE NoErrorSwallowed'
  BY <1>3 DEF NoErrorSwallowed
<1>4. ASSUME Consume PROVE NoErrorSwallowed'
  <2>1. Accounts
    BY <1>4, CollectedAccounts DEF Consume
  <2>2. UNCHANGED <<outcomeOf, unwound, mode, batch>>
    BY <1>4 DEF Consume, choice, receiverVars, ends
  <2>3. \A a \in answer' : Fair(a)
    <3>1. CASE answer' = {Answer("ok_or_unwrap_errors", OkOrUnwrapErrors(batch, FALSE))}
      BY <2>1, <3>1, FairOk
    <3>2. CASE answer' = {Answer("discarding", OkOrUnwrapErrors(batch, TRUE))}
      BY <2>1, <3>2, FairOk
    <3>3. CASE answer' = {Answer("unwrap", UnwrapAll(batch))}
      BY <2>1, <3>3, FairUnwrap
    <3>4. CASE answer' = {Answer("failures", Returns([failures |-> RemoveAllFailures(batch)]))}
      BY <2>1, <3>4, FairFailures
    <3>5. CASE \E ordered \in BOOLEAN : \E inputs \in IntoInputs(batch, ordered) :
                 answer' = {Answer("inputs", Returns([inputs |-> inputs]))}
      BY <2>1, <3>5, FairInputs
    <3> QED BY <1>4, <3>1, <3>2, <3>3, <3>4, <3>5 DEF Consume
  <2>4. \A a \in answer' : Fair(a)'
    BY <2>2, <2>3, FairRests
  <2> QED BY <2>4 DEF NoErrorSwallowed, Fair
<1>5. ASSUME phase # "consumed", ~Consume PROVE NoErrorSwallowed'
  <2>1. answer = {}
    BY <1>5 DEF FlowInv, Progress
  <2>2. answer' = answer
    BY <1>5 DEF MapNext, ClientStep, mapVars, SendNext, SentAll, ScanFails, NextOrdered,
                NextUnordered, DropReceiver, Abandon, EndTask, SendForeign, Disconnect, MapRest
  <2> QED BY <1>3, <2>1, <2>2
<1>6. ASSUME phase = "consumed" PROVE UNCHANGED <<outcomeOf, unwound, mode, batch, answer>>
  <2>1. pending = {} /\ ~listening
    BY <1>6 DEF FlowInv, Progress, Receiving
  <2>2. \A i, b : ~EndTask(i, b) /\ ~SendForeign(i)
    BY <2>1 DEF EndTask, SendForeign
  <2>3. Disconnect \/ UNCHANGED mapVars
    BY <1>6, <2>2 DEF MapNext, ClientStep, SendNext, SentAll, ScanFails, NextOrdered,
                      NextUnordered, DropReceiver, Abandon, Consume, MapRest
  <2> QED BY <2>3 DEF Disconnect, mapVars, choice, receiverVars, ends
<1> QED BY <1>2, <1>4, <1>5, <1>6

(***************************************************************************)
(* What is made of a batch accounts for every outcome that was sent: no    *)
(* failure, no unprocessed input and no input without an outcome is passed *)
(* over.                                                                   *)
(***************************************************************************)
THEOREM ErrorsAreNotSwallowed == MapSpec => []NoErrorSwallowed
<1>1. MapInit => NoErrorSwallowed
  BY DEF MapInit, NoErrorSwallowed
<1> QED BY <1>1, StepAnswer, AlwaysFlow, AlwaysBatch, PTL DEF MapSpec
===============================================================================
