---------------------------- MODULE ResubmitProofs ----------------------------
(***************************************************************************)
(* Proofs about ResumeGate and about Resubmit, which is built on it, for   *)
(* any set of workers, clients and inputs: the gate loses no wakeup and is *)
(* an Await, alone and in the hive; an input is in one place at a time and *)
(* goes through the life of InputLife; and a client that removes outcomes  *)
(* only panics if another one interfered.                                  *)
(***************************************************************************)
EXTENDS Resubmit, SequenceTheorems, FiniteSetTheorems, TLAPS

-----------------------------------------------------------------------------
(***************************************************************************)
(* What is in a sequence.                                                  *)
(***************************************************************************)
\* Taking the head of a sequence without repetitions takes it out.
LEMMA TailRange ==
  ASSUME NEW S, NEW s \in Seq(S), s # <<>>, IsInjective(s)
  PROVE  /\ Head(s) \in Range(s)
         /\ Range(Tail(s)) = Range(s) \ {Head(s)}
         /\ IsInjective(Tail(s))
<1>1. /\ Head(s) = s[1] /\ DOMAIN s = 1 .. Len(s) /\ Len(s) \in Nat \ {0}
      /\ Tail(s) \in Seq(S) /\ Len(Tail(s)) = Len(s) - 1
      /\ \A i \in 1 .. Len(Tail(s)) : Tail(s)[i] = s[i + 1]
  BY HeadTailProperties, LenProperties
<1>2. DOMAIN Tail(s) = 1 .. Len(s) - 1
  BY <1>1, LenProperties
<1>3. \A i, j \in DOMAIN s : s[i] = s[j] => i = j
  BY DEF IsInjective
<1>4. ASSUME NEW x \in Range(s) \ {Head(s)} PROVE x \in Range(Tail(s))
  <2>1. PICK i \in DOMAIN s : x = s[i]
    BY <1>4 DEF Range
  <2>2. i - 1 \in DOMAIN Tail(s) /\ Tail(s)[i - 1] = x
    BY <1>1, <1>2, <1>4, <2>1
  <2> QED BY <2>2 DEF Range
<1>5. ASSUME NEW x \in Range(Tail(s)) PROVE x \in Range(s) \ {Head(s)}
  <2>1. PICK i \in DOMAIN Tail(s) : x = Tail(s)[i]
    BY <1>5 DEF Range
  <2>2. i + 1 \in DOMAIN s /\ x = s[i + 1] /\ 1 \in DOMAIN s /\ i + 1 # 1
    BY <1>1, <1>2, <2>1
  <2>3. x # s[1]
    BY <1>3, <2>2
  <2> QED BY <1>1, <2>2, <2>3 DEF Range
<1>6. ASSUME NEW i \in DOMAIN Tail(s), NEW j \in DOMAIN Tail(s), Tail(s)[i] = Tail(s)[j]
      PROVE  i = j
  <2>1. i + 1 \in DOMAIN s /\ j + 1 \in DOMAIN s /\ s[i + 1] = s[j + 1]
    BY <1>1, <1>2, <1>6
  <2> QED BY <1>2, <1>3, <2>1
<1> QED BY <1>1, <1>4, <1>5, <1>6 DEF Range, IsInjective

\* Appending what is not in a sequence puts it in, once.
LEMMA AppendRange ==
  ASSUME NEW S, NEW s \in Seq(S), NEW e \in S
  PROVE  /\ Range(Append(s, e)) = Range(s) \cup {e}
         /\ IsInjective(s) /\ e \notin Range(s) => IsInjective(Append(s, e))
<1>1. /\ DOMAIN s = 1 .. Len(s) /\ Len(s) \in Nat
      /\ DOMAIN Append(s, e) = 1 .. Len(s) + 1
      /\ \A i \in 1 .. Len(s) : Append(s, e)[i] = s[i]
      /\ Append(s, e)[Len(s) + 1] = e
  BY AppendProperties, LenProperties
<1>2. Range(Append(s, e)) = Range(s) \cup {e}
  BY <1>1 DEF Range
<1>3. ASSUME IsInjective(s), e \notin Range(s),
             NEW i \in DOMAIN Append(s, e), NEW j \in DOMAIN Append(s, e),
             Append(s, e)[i] = Append(s, e)[j]
      PROVE  i = j
  BY <1>1, <1>3 DEF IsInjective, Range
<1> QED BY <1>2, <1>3 DEF IsInjective

\* A sequence without repetitions that is as long as a set is large has all of it.
LEMMA OrderingFacts ==
  ASSUME NEW S, IsFiniteSet(S), NEW q \in SetToSeqs(S)
  PROVE  /\ q \in [1 .. Cardinality(S) -> S] /\ Cardinality(S) \in Nat
         /\ \A j, k \in DOMAIN q : q[j] = q[k] => j = k
         /\ \A i \in S : \E k \in DOMAIN q : q[k] = i
<1> DEFINE n == Cardinality(S)
<1>1. n \in Nat
  BY FS_CardinalityType
<1>2. q \in [1 .. n -> S] /\ \A j, k \in 1 .. n : q[j] = q[k] => j = k
  BY DEF SetToSeqs
<1>3. q \in Injection(1 .. n, S)
  BY <1>2 DEF Injection, IsInjective
<1>4. q \in Surjection(1 .. n, S)
  BY <1>1, <1>3, FS_Injection, FS_Interval
<1> QED BY <1>1, <1>2, <1>4 DEF Surjection

-----------------------------------------------------------------------------
(***************************************************************************)
(* The resume gate.                                                        *)
(***************************************************************************)
IInv == TypeOK /\ NoLostWakeup

USE ResumeGateAssumption

\* The initial state satisfies IInv.
LEMMA InitEstablishesIInv == Init => IInv
BY DEF Init, IInv, TypeOK, NoLostWakeup

(***************************************************************************)
(* A worker goes to sleep only in a step that finds the hive suspended;    *)
(* whoever ends the suspension is in `notifying' from that step on; and a  *)
(* notification leaves no sleeper.                                         *)
(***************************************************************************)
LEMMA StepPreservesIInv == IInv /\ [Next]_vars => IInv'
<1> SUFFICES ASSUME IInv, [Next]_vars PROVE IInv'
  OBVIOUS
<1> USE DEF IInv, TypeOK, NoLostWakeup
<1>1. CASE UNCHANGED vars
  BY <1>1 DEF vars
<1>2. ASSUME NEW t \in Threads, Arrive(t) PROVE IInv'
  BY <1>2 DEF Arrive, Move
<1>3. ASSUME NEW t \in Threads, Precheck(t) PROVE IInv'
  BY <1>3 DEF Precheck, Move
<1>4. ASSUME NEW t \in Threads, Lock(t) PROVE IInv'
  BY <1>4 DEF Lock, Move
<1>5. ASSUME NEW t \in Threads, Test(t) PROVE IInv'
  BY <1>5 DEF Test, Move
<1>6. ASSUME NEW c \in Clients, Notify(c) PROVE IInv'
  BY <1>6 DEF Notify
<1>7. ASSUME NEW c \in Clients, NEW b \in BOOLEAN, SetSuspended(c, b) PROVE IInv'
  BY <1>7 DEF SetSuspended
<1> QED BY <1>1, <1>2, <1>3, <1>4, <1>5, <1>6, <1>7 DEF Next, Wait

\* IInv is an invariant.
LEMMA AlwaysIInv == Spec => []IInv
BY InitEstablishesIInv, StepPreservesIInv, PTL DEF Spec

(***************************************************************************)
(* A worker is only asleep in the resume gate while the hive is suspended  *)
(* or a client that resumed it is about to notify.                         *)
(***************************************************************************)
THEOREM NoWakeupIsLost == Spec => []NoLostWakeup
BY AlwaysIInv, PTL DEF IInv

-----------------------------------------------------------------------------
\* Initially nobody waits and the hive is not suspended.
LEMMA InitRefines == Init => AsAwait!Init
BY DEF Init, AsAwait!Init

(***************************************************************************)
(* Arrive is Await's Arrive, a Precheck or a Test that finds the hive      *)
(* resumed is its Pass, and SetSuspended is SetSuspended; everything else  *)
(* is invisible to it.                                                     *)
(***************************************************************************)
LEMMA StepRefines == IInv /\ [Next]_vars => [AsAwait!Next]_(AsAwait!vars)
<1> SUFFICES ASSUME IInv, [Next]_vars PROVE [AsAwait!Next]_(AsAwait!vars)
  OBVIOUS
<1> USE DEF IInv, TypeOK, AsAwait!vars
<1>1. CASE UNCHANGED vars
  BY <1>1 DEF vars
<1>2. ASSUME NEW t \in Threads, Arrive(t) PROVE AsAwait!Next
  <2>1. AsAwait!Arrive(t)
    BY <1>2 DEF Arrive, Move, AsAwait!Arrive
  <2> QED BY <2>1 DEF AsAwait!Next
<1>3. ASSUME NEW t \in Threads, Precheck(t) \/ Test(t)
      PROVE  AsAwait!Pass(t) \/ UNCHANGED AsAwait!vars
  BY <1>3 DEF Precheck, Test, Move, AsAwait!Pass
<1>4. ASSUME NEW t \in Threads, Lock(t) PROVE UNCHANGED AsAwait!vars
  BY <1>4 DEF Lock, Move
<1>5. ASSUME NEW c \in Clients, Notify(c) PROVE UNCHANGED AsAwait!vars
  BY <1>5 DEF Notify
<1>6. ASSUME NEW c \in Clients, NEW b \in BOOLEAN, SetSuspended(c, b)
      PROVE  AsAwait!Next
  <2>1. AsAwait!SetSuspended(b)
    BY <1>6 DEF SetSuspended, AsAwait!SetSuspended
  <2> QED BY <2>1 DEF AsAwait!Next
<1> QED BY <1>1, <1>2, <1>3, <1>4, <1>5, <1>6 DEF Next, Wait, AsAwait!Next

(***************************************************************************)
(* The gate built from a mutex, a condition variable and an atomic flag is *)
(* an Await: a worker leaves it only at a moment when the hive is not      *)
(* suspended.  Module Hive uses the gate in that form.                     *)
(***************************************************************************)
THEOREM Implements == Spec => ImplementsAwait
BY AlwaysIInv, InitRefines, StepRefines, PTL DEF Spec, ImplementsAwait

-----------------------------------------------------------------------------
(***************************************************************************)
(* The gate in the hive: a step of the hive is one of the gate, or the     *)
(* gate stands still.                                                      *)
(***************************************************************************)
LEMMA StepOfGate == [ResubmitNext]_resubmitVars => [Next]_vars
<1> SUFFICES ASSUME [ResubmitNext]_resubmitVars PROVE [Next]_vars
  OBVIOUS
<1>1. CASE UNCHANGED resubmitVars
  BY <1>1 DEF resubmitVars, gateVars, vars
<1>2. ASSUME UNCHANGED gateVars PROVE UNCHANGED vars
  BY <1>2 DEF gateVars, vars
<1>3. ASSUME NEW t \in Threads, Arrive(t) \/ Wait(t) PROVE Next
  BY <1>3 DEF Next
<1>4. ASSUME NEW t \in Threads, Scheduled(t) \/ IsCancelled(t)
      PROVE  Arrive(t) \/ Wait(t) \/ UNCHANGED gateVars
  BY <1>4 DEF Scheduled, Enter, PassGate, Receive, RecvTimeout, Complete, Cancel, EndTask,
              IsCancelled
<1>5. ASSUME NEW c \in Clients, FollowUp(c)
      PROVE  Notify(c) \/ UNCHANGED gateVars
  BY <1>5 DEF FollowUp, OpenGate, TakeUnprocessed, SendNext, RemoveNext
<1>6. ASSUME NEW c \in Clients, StartCall(c)
      PROVE  (\E b \in BOOLEAN : SetSuspended(c, b)) \/ UNCHANGED gateVars
  BY <1>6 DEF StartCall, Apply, Suspend, Resume, RemoveAll, TakeStored, Drop, Rebuild
<1> QED BY <1>1, <1>2, <1>3, <1>4, <1>5, <1>6 DEF ResubmitNext, Next

LEMMA AlwaysGate == ResubmitSpec => []IInv
BY InitEstablishesIInv, StepPreservesIInv, StepOfGate, PTL DEF ResubmitSpec, ResubmitInit

(***************************************************************************)
(* A worker of the hive is only asleep in the resume gate while the hive   *)
(* is suspended or a client that resumed it is about to notify.            *)
(***************************************************************************)
THEOREM NoWakeupIsLostInHive == ResubmitSpec => []NoLostWakeup
BY AlwaysGate, PTL DEF IInv

(***************************************************************************)
(* In the hive, too, the gate is an Await.                                 *)
(***************************************************************************)
THEOREM GateImplementsAwait == ResubmitSpec => ImplementsAwait
BY AlwaysGate, InitRefines, StepRefines, StepOfGate, PTL
   DEF ResubmitSpec, ResubmitInit, ImplementsAwait

-----------------------------------------------------------------------------
(***************************************************************************)
(* Where inputs are.  Due: in a task that was not ended; stored; or away,  *)
(* as an outcome that was sent, returned, dropped, or got by a client that *)
(* is still removing others.                                               *)
(***************************************************************************)
AllTasks == [index : Nat, of : Payloads, dest : Destinations \cup {"store", "send"}]
AllOutcomes == [kind : {"Success", "Unprocessed"}, index : Nat, of : Payloads, input : BOOLEAN]
Removing == {"remove_unprocessed", "remove_successes"}
Calls == {"idle", "gone", "panicked", "send", "resume", "resume_store", "resume_send"}
           \cup Removing

Due == {a \in AllTasks : \/ a \in Range(queue)
                         \/ \E t \in Threads : a \in active[t]
                         \/ \E c \in Clients : a \in Range(holds[c])}
Away == received \cup returned \cup dropped \cup UNION {got[c] : c \in Clients}

Typed ==
  /\ active \in [Threads -> SUBSET AllTasks]
  /\ queue \in Seq(AllTasks) /\ holds \in [Clients -> Seq(AllTasks)]
  /\ nextIndex \in Nat
  /\ call \in [Clients -> Calls]
  /\ todo \in [Clients -> SUBSET Nat] /\ got \in [Clients -> SUBSET AllOutcomes]
  /\ Away \subseteq AllOutcomes
  /\ stage \in [Threads -> {"gate", "poll", "work", "cancelled"}]
  /\ intruded \subseteq Clients

\* What a worker or client has goes with what it is doing.
InHand ==
  /\ \A t \in Threads : IF stage[t] \in {"work", "cancelled"}
                          THEN \E a \in AllTasks : active[t] = {a}
                          ELSE active[t] = {}
  /\ \A c \in Clients : call[c] # "send" => holds[c] = <<>>
  /\ \A c \in Clients : call[c] \notin Removing => todo[c] = {} /\ got[c] = {}

\* A task is in one place only.
OneHolder ==
  /\ IsInjective(queue) /\ \A c \in Clients : IsInjective(holds[c])
  /\ \A t \in Threads : Range(queue) \cap active[t] = {}
  /\ \A c \in Clients : Range(queue) \cap Range(holds[c]) = {}
  /\ \A t \in Threads, c \in Clients : active[t] \cap Range(holds[c]) = {}
  /\ \A t, u \in Threads : t # u => active[t] \cap active[u] = {}
  /\ \A c, d \in Clients : c # d => Range(holds[c]) \cap Range(holds[d]) = {}

\* Inputs and indices are not shared.
TasksDiffer ==
  \A a, b \in Due : a.of = b.of \/ a.index = b.index => a = b

StoreHolds ==
  /\ \A i \in DOMAIN store : i \in 0 .. nextIndex - 1 /\ store[i] \in AllOutcomes
                             /\ store[i].index = i
  /\ \A i, j \in DOMAIN store : store[i].of = store[j].of => i = j

Apart ==
  /\ \A a \in Due : a.index < nextIndex /\ a.index \notin DOMAIN store
  /\ \A a \in Due, i \in DOMAIN store : a.of # store[i].of
  /\ \A a \in Due, o \in Away : a.of # o.of
  /\ \A o \in Away, i \in DOMAIN store : o.of # store[i].of
  /\ \A o, p \in Away : o.of = p.of => o = p

\* What was submitted, and nothing else, is somewhere.
Accounted ==
  \A x \in Payloads :
    x \in applied <=> \/ \E a \in Due : a.of = x
                      \/ \E i \in DOMAIN store : store[i].of = x
                      \/ \E o \in Away : o.of = x

Places == TasksDiffer /\ StoreHolds /\ Apart /\ Accounted

LEMMA InitPlaces == ResubmitInit => Typed /\ InHand /\ OneHolder /\ Places
<1> SUFFICES ASSUME ResubmitInit PROVE Typed /\ InHand /\ OneHolder /\ Places
  OBVIOUS
<1> USE DEF ResubmitInit, NoOutcomes
<1>1. Range(<<>>) = {} /\ IsInjective(<<>>) /\ DOMAIN <<>> = {} /\ \A S : <<>> \in Seq(S)
  BY EmptySeq DEF Range, IsInjective
<1>2. Due = {} /\ Away = {}
  BY <1>1 DEF Due, Away
<1>3. Typed
  BY <1>1, <1>2 DEF Typed, Calls
<1>4. InHand /\ OneHolder
  BY <1>1 DEF InHand, OneHolder, Removing
<1>5. Places
  BY <1>1, <1>2 DEF Places, TasksDiffer, StoreHolds, Apart, Accounted
<1> QED BY <1>3, <1>4, <1>5

\* An input is in use if a task with it is due, and known if it is anywhere.
LEMMA UseFacts ==
  ASSUME Typed, NEW x
  PROVE  /\ InUse(x) <=> \E a \in Due : a.of = x
         /\ Known(x) <=> \/ \E a \in Due : a.of = x
                         \/ \E i \in DOMAIN store : store[i].of = x
                         \/ \E o \in Away : o.of = x
<1>1. Range(queue) \subseteq AllTasks /\ \A c \in Clients : Range(holds[c]) \subseteq AllTasks
  BY RangeOfSeq DEF Typed
<1>2. \A t \in Threads : active[t] \subseteq AllTasks
  BY DEF Typed
<1>3. (\E k \in DOMAIN queue : queue[k].of = x) <=> \E a \in Range(queue) : a.of = x
  BY DEF Range
<1>4. \A c \in Clients : (\E k \in DOMAIN holds[c] : holds[c][k].of = x)
                           <=> \E a \in Range(holds[c]) : a.of = x
  BY DEF Range
<1>5. InUse(x) <=> \E a \in Due : a.of = x
  BY <1>1, <1>2, <1>3, <1>4 DEF InUse, Due
<1> QED BY <1>5 DEF Known, Away

-----------------------------------------------------------------------------
(***************************************************************************)
(* The ways a step can move inputs.                                        *)
(***************************************************************************)
NothingMoves == UNCHANGED <<Due, Away, store, nextIndex, applied>>

\* A new input comes in.
Enters(a) ==
  /\ a \in AllTasks /\ a.index = nextIndex /\ ~Known(a.of)
  /\ Due' = Due \cup {a} /\ nextIndex' = nextIndex + 1
  /\ applied' = applied \cup {a.of}
  /\ UNCHANGED <<Away, store>>

\* A task ends with an outcome.
Ends(a, o) ==
  /\ a \in Due /\ Due' = Due \ {a}
  /\ o \in AllOutcomes /\ o.index = a.index /\ o.of = a.of
  /\ \/ store' = Insert(store, o) /\ Away' = Away
     \/ store' = store /\ Away' = Away \cup {o}
  /\ nextIndex' = nextIndex /\ applied' = applied

\* Tasks that may be added to those that are due.
Fresh(N) ==
  /\ N \subseteq AllTasks
  /\ \A a, b \in N : a.of = b.of \/ a.index = b.index => a = b
  /\ \A a \in N : a.index < nextIndex'

\* The outcomes with indices I leave the store; from the inputs of R there are new tasks.
Leave(I, R, N) ==
  /\ I \subseteq DOMAIN store /\ R \subseteq I
  /\ store' = Without(store, I)
  /\ Away' = Away \cup {store[i] : i \in I \ R}
  /\ Due' = Due \cup N /\ Fresh(N)
  /\ \A i \in R : store[i].kind = "Unprocessed" /\ \E a \in N : a.of = store[i].of
  /\ \A a \in N : \E i \in R : a.of = store[i].of
  /\ nextIndex' \in Nat /\ applied' = applied
  /\ \/ \E k \in Nat : nextIndex' = nextIndex + k /\ \A a \in N : a.index >= nextIndex
     \/ Due = {} /\ I = DOMAIN store

LEMMA NothingMovesPlaces == Places /\ NothingMoves => Places'
BY DEF NothingMoves, Places, TasksDiffer, StoreHolds, Apart, Accounted

LEMMA EntersPlaces ==
  ASSUME Typed, Places, NEW a, Enters(a)
  PROVE  Places'
<1>1. /\ a \in AllTasks /\ a.index = nextIndex /\ nextIndex \in Nat
      /\ Due' = Due \cup {a} /\ nextIndex' = nextIndex + 1
      /\ UNCHANGED <<Away, store>>
  BY DEF Enters, Typed
<1>2. /\ \A b \in Due : b.of # a.of
      /\ \A i \in DOMAIN store : store[i].of # a.of
      /\ \A o \in Away : o.of # a.of
  BY UseFacts DEF Enters
<1>3. \A b \in Due : b.index < nextIndex /\ b.index \in Nat
  BY DEF Places, Apart, Due, AllTasks
<1>4. \A i \in DOMAIN store : i < nextIndex /\ i \in Nat
  BY <1>1 DEF Places, StoreHolds
<1>5. TasksDiffer'
  BY <1>1, <1>2, <1>3 DEF Places, TasksDiffer
<1>6. StoreHolds'
  BY <1>1 DEF Places, StoreHolds
<1>7. Apart'
  BY <1>1, <1>2, <1>3, <1>4 DEF Places, Apart
<1>8. Accounted'
  BY <1>1 DEF Enters, Places, Accounted
<1> QED BY <1>5, <1>6, <1>7, <1>8 DEF Places

LEMMA EndsPlaces ==
  ASSUME Typed, Places, NEW a, NEW o, Ends(a, o)
  PROVE  Places'
<1>1. /\ a \in Due /\ Due' = Due \ {a} /\ nextIndex \in Nat /\ nextIndex' = nextIndex
      /\ o \in AllOutcomes /\ o.index = a.index /\ o.of = a.of
  BY DEF Ends, Typed
<1>2. /\ \A b \in Due \ {a} : b.of # a.of /\ b.index # a.index
      /\ a.index \notin DOMAIN store /\ a.index \in Nat /\ a.index < nextIndex
      /\ \A i \in DOMAIN store : store[i].of # a.of
      /\ \A p \in Away : p.of # a.of
  BY <1>1 DEF Places, TasksDiffer, Apart, Due, AllTasks
<1>3. TasksDiffer'
  BY <1>1 DEF Places, TasksDiffer
<1>4. CASE store' = Insert(store, o) /\ Away' = Away
  <2>1. /\ DOMAIN store' = DOMAIN store \cup {a.index}
        /\ store'[a.index] = o
        /\ \A i \in DOMAIN store : store'[i] = store[i]
    BY <1>1, <1>2, <1>4 DEF Insert
  <2>2. StoreHolds'
    BY <1>1, <1>2, <2>1 DEF Places, StoreHolds
  <2>3. Apart'
    BY <1>1, <1>2, <1>4, <2>1 DEF Places, Apart
  <2>4. Accounted'
    BY <1>1, <1>2, <1>4, <2>1 DEF Ends, Places, Accounted
  <2> QED BY <1>3, <2>2, <2>3, <2>4 DEF Places
<1>5. CASE store' = store /\ Away' = Away \cup {o}
  <2>1. StoreHolds'
    BY <1>1, <1>5 DEF Places, StoreHolds
  <2>2. Apart'
    BY <1>1, <1>2, <1>5 DEF Places, Apart
  <2>3. Accounted'
    BY <1>1, <1>2, <1>5 DEF Ends, Places, Accounted
  <2> QED BY <1>3, <2>1, <2>2, <2>3 DEF Places
<1> QED BY <1>4, <1>5 DEF Ends

LEMMA LeavePlaces ==
  ASSUME Typed, Places, NEW I, NEW R, NEW N, Leave(I, R, N)
  PROVE  Places'
<1>1. /\ I \subseteq DOMAIN store /\ R \subseteq I
      /\ Away' = Away \cup {store[i] : i \in I \ R}
      /\ Due' = Due \cup N /\ Fresh(N)
      /\ \A a \in N : \E i \in R : a.of = store[i].of
      /\ nextIndex' \in Nat /\ nextIndex \in Nat
  BY DEF Leave, Typed
<1>2. DOMAIN store' = DOMAIN store \ I /\ \A i \in DOMAIN store' : store'[i] = store[i]
  BY DEF Leave, Without
<1>3. /\ \A a \in Due : a.index \in Nat /\ a.index < nextIndex /\ a.index \notin DOMAIN store
      /\ \A i \in DOMAIN store : i \in Nat /\ i < nextIndex
      /\ \A a \in N : a.index \in Nat
  BY <1>1 DEF Places, Apart, StoreHolds, Due, AllTasks, Fresh
<1>4. \/ \E k \in Nat : nextIndex' = nextIndex + k /\ \A a \in N : a.index >= nextIndex
      \/ Due = {} /\ DOMAIN store' = {}
  BY <1>2 DEF Leave
<1>5. /\ \A a \in N, b \in Due : a.index # b.index
      /\ \A a \in N : a.index \notin DOMAIN store'
      /\ \A a \in Due \cup N : a.index < nextIndex'
      /\ \A i \in DOMAIN store' : i < nextIndex'
  BY <1>1, <1>2, <1>3, <1>4 DEF Fresh
<1>6. /\ \A a \in N, b \in Due : a.of # b.of
      /\ \A a \in N, i \in DOMAIN store' : a.of # store[i].of
      /\ \A a \in N, i \in I \ R : a.of # store[i].of
      /\ \A a \in N, o \in Away : a.of # o.of
  BY <1>1, <1>2 DEF Places, StoreHolds, Apart
<1>7. TasksDiffer'
  BY <1>1, <1>5, <1>6 DEF Places, TasksDiffer, Fresh
<1>8. StoreHolds'
  BY <1>1, <1>2, <1>3, <1>5 DEF Places, StoreHolds
<1>9. Apart'
  <2>1. \A a \in Due' : a.index < nextIndex' /\ a.index \notin DOMAIN store'
    BY <1>1, <1>2, <1>3, <1>5
  <2>2. \A a \in Due', i \in DOMAIN store' : a.of # store'[i].of
    BY <1>1, <1>2, <1>6 DEF Places, Apart
  <2>3. \A a \in Due', o \in Away' : a.of # o.of
    BY <1>1, <1>6 DEF Places, Apart
  <2>4. \A o \in Away', i \in DOMAIN store' : o.of # store'[i].of
    BY <1>1, <1>2 DEF Places, StoreHolds, Apart
  <2>5. \A o, p \in Away' : o.of = p.of => o = p
    BY <1>1 DEF Places, StoreHolds, Apart
  <2> QED BY <2>1, <2>2, <2>3, <2>4, <2>5 DEF Apart
<1>10. Accounted'
  <2> SUFFICES ASSUME NEW x \in Payloads
               PROVE  x \in applied <=> \/ \E a \in Due \cup N : a.of = x
                                        \/ \E i \in DOMAIN store' : store'[i].of = x
                                        \/ \E o \in Away' : o.of = x
    BY <1>1 DEF Leave, Accounted
  <2>1. x \in applied <=> \/ \E a \in Due : a.of = x
                          \/ \E i \in DOMAIN store : store[i].of = x
                          \/ \E o \in Away : o.of = x
    BY DEF Places, Accounted
  <2>2. (\E i \in DOMAIN store : store[i].of = x)
          <=> \/ \E i \in DOMAIN store' : store'[i].of = x
              \/ \E i \in I \ R : store[i].of = x
              \/ \E i \in R : store[i].of = x
    BY <1>1, <1>2
  <2>3. (\E i \in R : store[i].of = x) <=> \E a \in N : a.of = x
    BY <1>1 DEF Leave
  <2>4. (\E o \in Away' : o.of = x)
          <=> (\E o \in Away : o.of = x) \/ \E i \in I \ R : store[i].of = x
    BY <1>1
  <2> QED BY <2>1, <2>2, <2>3, <2>4
<1> QED BY <1>7, <1>8, <1>9, <1>10 DEF Places

\* What prepare_batch makes of outcomes at R, with n indices from start on.
Batched(ts, R, start, n) ==
  /\ ts \in Seq(AllTasks) /\ IsInjective(ts)
  /\ n \in Nat /\ (n = 0 <=> ts = <<>>)
  /\ \A a, b \in Range(ts) : a.of = b.of \/ a.index = b.index => a = b
  /\ \A a \in Range(ts) : a.index \in start .. start + n - 1
  /\ \A i \in R : store[i].kind = "Unprocessed" /\ \E a \in Range(ts) : a.of = store[i].of
  /\ \A a \in Range(ts) : \E i \in R : a.of = store[i].of

\* It takes the unprocessed ones, in any order.
LEMMA PreparedFacts ==
  ASSUME Typed, Places, NEW taken \in InSomeOrder(store, Unprocessed), NEW start \in Nat,
         NEW dest \in {"store", "send"},
         NEW R, R = Indices(store, Unprocessed), NEW ts, ts = Prepared(taken, start, dest)
  PROVE  Batched(ts, R, start, Len(taken)) /\ (Len(taken) = 0 <=> taken = <<>>)
<1> DEFINE n == Cardinality(R)
<1>1. /\ R \subseteq DOMAIN store /\ R \subseteq 0 .. nextIndex - 1
      /\ \A i \in R : store[i].kind = "Unprocessed" /\ store[i].of \in Payloads
  BY DEF Indices, Unprocessed, Places, StoreHolds, AllOutcomes
<1>2. PICK q \in SetToSeqs(R) : taken = [k \in DOMAIN q |-> store[q[k]]]
  BY DEF InSomeOrder
<1>3. IsFiniteSet(0 .. nextIndex - 1)
  <2>1. 0 \in Int /\ nextIndex - 1 \in Int
    BY DEF Typed
  <2> QED BY <2>1, FS_Interval
<1>4. IsFiniteSet(R)
  BY <1>1, <1>3, FS_Subset
<1>5. /\ q \in [1 .. n -> R] /\ n \in Nat
      /\ \A j, k \in DOMAIN q : q[j] = q[k] => j = k
      /\ \A i \in R : \E k \in DOMAIN q : q[k] = i
  BY <1>4, OrderingFacts
<1> HIDE DEF n
<1>6. /\ DOMAIN taken = 1 .. n /\ \A k \in 1 .. n : taken[k] = store[q[k]]
      /\ taken = [k \in 1 .. n |-> taken[k]]
  BY <1>2, <1>5
<1>7. Len(taken) = n
  BY <1>5, <1>6
<1>8. /\ ts = [k \in 1 .. n |-> Task(start + k - 1, store[q[k]].of, dest)]
      /\ \A k \in 1 .. n : Task(start + k - 1, store[q[k]].of, dest) \in AllTasks
  BY <1>1, <1>5, <1>6 DEF Prepared, Task, AllTasks
<1>9. ts \in Seq(AllTasks) /\ Len(ts) = n /\ DOMAIN ts = 1 .. n
  BY <1>5, <1>8
<1>10. \A k \in 1 .. n : ts[k].index = start + k - 1 /\ ts[k].of = store[q[k]].of
  BY <1>8 DEF Task
<1>11. \A j, k \in 1 .. n : ts[j].of = ts[k].of \/ ts[j].index = ts[k].index => j = k
  <2> SUFFICES ASSUME NEW j \in 1 .. n, NEW k \in 1 .. n,
                      ts[j].of = ts[k].of \/ ts[j].index = ts[k].index
               PROVE  j = k
    OBVIOUS
  <2>1. CASE ts[j].index = ts[k].index
    BY <1>5, <1>10, <2>1
  <2>2. CASE ts[j].of = ts[k].of
    <3>1. q[j] \in DOMAIN store /\ q[k] \in DOMAIN store /\ store[q[j]].of = store[q[k]].of
      BY <1>1, <1>5, <1>10, <2>2
    <3>2. q[j] = q[k]
      BY <3>1 DEF Places, StoreHolds
    <3> QED BY <1>5, <3>2
  <2> QED BY <2>1, <2>2
<1>12. IsInjective(ts)
  BY <1>9, <1>11 DEF IsInjective
<1>13. \A a, b \in Range(ts) : a.of = b.of \/ a.index = b.index => a = b
  BY <1>9, <1>11 DEF Range
<1>14. ASSUME NEW a \in Range(ts)
       PROVE  a.index \in start .. start + n - 1 /\ \E i \in R : a.of = store[i].of
  <2>1. PICK k \in 1 .. n : a = ts[k]
    BY <1>9 DEF Range
  <2>2. a.index = start + k - 1 /\ a.of = store[q[k]].of /\ q[k] \in R
    BY <1>5, <1>10, <2>1
  <2> QED BY <1>5, <2>2
<1>15. ASSUME NEW i \in R PROVE \E a \in Range(ts) : a.of = store[i].of
  <2>1. PICK k \in 1 .. n : q[k] = i
    BY <1>5
  <2>2. ts[k] \in Range(ts) /\ ts[k].of = store[i].of
    BY <1>9, <1>10, <2>1 DEF Range
  <2> QED BY <2>2
<1>16. (n = 0 <=> taken = <<>>) /\ (n = 0 <=> ts = <<>>)
  BY <1>5, <1>6, <1>7, <1>9
<1> QED BY <1>1, <1>5, <1>7, <1>9, <1>12, <1>13, <1>14, <1>15, <1>16 DEF Batched

-----------------------------------------------------------------------------
(***************************************************************************)
(* What each action moves.                                                 *)
(***************************************************************************)
Held == Typed /\ InHand /\ OneHolder

\* As long as nobody hands anything over, nothing moves.
LEMMA HandsFull ==
  ASSUME OneHolder, UNCHANGED <<active, queue, holds, got, outVars, store, nextIndex, applied>>
  PROVE  OneHolder' /\ NothingMoves
<1>1. UNCHANGED <<active, queue, holds, got, received, returned, dropped, store, nextIndex,
               applied>>
  BY DEF outVars
<1> QED BY <1>1 DEF OneHolder, NothingMoves, Due, Away

\* The steps of a worker between tasks, and its look at the flag.
LEMMA WorkerStandsStill ==
  ASSUME Held, NEW t \in Threads,
         Enter(t) \/ PassGate(t) \/ RecvTimeout(t) \/ IsCancelled(t)
  PROVE  Held' /\ NothingMoves
<1>1. UNCHANGED <<active, queue, holds, got, outVars, store, nextIndex, clientVars, applied>>
  BY DEF Enter, PassGate, RecvTimeout, IsCancelled, clientVars, historyVars
<1>2. OneHolder' /\ NothingMoves
  BY <1>1, HandsFull DEF Held
<1>3. \/ stage' = stage
      \/ /\ stage[t] \in {"gate", "poll"}
         /\ \E s \in {"gate", "poll"} : stage' = [stage EXCEPT ![t] = s]
      \/ stage[t] = "work" /\ stage' = [stage EXCEPT ![t] = "cancelled"]
  BY DEF Enter, PassGate, RecvTimeout, IsCancelled
<1>4. Typed'
  BY <1>1, <1>2, <1>3 DEF Held, Typed, NothingMoves, clientVars
<1>5. InHand'
  BY <1>1, <1>3 DEF Held, Typed, InHand, clientVars
<1> QED BY <1>2, <1>4, <1>5 DEF Held

\* The steps of a client that touch no task.
LEMMA ClientStandsStill ==
  ASSUME Held, Places, NEW c \in Clients, NEW how,
         Suspend(c) \/ Resume(c, how) \/ OpenGate(c) \/ RemoveAll(c, how) \/ Drop(c)
  PROVE  Held' /\ NothingMoves
<1>1. UNCHANGED <<active, queue, holds, got, outVars, store, nextIndex, stage, intruded,
               applied>>
  BY DEF Suspend, Resume, OpenGate, RemoveAll, Drop, clientVars, historyVars
<1>2. OneHolder' /\ NothingMoves
  BY <1>1, HandsFull DEF Held
<1>3. \/ /\ todo' = todo
         /\ \/ call' = call
            \/ /\ call[c] = "idle"
               /\ \E s \in {"resume", "resume_store", "resume_send", "gone"} :
                    call' = [call EXCEPT ![c] = s]
            \/ call[c] = "resume" /\ call' = [call EXCEPT ![c] = "idle"]
      \/ /\ call[c] = "idle" /\ call' = [call EXCEPT ![c] = how] /\ how \in Removing
         /\ todo' = [todo EXCEPT ![c] = Indices(store, Removed(how))]
  BY DEF Suspend, Resume, OpenGate, RemoveAll, Drop, Idle, clientVars, Calls, Removing, Held, Typed
<1>4. Indices(store, Removed(how)) \subseteq Nat
  BY DEF Indices, Places, StoreHolds, Held, Typed
<1>5. todo' \in [Clients -> SUBSET Nat]
  BY <1>3, <1>4 DEF Held, Typed
<1>6. call' \in [Clients -> Calls]
  BY <1>3 DEF Held, Typed, Calls
<1>7. Typed'
  BY <1>1, <1>2, <1>5, <1>6 DEF Held, Typed, NothingMoves
<1>8. InHand'
  BY <1>1, <1>3 DEF Held, Typed, InHand, Removing
<1> QED BY <1>2, <1>7, <1>8 DEF Held

\* A task goes from the channel to a worker.
LEMMA ReceiveMoves ==
  ASSUME Held, NEW t \in Threads, Receive(t)
  PROVE  Held' /\ NothingMoves
<1> DEFINE a == Head(queue)
<1>1. /\ stage[t] = "poll" /\ queue # <<>> /\ queue \in Seq(AllTasks) /\ IsInjective(queue)
      /\ active' = [active EXCEPT ![t] = {a}] /\ queue' = Tail(queue)
      /\ stage' = [stage EXCEPT ![t] = "work"]
      /\ UNCHANGED <<store, nextIndex, call, holds, todo, got, intruded, received, returned, dropped,
                     applied>>
  BY DEF Receive, Held, Typed, OneHolder, clientVars, outVars, historyVars
<1>2. /\ a \in Range(queue) /\ Range(queue') = Range(queue) \ {a} /\ IsInjective(queue')
  BY <1>1, TailRange
<1>3. Range(queue) \subseteq AllTasks /\ queue' \in Seq(AllTasks)
  BY <1>1, RangeOfSeq, HeadTailProperties
<1> HIDE DEF a
<1>4. active[t] = {}
  BY <1>1 DEF Held, InHand
<1>5. /\ active'[t] = {a} /\ \A u \in Threads : u # t => active'[u] = active[u]
      /\ active' \in [Threads -> SUBSET AllTasks]
  BY <1>1, <1>2, <1>3 DEF Held, Typed
<1>6. Due' = Due
  BY <1>1, <1>2, <1>4, <1>5 DEF Due
<1>7. NothingMoves
  BY <1>1, <1>6 DEF NothingMoves, Away
<1>8. Typed'
  BY <1>1, <1>3, <1>5, <1>7 DEF Held, Typed, NothingMoves
<1>9. InHand'
  BY <1>1, <1>2, <1>3, <1>5 DEF Held, Typed, InHand
<1>10. OneHolder'
  <2>1. \A u \in Threads : Range(queue') \cap active'[u] = {}
    BY <1>2, <1>5 DEF Held, OneHolder
  <2>2. \A c \in Clients : Range(queue') \cap Range(holds'[c]) = {}
    BY <1>1, <1>2 DEF Held, OneHolder
  <2>3. \A u \in Threads, c \in Clients : active'[u] \cap Range(holds'[c]) = {}
    BY <1>1, <1>2, <1>5 DEF Held, OneHolder
  <2>4. \A u, v \in Threads : u # v => active'[u] \cap active'[v] = {}
    BY <1>2, <1>5 DEF Held, OneHolder
  <2> QED BY <1>1, <1>2, <2>1, <2>2, <2>3, <2>4 DEF Held, OneHolder
<1> QED BY <1>7, <1>8, <1>9, <1>10 DEF Held

\* A task goes from a client to the channel.
LEMMA SendMoves ==
  ASSUME Held, NEW c \in Clients, SendNext(c)
  PROVE  Held' /\ NothingMoves
<1> DEFINE a == Head(holds[c])
<1>1. /\ holds[c] # <<>> /\ queue \in Seq(AllTasks) /\ holds[c] \in Seq(AllTasks)
      /\ IsInjective(queue) /\ IsInjective(holds[c])
      /\ queue' = Append(queue, a) /\ holds' = [holds EXCEPT ![c] = Tail(@)]
      /\ call' = [call EXCEPT ![c] = IF Len(holds[c]) = 1 THEN "idle" ELSE @]
      /\ UNCHANGED <<stage, active, store, nextIndex, todo, got, intruded,
                     received, returned, dropped, applied>>
  BY DEF SendNext, Held, Typed, OneHolder, outVars, historyVars
<1>2. /\ a \in Range(holds[c]) /\ Range(Tail(holds[c])) = Range(holds[c]) \ {a}
      /\ IsInjective(Tail(holds[c]))
  BY <1>1, TailRange
<1>3. Range(holds[c]) \subseteq AllTasks /\ Tail(holds[c]) \in Seq(AllTasks)
      /\ (Len(holds[c]) = 1 => Tail(holds[c]) = <<>>)
  <2>1. Range(holds[c]) \subseteq AllTasks
    BY <1>1, RangeOfSeq
  <2>2. /\ Tail(holds[c]) \in Seq(AllTasks)
        /\ Len(Tail(holds[c])) = Len(holds[c]) - 1
    BY <1>1, HeadTailProperties
  <2>3. ASSUME Len(holds[c]) = 1 PROVE Tail(holds[c]) = <<>>
    <3>1. Len(Tail(holds[c])) = 0
      BY <2>2, <2>3
    <3> QED BY <2>2, <3>1, EmptySeq
  <2> QED BY <2>1, <2>2, <2>3
<1>4. /\ holds'[c] = Tail(holds[c]) /\ \A d \in Clients : d # c => holds'[d] = holds[d]
      /\ holds' \in [Clients -> Seq(AllTasks)]
  BY <1>1, <1>3 DEF Held, Typed
<1> HIDE DEF a
<1>5. a \in AllTasks /\ a \notin Range(queue)
  BY <1>2, <1>3 DEF Held, OneHolder
<1>6. Range(queue') = Range(queue) \cup {a} /\ IsInjective(queue') /\ queue' \in Seq(AllTasks)
  BY <1>1, <1>5, AppendRange, AppendProperties
<1>7. Due' = Due
  BY <1>1, <1>2, <1>4, <1>6 DEF Due
<1>8. NothingMoves
  BY <1>1, <1>7 DEF NothingMoves, Away
<1>9. call[c] = "send"
  BY <1>1 DEF Held, InHand
<1>10. Typed'
  BY <1>1, <1>4, <1>6, <1>8 DEF Held, Typed, NothingMoves, Calls
<1>11. InHand'
  BY <1>1, <1>3, <1>4, <1>9 DEF Held, Typed, InHand, Removing
<1>12. OneHolder'
  BY <1>1, <1>2, <1>4, <1>6 DEF Held, OneHolder
<1> QED BY <1>8, <1>10, <1>11, <1>12 DEF Held

\* A new task comes in.
LEMMA ApplyMoves ==
  ASSUME Held, Places, NEW c \in Clients, NEW x \in Payloads, NEW dest \in Destinations,
         Apply(c, x, dest)
  PROVE  /\ Held'
         /\ \E a : Enters(a) /\ a.of = x
<1> DEFINE a == Task(nextIndex, x, dest)
<1>1. /\ x \notin applied /\ applied' = applied \cup {x}
      /\ queue \in Seq(AllTasks) /\ IsInjective(queue)
      /\ queue' = Append(queue, a) /\ nextIndex' = nextIndex + 1 /\ nextIndex \in Nat
      /\ UNCHANGED <<stage, active, store, call, holds, todo, got, intruded,
                     received, returned, dropped>>
  BY DEF Apply, Held, Typed, OneHolder, clientVars, outVars
<1>2. a \in AllTasks /\ a.index = nextIndex /\ a.of = x
  BY <1>1 DEF Task, AllTasks
<1> HIDE DEF a
<1>3. ~Known(x) /\ a \notin Due
  BY <1>1, <1>2, UseFacts DEF Held, Places, Accounted
<1>4. /\ a \notin Range(queue) /\ \A t \in Threads : a \notin active[t]
      /\ \A d \in Clients : a \notin Range(holds[d])
  BY <1>2, <1>3 DEF Due
<1>5. Range(queue') = Range(queue) \cup {a} /\ IsInjective(queue') /\ queue' \in Seq(AllTasks)
  BY <1>1, <1>2, <1>4, AppendRange, AppendProperties
<1>6. Due' = Due \cup {a} /\ Away' = Away
  BY <1>1, <1>2, <1>5 DEF Due, Away
<1>7. Enters(a)
  BY <1>1, <1>2, <1>3, <1>6 DEF Enters
<1>8. Typed'
  BY <1>1, <1>5, <1>6 DEF Held, Typed
<1>9. InHand'
  BY <1>1 DEF Held, InHand
<1>10. OneHolder'
  BY <1>1, <1>4, <1>5 DEF Held, OneHolder
<1> QED BY <1>2, <1>7, <1>8, <1>9, <1>10 DEF Held

\* What RefWorker's results become.
LEMMA ResultFacts ==
  ASSUME NEW i \in Nat, NEW x \in Payloads, NEW behaviour \in {"ok", "cancelled"},
         NEW o, o = FromWorkerResult(Result(RefWorker, behaviour), i, x)
  PROVE  /\ o \in AllOutcomes /\ o.index = i /\ o.of = x
         /\ o.kind \in {"Success", "Unprocessed"}
<1> DEFINE r == Result(RefWorker, behaviour)
<1>1. CASE behaviour = "ok"
  <2>1. r = [tag |-> "Ok", input |-> FALSE]
    BY <1>1 DEF Result
  <2>2. r.tag = "Ok" /\ r.input = FALSE
    BY <2>1
  <2>3. KindOf(r.tag) = "Success"
    BY <2>2 DEF KindOf
  <2>4. o = [kind |-> "Success", index |-> i, of |-> x, input |-> FALSE]
    BY <2>2, <2>3 DEF FromWorkerResult, Outcome
  <2> QED BY <2>4 DEF AllOutcomes
<1>2. CASE behaviour = "cancelled"
  <2>1. r = [tag |-> "Cancelled", input |-> TRUE]
    BY <1>2 DEF Result
  <2>2. r.tag = "Cancelled" /\ r.input = TRUE
    BY <2>1
  <2>3. KindOf(r.tag) = "Unprocessed"
    BY <2>2 DEF KindOf
  <2>4. o = [kind |-> "Unprocessed", index |-> i, of |-> x, input |-> TRUE]
    BY <2>2, <2>3 DEF FromWorkerResult, Outcome
  <2> QED BY <2>4 DEF AllOutcomes
<1> QED BY <1>1, <1>2

\* A task ends: its outcome is stored or sent.
LEMMA EndMoves ==
  ASSUME Held, NEW t \in Threads, NEW behaviour \in {"ok", "cancelled"},
         stage[t] \in {"work", "cancelled"}, EndTask(t, Result(RefWorker, behaviour))
  PROVE  /\ Held'
         /\ \E a, o : /\ Ends(a, o) /\ o.kind \in {"Success", "Unprocessed"}
<1>1. /\ stage' = [stage EXCEPT ![t] = "gate"] /\ active' = [active EXCEPT ![t] = {}]
      /\ UNCHANGED <<queue, nextIndex, call, holds, todo, got, intruded, applied>>
  BY DEF EndTask, clientVars, historyVars
<1>2. PICK a \in AllTasks : active[t] = {a}
  BY DEF Held, InHand
<1>3. a.index \in Nat /\ a.of \in Payloads
  BY DEF AllTasks
<1>4. PICK o \in AllOutcomes :
        /\ o.index = a.index /\ o.of = a.of /\ o.kind \in {"Success", "Unprocessed"}
        /\ Deliver(o, a.dest)
  BY <1>2, <1>3, ResultFacts DEF EndTask
<1>5. /\ active'[t] = {} /\ \A u \in Threads : u # t => active'[u] = active[u]
      /\ active' \in [Threads -> SUBSET AllTasks]
  BY <1>1 DEF Held, Typed
<1>6. a \in Due /\ Due' = Due \ {a}
  <2>1. /\ a \notin Range(queue) /\ \A c \in Clients : a \notin Range(holds[c])
        /\ \A u \in Threads : u # t => a \notin active[u]
    BY <1>2 DEF Held, OneHolder
  <2> QED BY <1>1, <1>2, <1>5, <2>1 DEF Due
<1>7. \/ store' = Insert(store, o) /\ UNCHANGED <<received, returned, dropped>>
      \/ received' = received \cup {o} /\ UNCHANGED <<store, returned, dropped>>
  BY <1>4 DEF Deliver, outVars
<1>8. \/ store' = Insert(store, o) /\ Away' = Away
      \/ store' = store /\ Away' = Away \cup {o}
  BY <1>1, <1>7 DEF Away
<1>9. Ends(a, o)
  BY <1>1, <1>4, <1>6, <1>8 DEF Ends
<1>10. Typed'
  BY <1>1, <1>5, <1>8 DEF Held, Typed
<1>11. InHand'
  BY <1>1, <1>5 DEF Held, Typed, InHand
<1>12. OneHolder'
  BY <1>1, <1>5 DEF Held, OneHolder
<1> QED BY <1>4, <1>9, <1>10, <1>11, <1>12 DEF Held

\* A client takes the unprocessed outcomes and prepares new tasks for them.
LEMMA TakeUnprocessedMoves ==
  ASSUME Held, Places, NEW c \in Clients, TakeUnprocessed(c)
  PROVE  Held' /\ \E I, R, N : Leave(I, R, N)
<1>1. PICK dest \in {"store", "send"}, taken \in InSomeOrder(store, Unprocessed) :
        /\ holds' = [holds EXCEPT ![c] = Prepared(taken, nextIndex, dest)]
        /\ nextIndex' = nextIndex + Len(taken)
        /\ call' = [call EXCEPT ![c] = IF taken = <<>> THEN "idle" ELSE "send"]
  BY DEF TakeUnprocessed
<1>2. PICK R : R = Indices(store, Unprocessed)
  OBVIOUS
<1>3. PICK ts : ts = Prepared(taken, nextIndex, dest)
  OBVIOUS
<1> DEFINE N == Range(ts)
<1>4. /\ call[c] \in {"resume_store", "resume_send"} /\ store' = Without(store, R)
      /\ intruded' \subseteq Clients
      /\ UNCHANGED <<stage, active, queue, todo, got, received, returned, dropped, applied>>
  BY <1>2 DEF TakeUnprocessed, Intrude, outVars, historyVars, Held, Typed
<1>5. nextIndex \in Nat
  BY DEF Held, Typed
<1>6. Batched(ts, R, nextIndex, Len(taken)) /\ (Len(taken) = 0 <=> taken = <<>>)
  BY <1>2, <1>3, <1>5, PreparedFacts DEF Held
<1>7. /\ ts \in Seq(AllTasks) /\ Len(taken) \in Nat
      /\ taken = <<>> <=> ts = <<>>
      /\ IsInjective(ts)
      /\ \A a, b \in N : a.of = b.of \/ a.index = b.index => a = b
      /\ \A a \in N : a.index \in nextIndex .. nextIndex + Len(taken) - 1
      /\ \A i \in R : store[i].kind = "Unprocessed" /\ \E a \in N : a.of = store[i].of
      /\ \A a \in N : \E i \in R : a.of = store[i].of
  BY <1>6 DEF Batched
<1>8. R \subseteq DOMAIN store
  BY <1>2 DEF Indices
<1>9. holds' = [holds EXCEPT ![c] = ts]
  BY <1>1, <1>3
<1>10. N \subseteq AllTasks
  BY <1>7, RangeOfSeq
<1>11. holds[c] = <<>>
  BY <1>4 DEF Held, InHand
<1>12. /\ holds'[c] = ts /\ \A d \in Clients : d # c => holds'[d] = holds[d]
      /\ holds' \in [Clients -> Seq(AllTasks)]
  BY <1>7, <1>9 DEF Held, Typed
<1>13. Range(holds[c]) = {}
  BY <1>11 DEF Range
<1>14. Due' = Due \cup N
  BY <1>4, <1>10, <1>12, <1>13 DEF Due
<1>15. Away' = Away \cup {store[i] : i \in R \ R}
  BY <1>4 DEF Away
<1>16. nextIndex' \in Nat /\ \A a \in N : a.index >= nextIndex /\ a.index < nextIndex'
  BY <1>1, <1>5, <1>7
<1>17. Fresh(N)
  BY <1>7, <1>10, <1>16 DEF Fresh
<1>18. Leave(R, R, N)
  BY <1>1, <1>4, <1>7, <1>8, <1>14, <1>15, <1>16, <1>17 DEF Leave
<1>19. call' \in [Clients -> Calls] /\ Away' \subseteq AllOutcomes
  BY <1>1, <1>15 DEF Held, Typed, Calls
<1>20. Typed'
  BY <1>4, <1>12, <1>16, <1>19 DEF Held, Typed
<1>21. InHand'
  BY <1>1, <1>4, <1>7, <1>12 DEF Held, Typed, InHand, Removing
<1>22. \A a \in N : a \notin Due
  <2> SUFFICES ASSUME NEW a \in N, a \in Due PROVE FALSE
    OBVIOUS
  <2>1. a.index \in Nat /\ a.index < nextIndex
    BY DEF Places, Apart, Due, AllTasks
  <2> QED BY <1>5, <1>16, <2>1
<1>23. OneHolder'
  <2>1. /\ \A t \in Threads : N \cap active[t] = {}
        /\ \A d \in Clients : N \cap Range(holds[d]) = {}
        /\ N \cap Range(queue) = {}
    BY <1>10, <1>22 DEF Due
  <2>2. \A d \in Clients : d # c => Range(holds'[d]) = Range(holds[d])
    BY <1>12
  <2>3. /\ \A d \in Clients : IsInjective(holds'[d])
        /\ \A d \in Clients : Range(queue') \cap Range(holds'[d]) = {}
        /\ \A t \in Threads, d \in Clients : active'[t] \cap Range(holds'[d]) = {}
    BY <1>4, <1>7, <1>12, <2>1, <2>2 DEF Held, OneHolder
  <2>4. ASSUME NEW d \in Clients, NEW e \in Clients, d # e
        PROVE  Range(holds'[d]) \cap Range(holds'[e]) = {}
    <3>1. CASE d # c /\ e # c
      BY <2>2, <2>4, <3>1 DEF Held, OneHolder
    <3>2. CASE d = c
      BY <1>12, <2>1, <2>2, <2>4, <3>2
    <3>3. CASE e = c
      BY <1>12, <2>1, <2>2, <2>4, <3>3
    <3> QED BY <3>1, <3>2, <3>3
  <2> QED BY <1>4, <2>3, <2>4 DEF Held, OneHolder
<1> QED BY <1>18, <1>20, <1>21, <1>23 DEF Held

\* A client takes all outcomes.
LEMMA TakeStoredMoves ==
  ASSUME Held, Places, NEW c \in Clients, TakeStored(c)
  PROVE  Held' /\ \E I, R, N : Leave(I, R, N)
<1>1. /\ call[c] = "idle" /\ store' = NoOutcomes /\ returned' = returned \cup Range(store)
      /\ intruded' \subseteq Clients
      /\ UNCHANGED <<stage, active, queue, nextIndex, call, holds, todo, got, received, dropped,
                     applied>>
  BY DEF TakeStored, Idle, Intrude, historyVars, Held, Typed
<1>2. Due' = Due /\ Away' = Away \cup {store[i] : i \in DOMAIN store}
  BY <1>1 DEF Due, Away, Range
<1>3. store' = Without(store, DOMAIN store)
  BY <1>1 DEF NoOutcomes, Without
<1>4. nextIndex' = nextIndex + 0 /\ nextIndex \in Nat
  BY <1>1 DEF Held, Typed
<1>5. Fresh({})
  BY DEF Fresh
<1>6. Leave(DOMAIN store, {}, {})
  BY <1>1, <1>2, <1>3, <1>4, <1>5 DEF Leave
<1>7. Away' \subseteq AllOutcomes
  BY <1>2 DEF Held, Typed, Places, StoreHolds
<1>8. Typed'
  BY <1>1, <1>7 DEF Held, Typed
<1>9. InHand' /\ OneHolder'
  BY <1>1 DEF Held, InHand, OneHolder
<1> QED BY <1>6, <1>8, <1>9 DEF Held

\* A client removes one outcome of those it chose before, or finds it gone or
\* of another kind and panics.
RemovesOne(c, i) ==
  /\ i \in DOMAIN store /\ store[i].kind \in Removed(call[c])
  /\ call' = [call EXCEPT ![c] = IF todo[c] = {i} THEN "idle" ELSE @]
  /\ todo' = [todo EXCEPT ![c] = @ \ {i}]
  /\ \/ /\ todo[c] # {i} /\ got' = [got EXCEPT ![c] = @ \cup {store[i]}]
        /\ UNCHANGED returned
     \/ /\ todo[c] = {i} /\ got' = [got EXCEPT ![c] = {}]
        /\ returned' = returned \cup got[c] \cup {store[i]}
  /\ UNCHANGED <<received, dropped>>

PanicsAt(c, i) ==
  /\ ~(i \in DOMAIN store /\ store[i].kind \in Removed(call[c]))
  /\ call' = [call EXCEPT ![c] = "panicked"] /\ todo' = [todo EXCEPT ![c] = {}]
  /\ got' = [got EXCEPT ![c] = {}]
  /\ dropped' = dropped \cup got[c] \cup {store[j] : j \in DOMAIN store \cap {i}}
  /\ UNCHANGED <<received, returned>>

LEMMA RemoveFacts ==
  ASSUME NEW c \in Clients, RemoveNext(c), Held
  PROVE  \E i \in todo[c] :
           /\ Intrude(c) /\ store' = Without(store, {i})
           /\ UNCHANGED <<gateVars, stage, active, queue, nextIndex, holds, historyVars>>
           /\ RemovesOne(c, i) \/ PanicsAt(c, i)
<1>1. PICK i \in todo[c] :
        LET removed == RemoveAs(store, i, Removed(call[c]))
        IN  /\ Intrude(c)
            /\ store' = Without(store, {i})
            /\ IF removed.panics \/ removed.value = {}
                 THEN /\ call' = [call EXCEPT ![c] = "panicked"]
                      /\ todo' = [todo EXCEPT ![c] = {}]
                      /\ got' = [got EXCEPT ![c] = {}]
                      /\ dropped' = dropped \cup got[c]
                                      \cup {store[j] : j \in DOMAIN store \cap {i}}
                      /\ UNCHANGED <<received, returned>>
                 ELSE LET all == got[c] \cup removed.value
                          last == todo[c] = {i}
                      IN  /\ call' = [call EXCEPT ![c] = IF last THEN "idle" ELSE @]
                          /\ todo' = [todo EXCEPT ![c] = @ \ {i}]
                          /\ got' = [got EXCEPT ![c] = IF last THEN {} ELSE all]
                          /\ returned' = IF last THEN returned \cup all ELSE returned
                          /\ UNCHANGED <<received, dropped>>
            /\ UNCHANGED <<gateVars, stage, active, queue, nextIndex, holds, historyVars>>
  BY DEF RemoveNext
<1> DEFINE removed == RemoveAs(store, i, Removed(call[c]))
<1>2. CASE i \in DOMAIN store /\ store[i].kind \in Removed(call[c])
  <2>1. removed = [panics |-> FALSE, value |-> {store[i]}]
    BY <1>2 DEF RemoveAs, Returns
  <2>2. removed.panics = FALSE /\ removed.value = {store[i]}
    BY <2>1
  <2>3. ~(removed.panics \/ removed.value = {})
    BY <2>2
  <2> HIDE DEF removed
  <2>4. RemovesOne(c, i)
    BY <1>1, <1>2, <2>2, <2>3 DEF RemovesOne, removed
  <2> QED BY <1>1, <2>4
<1>3. CASE ~(i \in DOMAIN store /\ store[i].kind \in Removed(call[c]))
  <2>1. removed.panics \/ removed.value = {}
    BY <1>3 DEF RemoveAs, Returns, Panics
  <2>2. PanicsAt(c, i)
    BY <1>1, <1>3, <2>1 DEF PanicsAt
  <2> QED BY <1>1, <2>2
<1> QED BY <1>2, <1>3

LEMMA RemoveMoves ==
  ASSUME Held, Places, NEW c \in Clients, RemoveNext(c)
  PROVE  Held' /\ \E I, R, N : Leave(I, R, N)
<1>1. PICK i \in todo[c] :
        /\ Intrude(c) /\ store' = Without(store, {i})
        /\ UNCHANGED <<gateVars, stage, active, queue, nextIndex, holds, historyVars>>
        /\ RemovesOne(c, i) \/ PanicsAt(c, i)
  BY RemoveFacts
<1> DEFINE I == DOMAIN store \cap {i}
           O == {store[j] : j \in I}
<1>2. call[c] \in Removing /\ intruded' \subseteq Clients
  BY <1>1 DEF Held, InHand, Typed, Intrude
<1>3. /\ \A d \in Clients : d # c => call'[d] = call[d] /\ todo'[d] = todo[d] /\ got'[d] = got[d]
      /\ call' \in [Clients -> Calls] /\ todo' \in [Clients -> SUBSET Nat]
      /\ got' = [got EXCEPT ![c] = got'[c]]
      /\ call'[c] \notin {"send"} /\ (call'[c] \notin Removing => todo'[c] = {} /\ got'[c] = {})
  <2>1. CASE RemovesOne(c, i)
    BY <1>2, <2>1 DEF Held, Typed, RemovesOne, Calls, Removing
  <2>2. CASE PanicsAt(c, i)
    BY <1>2, <2>2 DEF Held, Typed, PanicsAt, Calls, Removing
  <2> QED BY <1>1, <2>1, <2>2
<1>4. \/ /\ got'[c] = got[c] \cup O
         /\ UNCHANGED <<received, returned, dropped>>
      \/ /\ got'[c] = {}
         /\ \/ returned' = returned \cup got[c] \cup O /\ UNCHANGED <<received, dropped>>
            \/ dropped' = dropped \cup got[c] \cup O /\ UNCHANGED <<received, returned>>
  BY <1>1 DEF Held, Typed, RemovesOne, PanicsAt
<1> HIDE DEF O, I
<1>15. applied' = applied
  BY <1>1 DEF historyVars
<1>5. Away' = Away \cup O
  <2>1. ASSUME NEW o PROVE o \in Away' <=> o \in Away \/ o \in O
    <3>1. CASE o \in got[c] \/ o \in O
      BY <1>3, <1>4, <3>1 DEF Away
    <3>2. CASE ~(o \in got[c] \/ o \in O)
      BY <1>3, <1>4, <3>2 DEF Away
    <3> QED BY <3>1, <3>2
  <2> QED BY <2>1
<1>6. O \subseteq AllOutcomes
  BY DEF O, I, Places, StoreHolds
<1>7. got' \in [Clients -> SUBSET AllOutcomes]
  <2>1. got'[c] \in SUBSET AllOutcomes
    BY <1>4, <1>6 DEF Held, Typed
  <2> QED BY <1>3, <2>1 DEF Held, Typed
<1>8. store' = Without(store, I)
  BY <1>1 DEF Without, I
<1>9. Due' = Due
  BY <1>1 DEF Due
<1>10. nextIndex' = nextIndex + 0 /\ nextIndex \in Nat
  BY <1>1 DEF Held, Typed
<1>11. Leave(I, {}, {})
  <2>1. Fresh({})
    BY DEF Fresh
  <2>2. Away' = Away \cup {store[j] : j \in I \ {}}
    BY <1>5 DEF O
  <2>3. I \subseteq DOMAIN store
    BY DEF I
  <2> QED BY <1>8, <1>9, <1>10, <1>15, <2>1, <2>2, <2>3 DEF Leave
<1>12. Typed'
  <2>1. Away' \subseteq AllOutcomes
    BY <1>5, <1>6 DEF Held, Typed
  <2> QED BY <1>1, <1>2, <1>3, <1>7, <2>1 DEF Held, Typed
<1>13. InHand'
  <2>1. ASSUME NEW d \in Clients
        PROVE  /\ call'[d] # "send" => holds'[d] = <<>>
               /\ call'[d] \notin Removing => todo'[d] = {} /\ got'[d] = {}
    <3>1. CASE d = c
      BY <1>1, <1>2, <1>3, <3>1 DEF Held, InHand, Removing
    <3>2. CASE d # c
      BY <1>1, <1>3, <3>2 DEF Held, InHand
    <3> QED BY <3>1, <3>2
  <2> QED BY <1>1, <2>1 DEF Held, InHand
<1>14. OneHolder'
  BY <1>1 DEF Held, OneHolder
<1> QED BY <1>11, <1>12, <1>13, <1>14 DEF Held

\* A hive that has nothing to do is rebuilt; its indices start from 0 again.
LEMMA RebuildMoves ==
  ASSUME Held, Places, NEW c \in Clients, NEW dest \in {"store", "send"}, Rebuild(c, dest)
  PROVE  Held' /\ \E I, R, N : Leave(I, R, N)
<1>1. PICK taken \in InSomeOrder(store, Unprocessed) :
        /\ holds' = [holds EXCEPT ![c] = Prepared(taken, 0, dest)]
        /\ nextIndex' = Len(taken)
        /\ call' = [call EXCEPT ![c] = IF taken = <<>> THEN "idle" ELSE "send"]
  BY DEF Rebuild
<1>2. PICK R : R = Indices(store, Unprocessed)
  OBVIOUS
<1>3. PICK ts : ts = Prepared(taken, 0, dest)
  OBVIOUS
<1> DEFINE N == Range(ts)
           I == DOMAIN store
<1>4. /\ call[c] = "idle" /\ \A d \in Clients \ {c} : call[d] \in {"gone", "panicked"}
      /\ queue = <<>> /\ \A t \in Threads : stage[t] = "poll"
      /\ dropped' = dropped \cup {store[i] : i \in I \ R}
      /\ store' = NoOutcomes /\ stage' = [t \in Threads |-> "gate"]
      /\ UNCHANGED <<active, queue, todo, got, intruded, received, returned, applied>>
  BY <1>2 DEF Rebuild, Idle, historyVars
<1>5. Batched(ts, R, 0, Len(taken)) /\ (Len(taken) = 0 <=> taken = <<>>)
  BY <1>2, <1>3, PreparedFacts DEF Held
<1>6. /\ ts \in Seq(AllTasks) /\ Len(taken) \in Nat
      /\ taken = <<>> <=> ts = <<>>
      /\ IsInjective(ts)
      /\ \A a, b \in N : a.of = b.of \/ a.index = b.index => a = b
      /\ \A a \in N : a.index \in 0 .. 0 + Len(taken) - 1
      /\ \A i \in R : store[i].kind = "Unprocessed" /\ \E a \in N : a.of = store[i].of
      /\ \A a \in N : \E i \in R : a.of = store[i].of
  BY <1>5 DEF Batched
<1>7. R \subseteq I
  BY <1>2 DEF Indices
<1>8. holds' = [holds EXCEPT ![c] = ts]
  BY <1>1, <1>3
<1>9. N \subseteq AllTasks
  BY <1>6, RangeOfSeq
<1>10. \A d \in Clients : holds[d] = <<>>
  BY <1>4 DEF Held, InHand
<1>11. \A t \in Threads : active[t] = {}
  BY <1>4 DEF Held, InHand
<1>12. Range(<<>>) = {} /\ IsInjective(<<>>)
  BY DEF Range, IsInjective
<1>13. /\ holds'[c] = ts /\ \A d \in Clients : d # c => holds'[d] = <<>>
       /\ holds' \in [Clients -> Seq(AllTasks)]
  BY <1>6, <1>8, <1>10 DEF Held, Typed
<1>14. Due = {} /\ Due' = N
  BY <1>4, <1>9, <1>10, <1>11, <1>12, <1>13 DEF Due
<1>15. Away' = Away \cup {store[i] : i \in I \ R}
  BY <1>4 DEF Away
<1>16. nextIndex' \in Nat /\ \A a \in N : a.index < nextIndex'
  BY <1>1, <1>6
<1>17. Fresh(N)
  BY <1>6, <1>9, <1>16 DEF Fresh
<1>18. store' = Without(store, I)
  BY <1>4 DEF Without, NoOutcomes
<1>19. Leave(I, R, N)
  BY <1>4, <1>6, <1>7, <1>14, <1>15, <1>16, <1>17, <1>18 DEF Leave
<1>20. Typed'
  <2>1. Away' \subseteq AllOutcomes
    BY <1>15 DEF Held, Typed, Places, StoreHolds
  <2>2. call' \in [Clients -> Calls]
    BY <1>1 DEF Held, Typed, Calls
  <2> QED BY <1>4, <1>13, <1>16, <2>1, <2>2 DEF Held, Typed
<1>21. InHand'
  BY <1>1, <1>4, <1>6, <1>11, <1>13 DEF Held, Typed, InHand, Removing
<1>22. OneHolder'
  BY <1>4, <1>6, <1>11, <1>12, <1>13 DEF Held, OneHolder
<1> QED BY <1>19, <1>20, <1>21, <1>22 DEF Held

-----------------------------------------------------------------------------
\* Every step moves inputs in one of these ways.
Moves ==
  \/ NothingMoves
  \/ \E a : Enters(a)
  \/ \E a, o : Ends(a, o)
  \/ \E I, R, N : Leave(I, R, N)

LEMMA MovesPlaces == Typed /\ Places /\ Moves => Places'
BY NothingMovesPlaces, EntersPlaces, EndsPlaces, LeavePlaces DEF Moves

LEMMA StepMoves == Held /\ Places /\ [ResubmitNext]_resubmitVars => Held' /\ Places' /\ Moves
<1> SUFFICES ASSUME Held, Places, [ResubmitNext]_resubmitVars PROVE Held' /\ Moves
  BY MovesPlaces DEF Held
<1>1. CASE UNCHANGED resubmitVars
  <2>1. UNCHANGED <<stage, active, queue, holds, got, outVars, store, nextIndex, call, todo,
                    intruded, applied>>
    BY <1>1 DEF resubmitVars, clientVars, historyVars
  <2>2. OneHolder' /\ NothingMoves
    BY <2>1, HandsFull DEF Held
  <2>3. Typed'
    BY <2>1, <2>2 DEF Held, Typed, NothingMoves
  <2>4. InHand'
    BY <2>1 DEF Held, InHand
  <2> QED BY <2>2, <2>3, <2>4 DEF Held, Moves
<1>2. ASSUME NEW t \in Threads, Scheduled(t) \/ IsCancelled(t) PROVE Held' /\ Moves
  <2>1. CASE Enter(t) \/ PassGate(t) \/ RecvTimeout(t) \/ IsCancelled(t)
    BY <2>1, WorkerStandsStill DEF Moves
  <2>2. CASE Receive(t)
    BY <2>2, ReceiveMoves DEF Moves
  <2>3. CASE Complete(t)
    BY <2>3, EndMoves DEF Complete, Moves
  <2>4. CASE Cancel(t)
    BY <2>4, EndMoves DEF Cancel, Moves
  <2> QED BY <1>2, <2>1, <2>2, <2>3, <2>4 DEF Scheduled
<1>3. ASSUME NEW c \in Clients, FollowUp(c) PROVE Held' /\ Moves
  <2>1. CASE OpenGate(c)
    BY <2>1, ClientStandsStill DEF Moves
  <2>2. CASE TakeUnprocessed(c)
    BY <2>2, TakeUnprocessedMoves DEF Moves
  <2>3. CASE SendNext(c)
    BY <2>3, SendMoves DEF Moves
  <2>4. CASE RemoveNext(c)
    BY <2>4, RemoveMoves DEF Moves
  <2> QED BY <1>3, <2>1, <2>2, <2>3, <2>4 DEF FollowUp
<1>4. ASSUME NEW c \in Clients, StartCall(c) PROVE Held' /\ Moves
  <2>1. ASSUME NEW x \in Payloads, NEW dest \in Destinations, Apply(c, x, dest)
        PROVE  Held' /\ Moves
    BY <2>1, ApplyMoves DEF Moves
  <2>2. ASSUME NEW how, Suspend(c) \/ Resume(c, how) \/ RemoveAll(c, how) \/ Drop(c)
        PROVE  Held' /\ Moves
    BY <2>2, ClientStandsStill DEF Moves
  <2>3. CASE TakeStored(c)
    BY <2>3, TakeStoredMoves DEF Moves
  <2>4. ASSUME NEW dest \in {"store", "send"}, Rebuild(c, dest) PROVE Held' /\ Moves
    BY <2>4, RebuildMoves DEF Moves
  <2> QED BY <1>4, <2>1, <2>2, <2>3, <2>4 DEF StartCall
<1> QED BY <1>1, <1>2, <1>3, <1>4 DEF ResubmitNext

LEMMA AlwaysPlaces == ResubmitSpec => [](Held /\ Places)
<1>1. ResubmitInit => Held /\ Places
  BY InitPlaces DEF Held
<1> QED BY <1>1, StepMoves, PTL DEF ResubmitSpec

-----------------------------------------------------------------------------
\* A set of which any two elements are one.
LEMMA AtMostOne ==
  ASSUME NEW S, \A a, b \in S : a = b
  PROVE  Cardinality(S) = IF S = {} THEN 0 ELSE 1
<1>1. CASE S = {}
  BY <1>1, FS_EmptySet
<1>2. CASE S # {}
  <2>1. PICK a \in S : S = {a}
    BY <1>2
  <2> QED BY <1>2, <2>1, FS_Singleton
<1> QED BY <1>1, <1>2

LEMMA PlacesConserve == Held /\ Places => InputsConserved
<1> SUFFICES ASSUME Held, Places, NEW x \in Payloads
             PROVE  Cardinality({k \in DOMAIN queue : queue[k].of = x})
                    + Cardinality({t \in Threads : x \in {task.of : task \in active[t]}})
                    + Cardinality(UNION {{c} \X {k \in DOMAIN holds[c] : holds[c][k].of = x} :
                                           c \in Clients})
                    + Cardinality(OutcomesOf(x))
                      = IF x \in applied THEN 1 ELSE 0
  BY DEF InputsConserved
<1> DEFINE Q == {k \in DOMAIN queue : queue[k].of = x}
           T == {t \in Threads : x \in {task.of : task \in active[t]}}
           H == UNION {{c} \X {k \in DOMAIN holds[c] : holds[c][k].of = x} : c \in Clients}
           O == OutcomesOf(x)
<1>1. /\ Range(queue) \subseteq AllTasks
      /\ \A c \in Clients : Range(holds[c]) \subseteq AllTasks
      /\ \A t \in Threads : active[t] \subseteq AllTasks
  BY RangeOfSeq DEF Held, Typed
<1>2. \A k \in Q : queue[k] \in Range(queue) /\ queue[k] \in Due /\ queue[k].of = x
  BY <1>1 DEF Due, Range
<1>3. \A t \in T : \E a \in active[t] : a \in Due /\ a.of = x
  BY <1>1 DEF Due
<1>4. \A p \in H : /\ p[1] \in Clients /\ p[2] \in DOMAIN holds[p[1]] /\ p = <<p[1], p[2]>>
                   /\ holds[p[1]][p[2]] \in Range(holds[p[1]])
                   /\ holds[p[1]][p[2]] \in Due /\ holds[p[1]][p[2]].of = x
  BY <1>1 DEF Due, Range
<1>5. \A o \in O : o.of = x /\ (o \in Away \/ \E i \in DOMAIN store : o = store[i])
  BY DEF OutcomesOf, Away, Range
<1>6. \A a, b \in Due : a.of = x /\ b.of = x => a = b
  BY DEF Places, TasksDiffer
<1>7. \A j, k \in Q : j = k
  BY <1>2, <1>6 DEF Held, OneHolder, IsInjective
<1>8. \A t, u \in T : t = u
  BY <1>3, <1>6 DEF Held, OneHolder
<1>9. \A p, q \in H : p = q
  <2> SUFFICES ASSUME NEW p \in H, NEW q \in H PROVE p = q
    OBVIOUS
  <2>1. p[1] = q[1]
    BY <1>4, <1>6 DEF Held, OneHolder
  <2>2. p[2] = q[2]
    BY <1>4, <1>6, <2>1 DEF Held, OneHolder, IsInjective
  <2> QED BY <1>4, <2>1, <2>2
<1>10. \A o, p \in O : o = p
  BY <1>5 DEF Places, Apart, StoreHolds
<1>11. /\ (Q # {} \/ T # {} \/ H # {} => \E a \in Due : a.of = x)
       /\ ((\E a \in Due : a.of = x) => O = {})
  BY <1>2, <1>3, <1>4, <1>5 DEF Places, Apart
<1>12. ~(Q # {} /\ T # {})
  BY <1>2, <1>3, <1>6 DEF Held, OneHolder
<1>13. ~(Q # {} /\ H # {})
  BY <1>2, <1>4, <1>6 DEF Held, OneHolder
<1>14. ~(T # {} /\ H # {})
  BY <1>3, <1>4, <1>6 DEF Held, OneHolder
<1>17. (Q # {} \/ T # {} \/ H # {} \/ O # {}) <=> x \in applied
  <2>1. ASSUME NEW a \in Due, a.of = x PROVE Q # {} \/ T # {} \/ H # {}
    <3>1. CASE a \in Range(queue)
      BY <2>1, <3>1 DEF Range
    <3>2. CASE \E t \in Threads : a \in active[t]
      BY <2>1, <3>2
    <3>3. ASSUME NEW c \in Clients, a \in Range(holds[c]) PROVE H # {}
      <4>1. PICK k \in DOMAIN holds[c] : holds[c][k] = a
        BY <3>3 DEF Range
      <4>2. <<c, k>> \in {c} \X {j \in DOMAIN holds[c] : holds[c][j].of = x}
        BY <2>1, <4>1
      <4> QED BY <4>2
    <3> QED BY <3>1, <3>2, <3>3 DEF Due
  <2>2. O # {} <=> (\E i \in DOMAIN store : store[i].of = x) \/ \E o \in Away : o.of = x
    BY DEF OutcomesOf, Away, Range
  <2>3. (\E a \in Due : a.of = x) <=> Q # {} \/ T # {} \/ H # {}
    BY <1>11, <2>1
  <2> QED BY <2>2, <2>3 DEF Places, Accounted
<1> HIDE DEF Q, T, H, O
<1>15. /\ Cardinality(Q) = IF Q = {} THEN 0 ELSE 1
       /\ Cardinality(T) = IF T = {} THEN 0 ELSE 1
       /\ Cardinality(H) = IF H = {} THEN 0 ELSE 1
       /\ Cardinality(O) = IF O = {} THEN 0 ELSE 1
  BY <1>7, <1>8, <1>9, <1>10, AtMostOne
<1>16. Cardinality(Q) + Cardinality(T) + Cardinality(H) + Cardinality(O)
         = IF x \in applied THEN 1 ELSE 0
  BY <1>11, <1>12, <1>13, <1>14, <1>15, <1>17
<1> QED BY <1>16 DEF Q, T, H, O

(***************************************************************************)
(* An input that was submitted is in exactly one task or one outcome,      *)
(* wherever that is: it is never submitted twice, and its outcome is never *)
(* overwritten or lost on the way.                                         *)
(***************************************************************************)
THEOREM InputsStayConserved == ResubmitSpec => []InputsConserved
BY AlwaysPlaces, PlacesConserve, PTL

-----------------------------------------------------------------------------
\* A step of a worker takes nothing from the store and overwrites nothing.
LEMMA StoreGrows ==
  ASSUME Held, Places, NEW t \in Threads, Scheduled(t) \/ IsCancelled(t)
  PROVE  /\ \A i \in DOMAIN store : i \in DOMAIN store' /\ store'[i] = store[i]
         /\ UNCHANGED clientVars
<1>1. CASE Complete(t) \/ Cancel(t)
  <2>1. PICK behaviour \in {"ok", "cancelled"} :
          stage[t] \in {"work", "cancelled"} /\ EndTask(t, Result(RefWorker, behaviour))
    BY <1>1 DEF Complete, Cancel
  <2>2. PICK a, o : Ends(a, o)
    BY <2>1, EndMoves
  <2>3. o.index \notin DOMAIN store
    BY <2>2 DEF Ends, Places, Apart
  <2>4. \A i \in DOMAIN store : i \in DOMAIN store' /\ store'[i] = store[i]
    BY <2>2, <2>3 DEF Ends, Insert
  <2> QED BY <2>1, <2>4 DEF EndTask
<1>2. CASE ~(Complete(t) \/ Cancel(t))
  BY <1>2 DEF Scheduled, Enter, PassGate, Receive, RecvTimeout, IsCancelled
<1> QED BY <1>1, <1>2

LEMMA StepKeepsRemovals ==
  Held /\ Places /\ RemovalUndisturbed /\ [ResubmitNext]_resubmitVars => RemovalUndisturbed'
<1> SUFFICES ASSUME Held, Places, RemovalUndisturbed, [ResubmitNext]_resubmitVars,
                    NEW d \in Clients, d \notin intruded'
             PROVE  /\ call'[d] # "panicked"
                    /\ \A i \in todo'[d] :
                         i \in DOMAIN store' /\ store'[i].kind \in Removed(call'[d])
  BY DEF RemovalUndisturbed
<1> DEFINE Goal == /\ call'[d] # "panicked"
                   /\ \A i \in todo'[d] :
                        i \in DOMAIN store' /\ store'[i].kind \in Removed(call'[d])
<1>1. d \notin intruded =>
        /\ call[d] # "panicked"
        /\ \A i \in todo[d] : i \in DOMAIN store /\ store[i].kind \in Removed(call[d])
  BY DEF RemovalUndisturbed
<1>2. call[d] \notin Removing => todo[d] = {}
  BY DEF Held, InHand
<1>3. CASE UNCHANGED resubmitVars
  BY <1>1, <1>3 DEF resubmitVars, clientVars
<1>4. ASSUME NEW t \in Threads, Scheduled(t) \/ IsCancelled(t) PROVE Goal
  BY <1>1, <1>4, StoreGrows DEF clientVars
<1>5. ASSUME NEW c \in Clients, Intrude(c), todo' = todo, call[c] \notin Removing,
             \A e \in Clients \ {c} : call'[e] = call[e], call[c] # "panicked" => call'[c] # "panicked"
      PROVE  Goal
  <2>1. d \notin intruded /\ (d # c => call[d] \notin Removing)
    BY <1>5 DEF Intrude, Removing
  <2>2. todo'[d] = {}
    BY <1>2, <1>5, <2>1
  <2> QED BY <1>1, <1>5, <2>1, <2>2
<1>6. ASSUME NEW c \in Clients, RemoveNext(c) PROVE Goal
  <2>1. PICK i \in todo[c] :
          /\ Intrude(c) /\ store' = Without(store, {i})
          /\ RemovesOne(c, i) \/ PanicsAt(c, i)
    BY <1>6, RemoveFacts
  <2>2. d \notin intruded /\ (d # c => call[d] \notin Removing)
    BY <2>1 DEF Intrude, Removing
  <2>3. CASE d # c
    BY <1>1, <1>2, <2>1, <2>2, <2>3 DEF RemovesOne, PanicsAt, Held, Typed
  <2>4. CASE d = c
    <3>1. RemovesOne(c, i)
      BY <1>1, <2>1, <2>2, <2>4 DEF PanicsAt
    <3>2. todo'[d] = todo[d] \ {i} /\ call[d] \in Removing
      BY <1>2, <2>1, <2>4, <3>1 DEF RemovesOne, Held, Typed
    <3>3. /\ call'[d] # "panicked"
          /\ todo[d] # {i} => call'[d] = call[d]
      BY <2>4, <3>1, <3>2 DEF RemovesOne, Held, Typed, Removing
    <3>4. \A j \in todo[d] \ {i} : j \in DOMAIN store' /\ store'[j] = store[j]
      BY <1>1, <2>1, <2>2 DEF Without
    <3> QED BY <1>1, <2>2, <3>2, <3>3, <3>4
  <2> QED BY <2>3, <2>4
<1>7. ASSUME NEW c \in Clients, FollowUp(c) PROVE Goal
  <2>1. CASE OpenGate(c)
    BY <1>1, <1>2, <2>1 DEF OpenGate, Held, Typed, Removing
  <2>2. CASE TakeUnprocessed(c)
    <3>1. /\ Intrude(c) /\ todo' = todo /\ call[c] \notin Removing
          /\ \A e \in Clients \ {c} : call'[e] = call[e]
          /\ call'[c] # "panicked"
      BY <2>2 DEF TakeUnprocessed, Held, Typed, Removing
    <3> QED BY <1>5, <3>1
  <2>3. CASE SendNext(c)
    BY <1>1, <1>2, <2>3 DEF SendNext, Held, Typed, InHand, Removing
  <2> QED BY <1>6, <1>7, <2>1, <2>2, <2>3 DEF FollowUp
<1>8. ASSUME NEW c \in Clients, StartCall(c) PROVE Goal
  <2>1. CASE TakeStored(c)
    <3>1. /\ Intrude(c) /\ todo' = todo /\ call' = call /\ call[c] = "idle"
      BY <2>1 DEF TakeStored, Idle
    <3> QED BY <1>5, <3>1 DEF Removing
  <2>2. ASSUME NEW dest \in {"store", "send"}, Rebuild(c, dest) PROVE Goal
    <3>1. /\ todo' = todo /\ intruded' = intruded /\ call[c] = "idle"
          /\ \A e \in Clients \ {c} : call[e] \in {"gone", "panicked"} /\ call'[e] = call[e]
          /\ call'[c] # "panicked"
      BY <2>2 DEF Rebuild, Idle, Held, Typed
    <3>2. call[d] \notin Removing
      BY <3>1 DEF Removing
    <3> QED BY <1>1, <1>2, <3>1, <3>2
  <2>3. ASSUME NEW how \in Does[c], RemoveAll(c, how) PROVE Goal
    <3>1. /\ todo' = [todo EXCEPT ![c] = Indices(store, Removed(how))]
          /\ call' = [call EXCEPT ![c] = how] /\ how # "panicked"
          /\ store' = store /\ intruded' = intruded
      BY <2>3 DEF RemoveAll
    <3>2. CASE d = c
      BY <3>1, <3>2 DEF Held, Typed, Indices
    <3>3. CASE d # c
      BY <1>1, <3>1, <3>3 DEF Held, Typed
    <3> QED BY <3>2, <3>3
  <2>4. ASSUME NEW how \in Does[c], Resume(c, how) PROVE Goal
    BY <1>1, <1>2, <2>4 DEF Resume, Idle, Held, Typed, Removing
  <2>5. CASE Drop(c)
    BY <1>1, <1>2, <2>5 DEF Drop, Idle, Held, Typed, Removing
  <2>6. ASSUME NEW x \in Payloads, NEW dest \in Destinations, Apply(c, x, dest) PROVE Goal
    BY <1>1, <2>6 DEF Apply, clientVars
  <2>7. CASE Suspend(c)
    BY <1>1, <2>7 DEF Suspend, clientVars
  <2> QED BY <1>8, <2>1, <2>2, <2>3, <2>4, <2>5, <2>6, <2>7 DEF StartCall
<1> QED BY <1>3, <1>4, <1>7, <1>8 DEF ResubmitNext

(***************************************************************************)
(* A client that removes outcomes panics only if another one took outcomes *)
(* meanwhile: neither the end of a task nor a task that reuses an index    *)
(* takes from it what it is about to remove.                               *)
(***************************************************************************)
THEOREM RemovalsStayUndisturbed == ResubmitSpec => []RemovalUndisturbed
<1>1. ResubmitInit => RemovalUndisturbed
  BY DEF ResubmitInit, RemovalUndisturbed
<1> QED BY <1>1, AlwaysPlaces, StepKeepsRemovals, PTL DEF ResubmitSpec

-----------------------------------------------------------------------------
(***************************************************************************)
(* The life of an input.                                                   *)
(***************************************************************************)
IsDue(x) == \E a \in Due : a.of = x
IsStored(x, kind) == \E i \in DOMAIN store : store[i].of = x /\ store[i].kind = kind
IsAway(x) == \E o \in Away : o.of = x

LifeFacts ==
  \A x \in Payloads :
    /\ (LifeOf(x) = "due") <=> IsDue(x)
    /\ (LifeOf(x) = "undone") <=> IsStored(x, "Unprocessed")
    /\ (LifeOf(x) = "processed") <=> IsStored(x, "Success")
    /\ (LifeOf(x) = "left") <=> IsAway(x)
    /\ LifeOf(x) \in {"due", "undone", "processed", "left", "new"}

LEMMA PlacesLife == Held /\ Places => LifeFacts
<1> SUFFICES ASSUME Held, Places, NEW x \in Payloads
             PROVE  /\ (LifeOf(x) = "due") <=> IsDue(x)
                    /\ (LifeOf(x) = "undone") <=> IsStored(x, "Unprocessed")
                    /\ (LifeOf(x) = "processed") <=> IsStored(x, "Success")
                    /\ (LifeOf(x) = "left") <=> IsAway(x)
                    /\ LifeOf(x) \in {"due", "undone", "processed", "left", "new"}
  BY DEF LifeFacts
<1>1. /\ InUse(x) <=> IsDue(x)
      /\ Known(x) <=> IsDue(x) \/ (\E i \in DOMAIN store : store[i].of = x) \/ IsAway(x)
  BY UseFacts DEF Held, IsDue, IsAway
<1>2. /\ (\E o \in Range(store) : o.of = x /\ IsUnprocessed(o)) <=> IsStored(x, "Unprocessed")
      /\ (\E o \in Range(store) : o.of = x /\ IsSuccess(o)) <=> IsStored(x, "Success")
  BY DEF Range, IsStored, IsUnprocessed, IsSuccess, Unprocessed, Success
<1>3. (\E i \in DOMAIN store : store[i].of = x)
        <=> IsStored(x, "Unprocessed") \/ IsStored(x, "Success")
  BY DEF IsStored, Places, StoreHolds, AllOutcomes
<1>4. /\ IsDue(x) => ~IsStored(x, "Unprocessed") /\ ~IsStored(x, "Success") /\ ~IsAway(x)
      /\ IsAway(x) => ~IsStored(x, "Unprocessed") /\ ~IsStored(x, "Success")
      /\ ~(IsStored(x, "Unprocessed") /\ IsStored(x, "Success"))
  BY DEF IsDue, IsStored, IsAway, Places, Apart, StoreHolds
<1> QED BY <1>1, <1>2, <1>3, <1>4 DEF LifeOf

\* What no move of an input touches has the same life afterwards.
LEMMA SameLife ==
  ASSUME LifeFacts, LifeFacts', NEW x \in Payloads,
         IsDue(x)' <=> IsDue(x), IsAway(x)' <=> IsAway(x),
         IsStored(x, "Unprocessed")' <=> IsStored(x, "Unprocessed"),
         IsStored(x, "Success")' <=> IsStored(x, "Success")
  PROVE  LifeOf(x)' = LifeOf(x)
BY DEF LifeFacts

\* What Resubmit takes for the variable of InputLife.
lives == [x \in Payloads |-> LifeOf(x)]

LEMMA EntersLife ==
  ASSUME Held, Places, LifeFacts, LifeFacts', NEW a, Enters(a)
  PROVE  Life!Submit(a.of)
<1>1. /\ a.of \in Payloads /\ Due' = Due \cup {a} /\ UNCHANGED <<Away, store>>
      /\ ~Known(a.of)
  BY DEF Enters, AllTasks
<1>2. /\ ~IsDue(a.of) /\ ~IsAway(a.of)
      /\ ~IsStored(a.of, "Unprocessed") /\ ~IsStored(a.of, "Success")
  BY <1>1, UseFacts DEF Held, IsDue, IsAway, IsStored
<1>3. LifeOf(a.of) = "new"
  BY <1>1, <1>2 DEF LifeFacts
<1>4. LifeOf(a.of)' = "due"
  BY <1>1 DEF LifeFacts, IsDue
<1>5. ASSUME NEW x \in Payloads, x # a.of PROVE LifeOf(x)' = LifeOf(x)
  <2>1. /\ IsDue(x)' <=> IsDue(x)
        /\ IsAway(x)' <=> IsAway(x)
        /\ IsStored(x, "Unprocessed")' <=> IsStored(x, "Unprocessed")
        /\ IsStored(x, "Success")' <=> IsStored(x, "Success")
    BY <1>1, <1>5 DEF IsDue, IsAway, IsStored
  <2> QED BY <2>1, SameLife
<1> QED BY <1>1, <1>3, <1>4, <1>5 DEF Life!Submit, Life!Become

LEMMA EndsLife ==
  ASSUME Held, Places, LifeFacts, LifeFacts', NEW a, NEW o, Ends(a, o)
  PROVE  Life!Process(a.of) \/ Life!Interrupt(a.of) \/ Life!Deliver(a.of)
<1>1. /\ a.of \in Payloads /\ a \in Due /\ Due' = Due \ {a} /\ o.of = a.of
      /\ o.kind \in {"Success", "Unprocessed"} /\ o.index = a.index
      /\ a.index \notin DOMAIN store
      /\ \/ store' = Insert(store, o) /\ Away' = Away
         \/ store' = store /\ Away' = Away \cup {o}
  BY DEF Ends, Due, AllTasks, AllOutcomes, Places, Apart
<1>2. LifeOf(a.of) = "due"
  BY <1>1 DEF LifeFacts, IsDue
<1>3. CASE store' = Insert(store, o) /\ Away' = Away
  <2>1. /\ DOMAIN store' = DOMAIN store \cup {a.index} /\ store'[a.index] = o
        /\ \A i \in DOMAIN store : store'[i] = store[i]
    BY <1>1, <1>3 DEF Insert
  <2>2. IsStored(a.of, o.kind)'
    BY <1>1, <2>1 DEF IsStored
  <2>3. \/ o.kind = "Success" /\ LifeOf(a.of)' = "processed"
        \/ o.kind = "Unprocessed" /\ LifeOf(a.of)' = "undone"
    BY <1>1, <2>2 DEF LifeFacts
  <2>4. ASSUME NEW x \in Payloads, x # a.of PROVE LifeOf(x)' = LifeOf(x)
    <3>1. /\ IsDue(x)' <=> IsDue(x)
          /\ IsAway(x)' <=> IsAway(x)
          /\ IsStored(x, "Unprocessed")' <=> IsStored(x, "Unprocessed")
          /\ IsStored(x, "Success")' <=> IsStored(x, "Success")
      BY <1>1, <1>3, <2>1, <2>4 DEF IsDue, IsAway, IsStored
    <3> QED BY <3>1, SameLife
  <2> QED BY <1>1, <1>2, <2>3, <2>4 DEF Life!Process, Life!Interrupt, Life!Become
<1>4. CASE store' = store /\ Away' = Away \cup {o}
  <2>1. LifeOf(a.of)' = "left"
    BY <1>1, <1>4 DEF LifeFacts, IsAway
  <2>2. ASSUME NEW x \in Payloads, x # a.of PROVE LifeOf(x)' = LifeOf(x)
    <3>1. /\ IsDue(x)' <=> IsDue(x)
          /\ IsAway(x)' <=> IsAway(x)
          /\ IsStored(x, "Unprocessed")' <=> IsStored(x, "Unprocessed")
          /\ IsStored(x, "Success")' <=> IsStored(x, "Success")
      BY <1>1, <1>4, <2>2 DEF IsDue, IsAway, IsStored
    <3> QED BY <3>1, SameLife
  <2> QED BY <1>1, <1>2, <2>1, <2>2 DEF Life!Deliver, Life!Become
<1> QED BY <1>1, <1>3, <1>4

LEMMA LeaveLife ==
  ASSUME Held, Places, LifeFacts, LifeFacts', NEW I, NEW R, NEW N, Leave(I, R, N)
  PROVE  Life!Take
<1>1. /\ I \subseteq DOMAIN store /\ R \subseteq I
      /\ DOMAIN store' = DOMAIN store \ I /\ \A i \in DOMAIN store' : store'[i] = store[i]
      /\ Away' = Away \cup {store[i] : i \in I \ R} /\ Due' = Due \cup N
      /\ \A i \in R : store[i].kind = "Unprocessed" /\ \E a \in N : a.of = store[i].of
      /\ \A a \in N : \E i \in R : a.of = store[i].of
  BY DEF Leave, Without
<1>2. \A i, j \in DOMAIN store : store[i].of = store[j].of => i = j
  BY DEF Places, StoreHolds
<1>3. ASSUME NEW x \in Payloads
      PROVE  \/ LifeOf(x)' = LifeOf(x)
             \/ LifeOf(x) = "undone" /\ LifeOf(x)' = "due"
             \/ LifeOf(x) \in {"undone", "processed"} /\ LifeOf(x)' = "left"
  <2>1. CASE \E i \in R : store[i].of = x
    <3>1. IsStored(x, "Unprocessed") /\ IsDue(x)'
      BY <1>1, <2>1 DEF IsStored, IsDue
    <3> QED BY <3>1 DEF LifeFacts
  <2>2. CASE \E i \in I \ R : store[i].of = x
    <3>1. IsStored(x, "Unprocessed") \/ IsStored(x, "Success")
      BY <1>1, <2>2 DEF IsStored, Places, StoreHolds, AllOutcomes
    <3>2. IsAway(x)'
      BY <1>1, <2>2 DEF IsAway
    <3> QED BY <3>1, <3>2 DEF LifeFacts
  <2>3. CASE \A i \in I : store[i].of # x
    <3>1. /\ IsDue(x)' <=> IsDue(x)
          /\ IsAway(x)' <=> IsAway(x)
      BY <1>1, <2>3 DEF IsDue, IsAway
    <3>2. /\ IsStored(x, "Unprocessed")' <=> IsStored(x, "Unprocessed")
          /\ IsStored(x, "Success")' <=> IsStored(x, "Success")
      BY <1>1, <2>3 DEF IsStored
    <3> QED BY <3>1, <3>2, SameLife
  <2> QED BY <2>1, <2>2, <2>3
<1> QED BY <1>3 DEF Life!Take

LEMMA StepOfLife ==
  Held /\ Places /\ LifeFacts /\ LifeFacts' /\ [ResubmitNext]_resubmitVars => [Life!Next]_lives
<1> SUFFICES ASSUME Held, Places, LifeFacts, LifeFacts', Moves PROVE [Life!Next]_lives
  BY StepMoves
<1>1. CASE NothingMoves
  <2>1. ASSUME NEW x \in Payloads PROVE LifeOf(x)' = LifeOf(x)
    <3>1. /\ IsDue(x)' <=> IsDue(x)
          /\ IsAway(x)' <=> IsAway(x)
          /\ IsStored(x, "Unprocessed")' <=> IsStored(x, "Unprocessed")
          /\ IsStored(x, "Success")' <=> IsStored(x, "Success")
      BY <1>1 DEF NothingMoves, IsDue, IsAway, IsStored
    <3> QED BY <3>1, SameLife
  <2> QED BY <2>1 DEF lives
<1>2. ASSUME NEW a, Enters(a) PROVE Life!Next
  <2>1. a.of \in Payloads
    BY <1>2 DEF Enters, AllTasks
  <2> QED BY <1>2, <2>1, EntersLife DEF Life!Next
<1>3. ASSUME NEW a, NEW o, Ends(a, o) PROVE Life!Next
  <2>1. a.of \in Payloads
    BY <1>3 DEF Ends, Due, AllTasks
  <2> QED BY <1>3, <2>1, EndsLife DEF Life!Next
<1>4. ASSUME NEW I, NEW R, NEW N, Leave(I, R, N) PROVE Life!Next
  BY <1>4, LeaveLife DEF Life!Next
<1> QED BY <1>1, <1>2, <1>3, <1>4 DEF Moves

(***************************************************************************)
(* The hive implements InputLife: an input that was submitted is processed *)
(* at most once and never lost; one that was interrupted can become due    *)
(* again, as often as the hive is suspended and resumed or rebuilt.        *)
(***************************************************************************)
THEOREM ImplementsLife == ResubmitSpec => ImplementsInputLife
<1>1. ResubmitInit => Life!Init
  <2> SUFFICES ASSUME ResubmitInit PROVE Life!Init
    OBVIOUS
  <2>1. Held /\ Places /\ Due = {} /\ Away = {} /\ DOMAIN store = {}
    <3>1. Range(<<>>) = {} /\ DOMAIN <<>> = {}
      BY DEF Range
    <3> QED BY <3>1, InitPlaces DEF ResubmitInit, NoOutcomes, Held, Due, Away
  <2>2. LifeFacts
    BY <2>1, PlacesLife
  <2>3. \A x \in Payloads : LifeOf(x) = "new"
    BY <2>1, <2>2 DEF LifeFacts, IsDue, IsAway, IsStored
  <2> QED BY <2>3 DEF Life!Init
<1>2. ResubmitSpec => [](Held /\ Places /\ LifeFacts)
  BY AlwaysPlaces, PlacesLife, PTL
<1> QED BY <1>1, <1>2, StepOfLife, PTL DEF ResubmitSpec, ImplementsInputLife, Life!Spec, lives
===============================================================================
