---------------------------- MODULE RetryHiveProofs ----------------------------
(***************************************************************************)
(* Proofs about RetryHive, for any number of workers, handles and tasks,   *)
(* any retry limits, delays and widths.                                    *)
(*                                                                         *)
(* The labels of the retry build are more than the hive's, and its         *)
(* receiver's lock has other owners, so the inductive invariant of Hive    *)
(* does not hold of it: types, places of the tasks and counters are proved *)
(* anew, with the retry queue as one more place (RetryLocated). A worker   *)
(* that has pushed its task and not yet finished still has it in its       *)
(* variable; its hands are empty all the same (Hands). The lemmas about    *)
(* single tasks, and where the pool starts, are those of HiveEndProofs.    *)
(*                                                                         *)
(* NextRetryCoversQueue speaks of a free lock. The invariant behind it     *)
(* (Covered) says what is true while the lock is held: after a pop nothing *)
(* need be covered, after a push everything but the task that was pushed;  *)
(* the order of the queue (Sorted) makes the head speak for the rest.      *)
(*                                                                         *)
(* The counters and the task pool need fewer threads than the active       *)
(* counter has values (Few): a transfer that fails changes the counters    *)
(* and drops its task, and this build does not poison the hive then.       *)
(***************************************************************************)
EXTENDS RetryHive, HiveEndProofs

WorkerLabels == WorkerPoints \cup {"next_retry", "pop", "popped", "requeue", "requeued"}
HandleLabels == HandlePoints \cup {"drain_channel", "drain_retries"}

RetryTypes ==
  /\ counter \in Pair /\ nextIndex \in 0 .. MaxTasks
  /\ queue \in Seq(Tasks)
  /\ outcomes \in [Tasks -> Kinds] /\ sent \in [Tasks -> Kinds]
  /\ taken \in [Tasks -> Kinds] /\ lost \in SUBSET Tasks
  /\ pc \in [Processes -> WorkerLabels \cup HandleLabels]
  /\ \A w \in Workers : pc[w] \in WorkerLabels
  /\ \A h \in Handles : pc[h] \in HandleLabels
  /\ why \in [Processes -> {"none", "task", "panic", "exit", "join", "husk"}]
  /\ task \in [Processes -> Tasks \cup {NoTask}]
  /\ batch \in [Handles -> Seq(Tasks)]
  /\ attempt \in [Tasks -> Nat] /\ retryQueue \in Seq(Entry)
  /\ retryLock \in Workers \cup {NoOne} /\ nextRetry \in {Never} \cup Nat

\* Who deals with tasks has some.
WithTask == {"transfer", "apply", "cancelled", "popped", "requeue", "requeued"}
WithBatch == {"admit", "send", "refuse"}
HandsKnown ==
  /\ \A w \in Workers : task[w] # NoTask <=> pc[w] \in WithTask
  /\ \A h \in Handles : batch[h] # <<>> <=> pc[h] \in WithBatch

Hands(w) == IF pc[w] = "requeued" THEN NoTask ELSE task[w]
retryTasks == [i \in DOMAIN retryQueue |-> retryQueue[i].task]
InRetries(t) == t \in Range(retryTasks)

\* A task is somewhere exactly if it was prepared, and nowhere else.
Anywhere(t) ==
  \/ \E h \in Handles : InBatch(t, h)
  \/ InQueue(t) \/ InRetries(t)
  \/ \E w \in Workers : Hands(w) = t
  \/ Ended(t)

Only(t) ==
  /\ \A h \in Handles : InBatch(t, h) =>
       /\ \A g \in Handles : InBatch(t, g) => g = h
       /\ ~InQueue(t) /\ ~InRetries(t) /\ ~Ended(t) /\ \A w \in Workers : Hands(w) # t
  /\ InQueue(t) => ~InRetries(t) /\ ~Ended(t) /\ \A w \in Workers : Hands(w) # t
  /\ InRetries(t) => ~Ended(t) /\ \A w \in Workers : Hands(w) # t
  /\ \A w \in Workers : Hands(w) = t =>
       ~Ended(t) /\ \A v \in Workers : Hands(v) = t => v = w
  /\ outcomes[t] # "none" => sent[t] = "none" /\ taken[t] = "none" /\ t \notin lost
  /\ sent[t] # "none" => taken[t] = "none" /\ t \notin lost
  /\ taken[t] # "none" => t \notin lost

OnePlaceEach == \A t \in Tasks : (t \in Prepared <=> Anywhere(t)) /\ Only(t)

RetryLocated == OnePlaceEach /\ NoRepeats /\ IsInjective(retryTasks)

\* The lock of the retry queue is held from the pop or push to the update of
\* next_retry.
LockHeld == {"popped", "requeued"}
RetryOwner ==
  /\ \A w \in Workers : pc[w] \in LockHeld <=> retryLock = w
  /\ \A w \in Workers : pc[w] = "requeued" => InRetries(task[w])

\* What may be passed over is known to the owner of the lock.
Covered ==
  \A i \in DOMAIN retryQueue :
    \/ nextRetry # Never /\ nextRetry <= retryQueue[i].in
    \/ \E w \in Workers : \/ pc[w] = "popped"
                          \/ pc[w] = "requeued" /\ task[w] = retryQueue[i].task

\* The head is available first (IsOrdered compares neighbours).
Sorted == \A i, j \in DOMAIN retryQueue : i <= j => retryQueue[i].in <= retryQueue[j].in

\* A task that is to be queued again was asked for at least once.
Attempted == \A w \in Workers : pc[w] = "requeue" => attempt[task[w]] > 0

RInv == RetryTypes /\ HandsKnown /\ RetryLocated /\ RetryOwner /\ Sorted /\ Covered
          /\ Attempted

\* Nobody leaves or drains before the shutdown.
RetryDepartures ==
  /\ \A w \in Workers :
       /\ pc[w] \notin {"poison", "drain"}
       /\ pc[w] \in {"finish", "has_work", "counts", "flag", "notify"} =>
            why[w] \in {"task", "panic", "exit"}
       /\ pc[w] = "finish" /\ why[w] = "exit" => ShutDown
  /\ \A h \in Handles : pc[h] \in {"drain", "drain_channel", "drain_retries", "refuse"} => poisoned

\* What the queued counter stands for, and what the active counter does.
Work ==
  {t \in Tasks : \/ \E h \in Handles : InBatch(t, h)
                \/ InQueue(t) \/ InRetries(t)
                \/ \E w \in Workers : pc[w] \in {"popped", "transfer"} /\ task[w] = t}
Crew ==
  {w \in Workers : \/ pc[w] \in {"apply", "cancelled", "requeue", "requeued"}
                   \/ pc[w] = "finish" /\ why[w] # "exit"}

RetryCounted ==
  counter.left = Cardinality(Work) /\ counter.right = Cardinality(Crew)

RetryCountInv == RetryDepartures /\ (~ShutDown => RetryCounted)

-----------------------------------------------------------------------------
(***************************************************************************)
(* The retry queue as a sequence.                                          *)
(***************************************************************************)
\* q is s with e put in as its i-th.
Inserted(q, s, i, e) ==
  /\ DOMAIN q = 1 .. Len(s) + 1
  /\ \A j \in 1 .. Len(s) + 1 :
       q[j] = IF j < i THEN s[j] ELSE IF j = i THEN e ELSE s[j - 1]

TasksOf(q) == [i \in DOMAIN q |-> q[i].task]
InOrder(q) == \A i, j \in DOMAIN q : i <= j => q[i].in <= q[j].in

\* Inserting moves what is behind by one place.
LEMMA InsertAtProperties ==
  ASSUME NEW S, NEW s \in Seq(S), NEW i \in 1 .. Len(s) + 1, NEW e \in S
  PROVE  /\ InsertAt(s, i, e) \in Seq(S)
         /\ Len(InsertAt(s, i, e)) = Len(s) + 1
         /\ Inserted(InsertAt(s, i, e), s, i, e)
<1> DEFINE front == SubSeq(s, 1, i - 1)
           back == SubSeq(s, i, Len(s))
           one == <<e>>
<1>1. Len(s) \in Nat /\ \A j \in 1 .. Len(s) : s[j] \in S
  BY LenProperties, ElementOfSeq
<1>2. /\ front \in Seq(S) /\ Len(front) = i - 1
      /\ \A j \in 1 .. i - 1 : front[j] = s[j]
  BY <1>1, SubSeqProperties
<1>3. /\ back \in Seq(S) /\ Len(back) = Len(s) - i + 1
      /\ \A j \in 1 .. Len(s) - i + 1 : back[j] = s[i + j - 1]
  BY <1>1, SubSeqProperties
<1>4. one \in Seq(S) /\ Len(one) = 1 /\ one[1] = e
  OBVIOUS
<1> HIDE DEF front, back, one
<1>5. /\ front \o one \in Seq(S) /\ Len(front \o one) = i
      /\ \A j \in 1 .. i : (front \o one)[j] = IF j < i THEN s[j] ELSE e
  <2>1. /\ front \o one \in Seq(S) /\ Len(front \o one) = Len(front) + Len(one)
        /\ \A j \in 1 .. Len(front) + Len(one) : (front \o one)[j] =
             IF j <= Len(front) THEN front[j] ELSE one[j - Len(front)]
    BY <1>2, <1>4, ConcatProperties
  <2>2. Len(front) + Len(one) = i
    BY <1>1, <1>2, <1>4
  <2>3. ASSUME NEW j \in 1 .. i PROVE (front \o one)[j] = IF j < i THEN s[j] ELSE e
    BY <1>1, <1>2, <1>4, <2>1, <2>2
  <2> QED BY <2>1, <2>2, <2>3
<1>6. /\ (front \o one) \o back \in Seq(S)
      /\ Len((front \o one) \o back) = Len(s) + 1
      /\ \A j \in 1 .. Len(s) + 1 : ((front \o one) \o back)[j] =
           IF j <= i THEN (front \o one)[j] ELSE back[j - i]
  <2>1. /\ (front \o one) \o back \in Seq(S)
        /\ Len((front \o one) \o back) = Len(front \o one) + Len(back)
        /\ \A j \in 1 .. Len(front \o one) + Len(back) : ((front \o one) \o back)[j] =
             IF j <= Len(front \o one) THEN (front \o one)[j]
             ELSE back[j - Len(front \o one)]
    BY <1>3, <1>5, ConcatProperties
  <2>2. Len(front \o one) + Len(back) = Len(s) + 1
    BY <1>1, <1>3, <1>5
  <2> QED BY <1>5, <2>1, <2>2
<1>7. \A j \in 1 .. Len(s) + 1 : ((front \o one) \o back)[j] =
        IF j < i THEN s[j] ELSE IF j = i THEN e ELSE s[j - 1]
  BY <1>1, <1>3, <1>5, <1>6
<1>8. InsertAt(s, i, e) = (front \o one) \o back
  BY DEF InsertAt, front, back, one
<1> QED BY <1>6, <1>7, <1>8, LenProperties DEF Inserted

\* Inserting what is not in a sequence puts it in, once.
LEMMA InsertAtRange ==
  ASSUME NEW S, NEW s \in Seq(S), NEW i \in 1 .. Len(s) + 1, NEW e \in S, NEW q \in Seq(S),
         Inserted(q, s, i, e)
  PROVE  /\ Range(q) = Range(s) \cup {e}
         /\ IsInjective(s) /\ e \notin Range(s) => IsInjective(q)
<1> USE DEF Inserted
<1>1. DOMAIN s = 1 .. Len(s) /\ Len(s) \in Nat
  BY LenProperties
<1>2. ASSUME NEW x \in Range(q) PROVE x \in Range(s) \cup {e}
  <2>1. PICK j \in DOMAIN q : q[j] = x
    BY <1>2 DEF Range
  <2>2. j \in 1 .. Len(s) + 1 /\ i \in 1 .. Len(s) + 1
    BY <2>1
  <2>3. j < i \/ j = i \/ j > i
    BY <2>2, <1>1
  <2>4. CASE j < i
    BY <1>1, <2>1, <2>2, <2>4 DEF Range
  <2>5. CASE j = i
    BY <1>1, <2>1, <2>2, <2>5
  <2>6. CASE j > i
    <3>1. j - 1 \in DOMAIN s /\ x = s[j - 1]
      BY <1>1, <2>1, <2>2, <2>6
    <3> QED BY <3>1 DEF Range
  <2> QED BY <2>3, <2>4, <2>5, <2>6
<1>3. e \in Range(q)
  <2>1. i \in DOMAIN q /\ q[i] = e
    BY <1>1
  <2> QED BY <2>1 DEF Range
<1>4. ASSUME NEW x \in Range(s) PROVE x \in Range(q)
  <2>1. PICK j \in DOMAIN s : s[j] = x
    BY <1>4 DEF Range
  <2>2. CASE j < i
    <3>1. j \in DOMAIN q /\ q[j] = x
      BY <1>1, <2>1, <2>2
    <3> QED BY <3>1 DEF Range
  <2>3. CASE ~(j < i)
    <3>1. j + 1 \in DOMAIN q /\ q[j + 1] = x
      BY <1>1, <2>1, <2>3
    <3> QED BY <3>1 DEF Range
  <2> QED BY <2>2, <2>3
<1>5. ASSUME IsInjective(s), e \notin Range(s),
             NEW j \in DOMAIN q, NEW k \in DOMAIN q, q[j] = q[k]
      PROVE  j = k
  <2>1. \A m \in DOMAIN s : s[m] # e
    BY <1>5 DEF Range
  <2>2. \A m, n \in DOMAIN s : s[m] = s[n] => m = n
    BY <1>5 DEF IsInjective
  <2>3. j \in 1 .. Len(s) + 1 /\ k \in 1 .. Len(s) + 1
    OBVIOUS
  <2>4. ASSUME NEW m \in 1 .. Len(s) + 1, m # i
        PROVE  q[m] # e
    <3>1. CASE m < i
      BY <1>1, <2>1, <2>4, <3>1
    <3>2. CASE ~(m < i)
      <4>1. m - 1 \in DOMAIN s /\ q[m] = s[m - 1]
        BY <1>1, <2>4, <3>2
      <4> QED BY <2>1, <4>1
    <3> QED BY <3>1, <3>2
  <2>5. q[i] = e
    BY <1>1
  <2>6. CASE j = i \/ k = i
    BY <1>5, <2>3, <2>4, <2>5, <2>6
  <2>7. CASE j # i /\ k # i
    <3>1. CASE j < i /\ k < i
      BY <1>1, <1>5, <2>2, <2>3, <3>1
    <3>2. CASE j > i /\ k > i
      <4>1. j - 1 \in DOMAIN s /\ k - 1 \in DOMAIN s /\ s[j - 1] = s[k - 1]
        BY <1>1, <1>5, <2>3, <3>2
      <4> QED BY <1>1, <2>2, <2>3, <4>1
    <3>3. CASE j < i /\ k > i
      <4>1. j \in DOMAIN s /\ k - 1 \in DOMAIN s /\ s[j] = s[k - 1]
        BY <1>1, <1>5, <2>3, <3>3
      <4> QED BY <1>1, <2>2, <2>3, <3>3, <4>1
    <3>4. CASE j > i /\ k < i
      <4>1. j - 1 \in DOMAIN s /\ k \in DOMAIN s /\ s[j - 1] = s[k]
        BY <1>1, <1>5, <2>3, <3>4
      <4> QED BY <1>1, <2>2, <2>3, <3>4, <4>1
    <3> QED BY <1>1, <2>3, <2>7, <3>1, <3>2, <3>3, <3>4
  <2> QED BY <2>6, <2>7
<1> QED BY <1>2, <1>3, <1>4, <1>5 DEF IsInjective

USE CounterAssumption, HiveAssumption, RetryAssumption

\* The tasks of the entries.
LEMMA TasksOfEntries ==
  ASSUME NEW q \in Seq(Entry)
  PROVE  /\ [i \in DOMAIN q |-> q[i].task] \in Seq(Tasks)
         /\ DOMAIN q = 1 .. Len(q) /\ Len(q) \in Nat
         /\ Len([i \in DOMAIN q |-> q[i].task]) = Len(q)
         /\ \A i \in DOMAIN q : q[i].task \in Tasks /\ q[i].in \in 0 .. MaxDelay
<1>1. DOMAIN q = 1 .. Len(q) /\ Len(q) \in Nat /\ \A i \in 1 .. Len(q) : q[i] \in Entry
  BY LenProperties, ElementOfSeq
<1>2. \A i \in DOMAIN q : q[i].task \in Tasks /\ q[i].in \in 0 .. MaxDelay
  BY <1>1 DEF Entry
<1>3. [i \in 1 .. Len(q) |-> q[i].task] \in [1 .. Len(q) -> Tasks]
  BY <1>1, <1>2
<1>4. [i \in 1 .. Len(q) |-> q[i].task] \in Seq(Tasks)
  BY <1>1, <1>3, SeqDef
<1> QED BY <1>1, <1>2, <1>4, LenProperties

\* Retrying is what the queue holds.
LEMMA RetryingIsRange == Retrying = Range(retryTasks)
BY DEF Retrying, retryTasks, Range

-----------------------------------------------------------------------------
(***************************************************************************)
(* The ways a step can move tasks.                                         *)
(***************************************************************************)
\* A task that stays where it is.
Stays(t) ==
  /\ t \in Prepared' <=> t \in Prepared
  /\ \A h \in Handles : InBatch(t, h)' <=> InBatch(t, h)
  /\ InQueue(t)' <=> InQueue(t)
  /\ InRetries(t)' <=> InRetries(t)
  /\ \A w \in Workers : Hands(w)' = t <=> Hands(w) = t
  /\ outcomes'[t] = outcomes[t] /\ sent'[t] = sent[t] /\ taken'[t] = taken[t]
  /\ t \in lost' <=> t \in lost

Settled(t) == (t \in Prepared <=> Anywhere(t)) /\ Only(t)

LEMMA StaysSettled ==
  ASSUME NEW t \in Tasks, Settled(t), Stays(t)
  PROVE  Settled(t)'
<1> USE DEF Settled, Stays, Ended
<1>1. (t \in Prepared <=> Anywhere(t))'
  BY DEF Anywhere
<1>2. Only(t)'
  BY DEF Only
<1> QED BY <1>1, <1>2

\* It is enough to look at the tasks that move.
LEMMA MovesSettled ==
  ASSUME OnePlaceEach, NEW M, \A t \in Tasks \ M : Stays(t),
         \A t \in Tasks \cap M : Settled(t)'
  PROVE  OnePlaceEach'
<1>1. \A t \in Tasks : Settled(t)'
  BY StaysSettled DEF OnePlaceEach, Settled
<1> QED BY <1>1 DEF OnePlaceEach, Settled

LEMMA OneMoves ==
  ASSUME OnePlaceEach, NEW m \in Tasks, \A t \in Tasks \ {m} : Stays(t), Settled(m)'
  PROVE  OnePlaceEach'
<1>1. \A t \in Tasks : Settled(t)'
  BY StaysSettled DEF OnePlaceEach, Settled
<1> QED BY <1>1 DEF OnePlaceEach, Settled

\* Nothing moves.
SamePlaces == UNCHANGED <<nextIndex, outcomes, sent, taken, lost>>

LEMMA NothingMovesInRetry ==
  ASSUME RetryLocated, SamePlaces, UNCHANGED <<queue, batch, retryTasks>>,
         \A w \in Workers : Hands(w)' = Hands(w)
  PROVE  RetryLocated'
<1>1. \A t \in Tasks : Stays(t)
  BY DEF Stays, SamePlaces, Prepared, InBatch, InQueue, InRetries
<1>2. OnePlaceEach'
  BY <1>1, StaysSettled DEF RetryLocated, OnePlaceEach, Settled
<1> QED BY <1>2 DEF RetryLocated, NoRepeats

\* Outcomes of tasks without one leave the others' alone.
LEMMA Delivered ==
  ASSUME RetryTypes, NEW D \in SUBSET Tasks, NEW k \in Kinds \ {"none"}, Deliver(D, k)
  PROVE  /\ \A t \in Tasks \ D :
              outcomes'[t] = outcomes[t] /\ sent'[t] = sent[t] /\ taken'[t] = taken[t]
         /\ \A t \in D : ~Ended(t) /\ t \notin lost' =>
              /\ taken'[t] = "none"
              /\ \/ outcomes'[t] = k /\ sent'[t] = "none"
                 \/ sent'[t] = k /\ outcomes'[t] = "none"
         /\ outcomes' \in [Tasks -> Kinds] /\ sent' \in [Tasks -> Kinds]
         /\ taken' \in [Tasks -> Kinds]
<1> USE DEF Deliver, Ended, RetryTypes
<1>1. \A t \in Tasks \ D :
        outcomes'[t] = outcomes[t] /\ sent'[t] = sent[t] /\ taken'[t] = taken[t]
  OBVIOUS
<1>2. ASSUME NEW t \in D, ~Ended(t)
      PROVE  /\ taken'[t] = "none"
             /\ \/ outcomes'[t] = k /\ sent'[t] = "none"
                \/ sent'[t] = k /\ outcomes'[t] = "none"
  BY <1>2
<1> QED BY <1>1, <1>2

\* A worker is done with its task: there is an outcome, or the task is lost.
LEMMA LeavesHandsInRetry ==
  ASSUME RetryLocated, RetryTypes, NEW w \in Workers, NEW held \in Tasks,
         Hands(w) = held, Hands(w)' = NoTask,
         \A v \in Workers \ {w} : Hands(v)' = Hands(v),
         UNCHANGED <<nextIndex, queue, batch, retryTasks>>,
         \/ \E k \in Kinds \ {"none"} : Deliver({held}, k) /\ UNCHANGED lost
         \/ lost' = lost \cup {held} /\ UNCHANGED outcomeVars
  PROVE  RetryLocated'
<1>1. Settled(held) /\ NoTask \notin Tasks
  BY DEF RetryLocated, OnePlaceEach, Settled, Tasks, NoTask
<1>2. /\ ~Ended(held) /\ ~InQueue(held) /\ ~InRetries(held)
      /\ \A h \in Handles : ~InBatch(held, h)
      /\ \A v \in Workers : Hands(v)' # held
      /\ held \in Prepared
  BY <1>1 DEF Settled, Only, Anywhere
<1>3. /\ \A t \in Tasks \ {held} :
           /\ outcomes'[t] = outcomes[t] /\ sent'[t] = sent[t] /\ taken'[t] = taken[t]
           /\ t \in lost' <=> t \in lost
      /\ Ended(held)'
      /\ taken'[held] = "none"
      /\ outcomes'[held] # "none" => sent'[held] = "none" /\ held \notin lost'
      /\ sent'[held] # "none" => held \notin lost'
  <2>1. ASSUME NEW k \in Kinds \ {"none"}, Deliver({held}, k), UNCHANGED lost
        PROVE  <1>3!1 /\ <1>3!2 /\ <1>3!3 /\ <1>3!4 /\ <1>3!5
    <3>1. {held} \in SUBSET Tasks /\ held \notin lost
      BY <1>2 DEF Ended
    <3>2. /\ \A t \in Tasks \ {held} :
               outcomes'[t] = outcomes[t] /\ sent'[t] = sent[t] /\ taken'[t] = taken[t]
          /\ \A t \in {held} : ~Ended(t) /\ t \notin lost' =>
               /\ taken'[t] = "none"
               /\ \/ outcomes'[t] = k /\ sent'[t] = "none"
                  \/ sent'[t] = k /\ outcomes'[t] = "none"
      BY <2>1, <3>1, Delivered
    <3>3. /\ taken'[held] = "none" /\ held \notin lost'
          /\ \/ outcomes'[held] = k /\ sent'[held] = "none"
             \/ sent'[held] = k /\ outcomes'[held] = "none"
      BY <1>2, <2>1, <3>1, <3>2
    <3> QED BY <2>1, <3>2, <3>3 DEF Ended
  <2>2. CASE lost' = lost \cup {held} /\ UNCHANGED outcomeVars
    BY <1>2, <2>2 DEF Ended, outcomeVars
  <2> QED BY <2>1, <2>2
<1>4. \A t \in Tasks \ {held} : Stays(t)
  BY <1>1, <1>3 DEF Stays, Prepared, InBatch, InQueue, InRetries
<1>5. Settled(held)'
  <2>1. /\ ~InQueue(held)' /\ ~InRetries(held)' /\ held \in Prepared'
        /\ \A h \in Handles : ~InBatch(held, h)'
    BY <1>2 DEF InQueue, InRetries, InBatch, Prepared
  <2> QED BY <1>2, <1>3, <2>1 DEF Settled, Only, Anywhere
<1>6. OnePlaceEach'
  BY <1>4, <1>5, OneMoves DEF RetryLocated
<1> QED BY <1>6 DEF RetryLocated, NoRepeats

\* A worker takes the head of the channel or of the retry queue.
LEMMA EntersHands ==
  ASSUME RetryLocated, RetryTypes, NEW w \in Workers, NEW head \in Tasks,
         Hands(w) = NoTask, Hands(w)' = head,
         \A v \in Workers \ {w} : Hands(v)' = Hands(v), SamePlaces, UNCHANGED batch,
         \/ /\ UNCHANGED retryTasks /\ IsInjective(queue')
            /\ head \in Range(queue) /\ Range(queue') = Range(queue) \ {head}
         \/ /\ UNCHANGED queue /\ IsInjective(retryTasks')
            /\ head \in Range(retryTasks) /\ Range(retryTasks') = Range(retryTasks) \ {head}
  PROVE  RetryLocated'
<1>1. Settled(head) /\ NoTask \notin Tasks
  BY DEF RetryLocated, OnePlaceEach, Settled, Tasks, NoTask
<1>2. /\ ~Ended(head) /\ head \in Prepared
      /\ \A h \in Handles : ~InBatch(head, h)
      /\ ~InQueue(head)' /\ ~InRetries(head)'
      /\ \A v \in Workers : Hands(v) # head
  BY <1>1 DEF Settled, Only, Anywhere, InQueue, InRetries
<1>3. \A t \in Tasks \ {head} : Stays(t)
  BY <1>1 DEF Stays, SamePlaces, Prepared, InBatch, InQueue, InRetries
<1>4. Settled(head)'
  <2>1. /\ \A h \in Handles : ~InBatch(head, h)'
        /\ head \in Prepared' /\ ~Ended(head)'
        /\ \A v \in Workers : Hands(v)' = head => v = w
    BY <1>2 DEF SamePlaces, InBatch, Prepared, Ended
  <2> QED BY <1>2, <2>1 DEF Settled, Only, Anywhere, Ended
<1>5. OnePlaceEach'
  BY <1>3, <1>4, OneMoves DEF RetryLocated
<1> QED BY <1>5 DEF RetryLocated, NoRepeats

\* A worker puts its task into the retry queue.
LEMMA EntersRetries ==
  ASSUME RetryLocated, RetryTypes, NEW w \in Workers, NEW held \in Tasks,
         Hands(w) = held, Hands(w)' = NoTask,
         \A v \in Workers \ {w} : Hands(v)' = Hands(v), SamePlaces, UNCHANGED <<queue, batch>>,
         Range(retryTasks') = Range(retryTasks) \cup {held}, IsInjective(retryTasks')
  PROVE  RetryLocated'
<1>1. Settled(held) /\ NoTask \notin Tasks
  BY DEF RetryLocated, OnePlaceEach, Settled, Tasks, NoTask
<1>2. /\ ~Ended(held) /\ held \in Prepared /\ ~InQueue(held)
      /\ \A h \in Handles : ~InBatch(held, h)
      /\ \A v \in Workers : Hands(v)' # held
  BY <1>1 DEF Settled, Only, Anywhere
<1>3. \A t \in Tasks \ {held} : Stays(t)
  BY <1>1 DEF Stays, SamePlaces, Prepared, InBatch, InQueue, InRetries
<1>4. Settled(held)'
  <2>1. /\ \A h \in Handles : ~InBatch(held, h)'
        /\ held \in Prepared' /\ ~Ended(held)' /\ ~InQueue(held)' /\ InRetries(held)'
    BY <1>2 DEF SamePlaces, InBatch, InQueue, InRetries, Prepared, Ended
  <2> QED BY <1>2, <2>1 DEF Settled, Only, Anywhere, Ended
<1>5. OnePlaceEach'
  BY <1>3, <1>4, OneMoves DEF RetryLocated
<1> QED BY <1>5 DEF RetryLocated, NoRepeats

\* Tasks in the channel or in the retry queue are given back.
LEMMA GivenBack ==
  ASSUME RetryLocated, RetryTypes, NEW D \in SUBSET Tasks, Deliver(D, "unprocessed"),
         D \subseteq Range(queue) \cup Range(retryTasks),
         Range(queue') = Range(queue) \ D, Range(retryTasks') = Range(retryTasks) \ D,
         IsInjective(queue'), IsInjective(retryTasks'),
         UNCHANGED <<nextIndex, lost, batch>>, \A w \in Workers : Hands(w)' = Hands(w)
  PROVE  RetryLocated'
<1>1. /\ \A t \in Tasks \ D :
           outcomes'[t] = outcomes[t] /\ sent'[t] = sent[t] /\ taken'[t] = taken[t]
      /\ \A t \in D : ~Ended(t) /\ t \notin lost' =>
           /\ taken'[t] = "none"
           /\ \/ outcomes'[t] = "unprocessed" /\ sent'[t] = "none"
              \/ sent'[t] = "unprocessed" /\ outcomes'[t] = "none"
  <2>1. "unprocessed" \in Kinds \ {"none"}
    BY DEF Kinds
  <2> QED BY <2>1, Delivered
<1>2. \A t \in Tasks \ D : Stays(t)
  BY <1>1 DEF Stays, Prepared, InBatch, InQueue, InRetries
<1>3. ASSUME NEW t \in D PROVE Settled(t)'
  <2>1. InQueue(t) \/ InRetries(t)
    BY DEF InQueue, InRetries
  <2>2. /\ t \in Prepared /\ ~Ended(t)
        /\ \A h \in Handles : ~InBatch(t, h)
        /\ \A w \in Workers : Hands(w) # t
    BY <2>1 DEF RetryLocated, OnePlaceEach, Only, Anywhere
  <2>3. /\ ~InQueue(t)' /\ ~InRetries(t)' /\ t \in Prepared'
        /\ \A h \in Handles : ~InBatch(t, h)'
        /\ \A w \in Workers : Hands(w)' # t
    BY <2>2 DEF InQueue, InRetries, InBatch, Prepared
  <2>4. /\ taken'[t] = "none" /\ t \notin lost'
        /\ \/ outcomes'[t] = "unprocessed" /\ sent'[t] = "none"
           \/ sent'[t] = "unprocessed" /\ outcomes'[t] = "none"
    BY <1>1, <2>2 DEF Ended
  <2>5. Ended(t)'
    BY <2>4 DEF Ended
  <2> QED BY <2>3, <2>4, <2>5 DEF Settled, Only, Anywhere
<1>4. OnePlaceEach'
  BY <1>2, <1>3, MovesSettled DEF RetryLocated
<1> QED BY <1>4 DEF RetryLocated, NoRepeats

\* A handle sends the head of its batch.
LEMMA LeavesBatchInRetry ==
  ASSUME RetryLocated, RetryTypes, NEW h \in Handles, batch[h] # <<>>,
         batch' = [batch EXCEPT ![h] = Tail(@)], queue' = Append(queue, Head(batch[h])),
         SamePlaces, UNCHANGED retryTasks, \A w \in Workers : Hands(w)' = Hands(w)
  PROVE  RetryLocated'
<1>1. batch[h] \in Seq(Tasks) /\ IsInjective(batch[h]) /\ queue \in Seq(Tasks)
  BY DEF RetryTypes, RetryLocated, NoRepeats
<1>2. /\ Head(batch[h]) \in Range(batch[h])
      /\ Range(Tail(batch[h])) = Range(batch[h]) \ {Head(batch[h])}
      /\ IsInjective(Tail(batch[h]))
  BY <1>1, TailRange
<1>3. PICK head \in Tasks : head = Head(batch[h])
  BY <1>1, <1>2, RangeOfTasks
<1>4. /\ Range(batch'[h]) = Range(batch[h]) \ {head}
      /\ head \in Range(batch[h])
      /\ \A g \in Handles \ {h} : batch'[g] = batch[g]
      /\ \A g \in Handles : IsInjective(batch'[g])
  BY <1>2, <1>3 DEF RetryTypes, RetryLocated, NoRepeats
<1>5. /\ ~Ended(head) /\ ~InQueue(head) /\ ~InRetries(head) /\ head \in Prepared
      /\ \A w \in Workers : Hands(w) # head
      /\ \A g \in Handles \ {h} : ~InBatch(head, g)
  BY <1>3, <1>4 DEF RetryLocated, OnePlaceEach, Only, Anywhere, InBatch
<1>6. Range(queue') = Range(queue) \cup {head} /\ IsInjective(queue')
  <2>1. IsInjective(queue) /\ head \notin Range(queue)
    BY <1>5 DEF RetryLocated, NoRepeats, InQueue
  <2> QED BY <1>1, <1>3, <2>1, AppendRange
<1>7. \A t \in Tasks \ {head} : Stays(t)
  BY <1>4, <1>6 DEF Stays, SamePlaces, Prepared, InBatch, InQueue, InRetries
<1>8. Settled(head)'
  <2>1. /\ InQueue(head)' /\ ~InRetries(head)' /\ ~Ended(head)' /\ head \in Prepared'
        /\ \A w \in Workers : Hands(w)' # head
        /\ \A g \in Handles : ~InBatch(head, g)'
    BY <1>4, <1>5, <1>6 DEF SamePlaces, InBatch, InQueue, InRetries, Ended, Prepared
  <2> QED BY <2>1 DEF Settled, Only, Anywhere, Ended
<1>9. OnePlaceEach'
  BY <1>7, <1>8, OneMoves DEF RetryLocated
<1> QED BY <1>4, <1>6, <1>9 DEF RetryLocated, NoRepeats

\* A batch of n tasks from the next index on.
LEMMA NewBatch ==
  ASSUME NEW first \in Nat, NEW n \in Nat
  PROVE  /\ Range([i \in 1 .. n |-> first + i - 1]) = first .. first + n - 1
         /\ IsInjective([i \in 1 .. n |-> first + i - 1])
<1> DEFINE new == [i \in 1 .. n |-> first + i - 1]
           N == first .. first + n - 1
<1>1. \A i \in 1 .. n : new[i] \in N
  OBVIOUS
<1>2. \A t \in N : t - first + 1 \in 1 .. n /\ new[t - first + 1] = t
  OBVIOUS
<1>3. \A i, j \in 1 .. n : new[i] = new[j] => i = j
  OBVIOUS
<1>4. DOMAIN new = 1 .. n
  OBVIOUS
<1>5. Range(new) = N /\ IsInjective(new)
  <2> HIDE DEF new, N
  <2> QED BY <1>1, <1>2, <1>3, <1>4 DEF Range, IsInjective
<1> QED BY <1>5

\* A handle prepares new tasks.
LEMMA EntersBatchInRetry ==
  ASSUME RetryLocated, RetryTypes, NEW h \in Handles, NEW n \in Nat,
         batch[h] = <<>>, nextIndex + n <= MaxTasks,
         batch' = [batch EXCEPT ![h] = [i \in 1 .. n |-> nextIndex + i - 1]],
         nextIndex' = nextIndex + n,
         UNCHANGED <<queue, outcomes, sent, taken, lost, retryTasks>>,
         \A w \in Workers : Hands(w)' = Hands(w)
  PROVE  RetryLocated'
<1> DEFINE N == nextIndex .. nextIndex + n - 1
<1>1. nextIndex \in Nat /\ MaxTasks \in Nat
  BY DEF RetryTypes
<1>2. /\ Range(batch'[h]) = N /\ IsInjective(batch'[h])
      /\ \A g \in Handles \ {h} : batch'[g] = batch[g]
  BY <1>1, NewBatch DEF RetryTypes
<1>3. \A t \in Tasks : /\ t \in Prepared' <=> t \in Prepared \cup N
                       /\ t \in N => t \notin Prepared
  BY <1>1 DEF Prepared, Tasks
<1> HIDE DEF N
<1>4. Range(batch[h]) = {} /\ \A g \in Handles : IsInjective(batch'[g])
  BY <1>2, EmptyRange DEF RetryLocated, NoRepeats
<1>5. \A t \in Tasks \ N : Stays(t)
  BY <1>2, <1>3, <1>4 DEF Stays, InBatch, InQueue, InRetries
<1>6. ASSUME NEW t \in Tasks \cap N PROVE Settled(t)'
  <2>1. ~Anywhere(t)
    BY <1>3 DEF RetryLocated, OnePlaceEach
  <2>2. /\ t \in Prepared' /\ InBatch(t, h)'
        /\ \A g \in Handles \ {h} : ~InBatch(t, g)'
        /\ ~InQueue(t)' /\ ~InRetries(t)' /\ ~Ended(t)'
        /\ \A w \in Workers : Hands(w)' # t
    BY <1>2, <1>3, <2>1 DEF Anywhere, InBatch, InQueue, InRetries, Ended
  <2> QED BY <2>2 DEF Settled, Only, Anywhere, Ended
<1>7. OnePlaceEach'
  BY <1>5, <1>6, MovesSettled DEF RetryLocated
<1> QED BY <1>4, <1>7 DEF RetryLocated, NoRepeats

\* The client takes what is stored.
LEMMA LeavesStoreInRetry ==
  ASSUME RetryLocated, RetryTypes,
         taken' = [t \in Tasks |-> IF outcomes[t] # "none" THEN outcomes[t] ELSE taken[t]],
         outcomes' = [t \in Tasks |-> "none"],
         UNCHANGED <<nextIndex, queue, sent, lost, batch, retryTasks>>,
         \A w \in Workers : Hands(w)' = Hands(w)
  PROVE  RetryLocated'
<1>1. ASSUME NEW t \in Tasks PROVE Settled(t)'
  <2>1. /\ t \in Prepared' <=> t \in Prepared
        /\ \A h \in Handles : InBatch(t, h)' <=> InBatch(t, h)
        /\ InQueue(t)' <=> InQueue(t)
        /\ InRetries(t)' <=> InRetries(t)
        /\ Ended(t)' <=> Ended(t)
        /\ outcomes'[t] = "none" /\ sent'[t] = sent[t]
        /\ t \in lost' <=> t \in lost
    BY DEF Prepared, InBatch, InQueue, InRetries, Ended
  <2>2. Settled(t)
    BY DEF RetryLocated, OnePlaceEach, Settled
  <2>3. (t \in Prepared <=> Anywhere(t))'
    BY <2>1, <2>2 DEF Settled, Anywhere
  <2>4. Only(t)'
    BY <2>1, <2>2 DEF Settled, Only
  <2> QED BY <2>3, <2>4 DEF Settled
<1>2. OnePlaceEach'
  BY <1>1 DEF OnePlaceEach, Settled
<1> QED BY <1>2 DEF RetryLocated, NoRepeats

-----------------------------------------------------------------------------
(***************************************************************************)
(* The steps, by what they do to the tasks.                                *)
(***************************************************************************)
Same == UNCHANGED <<nextIndex, outcomes, sent, taken, lost, queue, delayVars>>

AfterTask == {"has_work", "counts", "flag", "notify"}

\* A worker without a task goes on to another label, and still has none.
Wanders(w) ==
  /\ Same /\ UNCHANGED <<counter, task, batch, poisoned>>
  /\ pc[w] \notin WithTask \cup {"finish", "absent", "dead"}
  /\ \E l \in WorkerLabels \ WithTask :
       /\ Goto(w, l)
       /\ l \notin {"absent", "poison", "drain", "requeue"}
       /\ \/ /\ UNCHANGED why /\ l # "finish"
             /\ l \in AfterTask => pc[w] \in AfterTask
          \/ /\ l = "finish" /\ why' = [why EXCEPT ![w] = "exit"]
             /\ poisoned \/ ~Connected

\* has_work and the gate that follows it, when a worker asks.
LEMMA HasWorkWanders ==
  ASSUME RetryTypes, NEW w \in Workers, HasWorkStep(w), UNCHANGED retryVars
  PROVE  Wanders(w)
<1> USE DEF unreadVars, taskVars, flagVars, channelVars, outcomeVars, holdVars,
            Move, restVars, retryVars, delayVars, Same, AfterTask, WithTask,
            WorkerLabels, WorkerPoints
<1>1. /\ pc[w] \in {"has_work", "counts", "flag"} /\ UNCHANGED why
      /\ Same /\ UNCHANGED <<counter, task, batch, poisoned>>
  BY DEF HasWorkStep, ReadPoisoned, ReadCounts, ReadSuspended
<1>2. ASSUME NEW b \in BOOLEAN, Concludes(w, b)
      PROVE  \E l \in {"gate", "respawn", "dead", "notify"} : Goto(w, l)
  BY <1>2, AfterFinishLabels DEF Concludes
<1>3. \E l \in {"gate", "respawn", "dead", "notify", "counts", "flag"} : Goto(w, l)
  BY <1>2 DEF HasWorkStep, ReadPoisoned, ReadCounts, ReadSuspended
<1> QED BY <1>1, <1>3 DEF Wanders

LEMMA WorkerKinds ==
  ASSUME RetryTypes, NEW w \in Workers, RetryWorkerStep(w)
  PROVE  \/ Wanders(w)
         \/ /\ FinishTask(w) \/ Receive(w) \/ Complete(w) \/ Cancel(w) \/ ReturnInput(w)
                 \/ Panic(w)
            /\ UNCHANGED retryVars
         \/ PopRetry(w) \/ UpdateAfterPop(w) \/ RetryTransferTask(w) \/ Retry(w)
         \/ RetryPanics(w) \/ QueueRetry(w) \/ UpdateAfterPush(w)
<1> USE DEF Move, restVars, taskVars, flagVars, channelVars, outcomeVars, holdVars,
            retryVars, delayVars, Same, AfterTask, WithTask, WorkerLabels, WorkerPoints
<1>1. ASSUME UNCHANGED retryVars, Boot(w) \/ PassResumeGate(w) PROVE Wanders(w)
  BY <1>1 DEF Boot, PassResumeGate, Wanders
<1>2. ASSUME UNCHANGED retryVars, LockReceiver(w) \/ RecvTimeout(w) PROVE Wanders(w)
  BY <1>2 DEF LockReceiver, RecvTimeout, Wanders
<1>3. ASSUME UNCHANGED retryVars, RecvDisconnected(w) PROVE Wanders(w)
  BY <1>3 DEF RecvDisconnected, Exit, Wanders
<1>4. ASSUME UNCHANGED retryVars, Notify(w) PROVE Wanders(w)
  <2>1. \E l \in {"gate", "respawn", "dead"} : Goto(w, l)
    BY <1>4, AfterFinishLabels DEF Notify
  <2> QED BY <1>4, <2>1 DEF Notify, Wanders
<1>5. ASSUME UNCHANGED retryVars, Respawn(w) PROVE Wanders(w)
  BY <1>5 DEF Respawn, Spawned, Wanders
<1>6. ASSUME RetryPoll(w) PROVE Wanders(w)
  <2>1. CASE Move(w, "poll", "next_retry")
    BY <1>6, <2>1 DEF RetryPoll, Wanders
  <2>2. CASE poisoned /\ Poll(w)
    BY <1>6, <2>2 DEF RetryPoll, Poll, Exit, Wanders
  <2> QED BY <1>6, <2>1, <2>2 DEF RetryPoll
<1>7. ASSUME ReadNextRetry(w) \/ PopNothing(w) PROVE Wanders(w)
  BY <1>7 DEF ReadNextRetry, PopNothing, Wanders
<1>8. CASE Inherited(w)
  BY <1>1, <1>2, <1>3, <1>4, <1>5, <1>8, HasWorkWanders DEF Inherited
<1> QED BY <1>6, <1>7, <1>8 DEF RetryWorkerStep

\* A handle goes on to another label, or lets a thread or a handle in.
Proceeds(h) ==
  /\ Same /\ UNCHANGED <<counter, batch>>
  /\ poisoned => poisoned'
  /\ \A w \in Workers : task'[w] = task[w] /\ why'[w] = why[w]
  /\ task' \in [Processes -> Tasks \cup {NoTask}]
  /\ why' \in [Processes -> {"none", "task", "panic", "exit", "join", "husk"}]
  /\ \/ UNCHANGED pc
     \/ \E l \in HandleLabels \ {"absent"} :
          /\ Goto(h, l)
          /\ pc[h] \notin {"absent", "gone", "husk", "spin"}
          /\ pc[h] \in WithBatch <=> l \in WithBatch
          /\ l \in {"drain", "drain_channel", "drain_retries", "refuse"} =>
               poisoned' \/ pc[h] \in {"drain", "drain_channel"}
     \/ Connected /\ \E w \in Workers, l \in {"boot", "dead"} : pc[w] = "absent" /\ Goto(w, l)
     \/ Connected /\ \E g \in Handles : pc[g] = "absent" /\ Goto(g, "idle")

LEMMA CallKinds ==
  ASSUME RetryTypes, NEW h \in Handles, RetryContinueCall(h)
  PROVE  \/ Proceeds(h)
         \/ Send(h) /\ UNCHANGED retryVars
         \/ DrainChannel(h) \/ DrainRetries(h) \/ RetryExtract(h)
<1> USE DEF Move, restVars, taskVars, flagVars, channelVars, outcomeVars, holdVars,
            retryVars, delayVars, Same, WithBatch, HandleLabels, HandlePoints,
            Processes, RetryTypes
<1>1. ASSUME UNCHANGED retryVars, Admit(h) PROVE Proceeds(h)
  BY <1>1 DEF Admit, Proceeds
<1>2. ASSUME UNCHANGED retryVars, ApplyReturns(h) PROVE Proceeds(h)
  <2>1. task' = [task EXCEPT ![h] = NoTask] /\ Goto(h, "idle") /\ pc[h] = "await"
    BY <1>2 DEF ApplyReturns
  <2>2. \A w \in Workers : w # h
    OBVIOUS
  <2> QED BY <1>2, <2>1, <2>2 DEF ApplyReturns, Proceeds
<1>3. ASSUME UNCHANGED retryVars, HasWorkStep(h) PROVE Proceeds(h)
  <2>1. /\ pc[h] \in {"has_work", "counts", "flag"}
        /\ Same /\ UNCHANGED <<counter, task, batch, poisoned, why>>
    BY <1>3 DEF HasWorkStep, ReadPoisoned, ReadCounts, ReadSuspended, unreadVars
  <2>2. ASSUME NEW b \in BOOLEAN, Concludes(h, b) PROVE \E l \in JoinLabels : Goto(h, l)
    BY <2>2 DEF Concludes, FollowGate, AfterJoin, JoinLabels
  <2>3. \E l \in JoinLabels \cup {"counts", "flag"} : Goto(h, l)
    BY <1>3, <2>2 DEF HasWorkStep, ReadPoisoned, ReadCounts, ReadSuspended
  <2> QED BY <2>1, <2>3 DEF Proceeds, JoinLabels
<1>4. ASSUME UNCHANGED retryVars, JoinStep(h) PROVE Proceeds(h)
  <2>1. \E l \in JoinLabels : Goto(h, l)
    BY <1>4 DEF JoinStep, FollowGate, AfterJoin, JoinLabels
  <2> QED BY <1>4, <2>1 DEF JoinStep, unreadVars, Proceeds, JoinLabels
<1>5. ASSUME UNCHANGED retryVars, ReturnNone(h) PROVE Proceeds(h)
  BY <1>5 DEF ReturnNone, ReleaseReferrer, Proceeds
<1>6. ASSUME UNCHANGED retryVars, DropLast(h) \/ DropSender(h) PROVE Proceeds(h)
  <2>1. \E l \in {"poison", "gone", "spin"} : Goto(h, l)
    BY <1>6 DEF DropLast, DropSender
  <2>2. pc[h] \in {"dropping", "hang_up"} /\ UNCHANGED restVars
    BY <1>6 DEF DropLast, DropSender
  <2> QED BY <1>6, <2>1, <2>2 DEF Proceeds
<1>7. ASSUME UNCHANGED retryVars, Poison(h) PROVE Proceeds(h)
  BY <1>7 DEF Poison, Proceeds
<1>8. ASSUME LockOutcomes(h) PROVE Proceeds(h)
  BY <1>8 DEF LockOutcomes, Proceeds
<1> QED BY <1>1, <1>2, <1>3, <1>4, <1>5, <1>6, <1>7, <1>8 DEF RetryContinueCall

LEMMA StartKinds ==
  ASSUME RetryTypes, NEW h \in Handles, RetryStartCall(h)
  PROVE  /\ UNCHANGED retryVars
         /\ \/ Proceeds(h) \/ TakeStored(h)
            \/ \E n \in 1 .. MaxBatch, d \in Destinations : Submit(h, n, d)
<1> USE DEF Move, restVars, taskVars, flagVars, channelVars, outcomeVars, holdVars,
            retryVars, delayVars, Same, WithBatch, HandleLabels, HandlePoints,
            Processes, RetryTypes, Calls
<1>0. UNCHANGED retryVars /\ (pc[h] = "idle" => Connected)
  BY DEF RetryStartCall, Connected, HoldsSender
<1>1. ASSUME NEW reason \in {"join", "husk"}, pc[h] = "idle", StartJoin(h, reason)
      PROVE  Proceeds(h)
  <2>1. why' = [why EXCEPT ![h] = reason] /\ Goto(h, "has_work")
    BY <1>1 DEF StartJoin
  <2>2. \A w \in Workers : w # h
    OBVIOUS
  <2> QED BY <1>0, <1>1, <2>1, <2>2 DEF StartJoin, Proceeds
<1>2. CASE Join(h)
  BY <1>0, <1>1, <1>2 DEF Join
<1>3. CASE Suspend(h) \/ Resume(h) \/ HangUp(h)
  BY <1>0, <1>3 DEF Suspend, Resume, HangUp, Proceeds
<1>4. ASSUME NEW w \in Workers, Grow(h, w) PROVE Proceeds(h)
  <2>1. \E l \in {"boot", "dead"} : Goto(w, l)
    BY <1>4 DEF Grow, Spawned
  <2> QED BY <1>0, <1>4, <2>1 DEF Grow, Proceeds
<1>5. ASSUME NEW g \in Handles, Clone(h, g) PROVE Proceeds(h)
  BY <1>0, <1>5 DEF Clone, Proceeds
<1>6. CASE Drop(h)
  BY <1>0, <1>6 DEF Drop, ReleaseReferrer, Proceeds
<1>7. CASE TryIntoHusk(h)
  <2>1. CASE Goto(h, "refused") /\ UNCHANGED restVars
    BY <1>0, <1>7, <2>1 DEF TryIntoHusk, Proceeds
  <2> QED BY <1>0, <1>1, <1>7, <2>1 DEF TryIntoHusk
<1> QED BY <1>0, <1>2, <1>3, <1>4, <1>5, <1>6, <1>7 DEF RetryStartCall, StartCall

-----------------------------------------------------------------------------
(***************************************************************************)
(* Every kind of step keeps the invariant.                                 *)
(***************************************************************************)
\* A power of two is the number of subsets of a set.
LEMMA PowersAreNumbers ==
  ASSUME NEW n \in Nat
  PROVE  2 ^ n \in Nat
<1>1. IsFiniteSet(1 .. n) /\ Cardinality(1 .. n) = n
  BY FS_Interval
<1>2. IsFiniteSet(SUBSET (1 .. n)) /\ Cardinality(SUBSET (1 .. n)) = 2 ^ n
  BY <1>1, FS_SUBSET
<1> QED BY <1>2, FS_CardinalityType

\* A delay is one that a Duration can hold.
LEMMA DelayType ==
  ASSUME NEW n \in Nat \ {0}
  PROVE  Delay(n) \in 0 .. MaxDelay
<1>1. PICK p \in Nat : p = 2 ^ (n - 1)
  BY PowersAreNumbers
<1>2. Factor \in Nat
  BY RetryAssumption DEF Factor
<1>3. Factor * p \in Nat
  BY <1>1, <1>2
<1> QED BY <1>1, <1>2, <1>3, RetryAssumption DEF Delay

\* Who does not have the lock of the retry queue leaves it alone.
LEMMA QueueKept ==
  ASSUME RInv, UNCHANGED <<retryQueue, retryLock, nextRetry>>,
         \A v \in Workers : pc[v] \in LockHeld \/ pc'[v] \in LockHeld =>
                              pc'[v] = pc[v] /\ task'[v] = task[v]
  PROVE  RetryOwner' /\ Sorted' /\ Covered'
<1> USE DEF RInv, LockHeld
<1>1. UNCHANGED retryTasks
  BY DEF retryTasks
<1>2. RetryOwner'
  BY <1>1 DEF RetryOwner, InRetries
<1>3. Sorted'
  BY DEF Sorted
<1>4. Covered'
  BY DEF Covered
<1> QED BY <1>2, <1>3, <1>4

\* The step of a worker moves nobody else.
LEMMA GotoOnly ==
  ASSUME RetryTypes, NEW p \in Processes, NEW l, Goto(p, l)
  PROVE  pc'[p] = l /\ \A q \in Processes \ {p} : pc'[q] = pc[q]
BY DEF RetryTypes, Goto

LEMMA GotoTypes ==
  ASSUME RetryTypes, NEW p \in Processes, NEW l, Goto(p, l),
         p \in Workers => l \in WorkerLabels, p \in Handles => l \in HandleLabels
  PROVE  /\ pc' \in [Processes -> WorkerLabels \cup HandleLabels]
         /\ \A w \in Workers : pc'[w] \in WorkerLabels
         /\ \A h \in Handles : pc'[h] \in HandleLabels
BY DEF RetryTypes, Goto, Processes

LEMMA WanderingKeeps ==
  ASSUME RInv, NEW w \in Workers, Wanders(w)
  PROVE  RInv'
<1>1. PICK l \in WorkerLabels \ WithTask : Goto(w, l) /\ l # "requeue"
  BY DEF Wanders, WithTask
<1>2. /\ pc'[w] = l /\ \A q \in Processes \ {w} : pc'[q] = pc[q]
      /\ \A h \in Handles : pc'[h] = pc[h]
      /\ \A v \in Workers \ {w} : pc'[v] = pc[v]
      /\ pc[w] \notin WithTask
  BY <1>1, GotoOnly DEF RInv, Processes, Wanders
<1>3. SamePlaces /\ UNCHANGED <<queue, task, batch, counter, delayVars>>
  BY DEF Wanders, Same, SamePlaces
<1>4. RetryTypes'
  <2>1. why' \in [Processes -> {"none", "task", "panic", "exit", "join", "husk"}]
    BY DEF Wanders, RInv, RetryTypes
  <2>2. /\ pc' \in [Processes -> WorkerLabels \cup HandleLabels]
        /\ \A v \in Workers : pc'[v] \in WorkerLabels
        /\ \A h \in Handles : pc'[h] \in HandleLabels
    BY <1>1, GotoTypes DEF RInv, Processes
  <2> QED BY <1>3, <2>1, <2>2 DEF RInv, RetryTypes, SamePlaces, delayVars
<1>5. HandsKnown'
  BY <1>1, <1>2, <1>3 DEF RInv, HandsKnown
<1>6. RetryLocated'
  <2>1. \A v \in Workers : Hands(v)' = Hands(v)
    BY <1>1, <1>2, <1>3 DEF Hands, WithTask
  <2>2. UNCHANGED retryTasks
    BY <1>3 DEF retryTasks, delayVars
  <2> QED BY <1>3, <2>1, <2>2, NothingMovesInRetry DEF RInv
<1>7. RetryOwner' /\ Sorted' /\ Covered'
  BY <1>1, <1>2, <1>3, QueueKept DEF delayVars, LockHeld, WithTask
<1>8. Attempted'
  BY <1>1, <1>2, <1>3 DEF RInv, Attempted, delayVars, WithTask
<1> QED BY <1>4, <1>5, <1>6, <1>7, <1>8 DEF RInv

LEMMA ProceedingKeeps ==
  ASSUME RInv, NEW h \in Handles, Proceeds(h)
  PROVE  RInv'
<1>1. /\ pc' \in [Processes -> WorkerLabels \cup HandleLabels]
      /\ \A w \in Workers : pc'[w] \in WorkerLabels
      /\ \A g \in Handles : pc'[g] \in HandleLabels
      /\ \A w \in Workers :
           pc'[w] = pc[w] \/ (pc[w] = "absent" /\ pc'[w] \in {"boot", "dead"})
      /\ \A g \in Handles : pc[g] \in WithBatch <=> pc'[g] \in WithBatch
  <2> DEFINE Good ==
        /\ pc' \in [Processes -> WorkerLabels \cup HandleLabels]
        /\ \A w \in Workers : pc'[w] \in WorkerLabels
        /\ \A g \in Handles : pc'[g] \in HandleLabels
        /\ \A w \in Workers :
             pc'[w] = pc[w] \/ (pc[w] = "absent" /\ pc'[w] \in {"boot", "dead"})
        /\ \A g \in Handles : pc[g] \in WithBatch <=> pc'[g] \in WithBatch
  <2>1. CASE UNCHANGED pc
    BY <2>1 DEF RInv, RetryTypes
  <2>2. ASSUME NEW l \in HandleLabels, Goto(h, l), pc[h] \in WithBatch <=> l \in WithBatch
        PROVE  Good
    <3>1. h \in Processes /\ h \notin Workers
      BY DEF Processes
    <3>2. /\ pc' \in [Processes -> WorkerLabels \cup HandleLabels]
          /\ \A w \in Workers : pc'[w] \in WorkerLabels
          /\ \A g \in Handles : pc'[g] \in HandleLabels
          /\ pc'[h] = l /\ \A q \in Processes \ {h} : pc'[q] = pc[q]
      BY <2>2, <3>1, GotoOnly, GotoTypes DEF RInv
    <3> QED BY <2>2, <3>1, <3>2 DEF Processes
  <2>3. ASSUME NEW w \in Workers, NEW l \in {"boot", "dead"}, pc[w] = "absent", Goto(w, l)
        PROVE  Good
    <3>1. w \in Processes /\ w \notin Handles /\ l \in WorkerLabels
      BY DEF Processes, WorkerLabels, WorkerPoints
    <3>2. /\ pc' \in [Processes -> WorkerLabels \cup HandleLabels]
          /\ \A v \in Workers : pc'[v] \in WorkerLabels
          /\ \A g \in Handles : pc'[g] \in HandleLabels
          /\ pc'[w] = l /\ \A q \in Processes \ {w} : pc'[q] = pc[q]
      BY <2>3, <3>1, GotoOnly, GotoTypes DEF RInv
    <3> QED BY <2>3, <3>1, <3>2 DEF Processes
  <2>4. ASSUME NEW g \in Handles, pc[g] = "absent", Goto(g, "idle") PROVE Good
    <3>1. g \in Processes /\ g \notin Workers /\ "idle" \in HandleLabels
      BY DEF Processes, HandleLabels, HandlePoints
    <3>2. /\ pc' \in [Processes -> WorkerLabels \cup HandleLabels]
          /\ \A w \in Workers : pc'[w] \in WorkerLabels
          /\ \A f \in Handles : pc'[f] \in HandleLabels
          /\ pc'[g] = "idle" /\ \A q \in Processes \ {g} : pc'[q] = pc[q]
      BY <2>4, <3>1, GotoOnly, GotoTypes DEF RInv
    <3>3. pc[g] \notin WithBatch /\ "idle" \notin WithBatch
      BY <2>4 DEF WithBatch
    <3> QED BY <2>4, <3>1, <3>2, <3>3 DEF Processes
  <2> QED BY <2>1, <2>2, <2>3, <2>4 DEF Proceeds
<1>2. SamePlaces /\ UNCHANGED <<queue, batch, counter, delayVars>>
  BY DEF Proceeds, Same, SamePlaces
<1>3. \A w \in Workers : task'[w] = task[w]
  BY DEF Proceeds
<1>4. RetryTypes'
  BY <1>1, <1>2 DEF Proceeds, RInv, RetryTypes, SamePlaces, delayVars
<1>5. HandsKnown'
  <2>1. \A w \in Workers : pc'[w] \in WithTask <=> pc[w] \in WithTask
    BY <1>1 DEF WithTask
  <2> QED BY <1>1, <1>2, <1>3, <2>1 DEF RInv, HandsKnown
<1>6. RetryLocated'
  <2>1. \A v \in Workers : Hands(v)' = Hands(v)
    BY <1>1, <1>3 DEF Hands
  <2>2. UNCHANGED retryTasks
    BY <1>2 DEF retryTasks, delayVars
  <2> QED BY <1>2, <2>1, <2>2, NothingMovesInRetry DEF RInv
<1>7. RetryOwner' /\ Sorted' /\ Covered'
  BY <1>1, <1>2, <1>3, QueueKept DEF delayVars, LockHeld
<1>8. Attempted'
  BY <1>1, <1>2, <1>3 DEF RInv, Attempted, delayVars
<1> QED BY <1>4, <1>5, <1>6, <1>7, <1>8 DEF RInv

\* A worker gets to a label that fits what it has.
LEMMA WorkerGoes ==
  ASSUME RInv, NEW w \in Workers, NEW l \in WorkerLabels, NEW x \in Tasks \cup {NoTask},
         Goto(w, l), UNCHANGED batch, task' = [task EXCEPT ![w] = x],
         x # NoTask <=> l \in WithTask
  PROVE  /\ pc' \in [Processes -> WorkerLabels \cup HandleLabels]
         /\ \A v \in Workers : pc'[v] \in WorkerLabels
         /\ \A h \in Handles : pc'[h] \in HandleLabels /\ pc'[h] = pc[h]
         /\ task' \in [Processes -> Tasks \cup {NoTask}]
         /\ pc'[w] = l /\ task'[w] = x
         /\ \A v \in Workers \ {w} :
              pc'[v] = pc[v] /\ task'[v] = task[v] /\ Hands(v)' = Hands(v)
         /\ HandsKnown'
<1>1. w \in Processes /\ w \notin Handles
  BY DEF Processes
<1>2. /\ pc' \in [Processes -> WorkerLabels \cup HandleLabels]
      /\ \A v \in Workers : pc'[v] \in WorkerLabels
      /\ \A h \in Handles : pc'[h] \in HandleLabels
      /\ pc'[w] = l /\ \A q \in Processes \ {w} : pc'[q] = pc[q]
  BY <1>1, GotoOnly, GotoTypes DEF RInv
<1>3. /\ task' \in [Processes -> Tasks \cup {NoTask}]
      /\ task'[w] = x /\ \A v \in Workers \ {w} : task'[v] = task[v]
  BY <1>1 DEF RInv, RetryTypes, Processes
<1>4. /\ \A h \in Handles : pc'[h] = pc[h]
      /\ \A v \in Workers \ {w} : pc'[v] = pc[v] /\ task'[v] = task[v]
  BY <1>1, <1>2, <1>3 DEF Processes
<1>5. HandsKnown'
  BY <1>2, <1>3, <1>4 DEF RInv, HandsKnown
<1> QED BY <1>2, <1>3, <1>4, <1>5 DEF Hands

LEMMA FinishKeeps ==
  ASSUME RInv, NEW w \in Workers, FinishTask(w), UNCHANGED retryVars
  PROVE  RInv'
<1>1. PICK l \in {"finish", "has_work", "dead", "aborted"} :
        Goto(w, l) /\ (UNCHANGED why \/ why' = [why EXCEPT ![w] = "panic"])
  <2>1. pc[w] = "finish" /\ w \in Processes
    BY DEF FinishTask, Processes
  <2>2. UNCHANGED pc => Goto(w, "finish")
    BY <2>1 DEF RInv, RetryTypes, Goto
  <2> QED BY <2>2 DEF FinishTask, Abort
<1>2. /\ SamePlaces /\ UNCHANGED <<queue, task, batch, delayVars>>
      /\ counter' = DecrementRight(counter, 1) /\ pc[w] = "finish"
  BY DEF FinishTask, SamePlaces, taskVars, outcomeVars, channelVars, holdVars, retryVars
<1>3. w \in Processes /\ task[w] = NoTask /\ task' = [task EXCEPT ![w] = NoTask]
  BY <1>2 DEF RInv, HandsKnown, RetryTypes, Processes, WithTask
<1>4. l \in WorkerLabels \ WithTask
  BY DEF WorkerLabels, WorkerPoints, WithTask
<1>5. /\ pc' \in [Processes -> WorkerLabels \cup HandleLabels]
      /\ \A v \in Workers : pc'[v] \in WorkerLabels
      /\ \A h \in Handles : pc'[h] \in HandleLabels
      /\ pc'[w] = l /\ HandsKnown'
      /\ \A v \in Workers \ {w} : pc'[v] = pc[v] /\ task'[v] = task[v]
  BY <1>1, <1>2, <1>3, <1>4, WorkerGoes
<1>6. RetryTypes'
  <2>1. counter' \in Pair
    BY <1>2, DecrementRightType DEF RInv, RetryTypes
  <2>2. why' \in [Processes -> {"none", "task", "panic", "exit", "join", "husk"}]
    BY <1>1, <1>3 DEF RInv, RetryTypes
  <2> QED BY <1>2, <1>5, <2>1, <2>2 DEF RInv, RetryTypes, SamePlaces, delayVars
<1>7. RetryLocated'
  <2>1. \A v \in Workers : Hands(v)' = Hands(v)
    BY <1>2, <1>3, <1>5 DEF Hands
  <2>2. UNCHANGED retryTasks
    BY <1>2 DEF retryTasks, delayVars
  <2> QED BY <1>2, <2>1, <2>2, NothingMovesInRetry DEF RInv
<1>8. RetryOwner' /\ Sorted' /\ Covered'
  BY <1>1, <1>2, <1>5, QueueKept DEF delayVars, LockHeld
<1>9. Attempted'
  BY <1>1, <1>2, <1>5 DEF RInv, Attempted, delayVars
<1> QED BY <1>5, <1>6, <1>7, <1>8, <1>9 DEF RInv

LEMMA ReceiveKeeps ==
  ASSUME RInv, NEW w \in Workers, Receive(w), UNCHANGED retryVars
  PROVE  RInv'
<1>1. /\ SamePlaces /\ UNCHANGED <<counter, why, batch, delayVars>>
      /\ pc[w] = "recv" /\ Goto(w, "transfer") /\ queue # <<>>
      /\ task' = [task EXCEPT ![w] = Head(queue)] /\ queue' = Tail(queue)
  BY DEF Receive, SamePlaces, taskVars, outcomeVars, retryVars
<1>2. /\ Head(queue) \in Range(queue) /\ Range(queue') = Range(queue) \ {Head(queue)}
      /\ IsInjective(queue') /\ Head(queue) \in Tasks /\ queue' \in Seq(Tasks)
  <2>1. queue \in Seq(Tasks) /\ IsInjective(queue)
    BY DEF RInv, RetryTypes, RetryLocated, NoRepeats
  <2>2. Tail(queue) \in Seq(Tasks)
    BY <1>1, <2>1
  <2> QED BY <1>1, <2>1, <2>2, TailRange, RangeOfTasks
<1>3. PICK head \in Tasks : head = Head(queue)
  BY <1>2
<1>4. head # NoTask /\ "transfer" \in WorkerLabels /\ "transfer" \in WithTask
  BY DEF Tasks, NoTask, WorkerLabels, WorkerPoints, WithTask
<1>5. /\ pc' \in [Processes -> WorkerLabels \cup HandleLabels]
      /\ \A v \in Workers : pc'[v] \in WorkerLabels
      /\ \A h \in Handles : pc'[h] \in HandleLabels
      /\ task' \in [Processes -> Tasks \cup {NoTask}]
      /\ pc'[w] = "transfer" /\ task'[w] = head
      /\ \A v \in Workers \ {w} :
           pc'[v] = pc[v] /\ task'[v] = task[v] /\ Hands(v)' = Hands(v)
      /\ HandsKnown'
  BY <1>1, <1>3, <1>4, WorkerGoes
<1>6. RetryTypes'
  BY <1>1, <1>2, <1>5 DEF RInv, RetryTypes, SamePlaces, delayVars
<1>7. RetryLocated'
  <2>1. Hands(w) = NoTask /\ Hands(w)' = head
    BY <1>1, <1>5 DEF Hands, RInv, HandsKnown, WithTask
  <2>2. UNCHANGED retryTasks
    BY <1>1 DEF retryTasks, delayVars
  <2> QED BY <1>1, <1>2, <1>3, <1>5, <2>1, <2>2, EntersHands DEF RInv
<1>8. RetryOwner' /\ Sorted' /\ Covered'
  BY <1>1, <1>5, QueueKept DEF delayVars, LockHeld
<1>9. Attempted'
  BY <1>1, <1>5 DEF RInv, Attempted, delayVars
<1> QED BY <1>5, <1>6, <1>7, <1>8, <1>9 DEF RInv

LEMMA CancelKeeps ==
  ASSUME RInv, NEW w \in Workers, Cancel(w), UNCHANGED retryVars
  PROVE  RInv'
<1>1. /\ SamePlaces /\ UNCHANGED <<counter, why, queue, task, batch, delayVars>>
      /\ pc[w] = "apply" /\ Goto(w, "cancelled")
  BY DEF Cancel, Move, restVars, SamePlaces, taskVars, outcomeVars, channelVars, holdVars,
         retryVars
<1>2. /\ w \in Processes /\ task[w] # NoTask /\ task' = [task EXCEPT ![w] = task[w]]
      /\ task[w] \in Tasks \cup {NoTask}
      /\ "cancelled" \in WorkerLabels /\ "cancelled" \in WithTask
  BY <1>1 DEF RInv, HandsKnown, RetryTypes, Processes, WorkerLabels, WorkerPoints, WithTask
<1>3. /\ pc' \in [Processes -> WorkerLabels \cup HandleLabels]
      /\ \A v \in Workers : pc'[v] \in WorkerLabels
      /\ \A h \in Handles : pc'[h] \in HandleLabels
      /\ pc'[w] = "cancelled" /\ task'[w] = task[w] /\ HandsKnown'
      /\ \A v \in Workers \ {w} :
           pc'[v] = pc[v] /\ task'[v] = task[v] /\ Hands(v)' = Hands(v)
  BY <1>1, <1>2, WorkerGoes
<1>4. RetryTypes'
  BY <1>1, <1>3 DEF RInv, RetryTypes, SamePlaces, delayVars
<1>5. RetryLocated'
  <2>1. \A v \in Workers : Hands(v)' = Hands(v)
    BY <1>1, <1>3 DEF Hands
  <2>2. UNCHANGED retryTasks
    BY <1>1 DEF retryTasks, delayVars
  <2> QED BY <1>1, <2>1, <2>2, NothingMovesInRetry DEF RInv
<1>6. RetryOwner' /\ Sorted' /\ Covered'
  BY <1>1, <1>3, QueueKept DEF delayVars, LockHeld
<1>7. Attempted'
  BY <1>1, <1>3 DEF RInv, Attempted, delayVars
<1> QED BY <1>3, <1>4, <1>5, <1>6, <1>7 DEF RInv

\* The task ends: with an outcome, or lost.
Ends(w) ==
  /\ pc[w] \in {"apply", "cancelled"}
  /\ \/ \E k \in {"processed", "unprocessed"} : Deliver({task[w]}, k) /\ UNCHANGED lost
     \/ lost' = lost \cup {task[w]} /\ UNCHANGED outcomeVars
  /\ \E reason \in {"task", "panic"} : EndTask(w, reason)
  /\ UNCHANGED <<counter, nextIndex, queue, batch, delayVars, poisoned>>

LEMMA EndKinds ==
  ASSUME NEW w \in Workers,
         \/ (Complete(w) \/ ReturnInput(w) \/ Panic(w)) /\ UNCHANGED retryVars
         \/ RetryPanics(w)
  PROVE  Ends(w)
<1> USE DEF Ends, taskVars, channelVars, flagVars, outcomeVars, retryVars
<1>1. CASE Complete(w) /\ UNCHANGED retryVars
  BY <1>1 DEF Complete
<1>2. CASE ReturnInput(w) /\ UNCHANGED retryVars
  BY <1>2 DEF ReturnInput
<1>3. CASE Panic(w) /\ UNCHANGED retryVars
  BY <1>3 DEF Panic
<1>4. CASE RetryPanics(w)
  BY <1>4 DEF RetryPanics
<1> QED BY <1>1, <1>2, <1>3, <1>4

LEMMA EndKeeps ==
  ASSUME RInv, NEW w \in Workers, Ends(w)
  PROVE  RInv'
<1>1. /\ UNCHANGED <<counter, nextIndex, queue, batch, delayVars>>
      /\ pc[w] \in {"apply", "cancelled"} /\ Goto(w, "finish")
      /\ task' = [task EXCEPT ![w] = NoTask]
      /\ \/ \E k \in {"processed", "unprocessed"} : Deliver({task[w]}, k) /\ UNCHANGED lost
         \/ lost' = lost \cup {task[w]} /\ UNCHANGED outcomeVars
  BY DEF Ends, EndTask
<1>2. PICK held \in Tasks : task[w] = held /\ Hands(w) = held
  <2>1. task[w] # NoTask /\ task[w] \in Tasks \cup {NoTask}
    BY <1>1 DEF RInv, HandsKnown, RetryTypes, Processes, WithTask
  <2> QED BY <1>1, <2>1 DEF Hands
<1>3. /\ pc' \in [Processes -> WorkerLabels \cup HandleLabels]
      /\ \A v \in Workers : pc'[v] \in WorkerLabels
      /\ \A h \in Handles : pc'[h] \in HandleLabels
      /\ task' \in [Processes -> Tasks \cup {NoTask}]
      /\ pc'[w] = "finish" /\ task'[w] = NoTask
      /\ \A v \in Workers \ {w} :
           pc'[v] = pc[v] /\ task'[v] = task[v] /\ Hands(v)' = Hands(v)
      /\ HandsKnown'
  <2>1. "finish" \in WorkerLabels /\ "finish" \notin WithTask
    BY DEF WorkerLabels, WorkerPoints, WithTask
  <2> QED BY <1>1, <2>1, WorkerGoes
<1>4. \/ \E k \in Kinds \ {"none"} : Deliver({held}, k) /\ UNCHANGED lost
      \/ lost' = lost \cup {held} /\ UNCHANGED outcomeVars
  BY <1>1, <1>2 DEF Kinds
<1>5. RetryTypes'
  <2>1. why' \in [Processes -> {"none", "task", "panic", "exit", "join", "husk"}]
    BY DEF Ends, EndTask, RInv, RetryTypes
  <2>2. /\ outcomes' \in [Tasks -> Kinds] /\ sent' \in [Tasks -> Kinds]
        /\ taken' \in [Tasks -> Kinds] /\ lost' \in SUBSET Tasks
    BY <1>4, Delivered DEF RInv, RetryTypes, outcomeVars
  <2> QED BY <1>1, <1>3, <2>1, <2>2 DEF RInv, RetryTypes, delayVars
<1>6. RetryLocated'
  <2>1. Hands(w)' = NoTask
    BY <1>3 DEF Hands
  <2>2. UNCHANGED retryTasks
    BY <1>1 DEF retryTasks, delayVars
  <2> QED BY <1>1, <1>2, <1>3, <1>4, <2>1, <2>2, LeavesHandsInRetry DEF RInv
<1>7. RetryOwner' /\ Sorted' /\ Covered'
  BY <1>1, <1>3, QueueKept DEF delayVars, LockHeld
<1>8. Attempted'
  BY <1>1, <1>3 DEF RInv, Attempted, delayVars
<1> QED BY <1>3, <1>5, <1>6, <1>7, <1>8 DEF RInv

\* What is first in the retry queue is popped.
LEMMA PopKeeps ==
  ASSUME RInv, NEW w \in Workers, PopRetry(w)
  PROVE  RInv'
<1>1. /\ SamePlaces /\ UNCHANGED <<counter, why, queue, batch, attempt, nextRetry>>
      /\ pc[w] = "pop" /\ Goto(w, "popped") /\ retryQueue # <<>>
      /\ retryLock = NoOne /\ retryLock' = w
      /\ task' = [task EXCEPT ![w] = Head(retryQueue).task]
      /\ retryQueue' = Tail(retryQueue)
  BY DEF PopRetry, SamePlaces, taskVars, outcomeVars, channelVars
<1>2. /\ retryQueue \in Seq(Entry) /\ retryTasks \in Seq(Tasks)
      /\ DOMAIN retryQueue = 1 .. Len(retryQueue) /\ Len(retryQueue) \in Nat
      /\ DOMAIN retryTasks = DOMAIN retryQueue /\ Len(retryTasks) = Len(retryQueue)
      /\ \A i \in DOMAIN retryQueue : retryTasks[i] = retryQueue[i].task
      /\ \A i \in DOMAIN retryQueue :
           retryQueue[i].task \in Tasks /\ retryQueue[i].in \in 0 .. MaxDelay
  BY TasksOfEntries DEF RInv, RetryTypes, retryTasks
<1>3. /\ Len(retryQueue) > 0 /\ Head(retryQueue) = retryQueue[1]
      /\ retryQueue' \in Seq(Entry) /\ Len(retryQueue') = Len(retryQueue) - 1
      /\ DOMAIN retryQueue' = 1 .. Len(retryQueue) - 1
      /\ \A i \in 1 .. Len(retryQueue) - 1 : retryQueue'[i] = retryQueue[i + 1]
  BY <1>1, <1>2, EmptySeq, HeadTailProperties, LenProperties
<1>4. PICK head \in Tasks : head = retryQueue[1].task /\ head = Head(retryTasks)
  <2>1. 1 \in DOMAIN retryQueue
    BY <1>2, <1>3
  <2>2. Head(retryTasks) = retryTasks[1]
    BY <1>2, <1>3
  <2> QED BY <1>2, <2>1, <2>2
<1>5. retryTasks' = Tail(retryTasks)
  <2>1. retryTasks' = [i \in 1 .. Len(retryQueue) - 1 |-> retryQueue[i + 1].task]
    BY <1>3 DEF retryTasks
  <2>2. Tail(retryTasks) \in Seq(Tasks) /\ Len(Tail(retryTasks)) = Len(retryQueue) - 1
        /\ \A i \in 1 .. Len(retryQueue) - 1 : Tail(retryTasks)[i] = retryTasks[i + 1]
    BY <1>2, <1>3, EmptySeq, HeadTailProperties
  <2>3. Tail(retryTasks) \in [1 .. Len(retryQueue) - 1 -> Tasks]
    BY <2>2, LenProperties
  <2>4. ASSUME NEW i \in 1 .. Len(retryQueue) - 1
        PROVE  Tail(retryTasks)[i] = retryQueue[i + 1].task
    <3>1. PICK k \in DOMAIN retryQueue : k = i + 1
      BY <1>2, <1>3
    <3>2. retryTasks[k] = retryQueue[k].task
      BY <1>2, <3>1
    <3>3. Tail(retryTasks)[i] = retryTasks[k]
      BY <2>2, <3>1
    <3> QED BY <3>1, <3>2, <3>3
  <2> QED BY <2>1, <2>3, <2>4
<1>6. /\ head \in Range(retryTasks) /\ Range(retryTasks') = Range(retryTasks) \ {head}
      /\ IsInjective(retryTasks')
  <2>1. retryTasks # <<>> /\ IsInjective(retryTasks)
    BY <1>2, <1>3 DEF RInv, RetryLocated
  <2> QED BY <1>2, <1>4, <1>5, <2>1, TailRange
<1>7. head # NoTask /\ "popped" \in WorkerLabels /\ "popped" \in WithTask
  BY DEF Tasks, NoTask, WorkerLabels, WorkerPoints, WithTask
<1>8. /\ pc' \in [Processes -> WorkerLabels \cup HandleLabels]
      /\ \A v \in Workers : pc'[v] \in WorkerLabels
      /\ \A h \in Handles : pc'[h] \in HandleLabels
      /\ task' \in [Processes -> Tasks \cup {NoTask}]
      /\ pc'[w] = "popped" /\ task'[w] = head
      /\ \A v \in Workers \ {w} :
           pc'[v] = pc[v] /\ task'[v] = task[v] /\ Hands(v)' = Hands(v)
      /\ HandsKnown'
  <2>1. task' = [task EXCEPT ![w] = head]
    BY <1>1, <1>3, <1>4
  <2>2. Goto(w, "popped") /\ UNCHANGED batch
    BY <1>1
  <2>3. head \in Tasks \cup {NoTask} /\ (head # NoTask <=> "popped" \in WithTask)
    BY <1>7
  <2>4. RInv /\ "popped" \in WorkerLabels
    BY <1>7
  <2>5. w \in Processes /\ w \notin Handles
    BY DEF Processes
  <2>6. /\ pc' \in [Processes -> WorkerLabels \cup HandleLabels]
        /\ \A v \in Workers : pc'[v] \in WorkerLabels
        /\ \A h \in Handles : pc'[h] \in HandleLabels
        /\ pc'[w] = "popped" /\ \A q \in Processes \ {w} : pc'[q] = pc[q]
    BY <2>2, <2>4, <2>5, GotoOnly, GotoTypes DEF RInv
  <2>7. HandsKnown' /\ \A v \in Workers \ {w} : task'[v] = task[v] /\ Hands(v)' = Hands(v)
    BY <2>1, <2>2, <2>3, <2>4, WorkerGoes
  <2>8. task' \in [Processes -> Tasks \cup {NoTask}] /\ task'[w] = head
    BY <2>1, <2>5 DEF RInv, RetryTypes
  <2> QED BY <2>6, <2>7, <2>8 DEF Processes
<1>9. RetryTypes'
  BY <1>1, <1>3, <1>8 DEF RInv, RetryTypes, SamePlaces
<1>10. RetryLocated'
  <2>1. Hands(w) = NoTask /\ Hands(w)' = head
    BY <1>1, <1>8 DEF Hands, RInv, HandsKnown, WithTask
  <2> QED BY <1>1, <1>6, <1>8, <2>1, EntersHands DEF RInv
<1>11. RetryOwner'
  <2>1. \A v \in Workers : pc[v] \notin LockHeld
    BY <1>1 DEF RInv, RetryOwner
  <2>2. \A v \in Workers : pc'[v] # "requeued"
    BY <1>8, <2>1 DEF LockHeld
  <2>3. pc'[w] \in LockHeld
    BY <1>8 DEF LockHeld
  <2> QED BY <1>1, <1>8, <2>1, <2>2, <2>3 DEF RetryOwner
<1>12. Sorted'
  <2>1. \A i, j \in 1 .. Len(retryQueue) :
          i <= j => retryQueue[i].in <= retryQueue[j].in
    BY <1>2 DEF RInv, Sorted
  <2>2. ASSUME NEW i \in DOMAIN retryQueue', NEW j \in DOMAIN retryQueue', i <= j
        PROVE  retryQueue'[i].in <= retryQueue'[j].in
    <3>1. /\ i \in 1 .. Len(retryQueue) - 1 /\ retryQueue'[i] = retryQueue[i + 1]
          /\ j \in 1 .. Len(retryQueue) - 1 /\ retryQueue'[j] = retryQueue[j + 1]
      BY <1>3
    <3>2. Len(retryQueue) \in Nat
      BY <1>2
    <3>3. /\ i + 1 \in 1 .. Len(retryQueue) /\ j + 1 \in 1 .. Len(retryQueue)
          /\ i + 1 <= j + 1
      BY <2>2, <3>1, <3>2
    <3> QED BY <2>1, <3>1, <3>3
  <2> QED BY <2>2 DEF Sorted
<1>13. Covered'
  BY <1>8 DEF Covered
<1>14. Attempted'
  BY <1>1, <1>8 DEF RInv, Attempted
<1> QED BY <1>8, <1>9, <1>10, <1>11, <1>12, <1>13, <1>14 DEF RInv

LEMMA PopUpdateKeeps ==
  ASSUME RInv, NEW w \in Workers, UpdateAfterPop(w)
  PROVE  RInv'
<1>1. /\ SamePlaces
      /\ UNCHANGED <<counter, why, queue, task, batch, attempt, retryQueue>>
      /\ pc[w] = "popped" /\ Goto(w, "transfer") /\ retryLock' = NoOne
      /\ UpdateNextRetry(IF retryQueue = <<>> THEN Never ELSE Head(retryQueue).in)
  BY DEF UpdateAfterPop, Move, restVars, SamePlaces, taskVars, outcomeVars, channelVars,
         holdVars
<1>2. /\ w \in Processes /\ task[w] # NoTask /\ task' = [task EXCEPT ![w] = task[w]]
      /\ task[w] \in Tasks \cup {NoTask}
      /\ "transfer" \in WorkerLabels /\ "transfer" \in WithTask
  BY <1>1 DEF RInv, HandsKnown, RetryTypes, Processes, WorkerLabels, WorkerPoints, WithTask
<1>3. /\ pc' \in [Processes -> WorkerLabels \cup HandleLabels]
      /\ \A v \in Workers : pc'[v] \in WorkerLabels
      /\ \A h \in Handles : pc'[h] \in HandleLabels
      /\ pc'[w] = "transfer" /\ task'[w] = task[w] /\ HandsKnown'
      /\ \A v \in Workers \ {w} :
           pc'[v] = pc[v] /\ task'[v] = task[v] /\ Hands(v)' = Hands(v)
  BY <1>1, <1>2, WorkerGoes
<1>4. /\ DOMAIN retryQueue = 1 .. Len(retryQueue) /\ Len(retryQueue) \in Nat
      /\ \A i \in DOMAIN retryQueue : retryQueue[i].in \in Nat
      /\ nextRetry \in {Never} \cup Nat
      /\ retryQueue # <<>> => /\ 1 \in DOMAIN retryQueue
                              /\ Head(retryQueue) = retryQueue[1]
  <2>1. retryQueue \in Seq(Entry)
    BY DEF RInv, RetryTypes
  <2>2. DOMAIN retryQueue = 1 .. Len(retryQueue) /\ Len(retryQueue) \in Nat
    BY <2>1, LenProperties
  <2>3. retryQueue # <<>> => Len(retryQueue) > 0 /\ Head(retryQueue) = retryQueue[1]
    BY <2>1, EmptySeq, HeadTailProperties
  <2>4. \A i \in DOMAIN retryQueue : retryQueue[i].in \in Nat
    <3>1. \A i \in DOMAIN retryQueue : retryQueue[i].in \in 0 .. MaxDelay
      BY <2>1, TasksOfEntries
    <3> QED BY <3>1
  <2>5. nextRetry \in {Never} \cup Nat
    BY DEF RInv, RetryTypes
  <2>6. retryQueue # <<>> => 1 \in DOMAIN retryQueue
    BY <2>2, <2>3
  <2> QED BY <2>2, <2>3, <2>4, <2>5, <2>6
<1>5. /\ nextRetry' \in {Never} \cup Nat
      /\ \A i \in DOMAIN retryQueue : nextRetry' # Never /\ nextRetry' <= retryQueue[i].in
  <2>1. CASE retryQueue = <<>>
    <3>1. nextRetry' = Never
      BY <1>1, <2>1 DEF UpdateNextRetry
    <3>2. DOMAIN retryQueue = {}
      BY <2>1
    <3> QED BY <3>1, <3>2
  <2>2. CASE retryQueue # <<>>
    <3>1. PICK first \in Nat : first = retryQueue[1].in
      BY <1>4, <2>2
    <3>2. nextRetry' = IF first = Never \/ nextRetry = Never \/ first < nextRetry
                       THEN first ELSE nextRetry
      BY <1>1, <1>4, <2>2, <3>1 DEF UpdateNextRetry
    <3>3. nextRetry' \in Nat /\ nextRetry' <= first
      BY <1>4, <3>2 DEF Never
    <3>4. \A i \in DOMAIN retryQueue : first <= retryQueue[i].in
      BY <1>4, <2>2, <3>1 DEF RInv, Sorted
    <3> QED BY <1>4, <3>1, <3>3, <3>4 DEF Never
  <2> QED BY <2>1, <2>2
<1>6. RetryTypes'
  BY <1>1, <1>3, <1>5 DEF RInv, RetryTypes, SamePlaces
<1>7. RetryLocated'
  <2>1. \A v \in Workers : Hands(v)' = Hands(v)
    BY <1>1, <1>3 DEF Hands
  <2>2. UNCHANGED retryTasks
    BY <1>1 DEF retryTasks
  <2> QED BY <1>1, <2>1, <2>2, NothingMovesInRetry DEF RInv
<1>8. RetryOwner'
  <2>1. \A v \in Workers \ {w} : pc[v] \notin LockHeld
    BY <1>1 DEF RInv, RetryOwner, LockHeld
  <2>2. \A v \in Workers : pc'[v] \notin LockHeld
    BY <1>3, <2>1 DEF LockHeld
  <2>3. \A v \in Workers : pc'[v] # "requeued"
    BY <2>2 DEF LockHeld
  <2> QED BY <1>1, <2>2, <2>3 DEF RetryOwner
<1>9. Sorted' /\ Covered'
  BY <1>1, <1>5 DEF RInv, Sorted, Covered
<1>10. Attempted'
  BY <1>1, <1>3 DEF RInv, Attempted
<1> QED BY <1>3, <1>6, <1>7, <1>8, <1>9, <1>10 DEF RInv

LEMMA RetryTransferKeeps ==
  ASSUME RInv, NEW w \in Workers, RetryTransferTask(w)
  PROVE  RInv'
<1>1. /\ UNCHANGED <<nextIndex, outcomes, sent, taken, queue, batch, delayVars>>
      /\ pc[w] = "transfer" /\ counter' = Transfer(counter, 1)
      /\ \/ Goto(w, "apply") /\ UNCHANGED <<task, lost, why>>
         \/ /\ Goto(w, "finish") /\ lost' = lost \cup {task[w]}
            /\ task' = [task EXCEPT ![w] = NoTask]
            /\ why' = [why EXCEPT ![w] = "exit"]
  BY DEF RetryTransferTask, TransferTask, Exit, taskVars, outcomeVars, channelVars,
         retryVars
<1>2. PICK held \in Tasks : task[w] = held /\ Hands(w) = held
  <2>1. task[w] # NoTask /\ task[w] \in Tasks \cup {NoTask}
    BY <1>1 DEF RInv, HandsKnown, RetryTypes, Processes, WithTask
  <2> QED BY <1>1, <2>1 DEF Hands
<1>3. held # NoTask /\ w \in Processes
  BY DEF Tasks, NoTask, Processes
<1>4. PICK l \in {"apply", "finish"}, x \in Tasks \cup {NoTask} :
        /\ Goto(w, l) /\ task' = [task EXCEPT ![w] = x] /\ (x # NoTask <=> l = "apply")
        /\ \/ UNCHANGED <<lost, why>> /\ x = held
           \/ /\ lost' = lost \cup {held} /\ x = NoTask
              /\ why' = [why EXCEPT ![w] = "exit"]
  <2>1. CASE Goto(w, "apply") /\ UNCHANGED <<task, lost, why>>
    <3>1. task' = [task EXCEPT ![w] = held]
      BY <1>2, <2>1 DEF RInv, RetryTypes
    <3> QED BY <1>3, <2>1, <3>1
  <2>2. CASE /\ Goto(w, "finish") /\ lost' = lost \cup {task[w]}
             /\ task' = [task EXCEPT ![w] = NoTask]
             /\ why' = [why EXCEPT ![w] = "exit"]
    BY <1>2, <2>2
  <2> QED BY <1>1, <2>1, <2>2
<1>5. /\ pc' \in [Processes -> WorkerLabels \cup HandleLabels]
      /\ \A v \in Workers : pc'[v] \in WorkerLabels
      /\ \A h \in Handles : pc'[h] \in HandleLabels
      /\ task' \in [Processes -> Tasks \cup {NoTask}]
      /\ pc'[w] = l /\ task'[w] = x
      /\ \A v \in Workers \ {w} :
           pc'[v] = pc[v] /\ task'[v] = task[v] /\ Hands(v)' = Hands(v)
      /\ HandsKnown'
  <2>1. l \in WorkerLabels /\ (x # NoTask <=> l \in WithTask)
    BY <1>4 DEF WorkerLabels, WorkerPoints, WithTask
  <2> QED BY <1>1, <1>4, <2>1, WorkerGoes
<1>6. RetryTypes'
  <2>1. counter' \in Pair
    BY <1>1, TransferType DEF RInv, RetryTypes
  <2>2. /\ why' \in [Processes -> {"none", "task", "panic", "exit", "join", "husk"}]
        /\ lost' \in SUBSET Tasks
    BY <1>3, <1>4 DEF RInv, RetryTypes
  <2> QED BY <1>1, <1>5, <2>1, <2>2 DEF RInv, RetryTypes, delayVars
<1>7. UNCHANGED retryTasks
  BY <1>1 DEF retryTasks, delayVars
<1>8. Hands(w)' = x
  BY <1>4, <1>5 DEF Hands
<1>9. RetryLocated'
  <2>1. CASE UNCHANGED <<lost, why>> /\ x = held
    BY <1>1, <1>2, <1>5, <1>7, <1>8, <2>1, NothingMovesInRetry DEF RInv, SamePlaces
  <2>2. CASE lost' = lost \cup {held} /\ x = NoTask
    BY <1>1, <1>2, <1>5, <1>7, <1>8, <2>2, LeavesHandsInRetry DEF RInv, outcomeVars
  <2> QED BY <1>4, <2>1, <2>2
<1>10. RetryOwner' /\ Sorted' /\ Covered'
  BY <1>1, <1>5, QueueKept DEF delayVars, LockHeld
<1>11. Attempted'
  BY <1>1, <1>5 DEF RInv, Attempted, delayVars
<1> QED BY <1>5, <1>6, <1>9, <1>10, <1>11 DEF RInv

LEMMA RetryKeeps ==
  ASSUME RInv, NEW w \in Workers, Retry(w)
  PROVE  RInv'
<1>1. /\ SamePlaces
      /\ UNCHANGED <<counter, why, queue, task, batch, retryQueue, retryLock, nextRetry>>
      /\ pc[w] = "apply" /\ Goto(w, "requeue")
      /\ attempt' = [attempt EXCEPT ![task[w]] = @ + 1]
  BY DEF Retry, Move, restVars, SamePlaces, taskVars, outcomeVars, channelVars, holdVars
<1>2. /\ w \in Processes /\ task[w] # NoTask /\ task' = [task EXCEPT ![w] = task[w]]
      /\ task[w] \in Tasks \cup {NoTask}
      /\ "requeue" \in WorkerLabels /\ "requeue" \in WithTask
  BY <1>1 DEF RInv, HandsKnown, RetryTypes, Processes, WorkerLabels, WorkerPoints, WithTask
<1>3. /\ pc' \in [Processes -> WorkerLabels \cup HandleLabels]
      /\ \A v \in Workers : pc'[v] \in WorkerLabels
      /\ \A h \in Handles : pc'[h] \in HandleLabels
      /\ pc'[w] = "requeue" /\ task'[w] = task[w] /\ HandsKnown'
      /\ \A v \in Workers \ {w} :
           pc'[v] = pc[v] /\ task'[v] = task[v] /\ Hands(v)' = Hands(v)
  BY <1>1, <1>2, WorkerGoes
<1>4. /\ attempt \in [Tasks -> Nat] /\ attempt' \in [Tasks -> Nat]
      /\ \A t \in Tasks : attempt'[t] >= attempt[t]
      /\ task[w] \in Tasks /\ attempt'[task[w]] > 0
  <2>1. attempt \in [Tasks -> Nat] /\ task[w] \in Tasks
    BY <1>2 DEF RInv, RetryTypes
  <2>2. attempt[task[w]] \in Nat /\ attempt[task[w]] + 1 \in Nat \ {0}
    BY <2>1
  <2> QED BY <1>1, <2>1, <2>2
<1>5. RetryTypes'
  BY <1>1, <1>3, <1>4 DEF RInv, RetryTypes, SamePlaces
<1>6. RetryLocated'
  <2>1. \A v \in Workers : Hands(v)' = Hands(v)
    BY <1>1, <1>3 DEF Hands
  <2>2. UNCHANGED retryTasks
    BY <1>1 DEF retryTasks
  <2> QED BY <1>1, <2>1, <2>2, NothingMovesInRetry DEF RInv
<1>7. RetryOwner' /\ Sorted' /\ Covered'
  BY <1>1, <1>3, QueueKept DEF LockHeld
<1>8. Attempted'
  <2>1. ASSUME NEW v \in Workers \ {w}, pc'[v] = "requeue" PROVE attempt'[task'[v]] > 0
    <3>1. pc[v] = "requeue" /\ task'[v] = task[v] /\ attempt[task[v]] > 0
      BY <1>3, <2>1 DEF RInv, Attempted
    <3>2. task[v] \in Tasks
      BY <3>1 DEF RInv, RetryTypes, HandsKnown, WithTask, Processes
    <3>3. attempt[task[v]] \in Nat /\ attempt'[task[v]] \in Nat
      BY <1>4, <3>2
    <3> QED BY <1>4, <3>1, <3>2, <3>3
  <2> QED BY <1>3, <1>4, <2>1 DEF Attempted
<1> QED BY <1>3, <1>5, <1>6, <1>7, <1>8 DEF RInv

\* What is pushed has its place in the order.
LEMMA PushSorted ==
  ASSUME NEW s \in Seq(Entry), NEW i \in 1 .. Len(s) + 1, NEW e \in Entry,
         NEW q \in Seq(Entry), Len(q) = Len(s) + 1,
         Inserted(q, s, i, e), InOrder(s), IsOrdered(q)
  PROVE  InOrder(q)
<1> USE DEF Inserted, InOrder
<1> DEFINE n == Len(s)
<1>1. n \in Nat /\ i \in 1 .. n + 1 /\ DOMAIN s = 1 .. n /\ DOMAIN q = 1 .. n + 1
  BY LenProperties
<1>2. \A j \in DOMAIN q : q[j].in \in 0 .. MaxDelay
  BY TasksOfEntries
<1>3. \A j \in DOMAIN q : q[j].in \in Int
  BY <1>2
<1>4. \A j \in 1 .. n : q[j].in <= q[j + 1].in
  <2>1. Len(q) - 1 = n
    BY <1>1
  <2> QED BY <2>1 DEF IsOrdered
<1>5. \A j \in 1 .. n + 1 :
        q[j] = IF j < i THEN s[j] ELSE IF j = i THEN e ELSE s[j - 1]
  OBVIOUS
<1>6. \A j, k \in 1 .. n : j <= k => s[j].in <= s[k].in
  OBVIOUS
<1> HIDE DEF n
<1>7. ASSUME NEW j \in 1 .. n + 1, NEW k \in 1 .. n + 1, j <= k, j # i, k # i
      PROVE  q[j].in <= q[k].in
  <2>1. CASE k < i
    <3>1. j \in 1 .. n /\ k \in 1 .. n /\ q[j] = s[j] /\ q[k] = s[k]
      BY <1>1, <1>5, <1>7, <2>1
    <3> QED BY <1>6, <1>7, <3>1
  <2>2. CASE j > i
    <3>1. j - 1 \in 1 .. n /\ k - 1 \in 1 .. n /\ q[j] = s[j - 1] /\ q[k] = s[k - 1]
      BY <1>1, <1>5, <1>7, <2>2
    <3>2. j - 1 <= k - 1
      BY <1>7
    <3> QED BY <1>6, <3>1, <3>2
  <2>3. CASE j < i /\ k > i
    <3>1. j \in 1 .. n /\ k - 1 \in 1 .. n /\ q[j] = s[j] /\ q[k] = s[k - 1] /\ j <= k - 1
      BY <1>1, <1>5, <1>7, <2>3
    <3> QED BY <1>6, <3>1
  <2> QED BY <1>1, <1>7, <2>1, <2>2, <2>3
<1>8. ASSUME NEW k \in 1 .. n + 1, i < k PROVE q[i].in <= q[k].in
  <2>1. i \in 1 .. n /\ i + 1 \in 1 .. n + 1 /\ i + 1 # i /\ i + 1 <= k /\ k # i
    BY <1>1, <1>8
  <2>2. q[i].in <= q[i + 1].in /\ q[i + 1].in <= q[k].in
    BY <1>4, <1>7, <2>1
  <2> QED BY <1>1, <1>3, <2>1, <2>2
<1>9. ASSUME NEW j \in 1 .. n + 1, j < i PROVE q[j].in <= q[i].in
  <2>1. i - 1 \in 1 .. n /\ i - 1 # i /\ j <= i - 1 /\ j # i /\ (i - 1) + 1 = i
        /\ i - 1 \in 1 .. n + 1
    BY <1>1, <1>9
  <2>2. q[j].in <= q[i - 1].in
    BY <1>7, <2>1
  <2>3. q[i - 1].in <= q[i].in
    BY <1>4, <2>1
  <2>4. q[j].in \in Int /\ q[i - 1].in \in Int /\ q[i].in \in Int
    BY <1>1, <1>3, <2>1
  <2> QED BY <2>2, <2>3, <2>4
<1>10. ASSUME NEW j \in 1 .. n + 1, NEW k \in 1 .. n + 1, j <= k
       PROVE  q[j].in <= q[k].in
  <2>1. CASE j = i /\ k = i
    BY <1>1, <1>3, <2>1
  <2>2. CASE j = i /\ k # i
    BY <1>1, <1>8, <1>10, <2>2
  <2>3. CASE j # i /\ k = i
    BY <1>1, <1>9, <1>10, <2>3
  <2> QED BY <1>7, <1>10, <2>1, <2>2, <2>3
<1> QED BY <1>1, <1>10

\* What a push does to the queue and to its tasks.
LEMMA PushProperties ==
  ASSUME NEW s \in Seq(Entry), NEW i \in 1 .. Len(s) + 1, NEW e \in Entry, NEW q,
         q = InsertAt(s, i, e), IsOrdered(q), InOrder(s),
         IsInjective(TasksOf(s)), e.task \notin Range(TasksOf(s))
  PROVE  /\ q \in Seq(Entry) /\ i \in DOMAIN q /\ q[i] = e
         /\ \A j \in DOMAIN q : j # i => \E k \in DOMAIN s : q[j] = s[k]
         /\ InOrder(q) /\ IsInjective(TasksOf(q))
         /\ Range(TasksOf(q)) = Range(TasksOf(s)) \cup {e.task}
<1>1. Len(s) \in Nat /\ DOMAIN s = 1 .. Len(s)
  BY LenProperties
<1>2. q \in Seq(Entry) /\ Len(q) = Len(s) + 1 /\ Inserted(q, s, i, e)
  BY InsertAtProperties
<1>3. i \in DOMAIN q /\ q[i] = e
  BY <1>1, <1>2 DEF Inserted
<1>4. ASSUME NEW j \in 1 .. Len(s) + 1, j # i
      PROVE  /\ j < i => j \in DOMAIN s /\ q[j] = s[j]
             /\ j > i => j - 1 \in DOMAIN s /\ q[j] = s[j - 1]
             /\ j < i \/ j > i
  BY <1>1, <1>2, <1>4 DEF Inserted
<1>5. InOrder(q)
  BY <1>2, PushSorted
<1>6. /\ TasksOf(s) \in Seq(Tasks) /\ DOMAIN TasksOf(s) = 1 .. Len(s)
      /\ Len(TasksOf(s)) = Len(s) /\ TasksOf(q) \in Seq(Tasks)
      /\ \A j \in DOMAIN s : TasksOf(s)[j] = s[j].task
      /\ \A j \in DOMAIN q : TasksOf(q)[j] = q[j].task
      /\ DOMAIN TasksOf(q) = DOMAIN q
  BY <1>1, <1>2, TasksOfEntries DEF TasksOf
<1>7. e.task \in Tasks
  BY DEF Entry
<1>8. Inserted(TasksOf(q), TasksOf(s), i, e.task)
  <2>1. ASSUME NEW j \in 1 .. Len(s) + 1
        PROVE  TasksOf(q)[j] = IF j < i THEN TasksOf(s)[j]
                               ELSE IF j = i THEN e.task ELSE TasksOf(s)[j - 1]
    <3>1. TasksOf(q)[j] = q[j].task /\ i \in Int /\ j \in Int
      BY <1>1, <1>2, <1>6 DEF Inserted
    <3>2. CASE j = i
      BY <1>3, <3>1, <3>2
    <3>3. CASE j < i
      <4>1. j # i /\ j \in DOMAIN s /\ q[j] = s[j]
        BY <1>4, <3>1, <3>3
      <4>2. TasksOf(q)[j] = TasksOf(s)[j]
        BY <1>6, <3>1, <4>1
      <4> QED BY <3>3, <4>2
    <3>4. CASE j > i
      <4>1. j # i /\ ~(j < i) /\ j - 1 \in DOMAIN s /\ q[j] = s[j - 1]
        BY <1>4, <3>1, <3>4
      <4>2. PICK k \in DOMAIN s : k = j - 1
        BY <4>1
      <4>3. TasksOf(q)[j] = TasksOf(s)[k]
        BY <1>6, <3>1, <4>1, <4>2
      <4> QED BY <4>1, <4>2, <4>3
    <3> QED BY <3>1, <3>2, <3>3, <3>4
  <2>2. DOMAIN TasksOf(q) = 1 .. Len(s) + 1
    BY <1>2, <1>6 DEF Inserted
  <2> QED BY <1>6, <2>1, <2>2 DEF Inserted
<1>9. /\ Range(TasksOf(q)) = Range(TasksOf(s)) \cup {e.task}
      /\ IsInjective(TasksOf(q))
  <2>1. i \in 1 .. Len(TasksOf(s)) + 1
    BY <1>6
  <2>2. TasksOf(s) \in Seq(Tasks) /\ TasksOf(q) \in Seq(Tasks)
    BY <1>6
  <2>3. /\ Range(TasksOf(q)) = Range(TasksOf(s)) \cup {e.task}
        /\ IsInjective(TasksOf(s)) /\ e.task \notin Range(TasksOf(s))
             => IsInjective(TasksOf(q))
    BY <1>7, <1>8, <2>1, <2>2, InsertAtRange
  <2> QED BY <2>3
<1>10. \A j \in DOMAIN q : j # i => \E k \in DOMAIN s : q[j] = s[k]
  <2>1. DOMAIN q = 1 .. Len(s) + 1
    BY <1>2 DEF Inserted
  <2> QED BY <1>4, <2>1
<1> QED BY <1>2, <1>3, <1>5, <1>9, <1>10

\* The task goes where its time puts it.
LEMMA Pushed ==
  ASSUME RInv, NEW w \in Workers, QueueRetry(w)
  PROVE  \E held \in Tasks, e \in Entry, i \in Nat :
        /\ task[w] = held /\ Hands(w) = held /\ e.task = held
        /\ retryQueue' \in Seq(Entry) /\ i \in DOMAIN retryQueue' /\ retryQueue'[i] = e
        /\ \A j \in DOMAIN retryQueue' :
             j # i => \E k \in DOMAIN retryQueue : retryQueue'[j] = retryQueue[k]
        /\ InOrder(retryQueue') /\ IsInjective(retryTasks')
        /\ Range(retryTasks') = Range(retryTasks) \cup {held}
<1>1. pc[w] = "requeue"
  BY DEF QueueRetry
<1>2. PICK held \in Tasks : task[w] = held /\ Hands(w) = held /\ attempt[held] > 0
  <2>1. task[w] # NoTask /\ task[w] \in Tasks \cup {NoTask}
    BY <1>1 DEF RInv, HandsKnown, RetryTypes, Processes, WithTask
  <2> QED BY <1>1, <2>1 DEF Hands, RInv, Attempted
<1>3. PICK e \in Entry : e = [task |-> held, in |-> Delay(attempt[held])]
  <2>1. attempt[held] \in Nat \ {0}
    BY <1>2 DEF RInv, RetryTypes
  <2>2. Delay(attempt[held]) \in 0 .. MaxDelay
    BY <2>1, DelayType
  <2> QED BY <2>2 DEF Entry
<1>4. PICK i \in 1 .. Len(retryQueue) + 1 :
        retryQueue' = InsertAt(retryQueue, i, e) /\ IsOrdered(retryQueue')
  BY <1>2, <1>3 DEF QueueRetry
<1>5. IsInjective(retryTasks) /\ held \notin Range(retryTasks)
  <2>1. ~InRetries(held)
    BY <1>2 DEF RInv, RetryLocated, OnePlaceEach, Only
  <2> QED BY <2>1 DEF RInv, RetryLocated, InRetries
<1>6. /\ retryQueue' \in Seq(Entry) /\ i \in DOMAIN retryQueue' /\ retryQueue'[i] = e
      /\ \A j \in DOMAIN retryQueue' :
           j # i => \E k \in DOMAIN retryQueue : retryQueue'[j] = retryQueue[k]
      /\ InOrder(retryQueue') /\ IsInjective(retryTasks')
      /\ Range(retryTasks') = Range(retryTasks) \cup {held}
  <2>1. e.task = held /\ retryQueue \in Seq(Entry)
    BY <1>3 DEF RInv, RetryTypes
  <2>2. InOrder(retryQueue)
    BY DEF RInv, Sorted, InOrder
  <2>3. TasksOf(retryQueue) = retryTasks
    BY DEF retryTasks, TasksOf
  <2>4. PICK q : q = retryQueue'
    OBVIOUS
  <2>5. TasksOf(q) = retryTasks'
    BY <2>4 DEF retryTasks, TasksOf
  <2>6. /\ q = InsertAt(retryQueue, i, e) /\ IsOrdered(q)
        /\ IsInjective(TasksOf(retryQueue)) /\ e.task \notin Range(TasksOf(retryQueue))
    BY <1>4, <1>5, <2>1, <2>3, <2>4
  <2>7. /\ q \in Seq(Entry) /\ i \in DOMAIN q /\ q[i] = e
        /\ \A j \in DOMAIN q : j # i => \E k \in DOMAIN retryQueue : q[j] = retryQueue[k]
        /\ InOrder(q) /\ IsInjective(TasksOf(q))
        /\ Range(TasksOf(q)) = Range(TasksOf(retryQueue)) \cup {e.task}
    BY <2>1, <2>2, <2>6, PushProperties
  <2> QED BY <2>1, <2>3, <2>4, <2>5, <2>7
<1>7. i \in Nat
  <2>1. Len(retryQueue) \in Nat
    BY LenProperties DEF RInv, RetryTypes
  <2> QED BY <2>1
<1>8. e.task = held
  BY <1>3
<1> QED BY <1>2, <1>6, <1>7, <1>8

LEMMA PushKeeps ==
  ASSUME RInv, NEW w \in Workers, QueueRetry(w)
  PROVE  RInv'
<1>1. /\ SamePlaces /\ UNCHANGED <<why, queue, task, batch, attempt, nextRetry>>
      /\ pc[w] = "requeue" /\ Goto(w, "requeued")
      /\ counter' = IncrementLeft(counter, 1)
      /\ retryLock = NoOne /\ retryLock' = w
  BY DEF QueueRetry, SamePlaces, taskVars, outcomeVars, channelVars
<1>2. PICK held \in Tasks, e \in Entry, i \in Nat :
        /\ task[w] = held /\ Hands(w) = held /\ e.task = held
        /\ retryQueue' \in Seq(Entry) /\ i \in DOMAIN retryQueue' /\ retryQueue'[i] = e
        /\ \A j \in DOMAIN retryQueue' :
             j # i => \E k \in DOMAIN retryQueue : retryQueue'[j] = retryQueue[k]
        /\ InOrder(retryQueue') /\ IsInjective(retryTasks')
        /\ Range(retryTasks') = Range(retryTasks) \cup {held}
  BY Pushed
<1>9. /\ pc' \in [Processes -> WorkerLabels \cup HandleLabels]
      /\ \A v \in Workers : pc'[v] \in WorkerLabels
      /\ \A h \in Handles : pc'[h] \in HandleLabels
      /\ pc'[w] = "requeued" /\ task'[w] = held /\ HandsKnown'
      /\ \A v \in Workers \ {w} :
           pc'[v] = pc[v] /\ task'[v] = task[v] /\ Hands(v)' = Hands(v)
  <2>1. /\ held # NoTask /\ "requeued" \in WorkerLabels /\ "requeued" \in WithTask
        /\ task' = [task EXCEPT ![w] = held]
    BY <1>1, <1>2 DEF Tasks, NoTask, WorkerLabels, WorkerPoints, WithTask, RInv, RetryTypes
  <2>2. held \in Tasks \cup {NoTask} /\ (held # NoTask <=> "requeued" \in WithTask)
    BY <2>1
  <2>3. Goto(w, "requeued") /\ UNCHANGED batch
    BY <1>1
  <2>4. /\ pc' \in [Processes -> WorkerLabels \cup HandleLabels]
        /\ \A v \in Workers : pc'[v] \in WorkerLabels
        /\ \A h \in Handles : pc'[h] \in HandleLabels /\ pc'[h] = pc[h]
        /\ pc'[w] = "requeued" /\ task'[w] = held
        /\ \A v \in Workers \ {w} :
             pc'[v] = pc[v] /\ task'[v] = task[v] /\ Hands(v)' = Hands(v)
        /\ HandsKnown'
    BY <2>1, <2>2, <2>3, WorkerGoes, ZenonT(30)
  <2> QED BY <2>4
<1>10. RetryTypes'
  <2>1. counter' \in Pair
    BY <1>1, IncrementLeftType DEF RInv, RetryTypes
  <2>2. w \in Workers \cup {NoOne}
    OBVIOUS
  <2> QED BY <1>1, <1>2, <1>9, <2>1, <2>2 DEF RInv, RetryTypes, SamePlaces
<1>11. RetryLocated'
  <2>1. Hands(w)' = NoTask
    BY <1>9 DEF Hands
  <2> QED BY <1>1, <1>2, <1>9, <2>1, EntersRetries DEF RInv
<1>12. \A v \in Workers : pc[v] \notin LockHeld
  BY <1>1 DEF RInv, RetryOwner
<1>13. RetryOwner'
  <2>1. \A v \in Workers \ {w} : pc'[v] \notin LockHeld
    BY <1>9, <1>12
  <2>2. pc'[w] \in LockHeld /\ \A v \in Workers \ {w} : pc'[v] # "requeued"
    BY <1>9, <2>1 DEF LockHeld
  <2>3. InRetries(task[w])'
    BY <1>2, <1>9 DEF InRetries
  <2> QED BY <1>1, <2>1, <2>2, <2>3 DEF RetryOwner
<1>14. Sorted'
  BY <1>2 DEF Sorted, InOrder
<1>15. Covered'
  <2>1. \A j \in DOMAIN retryQueue : nextRetry # Never /\ nextRetry <= retryQueue[j].in
    BY <1>12 DEF RInv, Covered, LockHeld
  <2>2. \A j \in DOMAIN retryQueue' :
          j # i => nextRetry # Never /\ nextRetry <= retryQueue'[j].in
    BY <1>2, <2>1
  <2>3. pc'[w] = "requeued" /\ task'[w] = retryQueue'[i].task
    BY <1>2, <1>9
  <2> QED BY <1>1, <1>2, <2>2, <2>3 DEF Covered
<1>16. Attempted'
  BY <1>1, <1>9 DEF RInv, Attempted
<1> QED BY <1>9, <1>10, <1>11, <1>13, <1>14, <1>15, <1>16 DEF RInv

LEMMA PushUpdateKeeps ==
  ASSUME RInv, NEW w \in Workers, UpdateAfterPush(w)
  PROVE  RInv'
<1>1. /\ SamePlaces /\ UNCHANGED <<counter, queue, batch, attempt, retryQueue>>
      /\ pc[w] = "requeued" /\ Goto(w, "finish") /\ retryLock' = NoOne
      /\ task' = [task EXCEPT ![w] = NoTask] /\ why' = [why EXCEPT ![w] = "task"]
  BY DEF UpdateAfterPush, EndTask, SamePlaces, taskVars, outcomeVars, channelVars
<1>2. /\ pc' \in [Processes -> WorkerLabels \cup HandleLabels]
      /\ \A v \in Workers : pc'[v] \in WorkerLabels
      /\ \A h \in Handles : pc'[h] \in HandleLabels
      /\ task' \in [Processes -> Tasks \cup {NoTask}]
      /\ pc'[w] = "finish" /\ task'[w] = NoTask /\ HandsKnown'
      /\ \A v \in Workers \ {w} :
           pc'[v] = pc[v] /\ task'[v] = task[v] /\ Hands(v)' = Hands(v)
  <2>1. "finish" \in WorkerLabels /\ "finish" \notin WithTask
    BY DEF WorkerLabels, WorkerPoints, WithTask
  <2> QED BY <1>1, <2>1, WorkerGoes
<1>3. PICK i \in DOMAIN retryQueue :
        retryQueue[i].task = task[w] /\ UpdateNextRetry(retryQueue[i].in)
  BY DEF UpdateAfterPush
<1>4. \A j \in DOMAIN retryQueue : retryQueue[j].in \in Nat
  <2>1. retryQueue \in Seq(Entry)
    BY DEF RInv, RetryTypes
  <2>2. \A j \in DOMAIN retryQueue : retryQueue[j].in \in 0 .. MaxDelay
    BY <2>1, TasksOfEntries
  <2> QED BY <2>2
<1>5. PICK in \in Nat : in = retryQueue[i].in
  BY <1>4
<1>6. nextRetry \in {Never} \cup Nat
  BY DEF RInv, RetryTypes
<1>7. /\ nextRetry' \in Nat /\ nextRetry' <= in
      /\ nextRetry # Never => nextRetry' <= nextRetry
  <2>1. nextRetry' = IF in = Never \/ nextRetry = Never \/ in < nextRetry
                     THEN in ELSE nextRetry
    BY <1>3, <1>5 DEF UpdateNextRetry
  <2> QED BY <1>6, <2>1 DEF Never
<1>8. \A v \in Workers \ {w} : pc[v] \notin LockHeld
  BY <1>1 DEF RInv, RetryOwner, LockHeld
<1>9. ASSUME NEW j \in DOMAIN retryQueue
      PROVE  nextRetry' # Never /\ nextRetry' <= retryQueue[j].in
  <2>1. \/ nextRetry # Never /\ nextRetry <= retryQueue[j].in
        \/ task[w] = retryQueue[j].task
    BY <1>1, <1>8 DEF RInv, Covered, LockHeld
  <2>2. CASE nextRetry # Never /\ nextRetry <= retryQueue[j].in
    BY <1>4, <1>6, <1>7, <2>2 DEF Never
  <2>3. CASE task[w] = retryQueue[j].task
    <3>1. i = j
      BY <1>3, <2>3 DEF RInv, RetryLocated, IsInjective, retryTasks
    <3> QED BY <1>5, <1>7, <3>1 DEF Never
  <2> QED BY <2>1, <2>2, <2>3
<1>10. RetryTypes'
  <2>1. why' \in [Processes -> {"none", "task", "panic", "exit", "join", "husk"}]
    BY <1>1 DEF RInv, RetryTypes
  <2> QED BY <1>1, <1>2, <1>7, <2>1 DEF RInv, RetryTypes, SamePlaces
<1>11. RetryLocated'
  <2>1. \A v \in Workers : Hands(v)' = Hands(v)
    BY <1>1, <1>2 DEF Hands
  <2>2. UNCHANGED retryTasks
    BY <1>1 DEF retryTasks
  <2> QED BY <1>1, <2>1, <2>2, NothingMovesInRetry DEF RInv
<1>12. RetryOwner'
  <2>1. \A v \in Workers : pc'[v] \notin LockHeld
    BY <1>2, <1>8 DEF LockHeld
  <2>2. \A v \in Workers : pc'[v] # "requeued"
    BY <2>1 DEF LockHeld
  <2> QED BY <1>1, <2>1, <2>2 DEF RetryOwner
<1>13. Sorted' /\ Covered'
  BY <1>1, <1>9 DEF RInv, Sorted, Covered
<1>14. Attempted'
  BY <1>1, <1>2 DEF RInv, Attempted
<1> QED BY <1>2, <1>10, <1>11, <1>12, <1>13, <1>14 DEF RInv

\* A handle gets to a label that fits its batch.
LEMMA HandleGoes ==
  ASSUME RInv, NEW h \in Handles, NEW l \in HandleLabels, Goto(h, l),
         \A w \in Workers : task'[w] = task[w],
         \A g \in Handles \ {h} : batch'[g] = batch[g],
         batch'[h] # <<>> <=> l \in WithBatch
  PROVE  /\ pc' \in [Processes -> WorkerLabels \cup HandleLabels]
         /\ \A w \in Workers : pc'[w] \in WorkerLabels /\ pc'[w] = pc[w]
         /\ \A g \in Handles : pc'[g] \in HandleLabels
         /\ \A g \in Handles \ {h} : pc'[g] = pc[g]
         /\ pc'[h] = l
         /\ \A w \in Workers : Hands(w)' = Hands(w)
         /\ HandsKnown'
<1>1. h \in Processes /\ h \notin Workers
  BY DEF Processes
<1>2. /\ pc' \in [Processes -> WorkerLabels \cup HandleLabels]
      /\ \A w \in Workers : pc'[w] \in WorkerLabels
      /\ \A g \in Handles : pc'[g] \in HandleLabels
      /\ pc'[h] = l /\ \A q \in Processes \ {h} : pc'[q] = pc[q]
  BY <1>1, GotoOnly, GotoTypes DEF RInv
<1>3. /\ \A w \in Workers : pc'[w] = pc[w]
      /\ \A g \in Handles \ {h} : pc'[g] = pc[g]
  BY <1>1, <1>2 DEF Processes
<1>4. HandsKnown'
  BY <1>2, <1>3 DEF RInv, HandsKnown
<1> QED BY <1>2, <1>3, <1>4 DEF Hands

\* What a handle does with the head of its batch.
LEMMA SendParts ==
  ASSUME RInv, NEW h \in Handles, Send(h)
  PROVE  /\ batch[h] \in Seq(Tasks) /\ batch[h] # <<>> /\ pc[h] = "send"
         /\ batch' = [batch EXCEPT ![h] = Tail(@)] /\ batch'[h] = Tail(batch[h])
         /\ batch' \in [Handles -> Seq(Tasks)]
         /\ \A g \in Handles \ {h} : batch'[g] = batch[g]
         /\ \E l \in {"send", "await", "idle"} :
              Goto(h, l) /\ (Tail(batch[h]) # <<>> <=> l = "send")
         /\ \A w \in Workers : task'[w] = task[w]
         /\ task' \in [Processes -> Tasks \cup {NoTask}]
<1>1. /\ batch \in [Handles -> Seq(Tasks)] /\ task \in [Processes -> Tasks \cup {NoTask}]
      /\ pc[h] = "send" /\ batch[h] # <<>>
  BY DEF RInv, RetryTypes, HandsKnown, WithBatch, Send
<1>2. batch' = [batch EXCEPT ![h] = Tail(@)]
  BY DEF Send, NextOfBatch
<1>3. PICK b \in Seq(Tasks) : b = batch[h]
  BY <1>1
<1>4. Tail(b) \in Seq(Tasks) /\ Head(b) \in Tasks
  BY <1>1, <1>3
<1>5. /\ batch' \in [Handles -> Seq(Tasks)] /\ batch'[h] = Tail(batch[h])
      /\ \A g \in Handles \ {h} : batch'[g] = batch[g]
  BY <1>1, <1>2, <1>3, <1>4
<1>6. h \in Processes /\ \A w \in Workers : w # h
  BY DEF Processes
<1>7. /\ \E l \in {"send", "await", "idle"} :
              Goto(h, l) /\ (Tail(batch[h]) # <<>> <=> l = "send")
      /\ UNCHANGED task \/ task' = [task EXCEPT ![h] = Head(b)]
  <2>1. CASE Tail(batch[h]) # <<>>
    <3>1. UNCHANGED <<pc, task>>
      BY <2>1 DEF Send, NextOfBatch
    <3>2. Goto(h, "send")
      BY <1>1, <1>6, <3>1 DEF Goto, RInv, RetryTypes
    <3> QED BY <2>1, <3>1, <3>2
  <2>2. CASE Tail(batch[h]) = <<>>
    <3>1. \/ Goto(h, "await") /\ task' = [task EXCEPT ![h] = Head(batch[h])]
          \/ Goto(h, "idle") /\ UNCHANGED task
      BY <2>2 DEF Send, NextOfBatch
    <3> QED BY <1>3, <2>2, <3>1
  <2> QED BY <2>1, <2>2
<1>8. /\ \A w \in Workers : task'[w] = task[w]
      /\ task' \in [Processes -> Tasks \cup {NoTask}]
  BY <1>1, <1>4, <1>6, <1>7 DEF Processes
<1> QED BY <1>1, <1>2, <1>3, <1>5, <1>7, <1>8

LEMMA SendKeeps ==
  ASSUME RInv, NEW h \in Handles, Send(h), UNCHANGED retryVars
  PROVE  RInv'
<1>1. /\ SamePlaces /\ UNCHANGED <<counter, why, delayVars>>
      /\ queue' = Append(queue, Head(batch[h]))
  BY DEF Send, SamePlaces, taskVars, outcomeVars, retryVars
<1>2. /\ batch[h] \in Seq(Tasks) /\ batch[h] # <<>> /\ pc[h] = "send"
      /\ batch' = [batch EXCEPT ![h] = Tail(@)] /\ batch'[h] = Tail(batch[h])
      /\ batch' \in [Handles -> Seq(Tasks)]
      /\ \A g \in Handles \ {h} : batch'[g] = batch[g]
      /\ \A w \in Workers : task'[w] = task[w]
      /\ task' \in [Processes -> Tasks \cup {NoTask}]
  BY SendParts
<1>3. PICK l \in {"send", "await", "idle"} :
        Goto(h, l) /\ (Tail(batch[h]) # <<>> <=> l = "send")
  BY SendParts
<1>4. l \in HandleLabels /\ (l = "send" <=> l \in WithBatch)
  BY DEF HandleLabels, HandlePoints, WithBatch
<1>5. /\ pc' \in [Processes -> WorkerLabels \cup HandleLabels]
      /\ \A w \in Workers : pc'[w] \in WorkerLabels /\ pc'[w] = pc[w]
      /\ \A g \in Handles : pc'[g] \in HandleLabels
      /\ \A w \in Workers : Hands(w)' = Hands(w)
      /\ HandsKnown'
  BY <1>2, <1>3, <1>4, HandleGoes
<1>6. RetryTypes'
  <2>1. queue' \in Seq(Tasks)
    <3>1. queue \in Seq(Tasks) /\ Head(batch[h]) \in Tasks
      BY <1>2 DEF RInv, RetryTypes
    <3> QED BY <1>1, <3>1
  <2> QED BY <1>1, <1>2, <1>5, <2>1 DEF RInv, RetryTypes, SamePlaces, delayVars
<1>7. RetryLocated'
  <2>1. UNCHANGED retryTasks
    BY <1>1 DEF retryTasks, delayVars
  <2> QED BY <1>1, <1>2, <1>5, <2>1, LeavesBatchInRetry DEF RInv
<1>8. RetryOwner' /\ Sorted' /\ Covered'
  BY <1>1, <1>2, <1>5, QueueKept DEF delayVars
<1>9. Attempted'
  BY <1>1, <1>2, <1>5 DEF RInv, Attempted, delayVars
<1> QED BY <1>5, <1>6, <1>7, <1>8, <1>9 DEF RInv

LEMMA SubmitKeeps ==
  ASSUME RInv, NEW h \in Handles, NEW n \in 1 .. MaxBatch, NEW d, Submit(h, n, d),
         UNCHANGED retryVars
  PROVE  RInv'
<1>1. /\ UNCHANGED <<queue, outcomes, sent, taken, lost, why, task, delayVars>>
      /\ pc[h] = "idle" /\ Goto(h, "admit") /\ nextIndex + n <= MaxTasks
      /\ counter' = IncrementLeft(counter, n) /\ nextIndex' = nextIndex + n
      /\ batch' = [batch EXCEPT ![h] = [i \in 1 .. n |-> nextIndex + i - 1]]
  BY DEF Submit, Calls, channelVars, outcomeVars, retryVars
<1>2. /\ n \in Nat \ {0} /\ nextIndex \in Nat /\ nextIndex' \in 0 .. MaxTasks
      /\ n \in 0 .. LMod - 1 /\ counter \in Pair /\ batch \in [Handles -> Seq(Tasks)]
  BY <1>1 DEF RInv, RetryTypes
<1>3. PICK new : new = [i \in 1 .. n |-> nextIndex + i - 1]
  OBVIOUS
<1>4. new \in Seq(Tasks) /\ new # <<>>
  <2>1. \A i \in 1 .. n : nextIndex + i - 1 \in Tasks
    BY <1>1, <1>2 DEF Tasks
  <2>2. new \in [1 .. n -> Tasks]
    BY <1>3, <2>1
  <2>3. new \in Seq(Tasks)
    BY <1>2, <2>2, SeqDef
  <2>4. DOMAIN new = 1 .. n /\ 1 \in 1 .. n
    BY <1>2, <1>3
  <2> QED BY <2>3, <2>4
<1>5. /\ batch' = [batch EXCEPT ![h] = new] /\ batch' \in [Handles -> Seq(Tasks)]
      /\ batch'[h] = new /\ \A g \in Handles \ {h} : batch'[g] = batch[g]
  <2>1. batch' = [batch EXCEPT ![h] = new]
    BY <1>1, <1>3
  <2> QED BY <1>2, <1>4, <2>1
<1>6. /\ pc' \in [Processes -> WorkerLabels \cup HandleLabels]
      /\ \A w \in Workers : pc'[w] \in WorkerLabels /\ pc'[w] = pc[w]
      /\ \A g \in Handles : pc'[g] \in HandleLabels
      /\ \A w \in Workers : Hands(w)' = Hands(w)
      /\ HandsKnown'
  <2>1. "admit" \in HandleLabels /\ "admit" \in WithBatch
    BY DEF HandleLabels, HandlePoints, WithBatch
  <2> QED BY <1>1, <1>4, <1>5, <2>1, HandleGoes
<1>7. RetryTypes'
  <2>1. counter' \in Pair
    BY <1>1, <1>2, IncrementLeftType
  <2> QED BY <1>1, <1>2, <1>5, <1>6, <2>1 DEF RInv, RetryTypes, delayVars
<1>8. RetryLocated'
  <2>1. UNCHANGED retryTasks
    BY <1>1 DEF retryTasks, delayVars
  <2>2. batch[h] = <<>>
    BY <1>1 DEF RInv, HandsKnown, WithBatch
  <2> QED BY <1>1, <1>2, <1>6, <2>1, <2>2, EntersBatchInRetry DEF RInv
<1>9. RetryOwner' /\ Sorted' /\ Covered'
  BY <1>1, <1>6, QueueKept DEF delayVars
<1>10. Attempted'
  BY <1>1, <1>6 DEF RInv, Attempted, delayVars
<1> QED BY <1>6, <1>7, <1>8, <1>9, <1>10 DEF RInv

LEMMA TakeKeeps ==
  ASSUME RInv, NEW h \in Handles, TakeStored(h), UNCHANGED retryVars
  PROVE  RInv'
<1>1. /\ UNCHANGED <<pc, counter, nextIndex, queue, sent, lost, why, task, batch, delayVars>>
      /\ taken' = [t \in Tasks |-> IF outcomes[t] # "none" THEN outcomes[t] ELSE taken[t]]
      /\ outcomes' = [t \in Tasks |-> "none"]
  BY DEF TakeStored, taskVars, channelVars, holdVars, retryVars
<1>2. RetryTypes'
  <2>1. outcomes' \in [Tasks -> Kinds] /\ taken' \in [Tasks -> Kinds]
    BY <1>1 DEF RInv, RetryTypes, Kinds
  <2> QED BY <1>1, <2>1 DEF RInv, RetryTypes, delayVars
<1>3. HandsKnown'
  BY <1>1 DEF RInv, HandsKnown
<1>4. RetryLocated'
  <2>1. \A w \in Workers : Hands(w)' = Hands(w)
    BY <1>1 DEF Hands
  <2>2. UNCHANGED retryTasks
    BY <1>1 DEF retryTasks, delayVars
  <2> QED BY <1>1, <2>1, <2>2, LeavesStoreInRetry DEF RInv
<1>5. RetryOwner' /\ Sorted' /\ Covered'
  BY <1>1, QueueKept DEF delayVars
<1>6. Attempted'
  BY <1>1 DEF RInv, Attempted, delayVars
<1> QED BY <1>2, <1>3, <1>4, <1>5, <1>6 DEF RInv

\* A queue is emptied, or both are.
Empties(h) ==
  /\ \E l \in HandleLabels \ WithBatch : Goto(h, l)
  /\ pc[h] \notin WithBatch
  /\ UNCHANGED <<counter, nextIndex, lost, why, task, batch, attempt, retryLock, nextRetry>>
  /\ \/ Deliver(Range(queue), "unprocessed") /\ queue' = <<>> /\ UNCHANGED retryQueue
     \/ /\ Deliver(Retrying, "unprocessed") /\ UNCHANGED queue /\ retryQueue' = <<>>
        /\ \A w \in Workers : pc[w] \notin LockHeld
     \/ /\ Deliver(Range(queue) \cup Retrying, "unprocessed")
        /\ queue' = <<>> /\ retryQueue' = <<>>
        /\ \A w \in Workers : pc[w] \notin LockHeld

LEMMA EmptyKinds ==
  ASSUME RInv, NEW h \in Handles, DrainChannel(h) \/ DrainRetries(h) \/ RetryExtract(h)
  PROVE  Empties(h)
<1> USE DEF Empties, taskVars, flagVars, holdVars, retryVars, delayVars, HandleLabels,
            HandlePoints, WithBatch
<1>1. CASE DrainChannel(h)
  BY <1>1 DEF DrainChannel
<1>2. CASE DrainRetries(h)
  <2>1. \A w \in Workers : pc[w] \notin LockHeld
    BY <1>2 DEF DrainRetries, RInv, RetryOwner
  <2> QED BY <1>2, <2>1 DEF DrainRetries
<1>3. CASE RetryExtract(h)
  <2>1. \A w \in Workers : pc[w] \in {"absent", "gone", "dead", "husk"}
    BY <1>3 DEF RetryExtract, HoldsShared, Processes
  <2>2. \A w \in Workers : pc[w] \notin LockHeld
    BY <2>1 DEF LockHeld
  <2> QED BY <1>3, <2>2 DEF RetryExtract
<1> QED BY <1>1, <1>2, <1>3

LEMMA EmptyKeeps ==
  ASSUME RInv, NEW h \in Handles, Empties(h)
  PROVE  RInv'
<1>1. /\ UNCHANGED <<counter, nextIndex, lost, why, task, batch, attempt, retryLock, nextRetry>>
      /\ pc[h] \notin WithBatch
  BY DEF Empties
<1>2. PICK l \in HandleLabels \ WithBatch : Goto(h, l)
  BY DEF Empties
<1>3. /\ pc' \in [Processes -> WorkerLabels \cup HandleLabels]
      /\ \A w \in Workers : pc'[w] \in WorkerLabels /\ pc'[w] = pc[w]
      /\ \A g \in Handles : pc'[g] \in HandleLabels
      /\ \A w \in Workers : Hands(w)' = Hands(w)
      /\ HandsKnown'
  <2>1. batch'[h] # <<>> <=> l \in WithBatch
    BY <1>1, <1>2 DEF RInv, HandsKnown
  <2> QED BY <1>1, <1>2, <2>1, HandleGoes
<1>4. /\ Range(queue) \subseteq Tasks /\ Retrying \subseteq Tasks
      /\ Retrying = Range(retryTasks) /\ IsInjective(queue) /\ IsInjective(retryTasks)
      /\ \A t \in Range(queue) : t \notin Range(retryTasks)
  <2>1. Range(queue) \subseteq Tasks
    BY RangeOfTasks DEF RInv, RetryTypes
  <2>2. Retrying \subseteq Tasks
    <3>1. retryQueue \in Seq(Entry)
      BY DEF RInv, RetryTypes
    <3>2. \A i \in DOMAIN retryQueue : retryQueue[i].task \in Tasks
      BY <3>1, TasksOfEntries
    <3> QED BY <3>2 DEF Retrying
  <2> QED BY <2>1, <2>2, RetryingIsRange DEF RInv, RetryLocated, NoRepeats, OnePlaceEach,
             Only, InQueue, InRetries
<1>5. PICK D \in SUBSET Tasks :
        /\ Deliver(D, "unprocessed") /\ D \subseteq Range(queue) \cup Range(retryTasks)
        /\ Range(queue') = Range(queue) \ D /\ Range(retryTasks') = Range(retryTasks) \ D
        /\ IsInjective(queue') /\ IsInjective(retryTasks')
  <2>1. retryQueue' = <<>> => Range(retryTasks') = {} /\ IsInjective(retryTasks')
    BY DEF retryTasks, Range, IsInjective
  <2>2. queue' = <<>> => Range(queue') = {} /\ IsInjective(queue')
    BY EmptyRange
  <2>3. UNCHANGED retryQueue => UNCHANGED retryTasks
    BY DEF retryTasks
  <2>4. CASE Deliver(Range(queue), "unprocessed") /\ queue' = <<>> /\ UNCHANGED retryQueue
    <3>1. Range(retryTasks') = Range(retryTasks) \ Range(queue)
      BY <1>4, <2>3, <2>4
    <3>2. Range(queue') = Range(queue) \ Range(queue)
      BY <2>2, <2>4
    <3> QED BY <1>4, <2>2, <2>3, <2>4, <3>1, <3>2
  <2>5. CASE Deliver(Retrying, "unprocessed") /\ UNCHANGED queue /\ retryQueue' = <<>>
    <3>1. Range(queue') = Range(queue) \ Retrying
      BY <1>4, <2>5
    <3>2. Range(retryTasks') = Range(retryTasks) \ Retrying
      BY <1>4, <2>1, <2>5
    <3> QED BY <1>4, <2>1, <2>5, <3>1, <3>2
  <2>6. CASE /\ Deliver(Range(queue) \cup Retrying, "unprocessed")
             /\ queue' = <<>> /\ retryQueue' = <<>>
    <3>1. /\ Range(queue') = Range(queue) \ (Range(queue) \cup Retrying)
          /\ Range(retryTasks') = Range(retryTasks) \ (Range(queue) \cup Retrying)
      BY <1>4, <2>1, <2>2, <2>6
    <3> QED BY <1>4, <2>1, <2>2, <2>6, <3>1
  <2> QED BY <2>4, <2>5, <2>6 DEF Empties
<1>6. queue' \in Seq(Tasks) /\ retryQueue' \in Seq(Entry)
  <2>1. queue \in Seq(Tasks) /\ retryQueue \in Seq(Entry)
    BY DEF RInv, RetryTypes
  <2>2. <<>> \in Seq(Tasks) /\ <<>> \in Seq(Entry)
    BY EmptySeq
  <2>3. queue' = queue \/ queue' = <<>>
    BY DEF Empties
  <2>4. retryQueue' = retryQueue \/ retryQueue' = <<>>
    BY DEF Empties
  <2> QED BY <2>1, <2>2, <2>3, <2>4
<1>7. RetryTypes'
  <2>1. outcomes' \in [Tasks -> Kinds] /\ sent' \in [Tasks -> Kinds] /\ taken' \in [Tasks -> Kinds]
    <3>1. "unprocessed" \in Kinds \ {"none"}
      BY DEF Kinds
    <3> QED BY <1>5, <3>1, Delivered DEF RInv
  <2> QED BY <1>1, <1>3, <1>6, <2>1 DEF RInv, RetryTypes
<1>8. RetryLocated'
  BY <1>1, <1>3, <1>5, GivenBack DEF RInv
<1>9. RetryOwner' /\ Sorted' /\ Covered'
  <2>1. CASE UNCHANGED retryQueue
    BY <1>1, <1>3, <2>1, QueueKept
  <2>2. CASE retryQueue' = <<>> /\ \A w \in Workers : pc[w] \notin LockHeld
    <3>1. DOMAIN retryQueue' = {}
      BY <2>2
    <3>2. RetryOwner'
      BY <1>1, <1>3, <2>2 DEF RInv, RetryOwner, LockHeld
    <3> QED BY <3>1, <3>2 DEF Sorted, Covered
  <2> QED BY <2>1, <2>2 DEF Empties
<1>10. Attempted'
  BY <1>1, <1>3 DEF RInv, Attempted
<1> QED BY <1>3, <1>7, <1>8, <1>9, <1>10 DEF RInv

\* Time goes on for the queue and for next_retry alike.
LEMMA TickKeeps ==
  ASSUME RInv, Tick
  PROVE  RInv'
<1> DEFINE Sooner(n) == IF n > 0 THEN n - 1 ELSE 0
<1>1. /\ SamePlaces
      /\ UNCHANGED <<pc, counter, why, queue, task, batch, attempt, retryLock>>
      /\ nextRetry' = IF nextRetry > 0 THEN nextRetry - 1 ELSE nextRetry
      /\ retryQueue' = [i \in DOMAIN retryQueue |->
           [retryQueue[i] EXCEPT !.in = Sooner(retryQueue[i].in)]]
  BY DEF Tick, vars, restVars, SamePlaces, taskVars, outcomeVars, channelVars, holdVars
<1>2. /\ retryQueue \in Seq(Entry) /\ DOMAIN retryQueue = 1 .. Len(retryQueue)
      /\ Len(retryQueue) \in Nat
      /\ \A i \in DOMAIN retryQueue : retryQueue[i] \in Entry
  <2>1. retryQueue \in Seq(Entry)
    BY DEF RInv, RetryTypes
  <2> QED BY <2>1, LenProperties, ElementOfSeq
<1>3. \A i \in DOMAIN retryQueue :
        retryQueue[i].task \in Tasks /\ retryQueue[i].in \in 0 .. MaxDelay
  BY <1>2 DEF Entry
<1>4. \A n \in 0 .. MaxDelay : Sooner(n) \in 0 .. MaxDelay /\ Sooner(n) <= n
  OBVIOUS
<1>5. \A m, n \in Nat : m <= n => Sooner(m) <= Sooner(n)
  OBVIOUS
<1>6. /\ DOMAIN retryQueue' = DOMAIN retryQueue
      /\ \A i \in DOMAIN retryQueue :
           /\ retryQueue'[i] \in Entry
           /\ retryQueue'[i].task = retryQueue[i].task
           /\ retryQueue'[i].in = Sooner(retryQueue[i].in)
  <2> HIDE DEF Sooner
  <2>1. DOMAIN retryQueue' = DOMAIN retryQueue
    BY <1>1
  <2>2. ASSUME NEW i \in DOMAIN retryQueue
        PROVE  /\ retryQueue'[i] \in Entry
               /\ retryQueue'[i].task = retryQueue[i].task
               /\ retryQueue'[i].in = Sooner(retryQueue[i].in)
    <3>1. retryQueue'[i] = [retryQueue[i] EXCEPT !.in = Sooner(retryQueue[i].in)]
      BY <1>1
    <3>2. PICK e \in Entry : e = retryQueue[i]
      BY <1>2
    <3>3. PICK n \in 0 .. MaxDelay : n = Sooner(retryQueue[i].in)
      BY <1>3, <1>4
    <3>4. e = [task |-> e.task, in |-> e.in] /\ e.task \in Tasks
      BY DEF Entry
    <3>5. retryQueue'[i] = [task |-> e.task, in |-> n]
      BY <3>1, <3>2, <3>3, <3>4
    <3>6. retryQueue'[i] \in Entry
      BY <3>4, <3>5 DEF Entry
    <3>7. retryQueue'[i].task = e.task /\ retryQueue'[i].in = n
      BY <3>5
    <3> QED BY <3>2, <3>3, <3>6, <3>7
  <2> QED BY <2>1, <2>2
<1> HIDE DEF Sooner
<1>7. UNCHANGED retryTasks
  BY <1>6 DEF retryTasks
<1>8. nextRetry \in {Never} \cup Nat /\ nextRetry' \in {Never} \cup Nat
  BY <1>1 DEF RInv, RetryTypes, Never
<1>9. RetryTypes'
  <2>1. retryQueue' \in Seq(Entry)
    <3>1. retryQueue' \in [1 .. Len(retryQueue) -> Entry]
      BY <1>1, <1>2, <1>6
    <3> QED BY <1>2, <3>1, SeqDef
  <2> QED BY <1>1, <1>8, <2>1 DEF RInv, RetryTypes, SamePlaces
<1>10. HandsKnown'
  BY <1>1 DEF RInv, HandsKnown
<1>11. RetryLocated'
  <2>1. \A w \in Workers : Hands(w)' = Hands(w)
    BY <1>1 DEF Hands
  <2> QED BY <1>1, <1>7, <2>1, NothingMovesInRetry DEF RInv
<1>12. RetryOwner'
  BY <1>1, <1>7 DEF RInv, RetryOwner, InRetries
<1>13. Sorted'
  <2>1. ASSUME NEW i \in DOMAIN retryQueue, NEW j \in DOMAIN retryQueue, i <= j
        PROVE  retryQueue'[i].in <= retryQueue'[j].in
    <3>1. /\ retryQueue[i].in \in Nat /\ retryQueue[j].in \in Nat
          /\ retryQueue[i].in <= retryQueue[j].in
      BY <1>3, <2>1 DEF RInv, Sorted
    <3> QED BY <1>5, <1>6, <3>1
  <2> QED BY <1>6, <2>1 DEF Sorted
<1>14. Covered'
  <2>1. ASSUME NEW i \in DOMAIN retryQueue,
               nextRetry # Never /\ nextRetry <= retryQueue[i].in
        PROVE  nextRetry' # Never /\ nextRetry' <= retryQueue'[i].in
    <3>1. PICK m \in Nat : m = nextRetry
      BY <1>8, <2>1
    <3>2. PICK n \in Nat : n = retryQueue[i].in
      BY <1>3
    <3>3. nextRetry' = Sooner(m)
      BY <1>1, <3>1 DEF Sooner
    <3>4. Sooner(m) \in Nat
      BY DEF Sooner
    <3> QED BY <1>5, <1>6, <2>1, <3>1, <3>2, <3>3, <3>4 DEF Never
  <2>2. ASSUME NEW i \in DOMAIN retryQueue
        PROVE  \/ nextRetry' # Never /\ nextRetry' <= retryQueue'[i].in
               \/ \E w \in Workers : \/ pc'[w] = "popped"
                                     \/ /\ pc'[w] = "requeued"
                                        /\ task'[w] = retryQueue'[i].task
    <3>1. CASE nextRetry # Never /\ nextRetry <= retryQueue[i].in
      BY <2>1, <3>1
    <3>2. CASE \E w \in Workers : \/ pc[w] = "popped"
                                  \/ pc[w] = "requeued" /\ task[w] = retryQueue[i].task
      BY <1>1, <1>6, <3>2
    <3> QED BY <3>1, <3>2 DEF RInv, Covered
  <2> QED BY <1>6, <2>2 DEF Covered
<1>15. Attempted'
  BY <1>1 DEF RInv, Attempted
<1> QED BY <1>9, <1>10, <1>11, <1>12, <1>13, <1>14, <1>15 DEF RInv

LEMMA StutterKeeps ==
  ASSUME RInv, UNCHANGED retryHiveVars
  PROVE  RInv'
<1>1. /\ SamePlaces
      /\ UNCHANGED <<pc, counter, why, queue, task, batch, delayVars>>
  BY DEF retryHiveVars, retryVars, vars, restVars, SamePlaces, taskVars, outcomeVars,
         channelVars, holdVars
<1>2. RetryTypes' /\ HandsKnown' /\ Attempted'
  BY <1>1 DEF RInv, RetryTypes, HandsKnown, Attempted, SamePlaces, delayVars
<1>3. RetryLocated'
  <2>1. \A w \in Workers : Hands(w)' = Hands(w)
    BY <1>1 DEF Hands
  <2>2. UNCHANGED retryTasks
    BY <1>1 DEF retryTasks, delayVars
  <2> QED BY <1>1, <2>1, <2>2, NothingMovesInRetry DEF RInv
<1>4. RetryOwner' /\ Sorted' /\ Covered'
  BY <1>1, QueueKept DEF delayVars
<1> QED BY <1>2, <1>3, <1>4 DEF RInv

-----------------------------------------------------------------------------
(***************************************************************************)
(* The invariant.                                                          *)
(***************************************************************************)
LEMMA InitEstablishesRInv == RetryInit => RInv
<1> SUFFICES ASSUME RetryInit PROVE RInv
  OBVIOUS
<1>1. /\ Init /\ attempt = [t \in Tasks |-> 0]
      /\ retryQueue = <<>> /\ retryLock = NoOne /\ nextRetry = Never
  BY DEF RetryInit
<1>2. TypeOK
  BY <1>1, InitEstablishesIInv DEF IInv
<1>3. \A p \in Processes : pc[p] \in {"idle", "boot", "absent"}
  BY <1>1 DEF Init
<1>4. RetryTypes
  <2>1. /\ pc \in [Processes -> WorkerLabels \cup HandleLabels]
        /\ \A w \in Workers : pc[w] \in WorkerLabels
        /\ \A h \in Handles : pc[h] \in HandleLabels
    BY <1>2 DEF TypeOK, ControlTypes, WorkerLabels, HandleLabels
  <2>2. attempt \in [Tasks -> Nat] /\ retryQueue \in Seq(Entry)
    BY <1>1, EmptySeq
  <2> QED BY <1>1, <1>2, <2>1, <2>2 DEF RetryTypes, TypeOK, SharedTypes, ControlTypes
<1>5. /\ \A h \in Handles : Range(batch[h]) = {} /\ IsInjective(batch[h])
      /\ \A h \in Handles : batch[h] = <<>>
      /\ Range(queue) = {} /\ IsInjective(queue)
      /\ \A w \in Workers : task[w] = NoTask
      /\ \A t \in Tasks : outcomes[t] = "none" /\ sent[t] = "none" /\ taken[t] = "none"
      /\ lost = {} /\ nextIndex = 0
  BY <1>1, EmptyRange DEF Init, Processes
<1>6. Range(retryTasks) = {} /\ IsInjective(retryTasks) /\ DOMAIN retryQueue = {}
  BY <1>1 DEF retryTasks, Range, IsInjective
<1>7. HandsKnown
  BY <1>3, <1>5 DEF HandsKnown, WithTask, WithBatch, Processes
<1>8. RetryLocated
  <2>1. \A t \in Tasks : t # NoTask
    BY DEF Tasks, NoTask
  <2>2. \A w \in Workers : Hands(w) = NoTask
    BY <1>5 DEF Hands
  <2>3. \A t \in Tasks : ~Anywhere(t) /\ t \notin Prepared
    <3>1. \A t \in Tasks : t \notin Prepared
      BY <1>5 DEF Prepared
    <3>2. \A t \in Tasks : ~Anywhere(t)
      BY <1>5, <1>6, <2>1, <2>2 DEF Anywhere, InBatch, InQueue, InRetries, Ended
    <3> QED BY <3>1, <3>2
  <2>4. \A t \in Tasks : Only(t)
    BY <2>3 DEF Only, Anywhere, Ended
  <2> QED BY <1>5, <1>6, <2>3, <2>4 DEF RetryLocated, OnePlaceEach, NoRepeats
<1>9. RetryOwner /\ Attempted
  BY <1>1, <1>3 DEF RetryOwner, Attempted, LockHeld, Processes
<1>10. Sorted /\ Covered
  BY <1>6 DEF Sorted, Covered
<1> QED BY <1>4, <1>7, <1>8, <1>9, <1>10 DEF RInv

LEMMA StepPreservesRInv == RInv /\ [RetryNext]_retryHiveVars => RInv'
<1> SUFFICES ASSUME RInv, [RetryNext]_retryHiveVars PROVE RInv'
  OBVIOUS
<1>1. RetryTypes
  BY DEF RInv
<1>2. ASSUME NEW w \in Workers, RetryWorkerStep(w) PROVE RInv'
  BY <1>1, <1>2, WorkerKinds, WanderingKeeps, FinishKeeps, ReceiveKeeps, CancelKeeps,
     EndKinds, EndKeeps, PopKeeps, PopUpdateKeeps, RetryTransferKeeps, RetryKeeps,
     PushKeeps, PushUpdateKeeps
<1>3. ASSUME NEW h \in Handles, RetryContinueCall(h) PROVE RInv'
  BY <1>1, <1>3, CallKinds, ProceedingKeeps, SendKeeps, EmptyKinds, EmptyKeeps
<1>4. ASSUME NEW h \in Handles, RetryStartCall(h) PROVE RInv'
  <2>1. ASSUME NEW n \in 1 .. MaxBatch, NEW d \in Destinations, Submit(h, n, d) PROVE RInv'
    BY <1>1, <1>4, <2>1, StartKinds, SubmitKeeps
  <2> QED BY <1>1, <1>4, <2>1, StartKinds, ProceedingKeeps, TakeKeeps
<1>5. CASE RetryRest
  BY <1>5, StutterKeeps DEF RetryRest, Rest, retryHiveVars
<1> QED BY <1>2, <1>3, <1>4, <1>5, TickKeeps, StutterKeeps DEF RetryNext

LEMMA AlwaysRInv == RetrySpec => []RInv
<1>1. RetryInit => RInv
  BY InitEstablishesRInv
<1>2. RInv /\ [RetryNext]_retryHiveVars => RInv'
  BY StepPreservesRInv
<1> QED BY <1>1, <1>2, PTL DEF RetrySpec

(***************************************************************************)
(* Whatever the threads do between reading next_retry and taking the lock: *)
(* while the lock is free, next_retry is not later than the first task of  *)
(* the retry queue (Shared::next_task, update_next_retry).                 *)
(***************************************************************************)
THEOREM RetriesAreNotPassedOver == RetrySpec => []NextRetryCoversQueue
<1>1. RInv => NextRetryCoversQueue
  <2> SUFFICES ASSUME RInv, retryLock = NoOne, retryQueue # <<>>
               PROVE  nextRetry # Never /\ nextRetry <= Head(retryQueue).in
    BY DEF NextRetryCoversQueue
  <2>1. 1 \in DOMAIN retryQueue /\ Head(retryQueue) = retryQueue[1]
    <3>1. retryQueue \in Seq(Entry)
      BY DEF RInv, RetryTypes
    <3> QED BY <3>1, EmptySeq, LenProperties, HeadTailProperties
  <2>2. \A w \in Workers : pc[w] \notin LockHeld
    BY DEF RInv, RetryOwner
  <2> QED BY <2>1, <2>2 DEF RInv, Covered, LockHeld
<1> QED BY <1>1, AlwaysRInv, PTL

-----------------------------------------------------------------------------
(***************************************************************************)
(* Who leaves, and when.                                                   *)
(***************************************************************************)
\* A worker's step is its own.
LEMMA WorkerAlone ==
  ASSUME RetryTypes, NEW w \in Workers, RetryWorkerStep(w)
  PROVE  /\ UNCHANGED <<poisoned, batch>>
         /\ \A p \in Processes \ {w} :
              pc'[p] = pc[p] /\ task'[p] = task[p] /\ why'[p] = why[p]
<1> USE DEF RetryTypes, Goto, Processes, Move, restVars, flagVars, holdVars, EndTask, Exit
<1>1. CASE Wanders(w)
  BY <1>1 DEF Wanders
<1>2. CASE FinishTask(w)
  BY <1>2 DEF FinishTask, Abort
<1>3. CASE Receive(w) \/ Cancel(w)
  BY <1>3 DEF Receive, Cancel
<1>4. CASE Ends(w)
  BY <1>4 DEF Ends
<1>5. CASE PopRetry(w) \/ UpdateAfterPop(w) \/ Retry(w) \/ QueueRetry(w)
  BY <1>5 DEF PopRetry, UpdateAfterPop, Retry, QueueRetry
<1>6. CASE RetryTransferTask(w) \/ UpdateAfterPush(w)
  BY <1>6 DEF RetryTransferTask, TransferTask, UpdateAfterPush
<1> QED BY <1>1, <1>2, <1>3, <1>4, <1>5, <1>6, WorkerKinds, EndKinds

\* A handle leaves the workers alone, but for those it starts, never heals a
\* poisoned hive and gets no sender from nowhere.
LEMMA HandleAlone ==
  ASSUME RInv, NEW h \in Handles, RetryContinueCall(h) \/ RetryStartCall(h)
  PROVE  /\ poisoned => poisoned'
         /\ Connected' => Connected
         /\ \A w \in Workers :
              /\ task'[w] = task[w] /\ why'[w] = why[w]
              /\ pc'[w] = pc[w] \/ (pc[w] = "absent" /\ pc'[w] \in {"boot", "dead"})
         /\ \A g \in Handles :
              pc'[g] \in {"drain", "drain_channel", "drain_retries", "refuse"} =>
                \/ poisoned'
                \/ pc[g] \in {"drain", "drain_channel", "drain_retries", "refuse"}
<1> DEFINE Goal ==
         /\ poisoned => poisoned'
         /\ Connected' => Connected
         /\ \A w \in Workers :
              /\ task'[w] = task[w] /\ why'[w] = why[w]
              /\ pc'[w] = pc[w] \/ (pc[w] = "absent" /\ pc'[w] \in {"boot", "dead"})
         /\ \A g \in Handles :
              pc'[g] \in {"drain", "drain_channel", "drain_retries", "refuse"} =>
                \/ poisoned'
                \/ pc[g] \in {"drain", "drain_channel", "drain_retries", "refuse"}
<1>0. RetryTypes
  BY DEF RInv
<1>1. ASSUME NEW p \in Processes, NEW l, Goto(p, l)
      PROVE  pc'[p] = l /\ \A q \in Processes \ {p} : pc'[q] = pc[q]
  BY <1>0, <1>1, GotoOnly
<1>2. ASSUME poisoned => poisoned', \A w \in Workers : task'[w] = task[w] /\ why'[w] = why[w],
             NEW l \in HandleLabels, Goto(h, l), HoldsSender(h) \/ l = "husk",
             l \in {"drain", "drain_channel", "drain_retries", "refuse"} =>
                \/ poisoned'
                \/ pc[h] \in {"drain", "drain_channel", "drain_retries", "refuse"}
      PROVE  Goal
  <2>1. h \in Processes /\ h \notin Workers
    BY DEF Processes
  <2>2. pc'[h] = l /\ \A q \in Processes \ {h} : pc'[q] = pc[q]
    BY <1>1, <1>2, <2>1
  <2>3. \A w \in Workers : pc'[w] = pc[w]
    BY <2>1, <2>2 DEF Processes
  <2>4. \A g \in Handles \ {h} : pc'[g] = pc[g]
    BY <2>1, <2>2 DEF Processes
  <2>5. Connected' => Connected
    BY <1>2, <2>2, <2>4 DEF Connected, HoldsSender
  <2> QED BY <1>2, <2>2, <2>3, <2>4, <2>5
<1>3. CASE Proceeds(h)
  <2>1. /\ poisoned => poisoned'
        /\ \A w \in Workers : task'[w] = task[w] /\ why'[w] = why[w]
    BY <1>3 DEF Proceeds
  <2>2. CASE UNCHANGED pc
    BY <2>1, <2>2 DEF Connected, HoldsSender
  <2>3. ASSUME NEW l \in HandleLabels, Goto(h, l), pc[h] \notin {"absent", "gone", "husk", "spin"},
               l \in {"drain", "drain_channel", "drain_retries", "refuse"} =>
                 poisoned' \/ pc[h] \in {"drain", "drain_channel"}
        PROVE  Goal
    BY <1>2, <2>1, <2>3 DEF HoldsSender
  <2>4. ASSUME Connected, NEW w \in Workers, NEW l \in {"boot", "dead"}, pc[w] = "absent",
               Goto(w, l)
        PROVE  Goal
    <3>1. w \in Processes /\ w \notin Handles
      BY DEF Processes
    <3>2. pc'[w] = l /\ \A q \in Processes \ {w} : pc'[q] = pc[q]
      BY <1>1, <2>4, <3>1
    <3> QED BY <2>1, <2>4, <3>1, <3>2 DEF Processes
  <2>5. ASSUME Connected, NEW g \in Handles, pc[g] = "absent", Goto(g, "idle")
        PROVE  Goal
    <3>1. g \in Processes /\ g \notin Workers
      BY DEF Processes
    <3>2. pc'[g] = "idle" /\ \A q \in Processes \ {g} : pc'[q] = pc[q]
      BY <1>1, <2>5, <3>1
    <3> QED BY <2>1, <2>5, <3>1, <3>2 DEF Processes
  <2> QED BY <1>3, <2>2, <2>3, <2>4, <2>5 DEF Proceeds
<1>4. CASE Send(h)
  <2>1. UNCHANGED <<poisoned, why>> /\ pc[h] = "send"
    BY <1>4 DEF Send, flagVars
  <2>2. PICK l \in {"send", "await", "idle"} : Goto(h, l)
    BY <1>4, SendParts
  <2>3. \A w \in Workers : task'[w] = task[w]
    BY <1>4, SendParts
  <2>4. l \in HandleLabels
    BY DEF HandleLabels, HandlePoints
  <2> QED BY <1>2, <2>1, <2>2, <2>3, <2>4 DEF HoldsSender
<1>5. CASE DrainChannel(h) \/ DrainRetries(h) \/ RetryExtract(h)
  <2>1. UNCHANGED <<poisoned, why, task>>
    BY <1>5 DEF DrainChannel, DrainRetries, RetryExtract, flagVars, holdVars
  <2>2. \/ Goto(h, "drain_retries") /\ pc[h] = "drain_channel"
        \/ Goto(h, "gone") /\ pc[h] = "drain_retries"
        \/ Goto(h, "husk") /\ pc[h] = "spin"
    BY <1>5 DEF DrainChannel, DrainRetries, RetryExtract
  <2>3. {"drain_retries", "gone", "husk"} \subseteq HandleLabels
    BY DEF HandleLabels, HandlePoints
  <2> QED BY <1>2, <2>1, <2>2, <2>3 DEF HoldsSender
<1>6. CASE TakeStored(h)
  BY <1>6 DEF TakeStored, flagVars, holdVars, Connected, HoldsSender
<1>7. ASSUME NEW n \in 1 .. MaxBatch, NEW d \in Destinations, Submit(h, n, d) PROVE Goal
  <2>1. /\ UNCHANGED <<poisoned, why, task>> /\ Goto(h, "admit") /\ pc[h] = "idle"
    BY <1>7 DEF Submit, Calls, flagVars
  <2>2. "admit" \in HandleLabels
    BY DEF HandleLabels, HandlePoints
  <2> QED BY <1>2, <2>1, <2>2 DEF HoldsSender
<1> QED BY <1>0, <1>3, <1>4, <1>5, <1>6, <1>7, CallKinds, StartKinds

LEMMA RetryShutDownStays ==
  ASSUME RInv, RetryDepartures, RetryNext
  PROVE  (poisoned => poisoned') /\ (ShutDown => ShutDown')
<1>1. RetryTypes
  BY DEF RInv
<1>2. (poisoned => poisoned') /\ (Connected' => Connected)
  <2>1. CASE Tick \/ RetryRest
    BY <2>1 DEF Tick, RetryRest, Rest, vars, restVars, flagVars, Connected, HoldsSender
  <2>2. ASSUME NEW w \in Workers, RetryWorkerStep(w)
        PROVE  (poisoned => poisoned') /\ (Connected' => Connected)
    <3>1. \A h \in Handles : h \in Processes \ {w}
      BY DEF Processes
    <3> QED BY <1>1, <2>2, <3>1, WorkerAlone DEF Connected, HoldsSender
  <2> QED BY <2>1, <2>2, HandleAlone DEF RetryNext
<1>3. ShutDown => poisoned \/ ~Connected
  BY DEF ShutDown, BrokenDown, RetryDepartures
<1> QED BY <1>2, <1>3 DEF ShutDown

-----------------------------------------------------------------------------
(***************************************************************************)
(* The counters of the retry build.                                        *)
(***************************************************************************)
\* What is counted is finite.
LEMMA CountsFinite ==
  /\ Work \in SUBSET Tasks /\ IsFiniteSet(Work) /\ Cardinality(Work) \in Nat
  /\ Crew \in SUBSET Workers /\ IsFiniteSet(Crew) /\ Cardinality(Crew) \in Nat
  /\ IsFiniteSet(Workers) /\ Cardinality(Workers) \in Nat
<1>1. Work \in SUBSET Tasks /\ Crew \in SUBSET Workers
  BY DEF Work, Crew
<1>2. IsFiniteSet(Workers)
  BY HiveAssumption
<1>3. IsFiniteSet(Work) /\ IsFiniteSet(Crew)
  BY <1>1, <1>2, TasksFinite, FS_Subset
<1> QED BY <1>1, <1>2, <1>3, FS_CardinalityType

\* The task a worker is about to transfer is counted as queued, and there is
\* room for the worker among the active.
LEMMA RetryTransferFits ==
  ASSUME RInv, Few, RetryCounted, NEW w \in Workers, pc[w] = "transfer"
  PROVE  /\ task[w] \in Work /\ w \notin Crew
         /\ counter.left \in Nat /\ counter.right \in Nat
         /\ counter.left > 0 /\ counter.right + 1 < RMod
         /\ ~TransferFails(counter, 1)
<1>1. task[w] \in Tasks
  <2>1. task[w] # NoTask /\ task[w] \in Tasks \cup {NoTask}
    BY DEF RInv, HandsKnown, RetryTypes, Processes, WithTask
  <2> QED BY <2>1
<1>2. task[w] \in Work /\ w \notin Crew
  BY <1>1 DEF Work, Crew
<1>3. Cardinality(Work) > 0
  <2>1. Cardinality(Work) # 0
    BY <1>2, CountsFinite, FS_EmptySet
  <2> QED BY <2>1, CountsFinite
<1>4. Cardinality(Crew) + 1 <= Cardinality(Workers)
  <2>1. Crew \cup {w} \in SUBSET Workers
    BY CountsFinite
  <2>2. Cardinality(Crew \cup {w}) = Cardinality(Crew) + 1
    BY <1>2, CountsFinite, FS_AddElement
  <2>3. Cardinality(Crew \cup {w}) <= Cardinality(Workers)
    BY <2>1, CountsFinite, FS_Subset
  <2> QED BY <2>2, <2>3
<1>5. RMod \in Nat
  BY CounterAssumption
<1>6. /\ counter.left = Cardinality(Work) /\ counter.right = Cardinality(Crew)
      /\ Cardinality(Workers) < RMod
  BY DEF RetryCounted, Few
<1>7. /\ counter.left \in Nat /\ counter.right \in Nat
      /\ counter.left > 0 /\ counter.right + 1 < RMod
  BY <1>3, <1>4, <1>5, <1>6, CountsFinite
<1> QED BY <1>2, <1>5, <1>7 DEF TransferFails, LeftUnderflows, RightOverflows

\* A worker leaves only a hive that is shut down.
LEMMA RetryWorkerDeparts ==
  ASSUME RInv, RetryDepartures, Few, ~ShutDown => RetryCounted,
         NEW w \in Workers, RetryWorkerStep(w)
  PROVE  /\ pc'[w] \notin {"poison", "drain"}
         /\ pc'[w] \in {"finish", "has_work", "counts", "flag", "notify"} =>
              why'[w] \in {"task", "panic", "exit"}
         /\ pc'[w] = "finish" /\ why'[w] = "exit" => ShutDown
<1> DEFINE Goal == /\ pc'[w] \notin {"poison", "drain"}
                   /\ pc'[w] \in {"finish", "has_work", "counts", "flag", "notify"} =>
                        why'[w] \in {"task", "panic", "exit"}
                   /\ pc'[w] = "finish" /\ why'[w] = "exit" => ShutDown
<1>0. RetryTypes /\ w \in Processes
  BY DEF RInv, Processes
<1>1. \A l : Goto(w, l) => pc'[w] = l
  BY <1>0, GotoOnly
<1>2. \A r : why' = [why EXCEPT ![w] = r] => why'[w] = r
  BY <1>0 DEF RetryTypes
<1>3. CASE Wanders(w)
  <2>1. PICK l \in WorkerLabels \ WithTask :
       /\ Goto(w, l)
       /\ l \notin {"absent", "poison", "drain", "requeue"}
       /\ \/ /\ UNCHANGED why /\ l # "finish"
             /\ l \in AfterTask => pc[w] \in AfterTask
          \/ /\ l = "finish" /\ why' = [why EXCEPT ![w] = "exit"]
             /\ poisoned \/ ~Connected
    BY <1>3 DEF Wanders
  <2>2. CASE UNCHANGED why /\ l # "finish" /\ (l \in AfterTask => pc[w] \in AfterTask)
    BY <1>1, <2>1, <2>2 DEF AfterTask, RetryDepartures
  <2>3. CASE l = "finish" /\ why' = [why EXCEPT ![w] = "exit"] /\ (poisoned \/ ~Connected)
    BY <1>1, <1>2, <2>1, <2>3 DEF ShutDown
  <2> QED BY <2>1, <2>2, <2>3
<1>4. CASE FinishTask(w)
  <2>1. pc[w] = "finish" /\ why[w] \in {"task", "panic", "exit"}
    BY <1>4 DEF FinishTask, RetryDepartures
  <2>2. \/ UNCHANGED why /\ \E l \in {"has_work", "dead", "aborted"} : Goto(w, l)
        \/ why' = [why EXCEPT ![w] = "panic"] /\ UNCHANGED pc
    BY <1>4 DEF FinishTask, Abort
  <2> QED BY <1>1, <1>2, <2>1, <2>2
<1>5. CASE Ends(w) \/ UpdateAfterPush(w)
  <2>1. PICK r \in {"task", "panic"} : EndTask(w, r)
    BY <1>5 DEF Ends, UpdateAfterPush
  <2>2. pc'[w] = "finish" /\ why'[w] = r
    BY <1>1, <1>2, <2>1 DEF EndTask
  <2> QED BY <2>2
<1>6. CASE RetryTransferTask(w)
  <2>1. CASE ~TransferFails(counter, 1) /\ TransferTask(w)
    <3>1. Goto(w, "apply")
      BY <2>1 DEF TransferTask
    <3> QED BY <1>1, <3>1
  <2>2. CASE TransferFails(counter, 1) /\ pc[w] = "transfer" /\ Exit(w)
    <3>1. ShutDown
      BY <2>2, RetryTransferFits
    <3>2. pc'[w] = "finish" /\ why'[w] = "exit"
      BY <1>1, <1>2, <2>2 DEF Exit
    <3> QED BY <3>1, <3>2
  <2> QED BY <1>6, <2>1, <2>2 DEF RetryTransferTask
<1>7. CASE Receive(w) \/ Cancel(w) \/ PopRetry(w) \/ UpdateAfterPop(w) \/ Retry(w)
             \/ QueueRetry(w)
  <2>1. \E l \in {"transfer", "cancelled", "popped", "requeue", "requeued"} : Goto(w, l)
    BY <1>7 DEF Receive, Cancel, PopRetry, UpdateAfterPop, Retry, QueueRetry, Move
  <2> QED BY <1>1, <2>1
<1> QED BY <1>0, <1>3, <1>4, <1>5, <1>6, <1>7, WorkerKinds, EndKinds

LEMMA RetryStepDeparts ==
  ASSUME RInv, RetryDepartures, Few, ~ShutDown => RetryCounted, RetryNext
  PROVE  RetryDepartures'
<1>1. (poisoned => poisoned') /\ (ShutDown => ShutDown')
  BY RetryShutDownStays
<1>2. CASE Tick \/ RetryRest
  BY <1>1, <1>2 DEF Tick, RetryRest, Rest, vars, restVars, RetryDepartures
<1>3. ASSUME NEW w \in Workers, RetryWorkerStep(w)
      PROVE  RetryDepartures'
  <2>1. \A v \in Workers \ {w} : pc'[v] = pc[v] /\ why'[v] = why[v]
    BY <1>3, WorkerAlone DEF RInv, Processes
  <2>2. \A h \in Handles : pc'[h] = pc[h]
    <3>1. \A h \in Handles : h \in Processes \ {w}
      BY DEF Processes
    <3> QED BY <1>3, <3>1, WorkerAlone DEF RInv
  <2> QED BY <1>1, <1>3, <2>1, <2>2, RetryWorkerDeparts DEF RetryDepartures
<1>4. ASSUME NEW h \in Handles, RetryContinueCall(h) \/ RetryStartCall(h)
      PROVE  RetryDepartures'
  <2>1. \A w \in Workers :
              /\ why'[w] = why[w]
              /\ pc'[w] = pc[w] \/ (pc[w] = "absent" /\ pc'[w] \in {"boot", "dead"})
    BY <1>4, HandleAlone
  <2>2. \A g \in Handles :
              pc'[g] \in {"drain", "drain_channel", "drain_retries", "refuse"} => poisoned'
    BY <1>1, <1>4, HandleAlone DEF RetryDepartures
  <2> QED BY <1>1, <2>1, <2>2 DEF RetryDepartures
<1> QED BY <1>2, <1>3, <1>4 DEF RetryNext

(***************************************************************************)
(* What a worker does to the counts.                                       *)
(***************************************************************************)
\* Who is counted off, and with what.
Brings == {"popped", "transfer"}
Busily == {"apply", "cancelled", "requeue", "requeued"}

LEMMA NobodyBrings ==
  ASSUME UNCHANGED <<queue, batch, retryTasks>>,
         \A v \in Workers : /\ pc'[v] \in Brings <=> pc[v] \in Brings
                            /\ pc[v] \in Brings => task'[v] = task[v]
  PROVE  Work' = Work
BY DEF Work, Brings, InBatch, InQueue, InRetries

LEMMA OthersInCrew ==
  ASSUME RInv, NEW w \in Workers, RetryWorkerStep(w)
  PROVE  /\ \A v \in Workers \ {w} : v \in Crew' <=> v \in Crew
         /\ \A v \in Workers \ {w} : pc'[v] = pc[v] /\ task'[v] = task[v]
         /\ UNCHANGED batch
<1>1. \A v \in Workers \ {w} : v \in Processes \ {w}
  BY DEF Processes
<1>2. \A v \in Workers \ {w} : pc'[v] = pc[v] /\ task'[v] = task[v] /\ why'[v] = why[v]
  BY <1>1, WorkerAlone DEF RInv
<1>3. UNCHANGED batch
  BY WorkerAlone DEF RInv
<1> QED BY <1>2, <1>3 DEF Crew

\* A worker that wanders is not counted, before or after.
LEMMA WanderingCounts ==
  ASSUME RInv, RetryCounted, NEW w \in Workers, RetryWorkerStep(w), Wanders(w)
  PROVE  RetryCounted'
<1>1. PICK l \in WorkerLabels \ WithTask :
       /\ Goto(w, l)
       /\ \/ l # "finish"
          \/ l = "finish" /\ why' = [why EXCEPT ![w] = "exit"]
  BY DEF Wanders
<1>2. w \in Processes /\ pc'[w] = l /\ (l = "finish" => why'[w] = "exit")
  BY <1>1, GotoOnly DEF RInv, RetryTypes, Processes
<1>3. /\ UNCHANGED <<counter, queue, batch, retryTasks>>
      /\ pc[w] \notin WithTask \cup {"finish"}
  BY DEF Wanders, Same, delayVars, retryTasks
<1>4. Work' = Work
  BY <1>1, <1>2, <1>3, OthersInCrew, NobodyBrings DEF Brings, WithTask
<1>5. Crew' = Crew
  <2>1. w \notin Crew /\ w \notin Crew'
    BY <1>1, <1>2, <1>3 DEF Crew, WithTask
  <2> QED BY <2>1, OthersInCrew, CountsFinite DEF Crew
<1> QED BY <1>3, <1>4, <1>5 DEF RetryCounted

\* A task that ends leaves its worker counted until finish_task; so does one
\* that is put aside, or cancelled.
LEMMA BusyCounts ==
  ASSUME RInv, RetryCounted, NEW w \in Workers, RetryWorkerStep(w),
         \/ Ends(w) \/ Retry(w) \/ UpdateAfterPush(w)
         \/ Cancel(w) /\ UNCHANGED retryVars
  PROVE  RetryCounted'
<1>1. pc[w] \in Busily /\ UNCHANGED <<counter, queue, retryTasks>>
  <2>1. CASE Ends(w)
    BY <2>1 DEF Ends, delayVars, retryTasks, Busily
  <2>2. CASE Cancel(w) /\ UNCHANGED retryVars
    BY <2>2 DEF Cancel, Move, restVars, channelVars, retryVars, delayVars,
                retryTasks, Busily
  <2>3. CASE Retry(w)
    BY <2>3 DEF Retry, Move, restVars, channelVars, retryTasks, Busily
  <2>4. CASE UpdateAfterPush(w)
    BY <2>4 DEF UpdateAfterPush, channelVars, retryTasks, Busily
  <2> QED BY <2>1, <2>2, <2>3, <2>4
<1>2. \/ pc'[w] \in Busily
      \/ pc'[w] = "finish" /\ why'[w] # "exit"
  <2>0. w \in Processes
    BY DEF Processes
  <2>1. CASE Cancel(w) \/ Retry(w)
    <3>1. \E l \in {"cancelled", "requeue"} : Goto(w, l)
      BY <2>1 DEF Cancel, Retry, Move
    <3> QED BY <2>0, <3>1, GotoOnly DEF Busily, RInv
  <2>2. CASE Ends(w) \/ UpdateAfterPush(w)
    <3>1. PICK r \in {"task", "panic"} : EndTask(w, r)
      BY <2>2 DEF Ends, UpdateAfterPush
    <3>2. pc'[w] = "finish"
      BY <2>0, <3>1, GotoOnly DEF EndTask, RInv
    <3>3. why'[w] = r
      BY <2>0, <3>1 DEF EndTask, RInv, RetryTypes
    <3> QED BY <3>2, <3>3
  <2> QED BY <2>1, <2>2
<1>3. Work' = Work
  <2>1. pc[w] \notin Brings /\ pc'[w] \notin Brings
    BY <1>1, <1>2 DEF Brings, Busily
  <2> QED BY <1>1, <2>1, OthersInCrew, NobodyBrings
<1>4. Crew' = Crew
  <2>1. w \in Crew /\ w \in Crew'
    BY <1>1, <1>2 DEF Crew, Busily
  <2> QED BY <2>1, OthersInCrew DEF Crew
<1> QED BY <1>1, <1>3, <1>4 DEF RetryCounted

\* A task that is received, or popped, is as queued as before.
LEMMA AcceptCounts ==
  ASSUME RInv, RetryCounted, NEW w \in Workers, RetryWorkerStep(w),
         \/ Receive(w) /\ UNCHANGED retryVars
         \/ PopRetry(w) \/ UpdateAfterPop(w)
  PROVE  RetryCounted'
<1>0. RetryTypes /\ w \in Processes
  BY DEF RInv, Processes
<1>1. \E l \in {"popped", "transfer"} : Goto(w, l)
  BY DEF Receive, PopRetry, UpdateAfterPop, Move
<1>2. pc'[w] \in Brings
  BY <1>0, <1>1, GotoOnly DEF Brings
<1>3. UNCHANGED counter /\ pc[w] \in {"recv", "pop", "popped"}
  BY DEF Receive, PopRetry, UpdateAfterPop, Move, restVars
<1>4. Crew' = Crew
  <2>1. w \notin Crew /\ w \notin Crew'
    BY <1>2, <1>3 DEF Crew, Brings
  <2> QED BY <2>1, OthersInCrew DEF Crew
<1>5. CASE Receive(w) /\ UNCHANGED retryVars
  <2>1. /\ Head(queue) \in Range(queue)
        /\ Range(queue') = Range(queue) \ {Head(queue)}
    BY <1>0, <1>5, TailRange DEF Receive, RInv, RetryLocated, NoRepeats, RetryTypes
  <2>2. PICK head \in Tasks : head = Head(queue)
    BY <1>0, <2>1, RangeOfTasks DEF RetryTypes
  <2>3. task'[w] = head /\ pc[w] \notin Brings /\ UNCHANGED retryTasks
    BY <1>0, <1>5, <2>2 DEF Receive, RetryTypes, Brings, retryTasks, retryVars, delayVars
  <2>4. \A t \in Tasks : InQueue(t)' \/ t = head <=> InQueue(t)
    BY <2>1, <2>2 DEF InQueue
  <2>5. Work' = Work
    BY <1>2, <2>2, <2>3, <2>4, OthersInCrew DEF Work, Brings, InBatch, InRetries
  <2> QED BY <1>3, <1>4, <2>5 DEF RetryCounted
<1>6. CASE PopRetry(w)
  <2>1. /\ retryTasks \in Seq(Tasks) /\ retryTasks # <<>>
        /\ Head(retryTasks) = Head(retryQueue).task
        /\ retryTasks' = Tail(retryTasks)
    <3>1. retryQueue \in Seq(Entry) /\ retryQueue # <<>> /\ retryQueue' = Tail(retryQueue)
      BY <1>6 DEF PopRetry, RInv, RetryTypes
    <3> QED BY <3>1, TasksOfEntries DEF retryTasks, TasksOf
  <2>2. /\ Head(retryTasks) \in Range(retryTasks)
        /\ Range(retryTasks') = Range(retryTasks) \ {Head(retryTasks)}
    BY <2>1, TailRange DEF RInv, RetryLocated
  <2>3. PICK head \in Tasks : head = Head(retryTasks)
    BY <2>1, <2>2, RangeOfTasks
  <2>4. task'[w] = head /\ pc[w] \notin Brings /\ UNCHANGED queue
    BY <1>0, <1>6, <2>1, <2>3 DEF PopRetry, RetryTypes, Brings, channelVars
  <2>5. \A t \in Tasks : InRetries(t)' \/ t = head <=> InRetries(t)
    BY <2>2, <2>3 DEF InRetries
  <2>6. Work' = Work
    BY <1>2, <2>3, <2>4, <2>5, OthersInCrew DEF Work, Brings, InBatch, InQueue
  <2> QED BY <1>3, <1>4, <2>6 DEF RetryCounted
<1>7. CASE UpdateAfterPop(w)
  <2>1. UNCHANGED <<queue, retryTasks, task>> /\ pc[w] \in Brings
    BY <1>7 DEF UpdateAfterPop, Move, restVars, channelVars, holdVars, retryTasks, Brings
  <2>2. Work' = Work
    BY <1>2, <2>1, OthersInCrew, NobodyBrings
  <2> QED BY <1>3, <1>4, <2>2 DEF RetryCounted
<1> QED BY <1>5, <1>6, <1>7

\* The transfer counts the task off, and the worker on.
LEMMA RetryTransferCounts ==
  ASSUME RInv, Few, RetryCounted, NEW w \in Workers, RetryWorkerStep(w),
         RetryTransferTask(w)
  PROVE  RetryCounted'
<1>0. RetryTypes /\ w \in Processes
  BY DEF RInv, Processes
<1>1. pc[w] = "transfer"
  BY DEF RetryTransferTask, TransferTask
<1>2. /\ task[w] \in Work /\ w \notin Crew
      /\ counter.left \in Nat /\ counter.right \in Nat
      /\ counter.left > 0 /\ counter.right + 1 < RMod
      /\ ~TransferFails(counter, 1)
  BY <1>1, RetryTransferFits
<1>3. TransferTask(w) /\ UNCHANGED retryVars
  BY <1>2 DEF RetryTransferTask
<1>4. /\ Goto(w, "apply") /\ UNCHANGED <<task, queue, retryTasks>>
      /\ counter' = Transfer(counter, 1)
  BY <1>2, <1>3 DEF TransferTask, channelVars, retryVars, delayVars, retryTasks
<1>5. counter'.left = counter.left - 1 /\ counter'.right = counter.right + 1
  <2>1. RMod \in Nat \ {0}
    BY CounterAssumption
  <2>2. (counter.right + 1) % RMod = counter.right + 1
    BY <1>2, <2>1, ModBelow
  <2>3. ~LeftUnderflows(counter, 1)
    BY <1>2 DEF LeftUnderflows
  <2>4. counter' = [left |-> counter.left - 1, right |-> (counter.right + 1) % RMod]
    BY <1>4, <2>3 DEF Transfer
  <2> QED BY <2>2, <2>4
<1>6. pc'[w] = "apply"
  BY <1>0, <1>4, GotoOnly
<1>7. PICK held \in Tasks : held = task[w] /\ Hands(w) = held
  BY <1>1, <1>2, CountsFinite DEF Hands
<1>8. /\ ~InQueue(held) /\ ~InRetries(held) /\ \A h \in Handles : ~InBatch(held, h)
      /\ \A v \in Workers \ {w} : Hands(v) # held
  BY <1>7 DEF RInv, RetryLocated, OnePlaceEach, Only
<1>9. \A v \in Workers \ {w} : pc[v] \in Brings => task[v] # held
  BY <1>8 DEF Brings, Hands
<1>10. Work' = Work \ {held}
  <2>1. \A t \in Tasks : /\ InQueue(t)' <=> InQueue(t)
                         /\ InRetries(t)' <=> InRetries(t)
                         /\ \A h \in Handles : InBatch(t, h)' <=> InBatch(t, h)
    BY <1>4, OthersInCrew DEF InQueue, InRetries, InBatch
  <2>2. ASSUME NEW t \in Tasks
        PROVE  (\E v \in Workers : pc'[v] \in Brings /\ task'[v] = t)
                 <=> t # held /\ \E v \in Workers : pc[v] \in Brings /\ task[v] = t
    BY <1>1, <1>4, <1>6, <1>7, <1>9, OthersInCrew DEF Brings
  <2> QED BY <1>8, <2>1, <2>2 DEF Work, Brings
<1>11. Crew' = Crew \cup {w}
  <2>1. w \in Crew'
    BY <1>6 DEF Crew
  <2> QED BY <2>1, OthersInCrew DEF Crew
<1>12. Cardinality(Work \ {held}) = Cardinality(Work) - 1
  <2>1. held \in Work /\ IsFiniteSet(Work)
    BY <1>2, <1>7, CountsFinite
  <2> QED BY <2>1, FS_RemoveElement
<1>13. Cardinality(Crew \cup {w}) = Cardinality(Crew) + 1
  BY <1>2, CountsFinite, FS_AddElement
<1> QED BY <1>5, <1>10, <1>11, <1>12, <1>13 DEF RetryCounted

\* A task that is queued again is counted before its worker is counted off.
LEMMA QueueRetryCounts ==
  ASSUME RInv, RetryCounted, NEW w \in Workers, RetryWorkerStep(w), QueueRetry(w)
  PROVE  RetryCounted'
<1>0. RetryTypes /\ w \in Processes
  BY DEF RInv, Processes
<1>1. /\ pc[w] = "requeue" /\ Goto(w, "requeued") /\ UNCHANGED <<task, queue>>
      /\ counter' = IncrementLeft(counter, 1)
  BY DEF QueueRetry, channelVars
<1>2. pc'[w] = "requeued"
  BY <1>0, <1>1, GotoOnly
<1>3. PICK held \in Tasks : /\ task[w] = held /\ Hands(w) = held
                           /\ Range(retryTasks') = Range(retryTasks) \cup {held}
  BY Pushed
<1>4. /\ ~InQueue(held) /\ ~InRetries(held) /\ \A h \in Handles : ~InBatch(held, h)
      /\ \A v \in Workers \ {w} : Hands(v) # held
  BY <1>3 DEF RInv, RetryLocated, OnePlaceEach, Only
<1>5. \A v \in Workers : pc[v] \in Brings => task[v] # held
  BY <1>1, <1>4 DEF Brings, Hands
<1>6. held \notin Work
  BY <1>4, <1>5 DEF Work, Brings
<1>8. Work' = Work \cup {held}
  <2>1. \A t \in Tasks : /\ InQueue(t)' <=> InQueue(t)
                         /\ InRetries(t)' <=> InRetries(t) \/ t = held
                         /\ \A h \in Handles : InBatch(t, h)' <=> InBatch(t, h)
    BY <1>1, <1>3, OthersInCrew DEF InQueue, InRetries, InBatch
  <2>2. ASSUME NEW t \in Tasks
        PROVE  (\E v \in Workers : pc'[v] \in Brings /\ task'[v] = t)
                 <=> \E v \in Workers : pc[v] \in Brings /\ task[v] = t
    BY <1>1, <1>2, OthersInCrew DEF Brings
  <2> QED BY <2>1, <2>2 DEF Work, Brings
<1>9. Cardinality(Work \cup {held}) = Cardinality(Work) + 1
  BY <1>6, CountsFinite, FS_AddElement
<1>10. Cardinality(Work) + 1 <= MaxTasks
  <2>1. Work \cup {held} \in SUBSET Tasks
    BY CountsFinite
  <2>2. Cardinality(Work \cup {held}) <= Cardinality(Tasks)
    BY <2>1, TasksFinite, FS_Subset
  <2> QED BY <1>9, <2>2, TasksFinite
<1>11. counter'.left = counter.left + 1 /\ counter'.right = counter.right
  <2>1. /\ counter.left = Cardinality(Work) /\ Cardinality(Work) \in Nat
        /\ MaxTasks \in Nat /\ MaxTasks < LMod /\ LMod \in Nat
    BY CountsFinite, HiveAssumption, CounterAssumption DEF RetryCounted
  <2>2. ~LeftOverflows(counter, 1)
    BY <1>10, <2>1 DEF LeftOverflows
  <2>3. counter' = [counter EXCEPT !.left = @ + 1]
    BY <1>1, <2>2 DEF IncrementLeft
  <2>4. counter \in Pair
    BY <1>0 DEF RetryTypes
  <2> QED BY <2>3, <2>4 DEF Pair
<1>12. Crew' = Crew
  <2>1. w \in Crew /\ w \in Crew'
    BY <1>1, <1>2 DEF Crew
  <2> QED BY <2>1, OthersInCrew DEF Crew
<1> QED BY <1>8, <1>9, <1>11, <1>12 DEF RetryCounted

\* finish_task counts its worker off.
LEMMA RetryFinishCounts ==
  ASSUME RInv, RetryDepartures, ~ShutDown, RetryCounted, NEW w \in Workers,
         RetryWorkerStep(w), FinishTask(w), UNCHANGED retryVars
  PROVE  RetryCounted'
<1>0. RetryTypes /\ w \in Processes
  BY DEF RInv, Processes
<1>1. pc[w] = "finish" /\ why[w] \in {"task", "panic"}
  BY DEF FinishTask, RetryDepartures
<1>2. w \in Crew
  BY <1>1 DEF Crew
<1>3. /\ Cardinality(Crew \ {w}) = Cardinality(Crew) - 1
      /\ Cardinality(Crew \ {w}) \in Nat
  <2>1. Cardinality(Crew \ {w}) = Cardinality(Crew) - 1
    BY <1>2, CountsFinite, FS_RemoveElement
  <2>2. IsFiniteSet(Crew \ {w})
    BY CountsFinite, FS_Subset
  <2> QED BY <2>1, <2>2, FS_CardinalityType
<1>4. PICK r \in Nat : r = counter.right /\ r \in 1 .. RMod - 1 /\ RMod \in Nat \ {0}
  <2>1. counter.right \in 0 .. RMod - 1 /\ RMod \in Nat \ {0}
    BY <1>0, CounterAssumption DEF RetryTypes, Pair
  <2>2. counter.right # 0
    BY <1>3, CountsFinite DEF RetryCounted
  <2> QED BY <2>1, <2>2
<1>5. ~RightUnderflows(counter, 1)
  BY <1>4 DEF RightUnderflows
<1>6. counter'.left = counter.left /\ counter'.right = counter.right - 1
  <2>1. (r - 1) % RMod = r - 1
    BY <1>4, ModBelow
  <2>2. counter' = [counter EXCEPT !.right = (@ - 1) % RMod]
    BY DEF FinishTask, DecrementRight
  <2>3. counter \in Pair
    BY <1>0 DEF RetryTypes
  <2> QED BY <1>4, <2>1, <2>2, <2>3 DEF Pair
<1>7. Goto(w, "has_work") /\ UNCHANGED <<queue, retryTasks>>
  BY <1>5 DEF FinishTask, channelVars, retryVars, delayVars, retryTasks
<1>8. pc'[w] = "has_work"
  BY <1>0, <1>7, GotoOnly
<1>9. Work' = Work
  BY <1>1, <1>7, <1>8, OthersInCrew, NobodyBrings DEF Brings
<1>10. Crew' = Crew \ {w}
  <2>1. w \notin Crew'
    BY <1>8 DEF Crew
  <2> QED BY <2>1, OthersInCrew DEF Crew
<1> QED BY <1>3, <1>6, <1>9, <1>10 DEF RetryCounted

LEMMA RetryWorkerCounts ==
  ASSUME RInv, RetryDepartures, Few, ~ShutDown, RetryCounted,
         NEW w \in Workers, RetryWorkerStep(w)
  PROVE  RetryCounted'
<1>1. RetryTypes
  BY DEF RInv
<1> QED BY <1>1, WorkerKinds, EndKinds, WanderingCounts, BusyCounts, AcceptCounts,
           RetryTransferCounts, QueueRetryCounts, RetryFinishCounts

(***************************************************************************)
(* What a handle does to the counts.                                       *)
(***************************************************************************)
LEMMA HandlesNotInCrew ==
  ASSUME RInv, NEW h \in Handles, RetryContinueCall(h) \/ RetryStartCall(h)
  PROVE  /\ Crew' = Crew
         /\ \A v \in Workers : /\ pc'[v] \in Brings <=> pc[v] \in Brings
                               /\ pc[v] \in Brings => task'[v] = task[v]
<1>1. \A v \in Workers :
        /\ task'[v] = task[v] /\ why'[v] = why[v]
        /\ pc'[v] = pc[v] \/ (pc[v] = "absent" /\ pc'[v] \in {"boot", "dead"})
  BY HandleAlone
<1> QED BY <1>1 DEF Crew, Brings

\* New tasks are counted when they are prepared, and there is room for them.
LEMMA RetrySubmitCounts ==
  ASSUME RInv, RetryCounted, NEW h \in Handles, RetryStartCall(h),
         NEW n \in 1 .. MaxBatch, NEW d \in Destinations, Submit(h, n, d)
  PROVE  RetryCounted'
<1> DEFINE N == nextIndex .. nextIndex + n - 1
<1>0. RetryTypes /\ UNCHANGED retryTasks
  BY DEF RInv, RetryStartCall, retryVars, delayVars, retryTasks
<1>1. /\ nextIndex \in Nat /\ n \in Nat /\ nextIndex + n <= MaxTasks /\ MaxTasks \in Nat
  BY <1>0, HiveAssumption DEF Submit, RetryTypes
<1>2. /\ pc[h] = "idle" /\ UNCHANGED queue /\ counter' = IncrementLeft(counter, n)
      /\ batch' = [batch EXCEPT ![h] = [i \in 1 .. n |-> nextIndex + i - 1]]
  BY DEF Submit, Calls, channelVars
<1>3. /\ batch[h] = <<>> /\ batch'[h] = [i \in 1 .. n |-> nextIndex + i - 1]
      /\ \A g \in Handles \ {h} : batch'[g] = batch[g]
  BY <1>0, <1>2 DEF RInv, HandsKnown, WithBatch, RetryTypes
<1>4. Range(batch'[h]) = N /\ Range(batch[h]) = {}
  <2> DEFINE new == [i \in 1 .. n |-> nextIndex + i - 1]
  <2>1. \A i \in 1 .. n : new[i] \in N
    BY <1>1
  <2>2. \A t \in N : t - nextIndex + 1 \in 1 .. n /\ new[t - nextIndex + 1] = t
    BY <1>1
  <2>3. DOMAIN new = 1 .. n /\ batch'[h] = new
    BY <1>3
  <2> HIDE DEF new, N
  <2> QED BY <1>3, <2>1, <2>2, <2>3, EmptyRange DEF Range
<1>5. N \subseteq Tasks /\ \A t \in N : t \notin Prepared
  BY <1>1 DEF Tasks, Prepared
<1>6. IsFiniteSet(N) /\ Cardinality(N) = n
  BY <1>1, FS_Interval
<1> HIDE DEF N
<1>7. \A t \in N : ~Anywhere(t)
  BY <1>5 DEF RInv, RetryLocated, OnePlaceEach
<1>8. Work \cap N = {}
  <2> SUFFICES ASSUME NEW t \in N, t \in Work PROVE FALSE
    OBVIOUS
  <2>1. ASSUME NEW w \in Workers, pc[w] \in {"popped", "transfer"}, task[w] = t
        PROVE  FALSE
    <3>1. Hands(w) = t
      BY <2>1 DEF Hands
    <3> QED BY <1>7, <3>1 DEF Anywhere
  <2> QED BY <1>7, <2>1 DEF Work, Anywhere
<1>9. Work' = Work \cup N
  <2>1. \A t \in Tasks : /\ InQueue(t)' <=> InQueue(t)
                         /\ InRetries(t)' <=> InRetries(t)
    BY <1>0, <1>2 DEF InQueue, InRetries
  <2>2. \A t \in Tasks : (\E g \in Handles : InBatch(t, g)')
                           <=> t \in N \/ \E g \in Handles : InBatch(t, g)
    BY <1>3, <1>4 DEF InBatch
  <2>3. ASSUME NEW t \in Tasks
        PROVE  (\E v \in Workers : pc'[v] \in Brings /\ task'[v] = t)
                 <=> \E v \in Workers : pc[v] \in Brings /\ task[v] = t
    BY HandlesNotInCrew
  <2> QED BY <1>5, <2>1, <2>2, <2>3 DEF Work, Brings
<1>10. Cardinality(Work \cup N) = Cardinality(Work) + n
  <2>1. Cardinality(Work \cap N) = 0
    BY <1>8, FS_EmptySet
  <2>2. Cardinality(Work \cup N)
          = Cardinality(Work) + Cardinality(N) - Cardinality(Work \cap N)
    BY <1>6, CountsFinite, FS_Union
  <2> QED BY <1>1, <1>6, <2>1, <2>2, CountsFinite
<1>11. Cardinality(Work) + n <= MaxTasks
  <2>1. Work \cup N \in SUBSET Tasks
    BY <1>5, CountsFinite
  <2>2. Cardinality(Work \cup N) <= Cardinality(Tasks)
    BY <2>1, TasksFinite, FS_Subset
  <2> QED BY <1>10, <2>2, TasksFinite
<1>12. counter'.left = counter.left + n /\ counter'.right = counter.right
  <2>1. /\ counter.left = Cardinality(Work) /\ Cardinality(Work) \in Nat
        /\ MaxTasks \in Nat /\ MaxTasks < LMod /\ LMod \in Nat
    BY CountsFinite, HiveAssumption, CounterAssumption DEF RetryCounted
  <2>2. ~LeftOverflows(counter, n)
    BY <1>1, <1>11, <2>1 DEF LeftOverflows
  <2>3. counter' = [counter EXCEPT !.left = @ + n]
    BY <1>2, <2>2 DEF IncrementLeft
  <2>4. counter \in Pair
    BY <1>0 DEF RetryTypes
  <2> QED BY <2>3, <2>4 DEF Pair
<1> QED BY <1>9, <1>10, <1>12, HandlesNotInCrew DEF RetryCounted

\* Sending a task does not change how many are queued.
LEMMA RetrySendCounts ==
  ASSUME RInv, RetryCounted, NEW h \in Handles, RetryContinueCall(h), Send(h),
         UNCHANGED retryVars
  PROVE  RetryCounted'
<1>0. RetryTypes /\ UNCHANGED <<retryTasks, counter>>
  BY DEF RInv, Send, retryVars, delayVars, retryTasks
<1>1. /\ batch[h] \in Seq(Tasks) /\ batch[h] # <<>> /\ batch'[h] = Tail(batch[h])
      /\ \A g \in Handles \ {h} : batch'[g] = batch[g]
      /\ IsInjective(batch[h]) /\ queue \in Seq(Tasks)
      /\ queue' = Append(queue, Head(batch[h]))
  <2>1. IsInjective(batch[h]) /\ queue \in Seq(Tasks)
    BY <1>0 DEF RInv, RetryLocated, NoRepeats, RetryTypes
  <2>2. queue' = Append(queue, Head(batch[h]))
    BY DEF Send
  <2> QED BY <2>1, <2>2, SendParts
<1>2. PICK head \in Tasks : head = Head(batch[h])
  BY <1>1
<1>3. /\ head \in Range(batch[h])
      /\ Range(batch'[h]) = Range(batch[h]) \ {head}
  BY <1>1, <1>2, TailRange
<1>4. Range(queue') = Range(queue) \cup {head}
  BY <1>1, <1>2, AppendRange
<1>5. \A t \in Tasks : (\E g \in Handles : InBatch(t, g)') \/ InQueue(t)'
                         <=> (\E g \in Handles : InBatch(t, g)) \/ InQueue(t)
  <2> SUFFICES ASSUME NEW t \in Tasks
               PROVE  (\E g \in Handles : InBatch(t, g)') \/ InQueue(t)'
                         <=> (\E g \in Handles : InBatch(t, g)) \/ InQueue(t)
    OBVIOUS
  <2>1. CASE t = head
    <3>1. InQueue(t)' /\ InBatch(t, h)
      BY <1>3, <1>4, <2>1 DEF InQueue, InBatch
    <3> QED BY <3>1
  <2>2. CASE t # head
    <3>1. InQueue(t)' <=> InQueue(t)
      BY <1>4, <2>2 DEF InQueue
    <3>2. \A g \in Handles : InBatch(t, g)' <=> InBatch(t, g)
      BY <1>1, <1>3, <2>2 DEF InBatch
    <3> QED BY <3>1, <3>2
  <2> QED BY <2>1, <2>2
<1>6. Work' = Work
  <2>1. \A t \in Tasks : InRetries(t)' <=> InRetries(t)
    BY <1>0 DEF InRetries
  <2>2. ASSUME NEW t \in Tasks
        PROVE  (\E v \in Workers : pc'[v] \in Brings /\ task'[v] = t)
                 <=> \E v \in Workers : pc[v] \in Brings /\ task[v] = t
    BY HandlesNotInCrew
  <2> QED BY <1>5, <2>1, <2>2 DEF Work, Brings
<1> QED BY <1>0, <1>6, HandlesNotInCrew DEF RetryCounted

\* A husk is only made when nobody can submit.
LEMMA RetryExtractShutDown ==
  ASSUME RetryTypes, NEW h \in Handles, RetryExtract(h)
  PROVE  ShutDown
<1>1. pc[h] = "spin" /\ \A p \in Processes \ {h} : ~HoldsShared(p)
  BY DEF RetryExtract
<1>2. \A g \in Handles : g = h \/ pc[g] \in {"absent", "gone", "dead", "husk"}
  BY <1>1 DEF HoldsShared, Processes
<1>3. \A g \in Handles : pc[g] # "dead"
  BY DEF RetryTypes, HandleLabels, HandlePoints
<1> QED BY <1>1, <1>2, <1>3 DEF ShutDown, Connected, HoldsSender

LEMMA RetryHandleCounts ==
  ASSUME RInv, RetryDepartures, ~ShutDown, RetryCounted,
         NEW h \in Handles, RetryContinueCall(h) \/ RetryStartCall(h)
  PROVE  RetryCounted'
<1>0. RetryTypes
  BY DEF RInv
<1>1. ASSUME UNCHANGED <<counter, queue, batch, retryTasks>>
      PROVE  RetryCounted'
  <2>1. Work' = Work
    BY <1>1, HandlesNotInCrew, NobodyBrings
  <2> QED BY <1>1, <2>1, HandlesNotInCrew DEF RetryCounted
<1>2. CASE Proceeds(h)
  BY <1>1, <1>2 DEF Proceeds, Same, delayVars, retryTasks
<1>3. CASE TakeStored(h) /\ UNCHANGED retryVars
  BY <1>1, <1>3 DEF TakeStored, channelVars, holdVars, retryVars, delayVars, retryTasks
<1>4. ~DrainChannel(h) /\ ~DrainRetries(h)
  BY DEF DrainChannel, DrainRetries, RetryDepartures, ShutDown
<1>5. ~RetryExtract(h)
  BY <1>0, RetryExtractShutDown
<1>6. CASE RetryContinueCall(h)
  BY <1>0, <1>2, <1>4, <1>5, <1>6, CallKinds, RetrySendCounts
<1>7. CASE RetryStartCall(h)
  <2>1. ASSUME NEW n \in 1 .. MaxBatch, NEW d \in Destinations, Submit(h, n, d)
        PROVE  RetryCounted'
    BY <1>7, <2>1, RetrySubmitCounts
  <2> QED BY <1>0, <1>2, <1>3, <1>7, <2>1, StartKinds
<1> QED BY <1>6, <1>7

-----------------------------------------------------------------------------
\* A hive begins with nothing to count.
LEMMA RetryInitCounts == RetryInit => RetryCountInv
<1> SUFFICES ASSUME RetryInit PROVE RetryCountInv
  OBVIOUS
<1>0. Init /\ retryQueue = <<>>
  BY DEF RetryInit
<1>1. \A p \in Processes : pc[p] \in {"idle", "boot", "absent"}
  <2>1. PICK first \in Handles, started \in SUBSET Workers :
          pc = [p \in Processes |-> IF p = first THEN "idle"
                                   ELSE IF p \in started THEN "boot" ELSE "absent"]
    BY <1>0 DEF Init
  <2> QED BY <2>1
<1>2. /\ \A h \in Handles : batch[h] = <<>>
      /\ queue = <<>> /\ counter = Zero
  BY <1>0 DEF Init
<1>3. RetryDepartures
  BY <1>1 DEF RetryDepartures, Processes
<1>4. \A t \in Tasks : ~InQueue(t) /\ ~InRetries(t) /\ \A h \in Handles : ~InBatch(t, h)
  <2>1. Range(retryTasks) = {}
    BY <1>0 DEF retryTasks, Range
  <2> QED BY <1>2, <2>1, EmptyRange DEF InQueue, InRetries, InBatch
<1>5. Work = {} /\ Crew = {}
  BY <1>1, <1>4 DEF Work, Crew, Processes
<1> QED BY <1>2, <1>3, <1>5, FS_EmptySet DEF RetryCountInv, RetryCounted, Zero

\* Time does not change what is queued.
LEMMA TickTasks ==
  ASSUME RInv, Tick
  PROVE  UNCHANGED retryTasks
<1> DEFINE Sooner(n) == IF n > 0 THEN n - 1 ELSE 0
<1>1. /\ retryQueue \in Seq(Entry) /\ DOMAIN retryQueue = 1 .. Len(retryQueue)
      /\ \A i \in DOMAIN retryQueue : retryQueue[i] \in Entry
  <2>1. retryQueue \in Seq(Entry)
    BY DEF RInv, RetryTypes
  <2> QED BY <2>1, LenProperties, ElementOfSeq
<1>2. retryQueue' = [i \in DOMAIN retryQueue |->
           [retryQueue[i] EXCEPT !.in = Sooner(retryQueue[i].in)]]
  BY DEF Tick
<1> HIDE DEF Sooner
<1>3. DOMAIN retryQueue' = DOMAIN retryQueue
  BY <1>2
<1>4. ASSUME NEW i \in DOMAIN retryQueue
      PROVE  retryQueue'[i].task = retryQueue[i].task
  <2>1. PICK e \in Entry : e = retryQueue[i]
    BY <1>1
  <2>2. retryQueue'[i] = [e EXCEPT !.in = Sooner(e.in)]
    BY <1>2, <2>1
  <2> QED BY <2>1, <2>2 DEF Entry
<1> QED BY <1>3, <1>4 DEF retryTasks

LEMMA StutterCounts ==
  ASSUME RetryCountInv, UNCHANGED retryHiveVars
  PROVE  RetryCountInv'
<1>1. UNCHANGED <<pc, counter, why, queue, task, batch, poisoned, retryTasks>>
  BY DEF retryHiveVars, retryVars, vars, restVars, flagVars, channelVars, holdVars,
         delayVars, retryTasks
<1>2. Work' = Work /\ Crew' = Crew
  BY <1>1, NobodyBrings DEF Crew
<1>3. ShutDown' <=> ShutDown
  BY <1>1 DEF ShutDown, BrokenDown, Connected, HoldsSender
<1>4. RetryDepartures'
  BY <1>1, <1>3 DEF RetryCountInv, RetryDepartures
<1> QED BY <1>1, <1>2, <1>3, <1>4 DEF RetryCountInv, RetryCounted

\* Every step keeps them exact.
LEMMA RetryStepCounts ==
  ASSUME Few
  PROVE  RInv /\ RetryCountInv /\ [RetryNext]_retryHiveVars => RetryCountInv'
<1> SUFFICES ASSUME RInv, RetryCountInv, [RetryNext]_retryHiveVars PROVE RetryCountInv'
  OBVIOUS
<1>1. RetryDepartures /\ (~ShutDown => RetryCounted)
  BY DEF RetryCountInv
<1>2. CASE UNCHANGED retryHiveVars
  BY <1>2, StutterCounts
<1>3. CASE RetryNext
  <2>1. RetryDepartures' /\ (ShutDown => ShutDown')
    BY <1>1, <1>3, RetryStepDeparts, RetryShutDownStays
  <2>2. ASSUME ~ShutDown' PROVE RetryCounted'
    <3>1. ~ShutDown /\ RetryCounted
      BY <1>1, <2>1, <2>2
    <3>2. CASE Tick
      <4>1. UNCHANGED <<pc, counter, why, queue, task, batch>>
        BY <3>2 DEF Tick, vars, restVars, channelVars, holdVars
      <4>2. UNCHANGED retryTasks
        BY <3>2, TickTasks
      <4>3. Work' = Work /\ Crew' = Crew
        BY <4>1, <4>2, NobodyBrings DEF Crew
      <4> QED BY <3>1, <4>1, <4>3 DEF RetryCounted
    <3>3. CASE RetryRest
      <4>1. RetryCountInv'
        BY <3>3, StutterCounts DEF RetryRest, Rest, retryHiveVars
      <4> QED BY <2>2, <4>1 DEF RetryCountInv
    <3> QED BY <1>1, <1>3, <3>1, <3>2, <3>3, RetryWorkerCounts, RetryHandleCounts
            DEF RetryNext
  <2> QED BY <2>1, <2>2 DEF RetryCountInv
<1> QED BY <1>2, <1>3

LEMMA AlwaysRetryCounts ==
  ASSUME Few
  PROVE  RetrySpec => []RetryCountInv
<1>1. RInv /\ RetryCountInv /\ [RetryNext]_retryHiveVars => RetryCountInv'
  BY RetryStepCounts
<1> QED BY <1>1, RetryInitCounts, AlwaysRInv, PTL DEF RetrySpec

(***************************************************************************)
(* With fewer threads than the active counter has values: until the hive   *)
(* is shut down, the queued counter is the number of tasks in batches, in  *)
(* the channel, in the retry queue or brought by a worker, and the active  *)
(* counter the number of workers between transfer and decrement.  A task   *)
(* that is put aside is counted in one or the other all the time, so no    *)
(* join returns in between (Shared::queue_retry, finish_task).             *)
(***************************************************************************)
THEOREM RetryCountersStayExact ==
  ASSUME Few
  PROVE  RetrySpec => []RetryCountersExact
<1>1. ASSUME RInv PROVE Work = Waiting \cup Retrying \cup Popped
  <2>1. Retrying \subseteq Tasks /\ \A t \in Tasks : t \in Retrying <=> InRetries(t)
    <3>1. retryQueue \in Seq(Entry)
      BY <1>1 DEF RInv, RetryTypes
    <3>2. \A i \in DOMAIN retryQueue : retryQueue[i].task \in Tasks
      BY <3>1, TasksOfEntries
    <3> QED BY <3>2, RetryingIsRange DEF Retrying, InRetries
  <2>2. \A w \in Workers : pc[w] = "popped" => task[w] \in Tasks
    BY <1>1 DEF RInv, HandsKnown, RetryTypes, WithTask, Processes
  <2>3. Popped \subseteq Tasks
    BY <2>2 DEF Popped
  <2>4. ASSUME NEW t \in Tasks
        PROVE  t \in Work <=> t \in Waiting \cup Retrying \cup Popped
    BY <2>1 DEF Work, Waiting, Popped, InBatch, InQueue
  <2> QED BY <2>1, <2>3, <2>4 DEF Work, Waiting
<1>2. Crew = Active \cup Requeueing
  BY DEF Crew, Active, Requeueing
<1>3. RInv /\ RetryCountInv => RetryCountersExact
  BY <1>1, <1>2 DEF RetryCountInv, RetryCounted, RetryCountersExact
<1> QED BY <1>3, AlwaysRInv, AlwaysRetryCounts, PTL

-----------------------------------------------------------------------------
(***************************************************************************)
(* The hive of the retry build implements the task pool with retries.      *)
(***************************************************************************)
\* The pool counts as the hive does.
LEMMA SameRetryCardinality == \A S : RetryPool!Cardinality(S) = Cardinality(S)
BY DEF RetryPool!Cardinality, Cardinality

\* A task in a worker's hands is nowhere else.
LEMMA InRetryHand ==
  ASSUME RInv, NEW w \in Workers, pc[w] \in WithTask \ {"requeued"}
  PROVE  /\ task[w] \in Tasks /\ task[w] \in Prepared /\ ~Ended(task[w])
         /\ \A v \in Workers : Hands(v) = task[w] => v = w
<1>1. PICK held \in Tasks : held = task[w] /\ Hands(w) = held
  <2>1. task[w] # NoTask /\ task[w] \in Tasks \cup {NoTask}
    BY DEF RInv, HandsKnown, RetryTypes, Processes
  <2> QED BY <2>1 DEF Hands
<1>2. (held \in Prepared <=> Anywhere(held)) /\ Only(held)
  BY DEF RInv, RetryLocated, OnePlaceEach
<1>3. held \in Prepared
  BY <1>1, <1>2 DEF Anywhere
<1> QED BY <1>1, <1>2, <1>3 DEF Only

LEMMA OneExecutes ==
  ASSUME RInv, NEW t \in Executing
  PROVE  t \in Tasks /\ t \in Prepared /\ ~Ended(t)
<1>1. PICK w \in Workers : pc[w] \in {"apply", "cancelled"} /\ task[w] = t
  BY DEF Executing
<1> QED BY <1>1, InRetryHand DEF WithTask

\* What the status says of a task.
LEMMA RetryStatusFacts ==
  ASSUME RInv, NEW t \in Tasks
  PROVE  /\ Status[t] = StatusOf(t)
         /\ t \in Executing <=> Status[t] = "running"
         /\ t \in Prepared /\ ~Ended(t) /\ t \notin Executing => Status[t] = "waiting"
         /\ Status[t] = "new" <=> t \notin Prepared
<1>1. Status[t] = StatusOf(t)
  BY DEF Status
<1>2. t \in Executing => ~Ended(t) /\ t \in Prepared
  BY OneExecutes
<1>3. Ended(t) => t \in Prepared
  BY DEF RInv, RetryLocated, OnePlaceEach, Anywhere
<1>4. /\ outcomes[t] \in Kinds /\ sent[t] \in Kinds /\ taken[t] \in Kinds
  BY DEF RInv, RetryTypes
<1>5. CASE Ended(t)
  <2>1. StatusOf(t) \in {"processed", "unprocessed", "lost"} /\ t \notin Executing /\ t \in Prepared
    BY <1>2, <1>3, <1>4, <1>5 DEF StatusOf, Ended, Kinds
  <2> QED BY <1>1, <1>5, <2>1
<1>6. CASE ~Ended(t)
  <2>1. StatusOf(t) = IF t \in Executing THEN "running"
                      ELSE IF t \in Prepared THEN "waiting" ELSE "new"
    BY <1>6 DEF StatusOf, Ended
  <2> QED BY <1>1, <1>2, <1>6, <2>1
<1> QED BY <1>5, <1>6

LEMMA RetryPoolSets ==
  ASSUME NEW S, NEW s, ShutDown' <=> ShutDown, UNCHANGED attempt,
         \A t \in Tasks : Status'[t] = IF t \in S THEN s ELSE Status[t]
  PROVE  RetryPool!Set(S, s)
<1>1. Status' = [t \in Tasks |-> Status'[t]]
  BY DEF Status
<1>2. Status' = [t \in Tasks |-> IF t \in S THEN s ELSE Status[t]]
  BY <1>1
<1> QED BY <1>2 DEF RetryPool!Set, RetryPool!Tasks, Tasks

LEMMA RetryPoolQuiet ==
  ASSUME \A t \in Tasks : Status'[t] = Status[t], ShutDown => ShutDown', UNCHANGED attempt
  PROVE  [RetryPool!Next]_(RetryPool!vars)
<1>1. Status' = Status
  <2>1. Status' = [t \in Tasks |-> Status'[t]] /\ Status = [t \in Tasks |-> Status[t]]
    BY DEF Status
  <2> QED BY <2>1
<1>2. CASE ~ShutDown /\ ShutDown'
  BY <1>1, <1>2 DEF RetryPool!Next, RetryPool!Close, RetryPool!Tasks, Tasks
<1>3. CASE ShutDown' <=> ShutDown
  BY <1>1, <1>3 DEF RetryPool!vars, Tasks
<1> QED BY <1>2, <1>3

\* Nobody's status changes if no task begins or ends.
LEMMA RetryQuiet ==
  ASSUME UNCHANGED <<outcomes, sent, taken, lost, nextIndex, attempt>>,
         Executing' = Executing, ShutDown => ShutDown'
  PROVE  [RetryPool!Next]_(RetryPool!vars)
<1>1. \A t \in Tasks : Status'[t] = Status[t]
  BY StatusSame
<1> QED BY <1>1, RetryPoolQuiet

LEMMA RetryPoolGivesBack ==
  ASSUME RInv, ShutDown, NEW S \in SUBSET Tasks, Deliver(S, "unprocessed"),
         UNCHANGED <<lost, nextIndex, attempt>>, Executing' = Executing,
         \A t \in S : t \in Prepared /\ ~Ended(t) /\ t \notin Executing, ShutDown'
  PROVE  RetryPool!Next
<1>1. \A t \in Tasks : Status'[t] = IF t \in S THEN "unprocessed" ELSE Status[t]
  <2>1. ASSUME NEW t \in S PROVE Status'[t] = "unprocessed"
    BY <2>1, StatusDelivered
  <2>2. ASSUME NEW t \in Tasks, t \notin S PROVE Status'[t] = Status[t]
    <3>1. outcomes'[t] = outcomes[t] /\ sent'[t] = sent[t] /\ taken'[t] = taken[t]
      BY <2>2, OthersNotDelivered
    <3> QED BY <3>1, StatusSame
  <2> QED BY <2>1, <2>2
<1>2. RetryPool!Set(S, "unprocessed")
  BY <1>1, RetryPoolSets
<1>3. \A t \in S : Status[t] = "waiting"
  BY RetryStatusFacts
<1>4. S \subseteq RetryPool!In("waiting")
  BY <1>3 DEF RetryPool!In, RetryPool!Tasks, Tasks
<1>5. RetryPool!GiveBack(S)
  BY <1>2, <1>4 DEF RetryPool!GiveBack
<1> QED BY <1>5 DEF RetryPool!Next, RetryPool!Tasks, Tasks

-----------------------------------------------------------------------------
(***************************************************************************)
(* The workers of the retry build, as workers of the pool.                 *)
(***************************************************************************)
LEMMA RetryWorkerKeepsOpen ==
  ASSUME RInv, RetryDepartures, RetryDepartures', NEW w \in Workers, RetryWorkerStep(w)
  PROVE  ShutDown' <=> ShutDown
<1>1. \A h \in Handles : h \in Processes \ {w}
  BY DEF Processes
<1>2. UNCHANGED poisoned /\ \A h \in Handles : pc'[h] = pc[h]
  BY <1>1, WorkerAlone DEF RInv
<1>3. ~BrokenDown /\ ~BrokenDown'
  BY DEF RetryDepartures, BrokenDown
<1> QED BY <1>2, <1>3 DEF ShutDown, Connected, HoldsSender

\* Less than all workers run a task when one of them has not begun its own.
LEMMA RetryRoomToRun ==
  ASSUME RInv, NEW w \in Workers, pc[w] = "transfer"
  PROVE  Cardinality(RetryPool!In("running")) < Cardinality(Workers)
<1> DEFINE R == {v \in Workers : pc[v] \in {"apply", "cancelled"}}
<1>0. Executing \subseteq Tasks
  BY OneExecutes
<1>1. RetryPool!In("running") = Executing
  BY <1>0, RetryStatusFacts DEF RetryPool!In, RetryPool!Tasks, Tasks
<1>2. IsFiniteSet(R) /\ Cardinality(R) <= Cardinality(Workers) - 1
  <2>1. IsFiniteSet(Workers \ {w}) /\ Cardinality(Workers \ {w}) = Cardinality(Workers) - 1
    BY CountsFinite, FS_RemoveElement
  <2>2. R \subseteq Workers \ {w}
    OBVIOUS
  <2> QED BY <2>1, <2>2, FS_Subset
<1>3. Cardinality(Executing) <= Cardinality(R)
  <2> DEFINE f == [v \in R |-> task[v]]
  <2>1. f \in Surjection(R, Executing)
    BY DEF Surjection, Executing
  <2> HIDE DEF f, R
  <2> QED BY <1>2, <2>1, FS_Surjection
<1>4. /\ Cardinality(Workers) \in Nat /\ Cardinality(R) \in Nat
      /\ Cardinality(Executing) \in Nat
  <2>1. IsFiniteSet(Executing)
    BY <1>0, TasksFinite, FS_Subset
  <2> HIDE DEF R
  <2> QED BY <1>2, <2>1, CountsFinite, FS_CardinalityType
<1> HIDE DEF R
<1> QED BY <1>1, <1>2, <1>3, <1>4

\* A transfer starts the task; one that fails, in a hive that is shut down,
\* loses it.
LEMMA RetryTransferPools ==
  ASSUME RInv, Few, RetryDepartures, RetryDepartures', ~ShutDown => RetryCounted,
         NEW w \in Workers, RetryWorkerStep(w), RetryTransferTask(w)
  PROVE  RetryPool!Next
<1>0. RetryTypes /\ w \in Processes
  BY DEF RInv, Processes
<1>1. pc[w] = "transfer" /\ UNCHANGED <<outcomeVars, nextIndex, attempt>>
  BY DEF RetryTransferTask, TransferTask, taskVars, retryVars, delayVars
<1>2. PICK t \in Tasks : t = task[w] /\ t \in Prepared /\ ~Ended(t)
                         /\ \A v \in Workers : Hands(v) = t => v = w
  BY <1>1, InRetryHand DEF WithTask
<1>3. \A v \in Workers \ {w} : pc'[v] = pc[v] /\ task'[v] = task[v]
  BY OthersInCrew
<1>4. t \notin Executing
  <2>1. \A v \in Workers : pc[v] \in {"apply", "cancelled"} => task[v] # t
    BY <1>1, <1>2 DEF Hands
  <2> QED BY <2>1 DEF Executing
<1>5. Status[t] = "waiting"
  BY <1>2, <1>4, RetryStatusFacts
<1>6. ShutDown' <=> ShutDown
  BY RetryWorkerKeepsOpen
<1>7. ASSUME NEW u \in Tasks, u # t, u \in lost' <=> u \in lost,
             u \in Executing' <=> u \in Executing
      PROVE  Status'[u] = Status[u]
  BY <1>1, <1>7, StatusSame DEF outcomeVars
<1>8. CASE ~TransferFails(counter, 1) /\ TransferTask(w)
  <2>1. Goto(w, "apply") /\ UNCHANGED <<task, lost>>
    BY <1>8 DEF TransferTask
  <2>2. pc'[w] = "apply" /\ task'[w] = t
    BY <1>0, <1>2, <2>1, GotoOnly
  <2>3. Executing' = Executing \cup {t}
    BY <1>1, <1>3, <2>2 DEF Executing
  <2>4. Status'[t] = "running"
    BY <1>1, <1>2, <2>1, <2>3, StatusStarts
  <2>5. \A u \in Tasks : Status'[u] = IF u \in {t} THEN "running" ELSE Status[u]
    BY <1>7, <2>1, <2>3, <2>4
  <2>6. RetryPool!Set({t}, "running")
    BY <1>1, <1>6, <2>5, RetryPoolSets
  <2>7. Cardinality(RetryPool!In("running")) < Cardinality(Workers)
    BY <1>1, RetryRoomToRun
  <2>8. RetryPool!Start(t)
    BY <1>5, <2>6, <2>7, SameRetryCardinality DEF RetryPool!Start
  <2> QED BY <2>8 DEF RetryPool!Next, RetryPool!Tasks, Tasks
<1>9. CASE /\ TransferFails(counter, 1) /\ Exit(w)
           /\ lost' = lost \cup {task[w]} /\ task' = [task EXCEPT ![w] = NoTask]
  <2>1. ShutDown
    BY <1>1, <1>9, RetryTransferFits
  <2>2. pc'[w] = "finish"
    BY <1>0, <1>9, GotoOnly DEF Exit
  <2>3. Executing' = Executing
    BY <1>1, <1>3, <2>2 DEF Executing
  <2>4. Status'[t] = "lost"
    BY <1>1, <1>2, <1>9, StatusLost
  <2>5. \A u \in Tasks : Status'[u] = IF u \in {t} THEN "lost" ELSE Status[u]
    BY <1>2, <1>7, <1>9, <2>3, <2>4
  <2>6. RetryPool!Set({t}, "lost")
    BY <1>1, <1>6, <2>5, RetryPoolSets
  <2>7. RetryPool!Lose(t)
    BY <1>5, <2>1, <2>6 DEF RetryPool!Lose
  <2> QED BY <2>7 DEF RetryPool!Next, RetryPool!Tasks, Tasks
<1> QED BY <1>8, <1>9 DEF RetryTransferTask

\* A worker that leaves apply or cancelled ends the execution of its task.
LEMMA ExecutionEnds ==
  ASSUME RInv, NEW w \in Workers, RetryWorkerStep(w), pc[w] \in {"apply", "cancelled"},
         pc'[w] \notin {"apply", "cancelled"}
  PROVE  /\ Executing' = Executing \ {task[w]} /\ Status[task[w]] = "running"
         /\ task[w] \in Tasks /\ task[w] \in Prepared /\ ~Ended(task[w])
<1>1. PICK t \in Tasks : t = task[w] /\ t \in Prepared /\ ~Ended(t)
                         /\ \A v \in Workers : Hands(v) = t => v = w
  BY InRetryHand DEF WithTask
<1>2. \A v \in Workers \ {w} : pc'[v] = pc[v] /\ task'[v] = task[v]
  BY OthersInCrew
<1>3. Executing' = Executing \ {t}
  <2>1. ASSUME NEW u \in Executing' PROVE u \in Executing \ {t}
    <3>1. PICK v \in Workers : pc'[v] \in {"apply", "cancelled"} /\ u = task'[v]
      BY <2>1 DEF Executing
    <3>2. v # w /\ pc[v] \in {"apply", "cancelled"} /\ u = task[v]
      BY <1>2, <3>1
    <3> QED BY <1>1, <3>2 DEF Executing, Hands
  <2>2. ASSUME NEW u \in Executing \ {t} PROVE u \in Executing'
    <3>1. PICK v \in Workers : pc[v] \in {"apply", "cancelled"} /\ u = task[v]
      BY <2>2 DEF Executing
    <3>2. pc'[v] \in {"apply", "cancelled"} /\ u = task'[v]
      BY <1>1, <1>2, <2>2, <3>1
    <3> QED BY <3>2 DEF Executing
  <2> QED BY <2>1, <2>2
<1>4. Status[t] = "running"
  <2>1. t \in Executing
    BY <1>1 DEF Executing
  <2> QED BY <2>1, RetryStatusFacts
<1> QED BY <1>1, <1>3, <1>4

LEMMA RetryEndPools ==
  ASSUME RInv, RetryDepartures, RetryDepartures', NEW w \in Workers, RetryWorkerStep(w),
         Ends(w)
  PROVE  RetryPool!Next
<1>1. /\ pc[w] \in {"apply", "cancelled"} /\ Goto(w, "finish")
      /\ UNCHANGED <<nextIndex, attempt>>
  BY DEF Ends, EndTask, delayVars
<1>2. pc'[w] = "finish"
  BY <1>1, GotoOnly DEF RInv, Processes
<1>3. PICK t \in Tasks : t = task[w] /\ t \in Prepared /\ ~Ended(t)
                         /\ Status[t] = "running" /\ Executing' = Executing \ {t}
  BY <1>1, <1>2, ExecutionEnds
<1>4. ShutDown' <=> ShutDown
  BY RetryWorkerKeepsOpen
<1>5. \E k \in RetryPool!Final :
         \A u \in Tasks : Status'[u] = IF u \in {t} THEN k ELSE Status[u]
  <2>1. CASE lost' = lost \cup {t} /\ UNCHANGED outcomeVars
    <3>1. Status'[t] = "lost"
      BY <1>3, <2>1, StatusLost
    <3>2. ASSUME NEW u \in Tasks, u # t PROVE Status'[u] = Status[u]
      BY <1>1, <1>3, <2>1, <3>2, StatusSame DEF outcomeVars
    <3> QED BY <3>1, <3>2 DEF RetryPool!Final
  <2>2. ASSUME NEW k \in {"processed", "unprocessed"}, Deliver({t}, k), UNCHANGED lost
        PROVE  \A u \in Tasks : Status'[u] = IF u \in {t} THEN k ELSE Status[u]
    <3>1. Status'[t] = k
      BY <1>3, <2>2, StatusDelivered
    <3>2. ASSUME NEW u \in Tasks, u # t PROVE Status'[u] = Status[u]
      <4>1. outcomes'[u] = outcomes[u] /\ sent'[u] = sent[u] /\ taken'[u] = taken[u]
        BY <2>2, <3>2, OthersNotDelivered
      <4> QED BY <1>1, <1>3, <2>2, <3>2, <4>1, StatusSame
    <3> QED BY <3>1, <3>2
  <2>3. \/ \E k \in {"processed", "unprocessed"} : Deliver({t}, k) /\ UNCHANGED lost
        \/ lost' = lost \cup {t} /\ UNCHANGED outcomeVars
    BY <1>3 DEF Ends
  <2>4. {"processed", "unprocessed"} \subseteq RetryPool!Final
    BY DEF RetryPool!Final
  <2> QED BY <2>1, <2>2, <2>3, <2>4
<1>6. RetryPool!Finish(t)
  BY <1>1, <1>3, <1>4, <1>5, RetryPoolSets DEF RetryPool!Finish
<1> QED BY <1>6 DEF RetryPool!Next, RetryPool!Tasks, Tasks

\* A task that is to be tried again is put back.
LEMMA RetryPutsBack ==
  ASSUME RInv, RetryDepartures, RetryDepartures', NEW w \in Workers, RetryWorkerStep(w),
         Retry(w)
  PROVE  RetryPool!Next
<1>1. /\ pc[w] = "apply" /\ Goto(w, "requeue")
      /\ UNCHANGED <<outcomes, sent, taken, lost, nextIndex>>
      /\ CanRetry(task[w]) /\ attempt' = [attempt EXCEPT ![task[w]] = @ + 1]
  BY DEF Retry, Move, restVars, outcomeVars, taskVars
<1>2. pc'[w] = "requeue"
  BY <1>1, GotoOnly DEF RInv, Processes
<1>3. PICK t \in Tasks : t = task[w] /\ t \in Prepared /\ ~Ended(t)
                         /\ Status[t] = "running" /\ Executing' = Executing \ {t}
  BY <1>1, <1>2, ExecutionEnds
<1>4. ShutDown' <=> ShutDown
  BY RetryWorkerKeepsOpen
<1>5. Status'[t] = "waiting"
  <2>1. /\ t \in Prepared' /\ t \notin Executing'
        /\ outcomes'[t] = "none" /\ sent'[t] = "none" /\ taken'[t] = "none" /\ t \notin lost'
    BY <1>1, <1>3 DEF Prepared, Ended
  <2>2. Status'[t] = StatusOf(t)'
    BY DEF Status
  <2> QED BY <2>1, <2>2 DEF StatusOf
<1>6. ASSUME NEW u \in Tasks, u # t PROVE Status'[u] = Status[u]
  BY <1>1, <1>3, <1>6, StatusSame
<1>7. Status' = [Status EXCEPT ![t] = "waiting"]
  <2>1. /\ Status' = [u \in Tasks |-> Status'[u]]
        /\ Status = [u \in Tasks |-> Status[u]]
    BY DEF Status
  <2> QED BY <1>5, <1>6, <2>1
<1>8. attempt[t] < MaxRetries /\ attempt' = [attempt EXCEPT ![t] = @ + 1]
  BY <1>1, <1>3 DEF CanRetry
<1>9. RetryPool!PutBack(t)
  BY <1>3, <1>4, <1>7, <1>8 DEF RetryPool!PutBack
<1> QED BY <1>9 DEF RetryPool!Next, RetryPool!Tasks, Tasks

\* What workers do otherwise neither begins nor ends an execution.
LEMMA RetryWorkerQuiet ==
  ASSUME RInv, NEW w \in Workers, RetryWorkerStep(w),
         \/ Wanders(w) \/ PopRetry(w) \/ UpdateAfterPop(w) \/ QueueRetry(w)
         \/ UpdateAfterPush(w)
         \/ (FinishTask(w) \/ Receive(w) \/ Cancel(w)) /\ UNCHANGED retryVars
  PROVE  /\ UNCHANGED <<outcomes, sent, taken, lost, nextIndex, attempt>>
         /\ Executing' = Executing
<1>0. RetryTypes /\ w \in Processes
  BY DEF RInv, Processes
<1>1. \A v \in Workers \ {w} : pc'[v] = pc[v] /\ task'[v] = task[v]
  BY OthersInCrew
<1>2. ASSUME pc[w] \notin {"apply", "cancelled"}, pc'[w] \notin {"apply", "cancelled"}
      PROVE  Executing' = Executing
  BY <1>1, <1>2 DEF Executing
<1>3. CASE Wanders(w)
  <2>1. PICK l \in WorkerLabels \ WithTask : Goto(w, l)
    BY <1>3 DEF Wanders
  <2>2. pc'[w] = l /\ pc[w] \notin WithTask
    BY <1>0, <1>3, <2>1, GotoOnly DEF Wanders
  <2> QED BY <1>2, <1>3, <2>1, <2>2 DEF Wanders, Same, WithTask, delayVars
<1>4. CASE FinishTask(w) /\ UNCHANGED retryVars
  <2>1. UNCHANGED pc \/ \E l \in {"has_work", "dead", "aborted"} : Goto(w, l)
    BY <1>4 DEF FinishTask, Abort
  <2>2. pc[w] = "finish" /\ pc'[w] \in {"finish", "has_work", "dead", "aborted"}
    BY <1>0, <1>4, <2>1, GotoOnly DEF FinishTask
  <2> QED BY <1>2, <1>4, <2>2 DEF FinishTask, taskVars, outcomeVars, retryVars, delayVars
<1>5. CASE Receive(w) /\ UNCHANGED retryVars
  <2>1. pc[w] = "recv" /\ pc'[w] = "transfer"
    BY <1>0, <1>5, GotoOnly DEF Receive
  <2> QED BY <1>2, <1>5, <2>1 DEF Receive, taskVars, outcomeVars, retryVars, delayVars
<1>6. CASE Cancel(w) /\ UNCHANGED retryVars
  <2>1. UNCHANGED restVars /\ pc[w] = "apply" /\ pc'[w] = "cancelled"
    BY <1>0, <1>6, GotoOnly DEF Cancel, Move
  <2>2. UNCHANGED <<task, outcomes, sent, taken, lost, nextIndex, attempt>>
    BY <1>6, <2>1 DEF restVars, taskVars, outcomeVars, holdVars, retryVars, delayVars
  <2> QED BY <1>1, <2>1, <2>2 DEF Executing
<1>7. CASE PopRetry(w) \/ UpdateAfterPop(w) \/ QueueRetry(w) \/ UpdateAfterPush(w)
  <2>1. /\ \E l \in {"popped", "transfer", "requeued", "finish"} : Goto(w, l)
        /\ pc[w] \in {"pop", "popped", "requeue", "requeued"}
    BY <1>7 DEF PopRetry, UpdateAfterPop, QueueRetry, UpdateAfterPush, EndTask, Move
  <2>2. pc'[w] \in {"popped", "transfer", "requeued", "finish"}
    BY <1>0, <2>1, GotoOnly
  <2>3. UNCHANGED <<outcomes, sent, taken, lost, nextIndex, attempt>>
    BY <1>7 DEF PopRetry, UpdateAfterPop, QueueRetry, UpdateAfterPush, Move, restVars,
                taskVars, outcomeVars
  <2> QED BY <1>2, <2>1, <2>2, <2>3
<1> QED BY <1>3, <1>4, <1>5, <1>6, <1>7

LEMMA RetryWorkerPools ==
  ASSUME RInv, Few, RetryDepartures, RetryDepartures', ~ShutDown => RetryCounted,
         NEW w \in Workers, RetryWorkerStep(w)
  PROVE  [RetryPool!Next]_(RetryPool!vars)
<1>0. RetryTypes /\ (ShutDown => ShutDown')
  BY RetryWorkerKeepsOpen DEF RInv
<1>1. CASE RetryTransferTask(w) \/ Ends(w) \/ Retry(w)
  BY <1>1, RetryTransferPools, RetryEndPools, RetryPutsBack
<1>2. CASE \/ Wanders(w) \/ PopRetry(w) \/ UpdateAfterPop(w) \/ QueueRetry(w)
           \/ UpdateAfterPush(w)
           \/ (FinishTask(w) \/ Receive(w) \/ Cancel(w)) /\ UNCHANGED retryVars
  <2>1. /\ UNCHANGED <<outcomes, sent, taken, lost, nextIndex, attempt>>
        /\ Executing' = Executing
    BY <1>2, RetryWorkerQuiet
  <2> QED BY <1>0, <2>1, RetryQuiet
<1> QED BY <1>0, <1>1, <1>2, WorkerKinds, EndKinds

-----------------------------------------------------------------------------
(***************************************************************************)
(* The handles of the retry build, and the pool.                           *)
(***************************************************************************)
LEMMA RetrySubmitPools ==
  ASSUME RInv, RetryDepartures, RetryDepartures', NEW h \in Handles, RetryStartCall(h),
         NEW n \in 1 .. MaxBatch, NEW d \in Destinations, Submit(h, n, d),
         Executing' = Executing
  PROVE  RetryPool!Next
<1> DEFINE N == nextIndex .. nextIndex + n - 1
<1>1. /\ nextIndex \in Nat /\ n \in Nat /\ nextIndex + n <= MaxTasks /\ MaxTasks \in Nat
      /\ nextIndex' = nextIndex + n /\ UNCHANGED <<outcomes, sent, taken, lost, attempt>>
  BY HiveAssumption DEF Submit, RInv, RetryTypes, outcomeVars, RetryStartCall, retryVars,
                        delayVars
<1>2. n \in 1 .. MaxTasks
  BY <1>1
<1>3. Tasks \ RetryPool!In("new") = Prepared
  <2>1. Prepared \subseteq Tasks
    BY <1>1 DEF Prepared, Tasks
  <2>2. \A t \in Tasks : Status[t] = "new" <=> t \notin Prepared
    BY RetryStatusFacts
  <2> QED BY <2>1, <2>2 DEF RetryPool!In, RetryPool!Tasks, Tasks
<1>4. RetryPool!Cardinality(RetryPool!Tasks \ RetryPool!In("new")) = nextIndex
  <2>1. Cardinality(Prepared) = nextIndex
    BY <1>1, FS_Interval DEF Prepared
  <2> QED BY <1>3, <2>1, SameRetryCardinality DEF RetryPool!Tasks, Tasks
<1>5. ASSUME NEW t \in N
      PROVE  t \in Tasks /\ Status'[t] = "waiting"
  <2>1. t \in Tasks /\ t \notin Prepared /\ t \in Prepared'
    BY <1>1, <1>5 DEF Prepared, Tasks
  <2>2. ~Ended(t)
    BY <2>1 DEF RInv, RetryLocated, OnePlaceEach, Anywhere
  <2>3. t \notin Executing'
    BY <2>1, OneExecutes
  <2>4. Status'[t] = StatusOf(t)'
    BY <2>1 DEF Status
  <2>5. /\ outcomes'[t] = "none" /\ sent'[t] = "none" /\ taken'[t] = "none" /\ t \notin lost'
    BY <1>1, <2>2 DEF Ended
  <2> QED BY <2>1, <2>3, <2>4, <2>5 DEF StatusOf
<1>6. ASSUME NEW t \in Tasks, t \notin N
      PROVE  Status'[t] = Status[t]
  <2>1. t \in Prepared' <=> t \in Prepared
    BY <1>1, <1>6 DEF Prepared, Tasks
  <2>2. Status'[t] = StatusOf(t)' /\ Status[t] = StatusOf(t)
    BY DEF Status
  <2> QED BY <1>1, <2>1, <2>2 DEF StatusOf
<1>7. ShutDown' <=> ShutDown
  <2>1. pc[h] = "idle" /\ Goto(h, "admit") /\ UNCHANGED poisoned
    BY DEF Submit, Calls, flagVars
  <2>2. pc'[h] = "admit" /\ \A g \in Handles \ {h} : pc'[g] = pc[g]
    BY <2>1, GotoOnly DEF RInv, Processes
  <2>3. Connected /\ Connected'
    BY <2>1, <2>2 DEF Connected, HoldsSender
  <2>4. ~BrokenDown /\ ~BrokenDown'
    BY DEF RetryDepartures, BrokenDown
  <2> QED BY <2>1, <2>3, <2>4 DEF ShutDown
<1> HIDE DEF N
<1>8. RetryPool!Set(N, "waiting")
  BY <1>1, <1>5, <1>6, <1>7, RetryPoolSets
<1>9. RetryPool!Accept(n)
  BY <1>1, <1>4, <1>8 DEF RetryPool!Accept, N
<1> QED BY <1>2, <1>9 DEF RetryPool!Next

\* What is in the queues waits.
LEMMA InQueues ==
  ASSUME RInv
  PROVE  /\ Range(queue) \in SUBSET Tasks /\ Retrying \in SUBSET Tasks
         /\ \A t \in Range(queue) \cup Retrying :
              t \in Prepared /\ ~Ended(t) /\ t \notin Executing
<1>1. Range(queue) \in SUBSET Tasks
  BY DEF RInv, RetryTypes, Range
<1>2. Retrying \in SUBSET Tasks
  <2>1. retryQueue \in Seq(Entry)
    BY DEF RInv, RetryTypes
  <2>2. \A i \in DOMAIN retryQueue : retryQueue[i].task \in Tasks
    BY <2>1, TasksOfEntries
  <2> QED BY <2>2 DEF Retrying
<1>3. ASSUME NEW t \in Range(queue) \cup Retrying
      PROVE  t \in Prepared /\ ~Ended(t) /\ t \notin Executing
  <2>1. t \in Tasks /\ (InQueue(t) \/ InRetries(t))
    BY <1>1, <1>2, <1>3, RetryingIsRange DEF InQueue, InRetries
  <2>2. (t \in Prepared <=> Anywhere(t)) /\ Only(t)
    BY <2>1 DEF RInv, RetryLocated, OnePlaceEach
  <2>3. t \in Prepared /\ ~Ended(t) /\ \A w \in Workers : Hands(w) # t
    BY <2>1, <2>2 DEF Anywhere, Only
  <2>4. t \notin Executing
    BY <2>3 DEF Executing, Hands
  <2> QED BY <2>3, <2>4
<1> QED BY <1>1, <1>2, <1>3

LEMMA RetryHandlePools ==
  ASSUME RInv, RetryDepartures, RetryDepartures', ShutDown => ShutDown',
         NEW h \in Handles, RetryContinueCall(h) \/ RetryStartCall(h)
  PROVE  [RetryPool!Next]_(RetryPool!vars)
<1>0. RetryTypes
  BY DEF RInv
<1>1. Executing' = Executing
  <2>1. \A w \in Workers :
          /\ task'[w] = task[w]
          /\ pc'[w] = pc[w] \/ (pc[w] = "absent" /\ pc'[w] \in {"boot", "dead"})
    BY HandleAlone
  <2> QED BY <2>1 DEF Executing
<1>2. CASE Proceeds(h)
  <2>1. UNCHANGED <<outcomes, sent, taken, lost, nextIndex, attempt>>
    BY <1>2 DEF Proceeds, Same, delayVars
  <2> QED BY <1>1, <2>1, RetryQuiet
<1>3. CASE Send(h) /\ UNCHANGED retryVars
  <2>1. UNCHANGED <<outcomes, sent, taken, lost, nextIndex, attempt>>
    BY <1>3 DEF Send, taskVars, outcomeVars, retryVars, delayVars
  <2> QED BY <1>1, <2>1, RetryQuiet
<1>4. CASE DrainChannel(h) \/ DrainRetries(h) \/ RetryExtract(h)
  <2>1. /\ UNCHANGED <<lost, nextIndex, attempt>>
        /\ \E S \in SUBSET (Range(queue) \cup Retrying) : Deliver(S, "unprocessed")
    BY <1>4 DEF DrainChannel, DrainRetries, RetryExtract, taskVars, retryVars, delayVars
  <2>2. ShutDown
    <3>1. CASE DrainChannel(h) \/ DrainRetries(h)
      BY <3>1 DEF DrainChannel, DrainRetries, RetryDepartures, ShutDown
    <3>2. CASE RetryExtract(h)
      BY <1>0, <3>2, RetryExtractShutDown
    <3> QED BY <1>4, <3>1, <3>2
  <2>3. PICK S \in SUBSET (Range(queue) \cup Retrying) : Deliver(S, "unprocessed")
    BY <2>1
  <2>4. /\ S \in SUBSET Tasks
        /\ \A t \in S : t \in Prepared /\ ~Ended(t) /\ t \notin Executing
    BY <2>3, InQueues
  <2> QED BY <1>1, <2>1, <2>2, <2>3, <2>4, RetryPoolGivesBack
<1>5. CASE TakeStored(h) /\ UNCHANGED retryVars
  <2>1. \A t \in Tasks : Status'[t] = Status[t]
    <3> SUFFICES ASSUME NEW t \in Tasks PROVE Status'[t] = Status[t]
      OBVIOUS
    <3>1. Status[t] = StatusOf(t) /\ Status'[t] = StatusOf(t)'
      BY DEF Status
    <3>2. /\ outcomes'[t] = "none" /\ sent'[t] = sent[t]
          /\ taken'[t] = IF outcomes[t] # "none" THEN outcomes[t] ELSE taken[t]
          /\ lost' = lost /\ Prepared' = Prepared
      BY <1>5 DEF TakeStored, Prepared, taskVars
    <3>3. outcomes[t] # "none" => sent[t] = "none"
      BY DEF RInv, RetryLocated, OnePlaceEach, Only
    <3> QED BY <1>1, <3>1, <3>2, <3>3 DEF StatusOf
  <2>2. UNCHANGED attempt
    BY <1>5 DEF retryVars, delayVars
  <2> QED BY <2>1, <2>2, RetryPoolQuiet
<1>6. CASE RetryContinueCall(h)
  BY <1>0, <1>2, <1>3, <1>4, <1>6, CallKinds
<1>7. CASE RetryStartCall(h)
  <2>1. ASSUME NEW n \in 1 .. MaxBatch, NEW d \in Destinations, Submit(h, n, d)
        PROVE  RetryPool!Next
    BY <1>1, <1>7, <2>1, RetrySubmitPools
  <2> QED BY <1>0, <1>2, <1>5, <1>7, <2>1, StartKinds
<1> QED BY <1>6, <1>7

-----------------------------------------------------------------------------
\* At first every task is new, untried, and the pool is open.
LEMMA RetryInitPools == RetryInit => RetryPool!Init
<1> SUFFICES ASSUME RetryInit PROVE RetryPool!Init
  OBVIOUS
<1>1. Pool!Init
  BY InitPools DEF RetryInit
<1>2. attempt = [t \in Tasks |-> 0]
  BY DEF RetryInit
<1> QED BY <1>1, <1>2 DEF Pool!Init, RetryPool!Init, Pool!Tasks, RetryPool!Tasks, Tasks

LEMMA RetryStepPools ==
  ASSUME Few
  PROVE  RInv /\ RetryCountInv /\ RetryCountInv' /\ [RetryNext]_retryHiveVars
           => [RetryPool!Next]_(RetryPool!vars)
<1> SUFFICES ASSUME RInv, RetryCountInv, RetryCountInv', [RetryNext]_retryHiveVars
             PROVE  [RetryPool!Next]_(RetryPool!vars)
  OBVIOUS
<1>1. /\ RetryDepartures /\ (~ShutDown => RetryCounted) /\ RetryDepartures'
  BY DEF RetryCountInv
<1>2. ASSUME UNCHANGED <<vars, attempt>> PROVE [RetryPool!Next]_(RetryPool!vars)
  <2>1. UNCHANGED <<pc, task, outcomes, sent, taken, lost, nextIndex, attempt, poisoned>>
    BY <1>2 DEF vars, restVars, taskVars, flagVars, outcomeVars, holdVars
  <2>2. Executing' = Executing /\ (ShutDown => ShutDown')
    BY <2>1 DEF Executing, ShutDown, BrokenDown, Connected, HoldsSender
  <2> QED BY <2>1, <2>2, RetryQuiet
<1>3. CASE UNCHANGED retryHiveVars
  BY <1>2, <1>3 DEF retryHiveVars, retryVars, delayVars
<1>4. CASE RetryNext
  <2>1. CASE Tick \/ RetryRest
    BY <1>2, <2>1 DEF Tick, RetryRest, Rest, retryVars, delayVars
  <2>2. ASSUME NEW w \in Workers, RetryWorkerStep(w)
        PROVE  [RetryPool!Next]_(RetryPool!vars)
    BY <1>1, <2>2, RetryWorkerPools
  <2>3. ASSUME NEW h \in Handles, RetryContinueCall(h) \/ RetryStartCall(h)
        PROVE  [RetryPool!Next]_(RetryPool!vars)
    BY <1>1, <1>4, <2>3, RetryShutDownStays, RetryHandlePools
  <2> QED BY <1>4, <2>1, <2>2, <2>3 DEF RetryNext
<1> QED BY <1>3, <1>4

(***************************************************************************)
(* With fewer threads than the active counter has values the hive of the   *)
(* retry build implements the task pool with max_retries: whatever the     *)
(* interleaving, a task is started once and once more for each of at most  *)
(* max_retries retries, never by two workers at a time, and a task put     *)
(* aside for a retry (Hive::execute, Shared::queue_retry) has no outcome   *)
(* until it was tried again or the hive was shut down.                     *)
(***************************************************************************)
THEOREM RetryPoolImplemented ==
  ASSUME Few
  PROVE  RetrySpec => RetryImplementsTaskPool
<1>1. RInv /\ RetryCountInv /\ RetryCountInv' /\ [RetryNext]_retryHiveVars
        => [RetryPool!Next]_(RetryPool!vars)
  BY RetryStepPools
<1> QED BY <1>1, RetryInitPools, AlwaysRInv, AlwaysRetryCounts, PTL
        DEF RetrySpec, RetryImplementsTaskPool, RetryPool!Spec
===============================================================================
