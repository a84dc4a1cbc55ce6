-------------------------- MODULE AsyncQueueProofs --------------------------
(***************************************************************************)
(* Safety of AsyncQueue for any number of producing and notifying threads  *)
(* and one consuming thread, of any length.                                *)
(***************************************************************************)
EXTENDS AsyncQueue, TLAPS

(* Who is where, and which mutex that means it holds.                       *)
LockInv ==
  /\ \A p \in Producers : pc[p] \in ProducerPC
  /\ \A n \in Notifiers : pc[n] = "idle"
  /\ pc[Consumer] \in ConsumerPC
  /\ muxQueue \in Producers \cup {Free}
  /\ muxBlocking \in Producers \cup {Consumer, Free}
  /\ \A p \in Producers : Pushing(p) <=> muxQueue = p
  /\ \A p \in Producers : pc[p] = "signal" <=> muxBlocking = p
  /\ pc[Consumer] = "sleep" <=> muxBlocking = Consumer

(* WakeupOwed from the moment the consumer has found the queue empty.       *)
SleepInv ==
  (pc[Consumer] \in {"lockBlocking", "sleep", "asleep"} /\ deqQueue # <<>>) =>
    \/ missed
    \/ \E p \in Producers : Pushing(p)

IInv == TypeOK /\ LockInv /\ SleepInv /\ PopNeverEmpty

-----------------------------------------------------------------------------
(* Popping a packet from the front leaves a queue of packets.               *)
LEMMA TailType ==
  ASSUME NEW S, NEW q \in Seq(S), q # <<>>
  PROVE  Tail(q) \in Seq(S)
  OBVIOUS

(* The queue has a packet once one has been appended.                       *)
LEMMA AppendNonEmpty ==
  ASSUME NEW S, NEW q \in Seq(S), NEW e \in S
  PROVE  /\ Append(q, e) \in Seq(S)
         /\ Append(q, e) # <<>>
<1>1. Append(q, e) \in Seq(S)
  OBVIOUS
<1>2. Len(Append(q, e)) = Len(q) + 1 /\ Len(q) \in Nat
  OBVIOUS
<1>3. Append(q, e) # <<>>
  BY <1>1, <1>2
<1>. QED
  BY <1>1, <1>3

(* The invariant holds in an empty queue that nobody waits for yet.         *)
LEMMA InitInv == Init => IInv
<1>. SUFFICES ASSUME Init
              PROVE  IInv
  OBVIOUS
<1>. USE ThreadsAssumption, BoundsAssumption DEF Threads
<1>1. /\ pc[Consumer] = "wait"
      /\ \A p \in Producers : pc[p] = "idle"
      /\ \A n \in Notifiers : pc[n] = "idle"
  BY DEF Init
<1>2. deqQueue \in Seq(Producers) /\ deqQueue = <<>>
  BY DEF Init
<1>3. pc \in [Threads -> ProducerPC \cup ConsumerPC]
  BY DEF Init, ProducerPC, ConsumerPC
<1>4. notified \in BOOLEAN /\ missed \in BOOLEAN
  BY Zenon DEF Init
<1>5. limit \in 0..Limit /\ pushes \in Nat /\ notifies \in Nat
  BY DEF Init
<1>6. muxQueue \in Threads \cup {Free} /\ muxBlocking \in Threads \cup {Free}
  BY DEF Init
<1>7. TypeOK
  BY <1>2, <1>3, <1>4, <1>5, <1>6 DEF TypeOK
<1>8. LockInv
  BY <1>1 DEF Init, LockInv, Pushing, ProducerPC, ConsumerPC
<1>9. SleepInv /\ PopNeverEmpty
  BY <1>1 DEF SleepInv, PopNeverEmpty
<1>. QED
  BY <1>7, <1>8, <1>9 DEF IInv

(* Each step of each thread preserves the inductive invariant.              *)
LEMMA StepInv == IInv /\ [Next]_vars => IInv'
<1>. SUFFICES ASSUME IInv, [Next]_vars
              PROVE  IInv'
  OBVIOUS
<1>. USE ThreadsAssumption, BoundsAssumption
     DEF IInv, TypeOK, LockInv, SleepInv, PopNeverEmpty, Threads, ProducerPC,
         ConsumerPC, Pushing, Goto
<1>1. ASSUME NEW p \in Producers, PushAppend(p)
      PROVE  IInv'
  <2>1. deqQueue' \in Seq(Producers) /\ deqQueue' # <<>>
    BY <1>1, AppendNonEmpty DEF PushAppend
  <2>. QED
    BY <1>1, <2>1 DEF PushAppend
<1>2. ASSUME NEW p \in Producers, PushLockBlocking(p)
      PROVE  IInv'
  BY <1>2 DEF PushLockBlocking
<1>3. ASSUME NEW p \in Producers, PushNotify(p)
      PROVE  IInv'
  BY <1>3 DEF PushNotify, NotifyOne
<1>4. ASSUME NEW n \in Notifiers, Notify(n)
      PROVE  IInv'
  BY <1>4 DEF Notify, NotifyOne
<1>5. CASE WaitTestEmpty
  <2>1. missed' \in BOOLEAN
    BY <1>5, Zenon DEF WaitTestEmpty
  <2>2. CASE deqQueue = <<>>
    BY <1>5, <2>1, <2>2 DEF WaitTestEmpty
  <2>3. CASE deqQueue # <<>>
    BY <1>5, <2>3 DEF WaitTestEmpty
  <2>. QED
    BY <2>2, <2>3
<1>6. CASE WaitLockBlocking
  BY <1>6 DEF WaitLockBlocking
<1>7. CASE WaitSleep
  BY <1>7 DEF WaitSleep
<1>8. CASE WaitWoken
  <2>1. notified' \in BOOLEAN
    BY <1>8, Zenon DEF WaitWoken
  <2>2. CASE notified
    BY <1>8, <2>1, <2>2 DEF WaitWoken
  <2>3. CASE ~notified
    BY <1>8, <2>3 DEF WaitWoken
  <2>. QED
    BY <2>2, <2>3
<1>9. CASE DrainTest
  BY <1>9 DEF DrainTest, MayPop
<1>10. CASE PopFront
  <2>1. deqQueue' \in Seq(Producers)
    BY <1>10, TailType DEF PopFront
  <2>. QED
    BY <1>10, <2>1 DEF PopFront
<1>11. CASE SpuriousWakeup
  BY <1>11 DEF SpuriousWakeup
<1>12. CASE UNCHANGED vars
  BY <1>12 DEF vars
<1>. QED
  BY <1>1, <1>2, <1>3, <1>4, <1>5, <1>6, <1>7, <1>8, <1>9, <1>10, <1>11, <1>12
  DEF Next, Push, Consume

(* The invariant behind every theorem below.                                *)
THEOREM Inductive == Spec => []IInv
  BY InitInv, StepInv, PTL DEF Spec

-----------------------------------------------------------------------------
(* Every variable of the queue stays in its range.                          *)
THEOREM TypeCorrect == Spec => []TypeOK
<1>1. IInv => TypeOK
  BY DEF IInv
<1>. QED
  BY <1>1, Inductive, PTL

(* wait() loses a wakeup only in the window between its empty() test and    *)
(* cvBlocking.wait(): whatever push_back() and notify() interleave with it. *)
THEOREM OnlyWindowLosesWakeup == Spec => []WakeupOwed
<1>1. IInv => WakeupOwed
  BY DEF IInv, SleepInv, WakeupOwed
<1>. QED
  BY <1>1, Inductive, PTL

(* on_update() never pops an empty deque, although it tests and pops in two *)
(* critical sections.                                                       *)
THEOREM PopSafe == Spec => []PopNeverEmpty
<1>1. IInv => PopNeverEmpty
  BY DEF IInv
<1>. QED
  BY <1>1, Inductive, PTL

(* push_back() and wait() cannot block each other on the two mutexes.       *)
THEOREM LocksOrdered == Spec => []LockOrder
<1>1. IInv => LockOrder
  BY ThreadsAssumption DEF IInv, TypeOK, LockInv, LockOrder, Threads, Pushing
<1>. QED
  BY <1>1, Inductive, PTL

=============================================================================
