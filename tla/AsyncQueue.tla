------------------------------ MODULE AsyncQueue ------------------------------
(***************************************************************************)
(* Utils/AsyncQueue.h, as TCPServer uses it for in_packets: completion     *)
(* handlers push_back what they read, the update thread loops over         *)
(*     in_packets.wait();  while (!in_packets.empty() && limit--)          *)
(*         in_packets.pop_front() ...                                      *)
(* The grain is one step per lock operation: the queue has two mutexes,    *)
(* muxQueue for the deque and muxBlocking for the condition variable, and  *)
(* wait() tests empty() before it takes muxBlocking.                       *)
(***************************************************************************)
EXTENDS Naturals, Sequences

CONSTANTS
  Producers,   (* threads that call push_back()                            *)
  Notifiers,   (* threads that call notify()                               *)
  Consumer,    (* the one thread that calls wait(), empty(), pop_front()   *)
  Free,        (* the owner of a mutex nobody holds                        *)
  Limit,       (* packets drained per on_update(); 20 in the source        *)
  MaxPush,     (* bound: push_back() calls in a behaviour                  *)
  MaxNotify    (* bound: notify() calls in a behaviour                     *)

Threads == Producers \cup Notifiers \cup {Consumer}

ASSUME ThreadsAssumption ==
  /\ Consumer \notin Producers \cup Notifiers
  /\ Producers \cap Notifiers = {}
  /\ Free \notin Threads

ASSUME BoundsAssumption ==
  /\ Limit \in Nat \ {0}
  /\ MaxPush \in Nat
  /\ MaxNotify \in Nat

VARIABLES
  deqQueue,    (* the deque; a packet is named by the producer it is from  *)
  muxQueue,    (* owner of muxQueue                                        *)
  muxBlocking, (* owner of muxBlocking                                     *)
  notified,    (* the flag notify() leaves for wait()                      *)
  pc,          (* where each thread is                                     *)
  limit,       (* what is left of the drain limit of this on_update()      *)
  pushes,      (* push_back() calls so far, for MaxPush                    *)
  notifies,    (* notify() calls so far, for MaxNotify                     *)
  missed       (* history: since its last empty() test, a notify_one() for *)
               (* a push found the consumer not yet asleep                 *)

vars == <<deqQueue, muxQueue, muxBlocking, notified, pc, limit, pushes,
          notifies, missed>>

ProducerPC == {"idle", "lockBlocking", "signal"}
ConsumerPC == {"wait", "lockBlocking", "sleep", "asleep", "woken", "drain", "pop"}

Goto(t, label) == pc' = [pc EXCEPT ![t] = label]

-----------------------------------------------------------------------------
(* push_back(): append under muxQueue, then, still holding it, take         *)
(* muxBlocking and notify_one().                                            *)

PushAppend(p) ==
  /\ pc[p] = "idle"
  /\ pushes < MaxPush
  /\ muxQueue = Free
  /\ muxQueue' = p
  /\ deqQueue' = Append(deqQueue, p)
  /\ pushes' = pushes + 1
  /\ Goto(p, "lockBlocking")
  /\ UNCHANGED <<muxBlocking, notified, limit, notifies, missed>>

PushLockBlocking(p) ==
  /\ pc[p] = "lockBlocking"
  /\ muxBlocking = Free
  /\ muxBlocking' = p
  /\ Goto(p, "signal")
  /\ UNCHANGED <<deqQueue, muxQueue, notified, limit, pushes, notifies, missed>>

(* Mutant: the notify_one() is forgotten.                                   *)
NotifyOne_Forgotten(p) == Goto(p, "idle")

(* notify_one() wakes the consumer if it sleeps and is lost otherwise.      *)
NotifyOne(p) ==
  pc' = [pc EXCEPT ![p] = "idle",
                   ![Consumer] = IF @ = "asleep" THEN "woken" ELSE @]

PushNotify(p) ==
  /\ pc[p] = "signal"
  /\ NotifyOne(p)
  /\ missed' = (missed \/ pc[Consumer] = "lockBlocking")
  /\ muxBlocking' = Free
  /\ muxQueue' = Free
  /\ UNCHANGED <<deqQueue, notified, limit, pushes, notifies>>

(* notify(): one critical section of muxBlocking.                           *)
Notify(n) ==
  /\ notifies < MaxNotify
  /\ muxBlocking = Free
  /\ notified' = TRUE
  /\ notifies' = notifies + 1
  /\ NotifyOne(n)
  /\ UNCHANGED <<deqQueue, muxQueue, muxBlocking, limit, pushes, missed>>

-----------------------------------------------------------------------------
(* wait()                                                                   *)

(* `while (empty())`: muxQueue is taken and given back by the test.         *)
WaitTestEmpty ==
  /\ pc[Consumer] = "wait"
  /\ muxQueue = Free
  /\ \/ /\ deqQueue = <<>>
        /\ missed' = FALSE
        /\ Goto(Consumer, "lockBlocking")
        /\ UNCHANGED limit
     \/ /\ deqQueue # <<>>
        /\ limit' = Limit
        /\ Goto(Consumer, "drain")
        /\ UNCHANGED missed
  /\ UNCHANGED <<deqQueue, muxQueue, muxBlocking, notified, pushes, notifies>>

WaitLockBlocking ==
  /\ pc[Consumer] = "lockBlocking"
  /\ muxBlocking = Free
  /\ muxBlocking' = Consumer
  /\ Goto(Consumer, "sleep")
  /\ UNCHANGED <<deqQueue, muxQueue, notified, limit, pushes, notifies, missed>>

(* cvBlocking.wait(ul) gives muxBlocking back and blocks, in one step.      *)
WaitSleep ==
  /\ pc[Consumer] = "sleep"
  /\ muxBlocking' = Free
  /\ Goto(Consumer, "asleep")
  /\ UNCHANGED <<deqQueue, muxQueue, notified, limit, pushes, notifies, missed>>

(* A condition variable may wake a thread nobody notified.                  *)
SpuriousWakeup ==
  /\ pc[Consumer] = "asleep"
  /\ Goto(Consumer, "woken")
  /\ UNCHANGED <<deqQueue, muxQueue, muxBlocking, notified, limit, pushes,
                 notifies, missed>>

(* Mutant: the unique_lock is declared outside the loop of wait().          *)
WaitWoken_KeepsLock ==
  /\ pc[Consumer] = "woken"
  /\ muxBlocking = Free
  /\ muxBlocking' = IF notified THEN Free ELSE Consumer
  /\ notified' = FALSE
  /\ Goto(Consumer, IF notified THEN "drain" ELSE "wait")
  /\ UNCHANGED <<deqQueue, muxQueue, limit, pushes, notifies, missed>>

(* Woken: retake muxBlocking, return true if notified, else test again; the *)
(* unique_lock goes out of scope either way.                                *)
WaitWoken ==
  /\ pc[Consumer] = "woken"
  /\ muxBlocking = Free
  /\ \/ /\ notified
        /\ notified' = FALSE
        /\ limit' = Limit
        /\ Goto(Consumer, "drain")
     \/ /\ ~notified
        /\ Goto(Consumer, "wait")
        /\ UNCHANGED <<notified, limit>>
  /\ UNCHANGED <<deqQueue, muxQueue, muxBlocking, pushes, notifies, missed>>

-----------------------------------------------------------------------------
(* on_update(): the drain loop after wait()                                 *)

(* Mutants: one conjunct of the loop condition is missing.                  *)
MayPop_NoEmptyTest == limit > 0
MayPop_NoLimit == deqQueue # <<>>

(* `!in_packets.empty() && limit--`                                         *)
MayPop == deqQueue # <<>> /\ limit > 0

DrainTest ==
  /\ pc[Consumer] = "drain"
  /\ muxQueue = Free
  /\ \/ /\ ~MayPop
        /\ Goto(Consumer, "wait")
        /\ UNCHANGED limit
     \/ /\ MayPop
        /\ limit' = limit - 1
        /\ Goto(Consumer, "pop")
  /\ UNCHANGED <<deqQueue, muxQueue, muxBlocking, notified, pushes, notifies,
                 missed>>

PopFront ==
  /\ pc[Consumer] = "pop"
  /\ muxQueue = Free
  /\ deqQueue' = Tail(deqQueue)
  /\ Goto(Consumer, "drain")
  /\ UNCHANGED <<muxQueue, muxBlocking, notified, limit, pushes, notifies,
                 missed>>

-----------------------------------------------------------------------------
Init ==
  /\ deqQueue = <<>>
  /\ muxQueue = Free
  /\ muxBlocking = Free
  /\ notified = FALSE
  /\ pc = [t \in Threads |-> IF t = Consumer THEN "wait" ELSE "idle"]
  /\ limit = 0
  /\ pushes = 0
  /\ notifies = 0
  /\ missed = FALSE

Push(p) == PushAppend(p) \/ PushLockBlocking(p) \/ PushNotify(p)

Consume ==
  \/ WaitTestEmpty
  \/ WaitLockBlocking
  \/ WaitSleep
  \/ WaitWoken
  \/ DrainTest
  \/ PopFront

Next ==
  \/ \E p \in Producers : Push(p)
  \/ \E n \in Notifiers : Notify(n)
  \/ Consume
  \/ SpuriousWakeup

Spec == Init /\ [][Next]_vars

(* The operating system schedules every thread that can run. A producer     *)
(* finishes a push_back() it has begun but need not begin one, nobody has   *)
(* to call notify(), and a spurious wakeup is never owed.                   *)
Fairness ==
  /\ WF_vars(Consume)
  /\ \A p \in Producers : WF_vars(PushLockBlocking(p) \/ PushNotify(p))

FairSpec == Spec /\ Fairness

-----------------------------------------------------------------------------
(* Every variable stays in its range. *)
TypeOK ==
  /\ deqQueue \in Seq(Producers)
  /\ muxQueue \in Threads \cup {Free}
  /\ muxBlocking \in Threads \cup {Free}
  /\ notified \in BOOLEAN
  /\ pc \in [Threads -> ProducerPC \cup ConsumerPC]
  /\ limit \in 0..Limit
  /\ pushes \in Nat
  /\ notifies \in Nat
  /\ missed \in BOOLEAN

(* push_back() is inside its critical section, its notify_one() still due.  *)
Pushing(p) == pc[p] \in {"lockBlocking", "signal"}

(* A sleeping consumer with packets in the queue is always one of two       *)
(* things: a push_back() that still owes its notify_one(), or a wakeup lost *)
(* in the window wait() leaves open between its empty() test and            *)
(* cvBlocking.wait(). No other interleaving of push_back(), notify() and    *)
(* wait() loses one.                                                        *)
WakeupOwed ==
  (pc[Consumer] = "asleep" /\ deqQueue # <<>>) =>
    \/ missed
    \/ \E p \in Producers : Pushing(p)

(* pop_front() has undefined behaviour on an empty deque. on_update() tests *)
(* empty() and pops in two critical sections: what it tested still holds.   *)
PopNeverEmpty == pc[Consumer] = "pop" => deqQueue # <<>>

(* push_back() takes muxBlocking while it holds muxQueue. No thread may     *)
(* wait for muxQueue while it holds muxBlocking, or both block for ever.    *)
LockOrder ==
  \A t \in Threads :
    (muxBlocking = t /\ muxQueue # t) => pc[t] \notin {"idle", "wait", "drain", "pop"}

(* A packet pushed while the consumer sleeps gets it out of wait() and to   *)
(* pop_front().                                                             *)
PushWakesSleeper ==
  (pc[Consumer] = "asleep" /\ \E p \in Producers : Pushing(p))
    ~> pc[Consumer] = "pop"

=============================================================================
