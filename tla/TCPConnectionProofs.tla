------------------------ MODULE TCPConnectionProofs ------------------------
(***************************************************************************)
(* What one TCPConnection keeps whatever the peer sends, for however long, *)
(* and with any number of other threads in psend(): its read loop and its  *)
(* pong actor; its one writer, and the two things that upset it; what is   *)
(* begun after close(); and, if the callers test is_open(), the one way its*)
(* queue can get stuck.                                                    *)
(***************************************************************************)
EXTENDS TCPConnection, TLAPS

(* A connection has no handlers before its handshake; while the io thread   *)
(* is inside a psend() none of its handlers run, so what held when it       *)
(* entered still holds.                                                     *)
ControlInv ==
  /\ sock = "connected" =>
       /\ ~open
       /\ read = "none"
       /\ Actors(pong_timer) = 0
       /\ call[IO].at \in {"idle", "popped"}
  /\ Inside("ssl_handshake") => open /\ Actors(pong_timer) = 0
  /\ At(IO, "begin") => open

ControlOK == ControlInv /\ ReadLoopIntact /\ OnePongActor

IInv == TypeOK /\ ControlOK

(* The invariant holds before the handshake.                                *)
LEMMA InitInv == Init => IInv
<1>. SUFFICES ASSUME Init
              PROVE  IInv
  OBVIOUS
<1>1. call[IO].at = "idle"
  BY DEF Init, Threads
<1>2. open \in BOOLEAN
  BY Zenon DEF Init
<1>3. NetOK
  BY <1>2, PeerAssumption DEF Init, NetOK, Types, Reads
<1>4. TimersOK
  BY DEF Init, TimersOK, Timers, IdleTimer
<1>5. OutOK
  <2>1. out_packets \in Seq(Types) /\ writes \in [Writes -> Nat]
    BY DEF Init
  <2>2. owed \in Int
    BY DEF Init
  <2>. QED
    BY <2>1, <2>2 DEF OutOK
<1>6. CallsOK
  BY PeerAssumption DEF Init, CallsOK, Places, Types
<1>7. ControlInv /\ ReadLoopIntact /\ OnePongActor
  BY <1>1 DEF Init, At, ControlInv, ReadLoopIntact, OnePongActor, Inside, Actors,
              IdleTimer
<1>. QED
  BY <1>3, <1>4, <1>5, <1>6, <1>7 DEF IInv, TypeOK, ControlOK

-----------------------------------------------------------------------------
(* What the operations on a timer return is a timer.                        *)
LEMMA TimerOps ==
  ASSUME NEW timer \in Timers
  PROVE  /\ ExpiresAfter(timer) \in Timers
         /\ AsyncWait(timer) \in Timers
         /\ Cancel(timer) \in Timers
         /\ [Cancel(timer) EXCEPT !.due = "never"] \in Timers
         /\ Expired(timer) \in Timers
         /\ timer.queued > 0 => RunHandler(timer) \in Timers
         /\ ExpiresAfter(timer).waits = 0
         /\ AsyncWait(ExpiresAfter(timer)).waits = 1
         /\ Expired(timer).waits = 0
         /\ RunHandler(timer).waits = timer.waits
<1>1. ExpiresAfter(timer) \in Timers /\ Expired(timer) \in Timers
  BY DEF Timers, ExpiresAfter, Expired
<1>2. AsyncWait(timer) \in Timers
  BY DEF Timers, AsyncWait
<1>3. timer.queued > 0 => RunHandler(timer) \in Timers
  BY DEF Timers, RunHandler
<1>4. Cancel(timer) \in Timers
  BY DEF Timers, Cancel
<1>5. \A tm \in Timers : [tm EXCEPT !.due = "never"] \in Timers
  BY DEF Timers
<1>6. /\ ExpiresAfter(timer).waits = 0
      /\ AsyncWait(ExpiresAfter(timer)).waits = 1
      /\ Expired(timer).waits = 0
      /\ RunHandler(timer).waits = timer.waits
  BY DEF Timers, ExpiresAfter, AsyncWait, Expired, RunHandler
<1>. QED
  BY <1>1, <1>2, <1>3, <1>4, <1>5, <1>6

(* Beginning an operation and ending one that there is keep the counts.     *)
LEMMA WriteOps ==
  ASSUME NEW ws \in [Writes -> Nat], NEW w \in Writes
  PROVE  /\ BeginWrite(ws, w) \in [Writes -> Nat]
         /\ ws[w] > 0 => EndWrite(ws, w) \in [Writes -> Nat]
  BY DEF BeginWrite, EndWrite

(* A thread goes from one place of psend() to another.                      *)
LEMMA CallOps ==
  ASSUME CallsOK, NEW t \in Threads
  PROVE  /\ \A place \in Places :
              Goto(t, place) => call' \in [Threads -> [at : Places, type : Types]]
         /\ \A type \in Types :
              BeginSend(t, type) => call' \in [Threads -> [at : Places, type : Types]]
<1>1. ASSUME NEW place \in Places, Goto(t, place)
      PROVE  call' \in [Threads -> [at : Places, type : Types]]
  BY <1>1 DEF CallsOK, Goto
<1>2. ASSUME NEW type \in Types, BeginSend(t, type)
      PROVE  call' \in [Threads -> [at : Places, type : Types]]
  BY <1>2 DEF CallsOK, BeginSend, Places
<1>. QED
  BY <1>1, <1>2

(* Popping a packet from the front leaves a queue of packets.               *)
LEMMA TailType ==
  ASSUME NEW S, NEW q \in Seq(S), q # <<>>
  PROVE  Tail(q) \in Seq(S)
  OBVIOUS

(* A group of variables that does not change stays in its ranges.           *)
LEMMA Frame ==
  /\ NetOK /\ UNCHANGED netVars => NetOK'
  /\ TimersOK /\ UNCHANGED timerVars => TimersOK'
  /\ OutOK /\ UNCHANGED outVars => OutOK'
  /\ CallsOK /\ UNCHANGED callVars => CallsOK'
  BY DEF NetOK, TimersOK, OutOK, CallsOK, netVars, timerVars, outVars, callVars

(* Each step keeps every variable in its range.                             *)
LEMMA StepType == TypeOK /\ [Next]_vars => TypeOK'
<1>. SUFFICES ASSUME TypeOK, [Next]_vars
              PROVE  TypeOK'
  OBVIOUS
<1>0. NetOK /\ TimersOK /\ OutOK /\ CallsOK
  BY DEF TypeOK
<1>a. IO \in Threads /\ \A t \in Senders : t \in Threads
  BY DEF Threads
<1>. USE <1>0, <1>a
<1>1. ASSUME NEW t \in Threads, TestEmpty(t)
      PROVE  TypeOK'
  <2>1. NetOK' /\ TimersOK' /\ OutOK'
    BY <1>1, Frame DEF TestEmpty
  <2>2. CallsOK'
    BY <1>1, CallOps
    DEF CallsOK, Places, Types, callVars, TestEmpty
  <2>. QED
    BY <2>1, <2>2 DEF TypeOK
<1>2. ASSUME NEW t \in Threads, PushBack(t)
      PROVE  TypeOK'
  <2>1. NetOK' /\ TimersOK'
    BY <1>2, Frame DEF PushBack
  <2>2. OutOK'
    <3>1. call[t].type \in Types
      BY DEF CallsOK
    <3>2. out_packets' = Append(out_packets, call[t].type)
      BY <1>2 DEF PushBack
    <3>3. out_packets' \in Seq(Types)
      BY <3>1, <3>2 DEF OutOK
    <3>. QED
      BY <1>2, <3>3 DEF OutOK, PushBack
  <2>3. CallsOK'
    BY <1>2, CallOps
    DEF CallsOK, Places, Types, callVars, PushBack, AfterPush, Returned
  <2>. QED
    BY <2>1, <2>2, <2>3 DEF TypeOK
<1>3. ASSUME NEW t \in Threads, StartWrite(t)
      PROVE  TypeOK'
  <2>1. NetOK' /\ TimersOK' /\ OutOK'
    BY <1>3, Frame DEF StartWrite
  <2>2. CallsOK'
    BY <1>3, CallOps
    DEF CallsOK, Places, Types, callVars, StartWrite, Returned
  <2>. QED
    BY <2>1, <2>2 DEF TypeOK
<1>25. ASSUME NEW t \in Threads, BeginHeader(t)
       PROVE  TypeOK'
  <2>1. NetOK' /\ TimersOK'
    BY <1>25, Frame DEF BeginHeader
  <2>2. OutOK'
    BY <1>25, WriteOps DEF OutOK, Writes, BeginHeader
  <2>3. CallsOK'
    BY <1>25, CallOps
    DEF CallsOK, Places, Types, callVars, BeginHeader, Returned
  <2>. QED
    BY <2>1, <2>2, <2>3 DEF TypeOK
<1>4. ASSUME NEW t \in Senders, Send(t)
      PROVE  TypeOK'
  <2>1. NetOK' /\ TimersOK' /\ OutOK'
    BY <1>4, Frame DEF Send
  <2>2. CallsOK'
    <3>1. call' \in [Threads -> [at : Places, type : Types]]
      BY <1>4, CallOps DEF Types, Send
    <3>2. sent' \in 0..MaxSend
      BY <1>4, PeerAssumption DEF CallsOK, Send
    <3>. QED
      BY <1>4, <3>1, <3>2 DEF CallsOK, Send
  <2>. QED
    BY <2>1, <2>2 DEF TypeOK
<1>5. CASE HandshakeOK
  <2>1. TimersOK' /\ OutOK'
    BY <1>5, Frame DEF HandshakeOK
  <2>2. NetOK'
    BY <1>5
    DEF NetOK, Reads, Types, netVars, HandshakeOK
  <2>3. CallsOK'
    BY <1>5, CallOps
    DEF CallsOK, Places, Types, callVars, HandshakeOK
  <2>. QED
    BY <2>1, <2>2, <2>3 DEF TypeOK
<1>6. CASE HandshakeError
  <2>1. OutOK' /\ CallsOK'
    BY <1>6, Frame DEF HandshakeError
  <2>2. NetOK'
    BY <1>6
    DEF NetOK, Reads, Types, netVars, HandshakeError, Close
  <2>3. TimersOK'
    BY <1>6, TimerOps
    DEF TimersOK, timerVars, HandshakeError, Close
  <2>. QED
    BY <2>1, <2>2, <2>3 DEF TypeOK
<1>7. CASE Resume
  <2>1. OutOK'
    BY <1>7, Frame DEF Resume
  <2>2. NetOK'
    BY <1>7
    DEF NetOK, Reads, Types, netVars, Resume, NewRead
  <2>3. TimersOK'
    BY <1>7, TimerOps
    DEF TimersOK, timerVars, Resume
  <2>4. CallsOK'
    BY <1>7, CallOps
    DEF CallsOK, Places, Types, callVars, Resume
  <2>. QED
    BY <2>1, <2>2, <2>3, <2>4 DEF TypeOK
<1>8. CASE OnPingHeader
  <2>1. TimersOK'
    BY <1>8, Frame DEF OnPingHeader
  <2>2. NetOK'
    BY <1>8
    DEF NetOK, Reads, Types, netVars, OnPingHeader, HeaderRead
  <2>3. OutOK'
    BY <1>8 DEF OutOK, OnPingHeader
  <2>4. CallsOK'
    BY <1>8, CallOps
    DEF CallsOK, Places, Types, callVars, OnPingHeader
  <2>. QED
    BY <2>1, <2>2, <2>3, <2>4 DEF TypeOK
<1>9. CASE OnPongHeader
  <2>1. OutOK' /\ CallsOK'
    BY <1>9, Frame DEF OnPongHeader
  <2>2. NetOK'
    BY <1>9
    DEF NetOK, Reads, Types, netVars, OnPongHeader, HeaderRead, NewRead
  <2>3. TimersOK'
    <3>1. ExpiresAfter(ping_timer) \in Timers /\ pong_timer' = pong_timer
      BY <1>9, TimerOps DEF TimersOK, timerVars, OnPongHeader
    <3>2. /\ AsyncWait(ExpiresAfter(ping_timer)) \in Timers
          /\ AsyncWait(ExpiresAfter(ping_timer)).waits = 1
      BY <3>1, TimerOps DEF TimersOK
    <3>. QED
      BY <1>9, <3>1, <3>2 DEF TimersOK, OnPongHeader
  <2>. QED
    BY <2>1, <2>2, <2>3 DEF TypeOK
<1>10. CASE OnOtherHeader
  <2>1. TimersOK' /\ OutOK' /\ CallsOK'
    BY <1>10, Frame DEF OnOtherHeader
  <2>2. NetOK'
    BY <1>10
    DEF NetOK, Reads, Types, netVars, OnOtherHeader, HeaderRead, NewRead
  <2>. QED
    BY <2>1, <2>2 DEF TypeOK
<1>11. CASE OnBodyRead
  <2>1. TimersOK' /\ OutOK' /\ CallsOK'
    BY <1>11, Frame DEF OnBodyRead
  <2>2. NetOK'
    BY <1>11
    DEF NetOK, Reads, Types, netVars, OnBodyRead, NewRead
  <2>. QED
    BY <2>1, <2>2 DEF TypeOK
<1>12. CASE OnReadError
  <2>1. OutOK' /\ CallsOK'
    BY <1>12, Frame DEF OnReadError
  <2>2. NetOK'
    BY <1>12
    DEF NetOK, Reads, Types, netVars, OnReadError, Close
  <2>3. TimersOK'
    BY <1>12, TimerOps
    DEF TimersOK, timerVars, OnReadError, Close
  <2>. QED
    BY <2>1, <2>2, <2>3 DEF TypeOK
<1>13. CASE OnHeaderWritten
  <2>1. NetOK' /\ TimersOK' /\ CallsOK'
    BY <1>13, Frame DEF OnHeaderWritten
  <2>2. OutOK'
    BY <1>13, WriteOps
    DEF OutOK, outVars, Writes, OnHeaderWritten, WriteBody
  <2>. QED
    BY <2>1, <2>2 DEF TypeOK
<1>14. CASE OnBodyWritten
  <2>1. NetOK' /\ TimersOK'
    BY <1>14, Frame DEF OnBodyWritten
  <2>2. OutOK'
    <3>1. out_packets' \in Seq(Types)
      <4>1. CASE out_packets = <<>>
        BY <1>14, <4>1 DEF OutOK, OnBodyWritten
      <4>2. CASE out_packets # <<>>
        BY <1>14, <4>2, TailType DEF OutOK, OnBodyWritten
      <4>. QED
        BY <4>1, <4>2
    <3>2. writes' \in [Writes -> Nat]
      BY <1>14, WriteOps DEF OutOK, Writes, OnBodyWritten
    <3>3. owed' \in Int
      <4>1. owed' = owed - 1 \/ owed' = owed
        BY <1>14, Zenon DEF OnBodyWritten
      <4>. QED
        BY <4>1 DEF OutOK
    <3>. QED
      BY <3>1, <3>2, <3>3 DEF OutOK
  <2>3. CallsOK'
    BY <1>14, CallOps
    DEF CallsOK, Places, Types, callVars, OnBodyWritten
  <2>. QED
    BY <2>1, <2>2, <2>3 DEF TypeOK
<1>15. CASE WriteNext
  <2>1. NetOK' /\ TimersOK'
    BY <1>15, Frame DEF WriteNext
  <2>2. OutOK'
    BY <1>15, WriteOps
    DEF OutOK, outVars, Writes, WriteNext, WriteHeader
  <2>3. CallsOK'
    BY <1>15, CallOps
    DEF CallsOK, Places, Types, callVars, WriteNext
  <2>. QED
    BY <2>1, <2>2, <2>3 DEF TypeOK
<1>16. ASSUME NEW part \in {"header", "body"}, OnWriteError(part)
       PROVE  TypeOK'
  <2>1. CallsOK'
    BY <1>16, Frame DEF OnWriteError
  <2>2. NetOK'
    BY <1>16
    DEF NetOK, Reads, Types, netVars, OnWriteError, Close
  <2>3. TimersOK'
    BY <1>16, TimerOps
    DEF TimersOK, timerVars, OnWriteError, Close
  <2>4. OutOK'
    BY <1>16, WriteOps
    DEF OutOK, outVars, Writes, OnWriteError
  <2>. QED
    BY <2>1, <2>2, <2>3, <2>4 DEF TypeOK
<1>17. CASE CheckPong
  <2>1. OutOK' /\ CallsOK'
    BY <1>17, Frame DEF CheckPong
  <2>2. NetOK'
    BY <1>17
    DEF NetOK, Reads, Types, netVars, CheckPong
  <2>3. TimersOK'
    BY <1>17, TimerOps
    DEF TimersOK, timerVars, CheckPong, PongActorStops, PongSleeps
  <2>. QED
    BY <2>1, <2>2, <2>3 DEF TypeOK
<1>18. CASE CheckPing
  <2>1. NetOK' /\ OutOK'
    BY <1>18, Frame DEF CheckPing
  <2>2. TimersOK'
    BY <1>18, TimerOps
    DEF TimersOK, timerVars, CheckPing
  <2>3. CallsOK'
    BY <1>18, CallOps
    DEF CallsOK, Places, Types, callVars, CheckPing
  <2>. QED
    BY <2>1, <2>2, <2>3 DEF TypeOK
<1>19. CASE ReadCompletes
  <2>1. TimersOK' /\ OutOK' /\ CallsOK'
    BY <1>19, Frame DEF ReadCompletes
  <2>2. NetOK'
    <3>1. received' \in 0..MaxRead
      <4>1. \/ received < MaxRead /\ received' = received + 1
            \/ received' = received
        BY <1>19 DEF ReadCompletes
      <4>. QED
        BY <4>1, PeerAssumption DEF NetOK
    <3>2. temp' \in Types
      BY <1>19, PeerAssumption DEF NetOK, ReadCompletes
    <3>. QED
      BY <1>19, <3>1, <3>2 DEF NetOK, Reads, ReadCompletes
  <2>. QED
    BY <2>1, <2>2 DEF TypeOK
<1>20. CASE HeaderWritten
  <2>1. NetOK' /\ TimersOK' /\ CallsOK'
    BY <1>20, Frame DEF HeaderWritten, WriteCompletes
  <2>2. OutOK'
    BY <1>20, WriteOps
    DEF OutOK, outVars, Writes, HeaderWritten, WriteCompletes
  <2>. QED
    BY <2>1, <2>2 DEF TypeOK
<1>21. CASE BodyWritten
  <2>1. NetOK' /\ TimersOK' /\ CallsOK'
    BY <1>21, Frame DEF BodyWritten, WriteCompletes
  <2>2. OutOK'
    BY <1>21, WriteOps
    DEF OutOK, outVars, Writes, BodyWritten, WriteCompletes
  <2>. QED
    BY <2>1, <2>2 DEF TypeOK
<1>22. CASE PingExpires
  <2>1. NetOK' /\ OutOK' /\ CallsOK'
    BY <1>22, Frame DEF PingExpires
  <2>2. TimersOK'
    <3>1. Expired(ping_timer) \in Timers /\ Expired(ping_timer).waits = 0
      BY TimerOps DEF TimersOK
    <3>. QED
      BY <1>22, <3>1 DEF TimersOK, PingExpires
  <2>. QED
    BY <2>1, <2>2 DEF TypeOK
<1>23. CASE PongExpires
  <2>1. NetOK' /\ OutOK' /\ CallsOK'
    BY <1>23, Frame DEF PongExpires
  <2>2. TimersOK'
    BY <1>23, TimerOps
    DEF TimersOK, timerVars, PongExpires
  <2>. QED
    BY <2>1, <2>2 DEF TypeOK
<1>24. CASE UNCHANGED vars
  BY <1>24, Frame DEF vars, TypeOK
<1>. QED
  BY <1>1, <1>2, <1>3, <1>4, <1>5, <1>6, <1>7, <1>8, <1>9, <1>10, <1>11,
     <1>12, <1>13, <1>14, <1>15, <1>16, <1>17, <1>18, <1>19, <1>20,
     <1>21, <1>22, <1>23, <1>24, <1>25
  DEF Next, Handle, Fail, PSend

(* How many handlers of a timer there are after each operation on it.       *)
LEMMA ActorOps ==
  ASSUME NEW timer \in Timers
  PROVE  /\ Actors(timer) \in Nat
         /\ Actors(ExpiresAfter(timer)) = Actors(timer)
         /\ Actors(Expired(timer)) = Actors(timer)
         /\ Actors(Cancel(timer)) = Actors(timer)
         /\ Actors([timer EXCEPT !.due = "never"]) = Actors(timer)
         /\ Actors(AsyncWait(timer)) = Actors(timer) + 1
         /\ Actors(RunHandler(timer)) = Actors(timer) - 1
         /\ timer.queued > 0 => Actors(timer) > 0
<1>1. /\ Actors(timer) \in Nat
      /\ timer.queued > 0 => Actors(timer) > 0
  BY DEF Timers, Actors
<1>2. Actors(ExpiresAfter(timer)) = Actors(timer) /\ Actors(Expired(timer)) = Actors(timer)
  BY DEF Timers, Actors, ExpiresAfter, Expired
<1>3. Actors(Cancel(timer)) = Actors(timer)
  BY DEF Timers, Actors, Cancel
<1>4. Actors([timer EXCEPT !.due = "never"]) = Actors(timer)
  BY DEF Timers, Actors
<1>5. Actors(AsyncWait(timer)) = Actors(timer) + 1
  BY DEF Timers, Actors, AsyncWait
<1>6. Actors(RunHandler(timer)) = Actors(timer) - 1
  BY DEF Timers, Actors, RunHandler
<1>. QED
  BY <1>1, <1>2, <1>3, <1>4, <1>5, <1>6

(* Where the io thread is after a step of thread t in psend().              *)
LEMMA CallAt ==
  ASSUME CallsOK, NEW t \in Threads
  PROVE  /\ \A place : Goto(t, place) =>
              call'[IO].at = IF t = IO THEN place ELSE call[IO].at
         /\ \A type : BeginSend(t, type) =>
              call'[IO].at = IF t = IO THEN "test" ELSE call[IO].at
<1>. IO \in Threads
  BY DEF Threads
<1>1. ASSUME NEW place, Goto(t, place)
      PROVE  call'[IO].at = IF t = IO THEN place ELSE call[IO].at
  BY <1>1 DEF CallsOK, Goto
<1>2. ASSUME NEW type, BeginSend(t, type)
      PROVE  call'[IO].at = IF t = IO THEN "test" ELSE call[IO].at
  BY <1>2 DEF CallsOK, BeginSend
<1>. QED
  BY <1>1, <1>2

(* check_pong() takes itself off the timer and puts itself back, unless the *)
(* connection is closed.                                                    *)
LEMMA CheckPongActors ==
  ASSUME TimersOK, CheckPong
  PROVE  Actors(pong_timer') = IF open THEN Actors(pong_timer) ELSE Actors(pong_timer) - 1
<1>. DEFINE timer == RunHandler(pong_timer)
<1>1. pong_timer \in Timers /\ timer \in Timers
  BY TimerOps DEF TimersOK, CheckPong
<1>2. Actors(timer) = Actors(pong_timer) - 1 /\ Actors(pong_timer) \in Nat
  BY <1>1, ActorOps
<1>3. \/ ~open /\ pong_timer' = timer
      \/ open /\ pong_timer' = AsyncWait([Cancel(timer) EXCEPT !.due = "never"])
      \/ open /\ pong_timer' = AsyncWait(timer)
  BY DEF CheckPong, PongActorStops, PongSleeps
<1>. HIDE DEF timer
<1>4. Cancel(timer) \in Timers /\ [Cancel(timer) EXCEPT !.due = "never"] \in Timers
  BY <1>1, TimerOps
<1>5. Actors(AsyncWait(timer)) = Actors(timer) + 1
  BY <1>1, ActorOps
<1>6. Actors([Cancel(timer) EXCEPT !.due = "never"]) = Actors(timer)
  BY <1>1, <1>4, ActorOps
<1>7. Actors(AsyncWait([Cancel(timer) EXCEPT !.due = "never"])) = Actors(timer) + 1
  BY <1>4, <1>6, ActorOps
<1>. QED
  BY <1>2, <1>3, <1>5, <1>7

(* Each step keeps the read loop and the pong actor whole.                  *)
LEMMA StepControl == IInv /\ [Next]_vars => ControlOK'
<1>. SUFFICES ASSUME IInv, [Next]_vars
              PROVE  ControlOK'
  OBVIOUS
<1>a. /\ IO \in Threads /\ \A t \in Senders : t \in Threads /\ t # IO
      /\ CallsOK /\ ControlOK
      /\ pong_timer \in Timers /\ Actors(pong_timer) \in Nat
  BY ThreadsAssumption, ActorOps DEF IInv, TypeOK, TimersOK, Threads
<1>. USE <1>a DEF ControlOK, ControlInv, ReadLoopIntact, OnePongActor, Inside,
                  At, netVars, timerVars, outVars, callVars
<1>1. ASSUME NEW t \in Threads, TestEmpty(t)
      PROVE  ControlOK'
  <2>1. /\ UNCHANGED <<open, sock, temp, read, pong_timer, resume>>
        /\ call[t].at = "test"
    BY <1>1 DEF TestEmpty
  <2>2. call'[IO].at = IF t = IO THEN IF WasEmpty THEN "pushFirst" ELSE "push"
                                 ELSE call[IO].at
    BY <1>1, CallAt DEF TestEmpty
  <2>. QED
    BY <2>1, <2>2
<1>2. ASSUME NEW t \in Threads, PushBack(t)
      PROVE  ControlOK'
  <2>1. /\ UNCHANGED <<open, sock, temp, read, pong_timer, resume>>
        /\ call[t].at \in {"pushFirst", "push"}
    BY <1>2 DEF PushBack
  <2>2. \/ t = IO /\ call'[IO].at \in {"write", "return"}
        \/ t # IO /\ call'[IO].at = call[IO].at
    BY <1>2, CallAt DEF PushBack, AfterPush, Returned, At
  <2>. QED
    BY <2>1, <2>2
<1>3. ASSUME NEW t \in Threads, StartWrite(t)
      PROVE  ControlOK'
  <2>1. /\ UNCHANGED <<open, sock, temp, read, pong_timer, resume>>
        /\ call[t].at = "write"
    BY <1>3 DEF StartWrite
  <2>2. \/ t = IO /\ call'[IO].at = (IF open THEN "begin" ELSE "return")
        \/ t # IO /\ call'[IO].at = call[IO].at
    BY <1>3, CallAt DEF StartWrite, Returned
  <2>. QED
    BY <2>1, <2>2
<1>25. ASSUME NEW t \in Threads, BeginHeader(t)
       PROVE  ControlOK'
  <2>1. /\ UNCHANGED <<open, sock, temp, read, pong_timer, resume>>
        /\ call[t].at = "begin"
    BY <1>25 DEF BeginHeader
  <2>2. \/ t = IO /\ call'[IO].at = "return"
        \/ t # IO /\ call'[IO].at = call[IO].at
    BY <1>25, CallAt DEF BeginHeader, Returned
  <2>. QED
    BY <2>1, <2>2
<1>4. ASSUME NEW t \in Senders, Send(t)
      PROVE  ControlOK'
  BY <1>4, CallAt DEF Send
<1>5. CASE HandshakeOK
  BY <1>5, CallAt DEF HandshakeOK
<1>6. CASE HandshakeError
  BY <1>6, ActorOps DEF HandshakeError, Close
<1>7. CASE Resume
  <2>1. /\ UNCHANGED <<open, sock, temp, resume>>
        /\ call[IO].at = "return"
        /\ call'[IO].at = "idle"
    BY <1>7, CallAt DEF Resume
  <2>2. CASE resume = "ssl_handshake"
    <3>1. pong_timer' = AsyncWait(ExpiresAfter(pong_timer)) /\ read' = read
      BY <1>7, <2>2 DEF Resume
    <3>2. ExpiresAfter(pong_timer) \in Timers /\ Actors(ExpiresAfter(pong_timer)) = 0
      BY <2>1, <2>2, TimerOps, ActorOps
    <3>3. Actors(AsyncWait(ExpiresAfter(pong_timer))) = 0 + 1
      BY <3>2, ActorOps
    <3>. QED
      BY <2>1, <2>2, <3>1, <3>3
  <2>3. CASE resume = "read_header"
    <3>1. pong_timer' = pong_timer /\ read' = IF open THEN "body" ELSE "none"
      BY <1>7, <2>3 DEF Resume, NewRead
    <3>. QED
      BY <2>1, <2>3, <3>1
  <2>4. CASE resume = "check_ping"
    <3>1. pong_timer' = ExpiresAfter(pong_timer) /\ read' = read
      BY <1>7, <2>4 DEF Resume
    <3>2. Actors(pong_timer') = Actors(pong_timer)
      BY <3>1, ActorOps
    <3>. QED
      BY <2>1, <2>4, <3>1, <3>2
  <2>. QED
    BY <1>7, <2>2, <2>3, <2>4 DEF Resume
<1>8. CASE OnPingHeader
  BY <1>8, CallAt DEF OnPingHeader, HeaderRead
<1>9. CASE OnPongHeader
  BY <1>9 DEF OnPongHeader, HeaderRead, NewRead
<1>10. CASE OnOtherHeader
  BY <1>10 DEF OnOtherHeader, HeaderRead, NewRead
<1>11. CASE OnBodyRead
  BY <1>11 DEF OnBodyRead, NewRead
<1>12. CASE OnReadError
  BY <1>12, ActorOps DEF OnReadError, Close
<1>13. CASE OnHeaderWritten
  BY <1>13 DEF OnHeaderWritten
<1>14. CASE OnBodyWritten
  <2>1. UNCHANGED <<open, sock, temp, read, pong_timer, resume>>
    BY <1>14 DEF OnBodyWritten
  <2>2. call[IO].at = "idle" /\ call'[IO].at = "popped"
    BY <1>14, CallAt DEF OnBodyWritten
  <2>. QED
    BY <2>1, <2>2
<1>15. CASE WriteNext
  <2>1. UNCHANGED <<open, sock, temp, read, pong_timer, resume>>
    BY <1>15 DEF WriteNext
  <2>2. call[IO].at = "popped" /\ call'[IO].at = "idle"
    BY <1>15, CallAt DEF WriteNext
  <2>. QED
    BY <2>1, <2>2
<1>16. ASSUME NEW part \in {"header", "body"}, OnWriteError(part)
       PROVE  ControlOK'
  BY <1>16, ActorOps DEF OnWriteError, Close
<1>17. CASE CheckPong
  <2>1. /\ UNCHANGED <<open, temp, read, call, resume>>
        /\ call[IO].at = "idle"
        /\ sock' \in {sock, "closed"}
        /\ Actors(pong_timer) > 0
    BY <1>17, ActorOps DEF CheckPong
  <2>2. Actors(pong_timer') = IF open THEN Actors(pong_timer)
                                      ELSE Actors(pong_timer) - 1
    BY <1>17, CheckPongActors DEF IInv, TypeOK
  <2>. QED
    BY <2>1, <2>2
<1>18. CASE CheckPing
  BY <1>18, CallAt DEF CheckPing
<1>19. CASE ReadCompletes
  BY <1>19 DEF ReadCompletes
<1>20. CASE HeaderWritten
  BY <1>20 DEF HeaderWritten, WriteCompletes
<1>21. CASE BodyWritten
  BY <1>21 DEF BodyWritten, WriteCompletes
<1>22. CASE PingExpires
  BY <1>22 DEF PingExpires
<1>23. CASE PongExpires
  BY <1>23, ActorOps DEF PongExpires
<1>24. CASE UNCHANGED vars
  BY <1>24 DEF vars
<1>. QED
  BY <1>1, <1>2, <1>3, <1>4, <1>5, <1>6, <1>7, <1>8, <1>9, <1>10, <1>11,
     <1>12, <1>13, <1>14, <1>15, <1>16, <1>17, <1>18, <1>19, <1>20,
     <1>21, <1>22, <1>23, <1>24, <1>25
  DEF Next, Handle, Fail, PSend

(* The invariant about reads and timers, whoever calls psend().             *)
THEOREM Inductive == Spec => []IInv
<1>1. IInv /\ [Next]_vars => IInv'
  BY StepType, StepControl DEF IInv
<1>. QED
  BY InitInv, <1>1, PTL DEF Spec

(* Every variable of a connection stays in its range.                       *)
THEOREM TypeCorrect == Spec => []TypeOK
<1>1. IInv => TypeOK
  BY DEF IInv
<1>. QED
  BY <1>1, Inductive, PTL

(* Whatever other threads do inside psend(), an open connection goes on     *)
(* reading with one read at a time, unless the peer sent an invalid header. *)
THEOREM ReadLoopNeverBreaks == Spec => []ReadLoopIntact
<1>1. IInv => ReadLoopIntact
  BY DEF IInv, ControlOK
<1>. QED
  BY <1>1, Inductive, PTL

(* The cancelled, expired and re-armed waits of pong_timer always leave one *)
(* check_pong() and no second one, however many PONGs the peer sends.       *)
THEOREM PongActorNeverLost == Spec => []OnePongActor
<1>1. IInv => OnePongActor
  BY DEF IInv, ControlOK
<1>. QED
  BY <1>1, Inductive, PTL

-----------------------------------------------------------------------------
(* The writer. Any number of threads may be in psend(): what follows counts *)
(* the outstanding writes and the threads that are about to start one.      *)

Total(ws) ==
  ws["header"] + ws["body"] + ws["headerDone"] + ws["bodyDone"]

Begins(t) == At(t, "begin")
WritesNone == \A w \in Writes : writes[w] = 0

(* Before the handshake nothing is written, and no thread gets past the     *)
(* test of `open`.                                                          *)
BeforeHandshake ==
  sock = "connected" =>
    ~open /\ At(IO, "idle") /\ WritesNone /\ \A t \in Threads : ~Begins(t)

(* As long as no push was overtaken there is one writer: either a write is  *)
(* outstanding, or one thread is in write_header(), or the io thread is     *)
(* about to look at the queue.                                              *)
OneWriter ==
  "overtaken" \notin spoiled =>
    /\ Total(writes) \in {0, 1}
    /\ Total(writes) = 1 => out_packets # <<>>
    /\ At(IO, "popped") => Total(writes) = 0
    /\ \A t \in Threads : InWriteHeader(t) =>
         /\ Total(writes) = 0
         /\ out_packets # <<>>
         /\ ~At(IO, "popped")
         /\ \A s \in Threads : InWriteHeader(s) => s = t

(* Nor is a packet left without one, if besides none was sent too early.    *)
NoneLeft ==
  (spoiled = {} /\ (open \/ sock = "connected") /\ out_packets # <<>>) =>
    Total(writes) = 1 \/ AboutToWrite

(* Until ssl_handshake() is over nothing is popped, so a queue that has had *)
(* a packet has one, and who put the first one there writes it.             *)
Waiting(t) == At(t, "push") => out_packets # <<>>
UntilHandshake == sock = "connected" \/ Inside("ssl_handshake")
FirstWritten ==
  ("early" \notin spoiled /\ UntilHandshake) =>
    /\ \A t \in Threads : Waiting(t)
    /\ out_packets # <<>> => Writing \/ \E t \in Threads : InWriteHeader(t)
    /\ At(IO, "write") \/ At(IO, "begin") \/ At(IO, "return") => out_packets # <<>>

(* Only the io thread pops. Callers that test is_open() send nothing before *)
(* the handshake.                                                           *)
OnlyIOPops == Waiting(IO)
NothingEarly ==
  sock = "connected" => out_packets = <<>> /\ \A t \in Senders : At(t, "idle")

WriterInv == BeforeHandshake /\ OneWriter /\ NoneLeft /\ FirstWritten /\ OnlyIOPops

WInv == IInv /\ WriterInv

(* Beginning an operation adds one to those outstanding, ending one takes   *)
(* one away.                                                                *)
LEMMA TotalOps ==
  ASSUME NEW ws \in [Writes -> Nat], NEW w \in Writes
  PROVE  /\ Total(BeginWrite(ws, w)) = Total(ws) + 1
         /\ Total(EndWrite(ws, w)) = Total(ws) - 1
         /\ Total(ws) \in Nat
         /\ ws[w] > 0 => Total(ws) > 0
<1>1. /\ ws["header"] \in Nat /\ ws["body"] \in Nat
      /\ ws["headerDone"] \in Nat /\ ws["bodyDone"] \in Nat
      /\ "header" \in Writes /\ "body" \in Writes
      /\ "headerDone" \in Writes /\ "bodyDone" \in Writes
  BY DEF Writes
<1>2. w \in {"header", "body", "headerDone", "bodyDone"}
  BY DEF Writes
<1>3. Total(ws) \in Nat
  BY <1>1 DEF Total
<1>4. ws[w] > 0 => Total(ws) > 0
  BY <1>1, <1>2 DEF Total
<1>5. ASSUME NEW n \in Int, NEW new,
             new = [ws EXCEPT ![w] = n]
      PROVE  Total(new) = Total(ws) - ws[w] + n
  <2>1. new[w] = n /\ \A v \in Writes \ {w} : new[v] = ws[v]
    BY <1>5
  <2>2. CASE w = "header"
    BY <1>1, <2>1, <2>2 DEF Total
  <2>3. CASE w = "body"
    BY <1>1, <2>1, <2>3 DEF Total
  <2>4. CASE w = "headerDone"
    BY <1>1, <2>1, <2>4 DEF Total
  <2>5. CASE w = "bodyDone"
    BY <1>1, <2>1, <2>5 DEF Total
  <2>. QED
    BY <1>2, <2>2, <2>3, <2>4, <2>5
<1>6. ws[w] \in Nat /\ ws[w] + 1 \in Int /\ ws[w] - 1 \in Int
  OBVIOUS
<1>7. Total(BeginWrite(ws, w)) = Total(ws) - ws[w] + (ws[w] + 1)
  BY <1>5, <1>6 DEF BeginWrite
<1>8. Total(EndWrite(ws, w)) = Total(ws) - ws[w] + (ws[w] - 1)
  BY <1>5, <1>6 DEF EndWrite
<1>. QED
  BY <1>3, <1>4, <1>6, <1>7, <1>8

(* The queue has a packet once one has been appended.                       *)
LEMMA AppendNonEmpty ==
  ASSUME NEW S, NEW q \in Seq(S), NEW e
  PROVE  Append(q, e) # <<>>
<1>1. Len(Append(q, e)) = Len(q) + 1 /\ Len(q) \in Nat
  OBVIOUS
<1>. QED
  BY <1>1

(* Where every thread is after a step of one of them in psend().            *)
LEMMA CallsAt ==
  ASSUME CallsOK, NEW t \in Threads
  PROVE  /\ \A place : Goto(t, place) =>
              /\ \A p : At(t, p)' <=> p = place
              /\ \A o \in Threads \ {t} : \A p : At(o, p)' <=> At(o, p)
         /\ \A type : BeginSend(t, type) =>
              /\ \A p : At(t, p)' <=> p = "test"
              /\ \A o \in Threads \ {t} : \A p : At(o, p)' <=> At(o, p)
<1>1. ASSUME NEW place, Goto(t, place)
      PROVE  /\ \A p : At(t, p)' <=> p = place
             /\ \A o \in Threads \ {t} : \A p : At(o, p)' <=> At(o, p)
  BY <1>1 DEF CallsOK, Goto, At
<1>2. ASSUME NEW type, BeginSend(t, type)
      PROVE  /\ \A p : At(t, p)' <=> p = "test"
             /\ \A o \in Threads \ {t} : \A p : At(o, p)' <=> At(o, p)
  BY <1>2 DEF CallsOK, BeginSend, At
<1>. QED
  BY <1>1, <1>2

(* An operation that begins is one under way; one that succeeds still is.   *)
LEMMA WritingOps ==
  ASSUME NEW ws \in [Writes -> Nat], NEW v \in Writes, NEW w \in Writes, v # w
  PROVE  /\ \E u \in Writes : BeginWrite(ws, w)[u] > 0
         /\ \E u \in Writes : BeginWrite(EndWrite(ws, v), w)[u] > 0
<1>1. BeginWrite(ws, w)[w] > 0
  BY DEF BeginWrite
<1>2. BeginWrite(EndWrite(ws, v), w)[w] > 0
  BY DEF BeginWrite, EndWrite
<1>. QED
  BY <1>1, <1>2

(* Something is being written when the count is not zero.                   *)
LEMMA TotalWriting ==
  ASSUME OutOK
  PROVE  /\ Total(writes) \in Nat
         /\ Writing <=> Total(writes) > 0
         /\ WritesNone <=> ~Writing
<1>1. /\ writes["header"] \in Nat /\ writes["body"] \in Nat
      /\ writes["headerDone"] \in Nat /\ writes["bodyDone"] \in Nat
      /\ \A w \in Writes : writes[w] \in Nat
  BY DEF OutOK, Writes
<1>2. Writing <=> \/ writes["header"] > 0 \/ writes["body"] > 0
                  \/ writes["headerDone"] > 0 \/ writes["bodyDone"] > 0
  BY DEF Writing, Writes
<1>3. Total(writes) \in Nat /\ (Writing <=> Total(writes) > 0)
  BY <1>1, <1>2 DEF Total
<1>4. WritesNone <=> ~Writing
  BY <1>1 DEF WritesNone, Writing
<1>. QED
  BY <1>3, <1>4

(* What each step that touches the outstanding writes does to their number. *)
LEMMA TotalSteps ==
  ASSUME OutOK
  PROVE  /\ HeaderWritten \/ BodyWritten =>
              Total(writes) > 0 /\ Total(writes') = Total(writes)
         /\ OnHeaderWritten =>
              /\ Total(writes) > 0
              /\ Total(writes') = IF open THEN Total(writes) ELSE Total(writes) - 1
         /\ OnBodyWritten \/ (\E part \in {"header", "body"} : OnWriteError(part)) =>
              Total(writes) > 0 /\ Total(writes') = Total(writes) - 1
         /\ \A t \in Threads : BeginHeader(t) => Total(writes') = Total(writes) + 1
         /\ WriteNext =>
              Total(writes') = IF open /\ out_packets # <<>>
                               THEN Total(writes) + 1 ELSE Total(writes)
<1>a. /\ writes \in [Writes -> Nat] /\ Total(writes) \in Nat
      /\ "header" \in Writes /\ "body" \in Writes
      /\ "headerDone" \in Writes /\ "bodyDone" \in Writes
  BY TotalWriting DEF OutOK, Writes
<1>. USE <1>a
<1>1. ASSUME NEW v \in Writes, NEW w \in Writes, writes[v] > 0
      PROVE  /\ Total(EndWrite(writes, v)) = Total(writes) - 1
             /\ Total(BeginWrite(EndWrite(writes, v), w)) = Total(writes)
             /\ Total(writes) > 0
  <2>1. EndWrite(writes, v) \in [Writes -> Nat]
    BY <1>1, WriteOps
  <2>2. Total(EndWrite(writes, v)) = Total(writes) - 1 /\ Total(writes) > 0
    BY <1>1, TotalOps
  <2>3. Total(BeginWrite(EndWrite(writes, v), w)) = Total(EndWrite(writes, v)) + 1
    BY <2>1, TotalOps
  <2>. QED
    BY <2>2, <2>3
<1>2. Total(BeginWrite(writes, "header")) = Total(writes) + 1
  BY TotalOps
<1>3. HeaderWritten => Total(writes) > 0 /\ Total(writes') = Total(writes)
  BY <1>1 DEF HeaderWritten, WriteCompletes
<1>4. BodyWritten => Total(writes) > 0 /\ Total(writes') = Total(writes)
  BY <1>1 DEF BodyWritten, WriteCompletes
<1>5. HeaderWritten \/ BodyWritten =>
        Total(writes) > 0 /\ Total(writes') = Total(writes)
  BY <1>3, <1>4
<1>6. OnHeaderWritten =>
        /\ Total(writes) > 0
        /\ Total(writes') = IF open THEN Total(writes) ELSE Total(writes) - 1
  BY <1>1 DEF OnHeaderWritten, WriteBody
<1>7. OnBodyWritten \/ (\E part \in {"header", "body"} : OnWriteError(part)) =>
        Total(writes) > 0 /\ Total(writes') = Total(writes) - 1
  BY <1>1 DEF OnBodyWritten, OnWriteError
<1>8. \A t \in Threads : BeginHeader(t) => Total(writes') = Total(writes) + 1
  BY <1>2 DEF BeginHeader
<1>9. WriteNext => Total(writes') = IF open /\ out_packets # <<>>
                                    THEN Total(writes) + 1 ELSE Total(writes)
  BY <1>2 DEF WriteNext, WriteHeader
<1>. QED
  BY <1>5, <1>6, <1>7, <1>8, <1>9

(* The steps that leave the queue, the writes and the threads in            *)
(* write_header() alone.                                                    *)
Bystander ==
  \/ \E t \in Threads : TestEmpty(t)
  \/ \E t \in Senders : Send(t)
  \/ HandshakeOK \/ HandshakeError \/ Resume
  \/ OnPingHeader \/ OnPongHeader \/ OnOtherHeader \/ OnBodyRead \/ OnReadError
  \/ CheckPong \/ CheckPing
  \/ ReadCompletes \/ PingExpires \/ PongExpires
  \/ UNCHANGED vars

SamePlace(t, place) == At(t, place)' <=> At(t, place)

LEMMA Bystanders ==
  ASSUME CallsOK, Bystander
  PROVE  /\ UNCHANGED <<out_packets, writes, spoiled>>
         /\ \A t \in Threads : \A place \in {"write", "begin", "popped"} :
              SamePlace(t, place)
         /\ open' \/ sock' = "connected" => open \/ sock = "connected"
         /\ sock' = "connected" => sock = "connected"
<1>a. IO \in Threads /\ \A t \in Senders : t \in Threads
  BY DEF Threads
<1>. USE <1>a
<1>0. UNCHANGED <<out_packets, writes, spoiled>>
  BY DEF Bystander, TestEmpty, Send, HandshakeOK, HandshakeError, Resume, OnPingHeader,
     OnPongHeader, OnOtherHeader, OnBodyRead, OnReadError, CheckPong, CheckPing,
     ReadCompletes, PingExpires, PongExpires, vars, outVars, callVars
<1>1. ASSUME NEW t \in Threads, NEW place, NEW from,
             place \notin {"write", "begin", "popped"},
             from \notin {"write", "begin", "popped"},
             Goto(t, place) /\ At(t, from)
      PROVE  \A o \in Threads : \A p \in {"write", "begin", "popped"} : SamePlace(o, p)
  <2>1. /\ \A p : At(t, p)' <=> p = place
        /\ \A o \in Threads \ {t} : \A p : At(o, p)' <=> At(o, p)
    BY <1>1, CallsAt
  <2>. QED
    BY <1>1, <2>1 DEF At, SamePlace
<1>2. ASSUME NEW t \in Threads, NEW type, BeginSend(t, type), At(t, "idle")
      PROVE  \A o \in Threads : \A p \in {"write", "begin", "popped"} : SamePlace(o, p)
  <2>1. /\ \A p : At(t, p)' <=> p = "test"
        /\ \A o \in Threads \ {t} : \A p : At(o, p)' <=> At(o, p)
    BY <1>2, CallsAt
  <2>. QED
    BY <1>2, <2>1 DEF At, SamePlace
<1>3. ASSUME UNCHANGED call
      PROVE  \A o \in Threads : \A p \in {"write", "begin", "popped"} : SamePlace(o, p)
  BY <1>3 DEF At, SamePlace
<1>4. \A o \in Threads : \A p \in {"write", "begin", "popped"} : SamePlace(o, p)
  <2>1. ASSUME NEW t \in Threads, TestEmpty(t)
        PROVE  \E place \in {"pushFirst", "push"} : Goto(t, place) /\ At(t, "test")
    BY <2>1 DEF TestEmpty
  <2>2. CASE \E t \in Threads : TestEmpty(t)
    BY <1>1, <2>1, <2>2
  <2>3. CASE Resume
    BY <1>1, <2>3 DEF Resume
  <2>4. CASE (\E t \in Senders : Send(t)) \/ HandshakeOK \/ OnPingHeader
    BY <1>2, <2>4 DEF Send, HandshakeOK, OnPingHeader, HeaderRead
  <2>5. CASE CheckPing
    BY <1>2, <1>3, <2>5 DEF CheckPing
  <2>6. CASE \/ HandshakeError \/ OnPongHeader \/ OnOtherHeader \/ OnBodyRead
             \/ OnReadError \/ CheckPong \/ ReadCompletes \/ PingExpires \/ PongExpires
             \/ UNCHANGED vars
    BY <1>3, <2>6 DEF HandshakeError, OnPongHeader, OnOtherHeader, OnBodyRead, OnReadError,
       CheckPong, ReadCompletes, PingExpires, PongExpires, vars, callVars
  <2>. QED
    BY <2>2, <2>3, <2>4, <2>5, <2>6 DEF Bystander
<1>5. /\ open' \/ sock' = "connected" => open \/ sock = "connected"
      /\ sock' = "connected" => sock = "connected"
  BY DEF Bystander, TestEmpty, Send, HandshakeOK, HandshakeError, Resume, OnPingHeader,
     OnPongHeader, OnOtherHeader, OnBodyRead, OnReadError, CheckPong, CheckPing,
     ReadCompletes, PingExpires, PongExpires, Close, vars, netVars
<1>. QED
  BY <1>0, <1>4, <1>5

(* Where a thread in psend() is after each of its steps, and that nobody    *)
(* else moves.                                                              *)
LEMMA PSendMoves ==
  ASSUME CallsOK, NEW t \in Threads
  PROVE  /\ TestEmpty(t) =>
              \A p : At(t, p)' <=> p = (IF out_packets = <<>> THEN "pushFirst" ELSE "push")
         /\ PushBack(t) =>
              \A p : At(t, p)' <=> p = (IF At(t, "pushFirst") THEN "write" ELSE Returned(t))
         /\ StartWrite(t) =>
              \A p : At(t, p)' <=> p = (IF open THEN "begin" ELSE Returned(t))
         /\ BeginHeader(t) => \A p : At(t, p)' <=> p = Returned(t)
         /\ PSend(t) \/ Send(t) =>
              \A o \in Threads \ {t} : \A p : At(o, p)' <=> At(o, p)
BY CallsAt DEF TestEmpty, PushBack, StartWrite, BeginHeader, Send, PSend, WasEmpty, AfterPush

LEMMA IOMoves ==
  ASSUME CallsOK
  PROVE  /\ OnBodyWritten => \A p : At(IO, p)' <=> p = "popped"
         /\ WriteNext \/ Resume => \A p : At(IO, p)' <=> p = "idle"
         /\ OnBodyWritten \/ WriteNext \/ Resume =>
              \A o \in Threads \ {IO} : \A p : At(o, p)' <=> At(o, p)
<1>. IO \in Threads
  BY DEF Threads
<1>. QED
  BY CallsAt DEF OnBodyWritten, WriteNext, Resume

(* Each step keeps one writer, as long as it does not overtake a push.      *)
LEMMA OneWriterStep == IInv /\ OneWriter /\ [Next]_vars => OneWriter'
<1>. SUFFICES ASSUME IInv, OneWriter, [Next]_vars, "overtaken" \notin spoiled'
              PROVE  OneWriter'
  BY DEF OneWriter
<1>a. /\ CallsOK /\ OutOK /\ IO \in Threads /\ Total(writes) \in Nat
      /\ out_packets \in Seq(Types)
  BY TotalWriting DEF IInv, TypeOK, Threads, OutOK
<1>b. "overtaken" \notin spoiled
  BY DEF Next, Handle, Fail, PSend, HandshakeOK, Resume, OnPingHeader, OnPongHeader,
     OnOtherHeader, OnBodyRead, OnHeaderWritten, OnBodyWritten, WriteNext, CheckPong,
     CheckPing, HandshakeError, OnReadError, OnWriteError, TestEmpty, PushBack, StartWrite,
     BeginHeader, Send, ReadCompletes, HeaderWritten, BodyWritten, WriteCompletes,
     PingExpires, PongExpires, vars, callVars
<1>c. /\ Total(writes) \in {0, 1}
      /\ Total(writes) = 1 => out_packets # <<>>
      /\ At(IO, "popped") => Total(writes) = 0
      /\ \A t \in Threads : InWriteHeader(t) =>
           /\ Total(writes) = 0
           /\ out_packets # <<>>
           /\ ~At(IO, "popped")
           /\ \A s \in Threads : InWriteHeader(s) => s = t
  BY <1>b DEF OneWriter
<1>. USE <1>a
<1>1. CASE Bystander
  BY <1>1, <1>c, Bystanders DEF OneWriter, InWriteHeader, SamePlace
<1>2. ASSUME NEW t \in Threads, PushBack(t)
      PROVE  OneWriter'
  <2>1. /\ UNCHANGED writes
        /\ At(t, "pushFirst") \/ At(t, "push")
        /\ out_packets' # <<>>
        /\ ~Overtaken(t)
    BY <1>2, AppendNonEmpty DEF PushBack
  <2>2. /\ \A p : At(t, p)' <=> p = (IF At(t, "pushFirst") THEN "write" ELSE Returned(t))
        /\ \A o \in Threads \ {t} : \A p : At(o, p)' <=> At(o, p)
    BY <1>2, PSendMoves DEF PSend
  <2>3. ~InWriteHeader(t) /\ ~At(t, "popped")
    BY <2>1 DEF At, InWriteHeader
  <2>4. CASE At(t, "pushFirst")
    <3>1. out_packets = <<>> /\ ~At(IO, "popped")
      BY <2>1, <2>4 DEF Overtaken
    <3>2. Total(writes) = 0 /\ \A o \in Threads : ~InWriteHeader(o)
      BY <1>c, <3>1
    <3>3. ~At(IO, "popped")'
      BY <2>2, <2>4, <3>1
    <3>4. \A o \in Threads : InWriteHeader(o)' => o = t
      BY <2>2, <3>2 DEF InWriteHeader
    <3>. QED
      BY <2>1, <3>2, <3>3, <3>4 DEF OneWriter
  <2>5. CASE ~At(t, "pushFirst")
    <3>1. ~InWriteHeader(t)' /\ ~At(t, "popped")'
      BY <2>2, <2>5 DEF InWriteHeader, Returned
    <3>2. \A o \in Threads : InWriteHeader(o)' <=> InWriteHeader(o)
      BY <2>2, <2>3, <3>1 DEF InWriteHeader
    <3>3. At(IO, "popped")' <=> At(IO, "popped")
      BY <2>2, <2>3, <3>1
    <3>. QED
      BY <1>c, <2>1, <3>2, <3>3 DEF OneWriter
  <2>. QED
    BY <2>4, <2>5
<1>3. ASSUME NEW t \in Threads, StartWrite(t)
      PROVE  OneWriter'
  <2>1. UNCHANGED <<writes, out_packets>> /\ At(t, "write")
    BY <1>3 DEF StartWrite, outVars
  <2>2. /\ \A p : At(t, p)' <=> p = (IF open THEN "begin" ELSE Returned(t))
        /\ \A o \in Threads \ {t} : \A p : At(o, p)' <=> At(o, p)
    BY <1>3, PSendMoves DEF PSend
  <2>3. \A o \in Threads : InWriteHeader(o)' => InWriteHeader(o)
    BY <2>1, <2>2 DEF InWriteHeader
  <2>4. At(IO, "popped")' => At(IO, "popped")
    BY <2>2 DEF Returned
  <2>. QED
    BY <1>c, <2>1, <2>3, <2>4 DEF OneWriter
<1>4. ASSUME NEW t \in Threads, BeginHeader(t)
      PROVE  OneWriter'
  <2>1. UNCHANGED out_packets /\ At(t, "begin") /\ Total(writes') = Total(writes) + 1
    BY <1>4, TotalSteps DEF BeginHeader
  <2>2. /\ \A p : At(t, p)' <=> p = Returned(t)
        /\ \A o \in Threads \ {t} : \A p : At(o, p)' <=> At(o, p)
    BY <1>4, PSendMoves DEF PSend
  <2>3. /\ Total(writes) = 0 /\ out_packets # <<>> /\ ~At(IO, "popped")
        /\ \A o \in Threads : InWriteHeader(o) => o = t
    BY <1>c, <2>1 DEF InWriteHeader
  <2>4. \A o \in Threads : ~InWriteHeader(o)'
    BY <2>2, <2>3 DEF InWriteHeader, Returned
  <2>5. ~At(IO, "popped")'
    BY <2>2, <2>3 DEF Returned
  <2>. QED
    BY <2>1, <2>3, <2>4, <2>5 DEF OneWriter
<1>5. CASE HeaderWritten \/ BodyWritten \/ OnHeaderWritten
  <2>1. UNCHANGED <<call, out_packets>>
    BY <1>5 DEF HeaderWritten, BodyWritten, WriteCompletes, OnHeaderWritten, callVars
  <2>2. Total(writes) = 1 /\ Total(writes') \in {0, 1}
    BY <1>5, <1>c, TotalSteps
  <2>3. (\A o \in Threads : ~InWriteHeader(o)) /\ ~At(IO, "popped")
    BY <1>c, <2>2
  <2>4. (\A o \in Threads : ~InWriteHeader(o)') /\ ~At(IO, "popped")'
    BY <2>1, <2>3 DEF InWriteHeader, At
  <2>. QED
    BY <1>c, <2>1, <2>2, <2>4 DEF OneWriter
<1>6. CASE OnBodyWritten
  <2>1. Total(writes) = 1 /\ Total(writes') = 0
    BY <1>6, <1>c, TotalSteps
  <2>2. \A o \in Threads : ~InWriteHeader(o)
    BY <1>c, <2>1
  <2>3. \A o \in Threads : ~InWriteHeader(o)'
    BY <1>6, <2>2, IOMoves DEF InWriteHeader
  <2>. QED
    BY <2>1, <2>3 DEF OneWriter
<1>7. CASE WriteNext
  <2>1. UNCHANGED out_packets /\ At(IO, "popped")
    BY <1>7 DEF WriteNext
  <2>2. /\ Total(writes') \in {0, 1}
        /\ Total(writes') = 1 => out_packets # <<>>
        /\ \A o \in Threads : ~InWriteHeader(o)
    BY <1>7, <1>c, <2>1, TotalSteps
  <2>3. (\A o \in Threads : ~InWriteHeader(o)') /\ ~At(IO, "popped")'
    BY <1>7, <2>2, IOMoves DEF InWriteHeader
  <2>. QED
    BY <2>1, <2>2, <2>3 DEF OneWriter
<1>8. ASSUME NEW part \in {"header", "body"}, OnWriteError(part)
      PROVE  OneWriter'
  <2>1. UNCHANGED <<call, out_packets>>
    BY <1>8 DEF OnWriteError, callVars
  <2>2. Total(writes) = 1 /\ Total(writes') = 0
    BY <1>8, <1>c, TotalSteps
  <2>3. \A o \in Threads : ~InWriteHeader(o)
    BY <1>c, <2>2
  <2>4. \A o \in Threads : ~InWriteHeader(o)'
    BY <2>1, <2>3 DEF InWriteHeader, At
  <2>. QED
    BY <2>2, <2>4 DEF OneWriter
<1>. QED
  BY <1>1, <1>2, <1>3, <1>4, <1>5, <1>6, <1>7, <1>8
  DEF Bystander, Next, Handle, Fail, PSend

(* Before the handshake the io thread has no handler to run, and no other   *)
(* thread gets beyond the test of `open`.                                   *)
LEMMA BeforeHandshakeStep == IInv /\ BeforeHandshake /\ [Next]_vars => BeforeHandshake'
<1>. SUFFICES ASSUME IInv, BeforeHandshake, [Next]_vars, sock' = "connected"
              PROVE  BeforeHandshake'
  BY DEF BeforeHandshake
<1>a. /\ CallsOK /\ OutOK /\ ControlInv /\ IO \in Threads
      /\ "header" \in Writes /\ "body" \in Writes
      /\ "headerDone" \in Writes /\ "bodyDone" \in Writes
  BY DEF IInv, TypeOK, ControlOK, Threads, Writes
<1>. USE <1>a
<1>b. sock = "connected"
  BY Bystanders DEF Bystander, Next, Handle, Fail, PSend, PushBack, StartWrite, BeginHeader,
     HeaderWritten, BodyWritten, WriteCompletes, OnHeaderWritten, OnBodyWritten, WriteNext,
     OnWriteError, Close, netVars
<1>c. /\ ~open /\ At(IO, "idle") /\ (\A t \in Threads : ~Begins(t)) /\ read = "none"
      /\ \A w \in Writes : writes[w] = 0
  BY <1>b DEF BeforeHandshake, WritesNone, ControlInv
<1>1. CASE Bystander
  <2>1. /\ UNCHANGED writes
        /\ \A t \in Threads : ~Begins(t)'
    BY <1>1, <1>c, Bystanders DEF SamePlace, Begins
  <2>2. ~open'
    BY <1>b, <1>c, <1>1 DEF Bystander, TestEmpty, Send, HandshakeOK, HandshakeError, Resume,
       OnPingHeader, OnPongHeader, OnOtherHeader, OnBodyRead, OnReadError, CheckPong,
       CheckPing, ReadCompletes, PingExpires, PongExpires, Close, vars, netVars
  <2>3. At(IO, "idle")'
    <3>1. CASE \E t \in Threads : TestEmpty(t) \/ (t \in Senders /\ Send(t))
      <4>1. PICK t \in Threads : TestEmpty(t) \/ (t \in Senders /\ Send(t))
        BY <3>1
      <4>2. t # IO
        BY <1>c, <4>1, ThreadsAssumption DEF TestEmpty, At
      <4>. QED
        BY <1>c, <4>1, <4>2, PSendMoves DEF PSend
    <3>2. CASE UNCHANGED call
      BY <1>c, <3>2 DEF At
    <3>. QED
      BY <1>b, <1>c, <1>1, <3>1, <3>2 DEF Bystander, HandshakeOK, HandshakeError, Resume,
         OnPingHeader, HeaderRead, OnPongHeader, OnOtherHeader, OnBodyRead, OnReadError,
         CheckPong, CheckPing, ReadCompletes, PingExpires, PongExpires, Close, vars,
         callVars, At, Threads
  <2>. QED
    BY <1>c, <2>1, <2>2, <2>3 DEF BeforeHandshake, WritesNone
<1>2. ASSUME NEW t \in Threads, PushBack(t) \/ StartWrite(t)
      PROVE  BeforeHandshake'
  <2>1. t # IO /\ UNCHANGED <<open, writes>>
    BY <1>c, <1>2 DEF PushBack, StartWrite, At, netVars, outVars
  <2>2. /\ ~Begins(t)'
        /\ \A o \in Threads \ {t} : \A p : At(o, p)' <=> At(o, p)
    BY <1>c, <1>2, PSendMoves DEF PSend, Returned, Begins
  <2>. QED
    BY <1>c, <2>1, <2>2 DEF BeforeHandshake, WritesNone, Begins
<1>3. ~\E t \in Threads : BeginHeader(t)
  BY <1>c DEF BeginHeader, Begins
<1>4. ~(\/ HeaderWritten \/ BodyWritten \/ OnHeaderWritten \/ OnBodyWritten \/ WriteNext
        \/ \E part \in {"header", "body"} : OnWriteError(part))
  BY <1>c DEF HeaderWritten, BodyWritten, WriteCompletes, OnHeaderWritten, OnBodyWritten,
     WriteNext, OnWriteError, At
<1>. QED
  BY <1>1, <1>2, <1>3, <1>4 DEF Bystander, Next, Handle, Fail, PSend

(* Unless something upsets the writer, each step that leaves packets in the *)
(* queue of an open connection leaves them to somebody.                     *)
LEMMA NoneLeftStep ==
  IInv /\ BeforeHandshake /\ OneWriter /\ NoneLeft /\ [Next]_vars => NoneLeft'
<1>. SUFFICES ASSUME IInv, BeforeHandshake, OneWriter, NoneLeft, [Next]_vars,
                     spoiled' = {}, open' \/ sock' = "connected", out_packets' # <<>>
              PROVE  (Total(writes) = 1 \/ AboutToWrite)'
  BY DEF NoneLeft
<1>a. CallsOK /\ OutOK /\ IO \in Threads /\ Total(writes) \in Nat
  BY TotalWriting DEF IInv, TypeOK, Threads
<1>b. spoiled = {}
  BY DEF Next, Handle, Fail, PSend, HandshakeOK, Resume, OnPingHeader, OnPongHeader,
     OnOtherHeader, OnBodyRead, OnHeaderWritten, OnBodyWritten, WriteNext, CheckPong,
     CheckPing, HandshakeError, OnReadError, OnWriteError, TestEmpty, PushBack, StartWrite,
     BeginHeader, Send, ReadCompletes, HeaderWritten, BodyWritten, WriteCompletes,
     PingExpires, PongExpires, vars, callVars
<1>c. /\ Total(writes) \in {0, 1}
      /\ At(IO, "popped") => Total(writes) = 0
      /\ \A t \in Threads : InWriteHeader(t) => Total(writes) = 0
  BY <1>b DEF OneWriter
<1>d. (open \/ sock = "connected") /\ out_packets # <<>> => Total(writes) = 1 \/ AboutToWrite
  BY <1>b DEF NoneLeft
<1>. USE <1>a
<1>1. CASE Bystander
  <2>1. /\ UNCHANGED <<writes, out_packets>>
        /\ open \/ sock = "connected"
        /\ \A t \in Threads : \A place \in {"write", "begin", "popped"} : SamePlace(t, place)
    BY <1>1, Bystanders
  <2>2. AboutToWrite => AboutToWrite'
    BY <2>1 DEF AboutToWrite, InWriteHeader, SamePlace
  <2>. QED
    BY <1>d, <2>1, <2>2
<1>2. ASSUME NEW t \in Threads, PushBack(t)
      PROVE  AboutToWrite' \/ Total(writes') = 1
  <2>1. /\ UNCHANGED <<open, sock, writes>>
        /\ At(t, "pushFirst") \/ At(t, "push")
        /\ ~Overtaken(t)
    BY <1>2 DEF PushBack, netVars
  <2>2. /\ \A p : At(t, p)' <=> p = (IF At(t, "pushFirst") THEN "write" ELSE Returned(t))
        /\ \A o \in Threads \ {t} : \A p : At(o, p)' <=> At(o, p)
    BY <1>2, PSendMoves DEF PSend
  <2>3. CASE At(t, "pushFirst")
    BY <2>2, <2>3 DEF AboutToWrite, InWriteHeader
  <2>4. CASE ~At(t, "pushFirst")
    <3>1. out_packets # <<>>
      BY <2>1, <2>4 DEF Overtaken
    <3>2. ~InWriteHeader(t) /\ ~At(t, "popped")
      BY <2>1 DEF At, InWriteHeader
    <3>3. AboutToWrite => AboutToWrite'
      BY <2>2, <3>2 DEF AboutToWrite, InWriteHeader
    <3>. QED
      BY <1>d, <2>1, <3>1, <3>3
  <2>. QED
    BY <2>3, <2>4
<1>3. ASSUME NEW t \in Threads, StartWrite(t)
      PROVE  AboutToWrite'
  <2>1. UNCHANGED <<open, sock>> /\ ~Early
    BY <1>3 DEF StartWrite, netVars
  <2>2. open
    BY <2>1 DEF Early
  <2>3. At(t, "begin")'
    BY <1>3, <2>2, PSendMoves
  <2>. QED
    BY <2>3 DEF AboutToWrite, InWriteHeader
<1>4. ASSUME NEW t \in Threads, BeginHeader(t)
      PROVE  Total(writes') = 1
  <2>1. InWriteHeader(t)
    BY <1>4 DEF BeginHeader, InWriteHeader
  <2>. QED
    BY <1>c, <1>4, <2>1, TotalSteps
<1>5. CASE HeaderWritten \/ BodyWritten
  BY <1>c, <1>5, TotalSteps
<1>6. CASE OnHeaderWritten
  <2>1. UNCHANGED <<open, sock>>
    BY <1>6 DEF OnHeaderWritten, netVars
  <2>2. Total(writes) = 1
    BY <1>6, <1>c, TotalSteps
  <2>3. sock # "connected"
    BY <2>2, TotalWriting DEF BeforeHandshake
  <2>. QED
    BY <1>6, <2>1, <2>2, <2>3, TotalSteps
<1>7. CASE OnBodyWritten
  BY <1>7, IOMoves DEF AboutToWrite
<1>8. CASE WriteNext
  <2>1. UNCHANGED <<open, sock, out_packets>> /\ At(IO, "popped")
    BY <1>8 DEF WriteNext, netVars
  <2>2. sock # "connected"
    BY <2>1 DEF BeforeHandshake, At
  <2>. QED
    BY <1>8, <1>c, <2>1, <2>2, TotalSteps
<1>9. ~\E part \in {"header", "body"} : OnWriteError(part)
  BY DEF OnWriteError, Close
<1>. QED
  BY <1>1, <1>2, <1>3, <1>4, <1>5, <1>6, <1>7, <1>8, <1>9
  DEF Bystander, Next, Handle, Fail, PSend

(* Until the handshake is over, each step that does not come too early      *)
(* leaves the first packet to who has put it there.                         *)
LEMMA FirstWrittenStep ==
  IInv /\ BeforeHandshake /\ FirstWritten /\ [Next]_vars => FirstWritten'
<1>. SUFFICES ASSUME IInv, BeforeHandshake, FirstWritten, [Next]_vars,
                     "early" \notin spoiled', UntilHandshake'
              PROVE  FirstWritten'
  BY DEF FirstWritten
<1>a. /\ CallsOK /\ OutOK /\ ControlInv /\ IO \in Threads
      /\ \A t \in Senders : t \in Threads \ {IO}
      /\ writes \in [Writes -> Nat] /\ out_packets \in Seq(Types)
      /\ "header" \in Writes /\ "body" \in Writes
      /\ "headerDone" \in Writes /\ "bodyDone" \in Writes
  BY ThreadsAssumption DEF IInv, TypeOK, ControlOK, Threads, Writes, OutOK
<1>b. "early" \notin spoiled
  BY DEF Next, Handle, Fail, PSend, HandshakeOK, Resume, OnPingHeader, OnPongHeader,
     OnOtherHeader, OnBodyRead, OnHeaderWritten, OnBodyWritten, WriteNext, CheckPong,
     CheckPing, HandshakeError, OnReadError, OnWriteError, TestEmpty, PushBack, StartWrite,
     BeginHeader, Send, ReadCompletes, HeaderWritten, BodyWritten, WriteCompletes,
     PingExpires, PongExpires, vars, callVars
<1>c. UntilHandshake =>
        /\ \A t \in Threads : Waiting(t)
        /\ out_packets # <<>> => Writing \/ \E t \in Threads : InWriteHeader(t)
        /\ At(IO, "write") \/ At(IO, "begin") \/ At(IO, "return") => out_packets # <<>>
  BY <1>b DEF FirstWritten
<1>. USE <1>a
<1>1. ASSUME NEW t \in Threads, PSend(t) \/ (t \in Senders /\ Send(t))
      PROVE  FirstWritten'
  <2>1. UNCHANGED <<sock, resume>>
    BY <1>1 DEF PSend, TestEmpty, PushBack, StartWrite, BeginHeader, Send, netVars
  <2>2. \A o \in Threads \ {t} : \A p : At(o, p)' <=> At(o, p)
    BY <1>1, PSendMoves
  <2>3. UntilHandshake
    <3>1. CASE t = IO
      BY <1>1, <2>1, <3>1 DEF UntilHandshake, Inside, At, PSend, TestEmpty, PushBack,
         StartWrite, BeginHeader
    <3>2. CASE t # IO
      BY <2>1, <2>2, <3>2 DEF UntilHandshake, Inside, At
    <3>. QED
      BY <3>1, <3>2
  <2>4. CASE TestEmpty(t) \/ (t \in Senders /\ Send(t))
    <3>1. UNCHANGED <<writes, out_packets>> /\ (At(t, "test") \/ At(t, "idle"))
      BY <2>4 DEF TestEmpty, Send, outVars
    <3>2. \A p \in {"write", "begin", "return"} : ~At(t, p)' /\ ~At(t, p)
      <4>1. CASE TestEmpty(t)
        BY <3>1, <4>1, PSendMoves DEF At
      <4>2. CASE t \in Senders /\ Send(t)
        BY <3>1, <4>2, CallsAt DEF At, Send
      <4>. QED
        BY <2>4, <4>1, <4>2
    <3>3. Waiting(t)'
      <4>1. CASE TestEmpty(t)
        BY <3>1, <4>1, PSendMoves DEF Waiting
      <4>2. CASE t \in Senders /\ Send(t)
        BY <3>1, <4>2, CallsAt DEF Waiting, Send
      <4>. QED
        BY <2>4, <4>1, <4>2
    <3>4. Writing' <=> Writing
      BY <3>1 DEF Writing
    <3>. QED
      BY <1>c, <2>2, <2>3, <3>1, <3>2, <3>3, <3>4 DEF FirstWritten, InWriteHeader, Waiting
  <2>5. CASE PushBack(t)
    <3>1. /\ UNCHANGED writes /\ out_packets' # <<>>
          /\ At(t, "pushFirst") \/ At(t, "push")
      BY <2>5, AppendNonEmpty DEF PushBack
    <3>2. \A p : At(t, p)' <=> p = (IF At(t, "pushFirst") THEN "write" ELSE Returned(t))
      BY <2>5, PSendMoves
    <3>3. CASE At(t, "pushFirst")
      <4>1. InWriteHeader(t)'
        BY <3>2, <3>3 DEF InWriteHeader
      <4>. QED
        BY <3>1, <4>1 DEF FirstWritten, Waiting
    <3>4. CASE ~At(t, "pushFirst")
      <4>1. out_packets # <<>> /\ ~InWriteHeader(t)
        BY <1>c, <2>3, <3>1, <3>4 DEF Waiting, InWriteHeader, At
      <4>2. Writing \/ \E o \in Threads \ {t} : InWriteHeader(o)
        BY <1>c, <2>3, <4>1
      <4>3. (Writing \/ \E o \in Threads : InWriteHeader(o))'
        BY <2>2, <3>1, <4>2 DEF Writing, InWriteHeader
      <4>. QED
        BY <3>1, <4>3 DEF FirstWritten, Waiting
    <3>. QED
      BY <3>3, <3>4
  <2>6. CASE StartWrite(t)
    <3>1. UNCHANGED <<open, writes, out_packets>> /\ At(t, "write") /\ ~Early
      BY <2>6 DEF StartWrite, netVars, outVars
    <3>2. open
      BY <2>3, <3>1 DEF Early, UntilHandshake, ControlInv
    <3>3. \A p : At(t, p)' <=> p = "begin"
      BY <2>6, <3>2, PSendMoves
    <3>4. InWriteHeader(t)' /\ ~At(t, "push")'
      BY <3>3 DEF InWriteHeader
    <3>5. At(IO, "write")' \/ At(IO, "begin")' \/ At(IO, "return")' => out_packets # <<>>
      <4>1. t = IO => out_packets # <<>>
        BY <1>c, <2>3, <3>1
      <4>2. t # IO => /\ At(IO, "write")' <=> At(IO, "write")
                      /\ At(IO, "begin")' <=> At(IO, "begin")
                      /\ At(IO, "return")' <=> At(IO, "return")
        BY <2>2
      <4>. QED
        BY <1>c, <2>3, <4>1, <4>2
    <3>. QED
      BY <1>c, <2>2, <2>3, <3>1, <3>4, <3>5 DEF FirstWritten, Waiting
  <2>7. CASE BeginHeader(t)
    <3>1. UNCHANGED out_packets /\ At(t, "begin") /\ writes' = BeginWrite(writes, "header")
      BY <2>7 DEF BeginHeader
    <3>2. \A p : At(t, p)' <=> p = Returned(t)
      BY <2>7, PSendMoves
    <3>3. Writing' /\ ~At(t, "push")'
      <4>1. \E w \in Writes : writes'[w] > 0
        BY <3>1, WritingOps
      <4>. QED
        BY <3>2, <4>1 DEF Writing, Returned
    <3>4. At(IO, "write")' \/ At(IO, "begin")' \/ At(IO, "return")' => out_packets # <<>>
      <4>1. t = IO => out_packets # <<>>
        BY <1>c, <2>3, <3>1
      <4>2. t # IO => /\ At(IO, "write")' <=> At(IO, "write")
                      /\ At(IO, "begin")' <=> At(IO, "begin")
                      /\ At(IO, "return")' <=> At(IO, "return")
        BY <2>2
      <4>. QED
        BY <1>c, <2>3, <4>1, <4>2
    <3>. QED
      BY <1>c, <2>2, <2>3, <3>1, <3>3, <3>4 DEF FirstWritten, Waiting
  <2>. QED
    BY <1>1, <2>4, <2>5, <2>6, <2>7 DEF PSend
<1>2. CASE HandshakeOK
  <2>1. UNCHANGED <<writes, out_packets>> /\ UntilHandshake /\ At(IO, "idle")
    BY <1>2 DEF HandshakeOK, UntilHandshake, outVars
  <2>2. /\ \A p : At(IO, p)' <=> p = "test"
        /\ \A o \in Threads \ {IO} : \A p : At(o, p)' <=> At(o, p)
    BY <1>2, CallsAt DEF HandshakeOK
  <2>3. \A o \in Threads : InWriteHeader(o) => InWriteHeader(o)'
    BY <2>1, <2>2 DEF InWriteHeader, At
  <2>4. \A o \in Threads : Waiting(o)'
    BY <1>c, <2>1, <2>2 DEF Waiting
  <2>5. Writing' <=> Writing
    BY <2>1 DEF Writing
  <2>. QED
    BY <1>c, <2>1, <2>2, <2>3, <2>4, <2>5 DEF FirstWritten
<1>3. CASE /\ UNCHANGED <<sock, out_packets, call, resume>>
           /\ Writing => Writing'
  <2>1. UntilHandshake
    BY <1>3 DEF UntilHandshake, Inside
  <2>. QED
    BY <1>3, <1>c, <2>1 DEF FirstWritten, Waiting, InWriteHeader, At
<1>4. CASE ReadCompletes \/ PingExpires \/ PongExpires \/ UNCHANGED vars
  BY <1>3, <1>4 DEF ReadCompletes, PingExpires, PongExpires, vars, netVars, outVars,
     callVars, Writing
<1>5. CASE HeaderWritten \/ BodyWritten
  <2>1. UNCHANGED <<sock, out_packets, call, resume>>
    BY <1>5 DEF HeaderWritten, BodyWritten, WriteCompletes, netVars, callVars
  <2>2. Writing'
    BY <1>5, WritingOps DEF HeaderWritten, BodyWritten, WriteCompletes, Writing
  <2>. QED
    BY <1>3, <2>1, <2>2
<1>6. CASE \/ HandshakeError \/ Resume \/ OnPingHeader \/ OnPongHeader \/ OnOtherHeader
           \/ OnBodyRead \/ OnReadError \/ OnHeaderWritten \/ OnBodyWritten \/ WriteNext
           \/ CheckPong \/ CheckPing \/ \E part \in {"header", "body"} : OnWriteError(part)
  <2>1. ~Inside("ssl_handshake")'
    <3>1. CASE Resume \/ OnBodyWritten \/ WriteNext
      BY <3>1, IOMoves DEF Inside, At
    <3>2. CASE OnPingHeader \/ (CheckPing /\ resume' = "check_ping")
      BY <3>2 DEF OnPingHeader, Inside
    <3>3. CASE UNCHANGED call /\ At(IO, "idle")
      BY <3>3 DEF Inside, At
    <3>. QED
      BY <1>6, <3>1, <3>2, <3>3 DEF HandshakeError, OnPongHeader, OnOtherHeader, HeaderRead,
         OnBodyRead, OnReadError, OnHeaderWritten, CheckPong, CheckPing, OnWriteError,
         callVars
  <2>2. sock' = "connected"
    BY <2>1 DEF UntilHandshake
  <2>3. sock = "connected"
    BY <1>6, <2>2 DEF HandshakeError, Resume, OnPingHeader, OnPongHeader, OnOtherHeader,
       HeaderRead, OnBodyRead, OnReadError, OnHeaderWritten, OnBodyWritten, WriteNext,
       CheckPong, CheckPing, OnWriteError, Close, netVars, ControlInv, At
  <2>4. /\ ~open /\ At(IO, "idle") /\ read = "none"
        /\ \A w \in Writes : writes[w] = 0
    BY <2>3 DEF BeforeHandshake, WritesNone, ControlInv
  <2>5. CheckPong \/ CheckPing
    BY <1>6, <2>2, <2>4 DEF HandshakeError, Resume, OnPingHeader, OnPongHeader,
       OnOtherHeader, HeaderRead, OnBodyRead, OnReadError, OnHeaderWritten, OnBodyWritten,
       WriteNext, OnWriteError, Close, At
  <2>6. UNCHANGED <<out_packets, writes, call, resume>>
    BY <2>4, <2>5 DEF CheckPong, CheckPing, outVars, callVars
  <2>. QED
    BY <1>3, <2>2, <2>3, <2>6 DEF Writing
<1>. QED
  BY <1>1, <1>2, <1>4, <1>5, <1>6 DEF Next, Handle, Fail

(* The io thread finds in the queue what it has found there before.         *)
LEMMA OnlyIOPopsStep == IInv /\ OnlyIOPops /\ [Next]_vars => OnlyIOPops'
<1>. SUFFICES ASSUME IInv, OnlyIOPops, [Next]_vars, At(IO, "push")'
              PROVE  out_packets' # <<>>
  BY DEF OnlyIOPops, Waiting
<1>a. CallsOK /\ IO \in Threads /\ out_packets \in Seq(Types)
  BY DEF IInv, TypeOK, OutOK, Threads
<1>. USE <1>a
<1>1. ASSUME NEW t \in Threads, PushBack(t)
      PROVE  out_packets' # <<>>
  BY <1>1, AppendNonEmpty DEF PushBack
<1>2. CASE TestEmpty(IO)
  BY <1>2, PSendMoves DEF TestEmpty, outVars
<1>3. CASE UNCHANGED out_packets /\ (At(IO, "push")' => At(IO, "push"))
  BY <1>3 DEF OnlyIOPops, Waiting
<1>4. ASSUME NEW t \in Threads, \/ t # IO /\ TestEmpty(t)
                                \/ StartWrite(t) \/ BeginHeader(t)
                                \/ t \in Senders /\ Send(t)
      PROVE  out_packets' # <<>>
  <2>1. UNCHANGED out_packets
    BY <1>4 DEF TestEmpty, StartWrite, BeginHeader, Send, outVars
  <2>2. At(IO, "push")' => At(IO, "push")
    <3>1. CASE t # IO
      BY <1>4, <3>1, PSendMoves DEF PSend
    <3>2. CASE t = IO
      BY <1>4, <3>2, PSendMoves, ThreadsAssumption DEF Returned
    <3>. QED
      BY <3>1, <3>2
  <2>. QED
    BY <1>3, <2>1, <2>2
<1>5. CASE \/ HandshakeOK \/ HandshakeError \/ Resume \/ OnPingHeader \/ OnPongHeader
           \/ OnOtherHeader \/ OnBodyRead \/ OnReadError \/ OnHeaderWritten
           \/ OnBodyWritten \/ WriteNext \/ CheckPong \/ CheckPing
           \/ \E part \in {"header", "body"} : OnWriteError(part)
  <2>1. CASE Resume \/ OnBodyWritten \/ WriteNext
    BY <2>1, IOMoves
  <2>2. CASE \E type : BeginSend(IO, type)
    BY <2>2, CallsAt
  <2>3. CASE UNCHANGED <<out_packets, call>>
    BY <1>3, <2>3 DEF At
  <2>. QED
    BY <1>5, <2>1, <2>2, <2>3 DEF HandshakeOK, HandshakeError, OnPingHeader, OnPongHeader,
       OnOtherHeader, OnBodyRead, OnReadError, OnHeaderWritten, CheckPong, CheckPing,
       OnWriteError, outVars, callVars
<1>6. CASE HeaderWritten \/ BodyWritten \/ ReadCompletes \/ PingExpires \/ PongExpires
           \/ UNCHANGED vars
  BY <1>3, <1>6 DEF HeaderWritten, BodyWritten, WriteCompletes, ReadCompletes, PingExpires,
     PongExpires, vars, outVars, callVars, At
<1>7. CASE \E t \in Threads : PSend(t)
  BY <1>1, <1>2, <1>4, <1>7 DEF PSend
<1>8. CASE \E t \in Senders : Send(t)
  <2>1. PICK t \in Senders : Send(t)
    BY <1>8
  <2>2. t \in Threads
    BY DEF Threads
  <2>. QED
    BY <1>4, <2>1, <2>2
<1>. QED
  BY <1>5, <1>6, <1>7, <1>8 DEF Next, Handle, Fail

(* The writer has these invariants whoever calls psend(), and when.         *)
THEOREM WriterInductive == Spec => []WInv
<1>1. Init => WInv
  <2>. SUFFICES ASSUME Init
                PROVE  WriterInv
    BY InitInv DEF WInv
  <2>1. /\ \A t \in Threads : call[t].at = "idle"
        /\ IO \in Threads
        /\ out_packets = <<>> /\ ~open
        /\ \A w \in Writes : writes[w] = 0
    BY DEF Init, Threads
  <2>2. Total(writes) = 0
    BY DEF Init, Total, Writes
  <2>3. BeforeHandshake /\ OnlyIOPops
    BY <2>1 DEF BeforeHandshake, OnlyIOPops, Waiting, WritesNone, Begins, At
  <2>4. OneWriter
    BY <2>1, <2>2 DEF OneWriter, InWriteHeader, At
  <2>5. NoneLeft /\ FirstWritten
    BY <2>1 DEF NoneLeft, FirstWritten, Waiting, At
  <2>. QED
    BY <2>3, <2>4, <2>5 DEF WriterInv
<1>2. WInv /\ [Next]_vars => WInv'
  BY StepType, StepControl, BeforeHandshakeStep, OneWriterStep, NoneLeftStep,
     FirstWrittenStep, OnlyIOPopsStep DEF WInv, IInv, WriterInv
<1>. QED
  BY <1>1, <1>2, PTL DEF Spec

(* Any number of threads in psend(), sending whenever they like, before the *)
(* handshake and after close(): the stream has two writes outstanding only  *)
(* after a push was overtaken.                                              *)
THEOREM TwoWritersOnlyByRace == Spec => []SingleWriter
<1>1. WInv => SingleWriter
  <2>. SUFFICES ASSUME WInv, "overtaken" \notin spoiled,
                       NEW v \in Writes, NEW w \in Writes,
                       writes[v] > 0, writes[w] > 0
                PROVE  v = w /\ writes[v] = 1
    BY DEF SingleWriter
  <2>1. /\ writes["header"] \in Nat /\ writes["body"] \in Nat
        /\ writes["headerDone"] \in Nat /\ writes["bodyDone"] \in Nat
    BY DEF WInv, IInv, TypeOK, OutOK, Writes
  <2>2. writes["header"] + writes["body"] + writes["headerDone"]
          + writes["bodyDone"] \in {0, 1}
    BY DEF WInv, WriterInv, OneWriter, Total
  <2>3. /\ v \in {"header", "body", "headerDone", "bodyDone"}
        /\ w \in {"header", "body", "headerDone", "bodyDone"}
    BY DEF Writes
  <2>4. CASE v = "header"
    BY <2>1, <2>2, <2>3, <2>4
  <2>5. CASE v = "body"
    BY <2>1, <2>2, <2>3, <2>5
  <2>6. CASE v = "headerDone"
    BY <2>1, <2>2, <2>3, <2>6
  <2>7. CASE v = "bodyDone"
    BY <2>1, <2>2, <2>3, <2>7
  <2>. QED
    BY <2>3, <2>4, <2>5, <2>6, <2>7
<1>. QED
  BY <1>1, WriterInductive, PTL

(* ... a packet in the queue of an open connection is stuck only after that *)
(* or after a packet was sent before the handshake.                         *)
THEOREM StuckOnlyByTwo == Spec => []NoStall
<1>1. WInv => NoStall
  <2>. SUFFICES ASSUME WInv, open, out_packets # <<>>, spoiled = {}, ~AboutToWrite
                PROVE  Writing
    BY DEF NoStall
  <2>1. Total(writes) = 1
    BY DEF WInv, WriterInv, NoneLeft
  <2>. QED
    BY <2>1, TotalWriting DEF WInv, IInv, TypeOK
<1>. QED
  BY <1>1, WriterInductive, PTL

(* ... and the packet being written, or about to be, stays at the front of  *)
(* the queue unless a push was overtaken.                                   *)
THEOREM BufferStays == Spec => []WriteHasBuffer
<1>1. WInv => WriteHasBuffer
  <2>. SUFFICES ASSUME WInv, "overtaken" \notin spoiled,
                       Writing \/ \E t \in Threads : InWriteHeader(t)
                PROVE  out_packets # <<>>
    BY DEF WriteHasBuffer
  <2>1. Writing => Total(writes) = 1
    BY TotalWriting DEF WInv, IInv, TypeOK, WriterInv, OneWriter
  <2>. QED
    BY <2>1 DEF WInv, WriterInv, OneWriter
<1>. QED
  BY <1>1, WriterInductive, PTL

(* When ssl_handshake() has sent its PING, that packet or one before it in  *)
(* the queue is being written, unless a thread came too early, whatever     *)
(* pushes were overtaken.                                                   *)
THEOREM HandshakeWrites == Spec => []HandshakeStartsWriter
<1>1. WInv => HandshakeStartsWriter
  BY DEF WInv, WriterInv, FirstWritten, UntilHandshake, HandshakeStartsWriter, Inside, At,
     AboutToWrite
<1>. QED
  BY <1>1, WriterInductive, PTL

-----------------------------------------------------------------------------
(* Threads that test is_open() before psend(), as those of the server do:   *)
(* nothing is queued before the handshake.                                  *)
LEMMA NothingEarlyStep ==
  ASSUME ChecksOpen, IInv, NothingEarly, [Next]_vars
  PROVE  NothingEarly'
<1>. SUFFICES ASSUME sock' = "connected"
              PROVE  out_packets' = <<>> /\ \A t \in Senders : At(t, "idle")'
  BY DEF NothingEarly
<1>a. /\ CallsOK /\ ControlInv /\ IO \in Threads
      /\ \A t \in Senders : t \in Threads \ {IO}
  BY ThreadsAssumption DEF IInv, TypeOK, ControlOK, Threads
<1>. USE <1>a
<1>1. sock = "connected"
  BY Bystanders DEF Bystander, Next, Handle, Fail, PSend, PushBack, StartWrite, BeginHeader,
     HeaderWritten, BodyWritten, WriteCompletes, OnHeaderWritten, OnBodyWritten, WriteNext,
     OnWriteError, Close, netVars
<1>2. /\ out_packets = <<>> /\ \A t \in Senders : At(t, "idle")
      /\ ~open /\ read = "none" /\ (At(IO, "idle") \/ At(IO, "popped"))
  BY <1>1 DEF NothingEarly, ControlInv, At
<1>3. ~\E t \in Threads : PSend(t)
  BY <1>2 DEF PSend, TestEmpty, PushBack, StartWrite, BeginHeader, At, Threads
<1>4. ~\E t \in Senders : Send(t)
  BY <1>2 DEF Send
<1>5. out_packets' = <<>>
  BY <1>2, <1>3, <1>4 DEF Next, Handle, Fail, HandshakeOK, Resume, OnPingHeader,
     OnPongHeader, OnOtherHeader, OnBodyRead, OnHeaderWritten, OnBodyWritten, WriteNext,
     CheckPong, CheckPing, HandshakeError, OnReadError, OnWriteError, ReadCompletes,
     HeaderWritten, BodyWritten, WriteCompletes, PingExpires, PongExpires, vars, outVars
<1>6. ASSUME NEW t \in Senders
      PROVE  At(t, "idle")'
  <2>1. CASE Resume \/ OnBodyWritten \/ WriteNext
    BY <1>2, <2>1, IOMoves
  <2>2. CASE \E type : BeginSend(IO, type)
    BY <1>2, <2>2, CallsAt
  <2>3. CASE UNCHANGED call
    BY <1>2, <2>3 DEF At
  <2>. QED
    BY <1>3, <1>4, <2>1, <2>2, <2>3 DEF Next, Handle, Fail, HandshakeOK, OnPingHeader,
       OnPongHeader, OnOtherHeader, OnBodyRead, OnHeaderWritten, CheckPong, CheckPing,
       HandshakeError, OnReadError, OnWriteError, ReadCompletes, HeaderWritten,
       BodyWritten, WriteCompletes, PingExpires, PongExpires, vars, callVars
<1>. QED
  BY <1>5, <1>6

(* A step that leaves a packet behind is the last of the race.              *)
LEMMA StallStep ==
  ASSUME IInv, OnlyIOPops, NothingEarly, Next, ~Stalled, Stalled'
  PROVE  \E t \in Senders : out_packets = <<>> /\ At(t, "push") /\ ~At(t, "push")'
<1>a. /\ IO \in Threads /\ \A t \in Senders : t \in Threads \ {IO}
      /\ \A t \in Threads : t = IO \/ t \in Senders
      /\ CallsOK /\ writes \in [Writes -> Nat]
      /\ "header" \in Writes /\ "body" \in Writes
      /\ "headerDone" \in Writes /\ "bodyDone" \in Writes
  BY ThreadsAssumption DEF IInv, TypeOK, OutOK, Threads, Writes
<1>b. open' /\ out_packets' # <<>> /\ ~Writing' /\ ~AboutToWrite'
  BY DEF Stalled
<1>c. open /\ out_packets # <<>> => Writing \/ AboutToWrite
  BY DEF Stalled
<1>. USE <1>a
<1>1. ASSUME NEW t \in Threads, PushBack(t)
      PROVE  t \in Senders /\ out_packets = <<>> /\ At(t, "push") /\ ~At(t, "push")'
  <2>1. /\ UNCHANGED <<open, writes>>
        /\ At(t, "pushFirst") \/ At(t, "push")
    BY <1>1 DEF PushBack, netVars
  <2>2. /\ \A p : At(t, p)' <=> p = (IF At(t, "pushFirst") THEN "write" ELSE Returned(t))
        /\ \A o \in Threads \ {t} : \A p : At(o, p)' <=> At(o, p)
    BY <1>1, PSendMoves DEF PSend
  <2>3. ~At(t, "pushFirst") /\ At(t, "push")
    BY <1>b, <2>1, <2>2 DEF AboutToWrite, InWriteHeader
  <2>4. AboutToWrite => AboutToWrite'
    BY <2>2, <2>3 DEF AboutToWrite, InWriteHeader, At
  <2>5. out_packets = <<>>
    BY <1>b, <1>c, <2>1, <2>4 DEF Writing
  <2>6. t # IO
    BY <2>3, <2>5 DEF OnlyIOPops, Waiting
  <2>7. ~At(t, "push")'
    BY <2>2, <2>3 DEF Returned
  <2>. QED
    BY <2>3, <2>5, <2>6, <2>7
<1>2. ~\E t \in Threads : StartWrite(t)
  <2>. SUFFICES ASSUME NEW t \in Threads, StartWrite(t)
                PROVE  FALSE
    OBVIOUS
  <2>1. open
    BY <1>b DEF StartWrite, netVars
  <2>2. At(t, "begin")'
    BY <2>1, PSendMoves
  <2>. QED
    BY <1>b, <2>2 DEF AboutToWrite, InWriteHeader
<1>3. ~\E t \in Threads : BeginHeader(t)
  BY <1>b, WritingOps DEF BeginHeader, Writing
<1>4. CASE Bystander
  <2>1. /\ UNCHANGED <<out_packets, writes>>
        /\ \A t \in Threads : \A place \in {"write", "begin", "popped"} : SamePlace(t, place)
        /\ open \/ sock = "connected"
    BY <1>b, <1>4, Bystanders
  <2>2. open
    BY <1>b, <2>1 DEF NothingEarly
  <2>3. AboutToWrite => AboutToWrite'
    BY <2>1 DEF AboutToWrite, InWriteHeader, SamePlace
  <2>. QED
    BY <1>b, <1>c, <2>1, <2>2, <2>3 DEF Writing
<1>5. ~OnBodyWritten
  BY <1>b, IOMoves DEF AboutToWrite
<1>6. ~\E part \in {"header", "body"} : OnWriteError(part)
  BY <1>b DEF OnWriteError, Close
<1>7. ~(HeaderWritten \/ BodyWritten)
  BY <1>b, WritingOps DEF HeaderWritten, BodyWritten, WriteCompletes, Writing
<1>8. ~OnHeaderWritten
  BY <1>b, WritingOps DEF OnHeaderWritten, WriteBody, Writing, netVars
<1>9. ~WriteNext
  BY <1>b, WritingOps DEF WriteNext, WriteHeader, Writing, netVars
<1>. QED
  BY <1>1, <1>2, <1>3, <1>4, <1>5, <1>6, <1>7, <1>8, <1>9
  DEF Bystander, Next, Handle, Fail, PSend

(* The queue of an open connection gets stuck in one way only, if all test  *)
(* is_open(): another thread found it not empty, and pushes after the io    *)
(* thread has popped all.                                                   *)
THEOREM StallsByRaceOnly == ChecksOpen /\ Spec => StallsOnlyByRace
<1>. SUFFICES ASSUME ChecksOpen
              PROVE  Spec => StallsOnlyByRace
  OBVIOUS
<1>1. Init => NothingEarly
  BY DEF Init, NothingEarly, At, Threads
<1>2. IInv /\ NothingEarly /\ [Next]_vars => NothingEarly'
  BY NothingEarlyStep
<1>3. ASSUME IInv, OnlyIOPops, NothingEarly, [Next]_vars
      PROVE  [(~Stalled /\ Stalled') =>
                \E t \in Senders :
                  out_packets = <<>> /\ At(t, "push") /\ ~At(t, "push")']_vars
  BY <1>3, StallStep
<1>4. WInv => IInv /\ OnlyIOPops
  BY DEF WInv, WriterInv
<1>. QED
  BY <1>1, <1>2, <1>3, <1>4, WriterInductive, PTL DEF Spec, StallsOnlyByRace

-----------------------------------------------------------------------------
(* A step after close() begins nothing, except the write of a thread that   *)
(* has tested `open` before.                                                *)
LEMMA ClosedStep ==
  ASSUME IInv, Next, ~open, sock = "closed"
  PROVE  /\ \/ writes'["header"] <= writes["header"]
            \/ \E t \in Senders : At(t, "begin") /\ ~At(t, "begin")'
         /\ writes'["body"] <= writes["body"]
         /\ read' # read => read' \notin {"header", "body"}
         /\ pong_timer'.waits <= pong_timer.waits
<1>a. /\ writes \in [Writes -> Nat] /\ pong_timer \in Timers
      /\ CallsOK /\ ControlInv
      /\ IO \in Threads /\ \A t \in Threads : t = IO \/ t \in Senders
      /\ "header" \in Writes /\ "body" \in Writes
      /\ "headerDone" \in Writes /\ "bodyDone" \in Writes
  BY DEF IInv, TypeOK, ControlOK, OutOK, TimersOK, Writes, Threads
<1>b. \A w, v \in Writes : EndWrite(writes, v)[w] <= writes[w]
  BY <1>a DEF EndWrite
<1>1. \/ writes' = writes
      \/ \E v \in Writes : writes' = EndWrite(writes, v)
      \/ \E t \in Threads : BeginHeader(t)
  BY DEF Next, Handle, Fail, PSend, HandshakeOK, Resume, OnPingHeader, OnPongHeader,
     OnOtherHeader, OnBodyRead, OnHeaderWritten, OnBodyWritten, WriteNext, CheckPong,
     CheckPing, HandshakeError, OnReadError, OnWriteError, TestEmpty, PushBack, StartWrite,
     Send, ReadCompletes, HeaderWritten, BodyWritten, WriteCompletes, PingExpires,
     PongExpires, WriteHeader, WriteBody, outVars, Writes
<1>2. read' = read \/ read' \in {"none", "headerRead", "bodyRead"}
  BY DEF Next, Handle, Fail, PSend, HandshakeOK, Resume, OnPingHeader, OnPongHeader,
     OnOtherHeader, OnBodyRead, OnHeaderWritten, OnBodyWritten, WriteNext, CheckPong,
     CheckPing, HandshakeError, OnReadError, OnWriteError, TestEmpty, PushBack, StartWrite,
     BeginHeader, Send, ReadCompletes, HeaderWritten, BodyWritten, WriteCompletes,
     PingExpires, PongExpires, NewRead, netVars
<1>3. pong_timer' \in {pong_timer, Cancel(pong_timer), RunHandler(pong_timer),
                       ExpiresAfter(pong_timer), Expired(pong_timer)}
  <2>1. ~(Resume /\ resume = "ssl_handshake")
    BY DEF Resume, IInv, ControlOK, ControlInv, Inside, At
  <2>. QED
    BY <2>1 DEF Next, Handle, Fail, PSend, HandshakeOK, Resume, OnPingHeader, OnPongHeader,
     OnOtherHeader, OnBodyRead, OnHeaderWritten, OnBodyWritten, WriteNext, CheckPong,
     CheckPing, HandshakeError, OnReadError, OnWriteError, TestEmpty, PushBack, StartWrite,
     BeginHeader, Send, ReadCompletes, HeaderWritten, BodyWritten, WriteCompletes,
     PingExpires, PongExpires, Close, PongActorStops, timerVars
<1>4. pong_timer'.waits <= pong_timer.waits
  BY <1>a, <1>3 DEF Cancel, RunHandler, ExpiresAfter, Expired, Timers
<1>5. ASSUME NEW t \in Threads, BeginHeader(t)
      PROVE  /\ writes'["body"] <= writes["body"]
             /\ \E o \in Senders : At(o, "begin") /\ ~At(o, "begin")'
  <2>1. t # IO
    BY <1>5 DEF BeginHeader, ControlInv, IInv, ControlOK
  <2>2. At(t, "begin") /\ ~At(t, "begin")'
    BY <1>a, <1>5, PSendMoves DEF BeginHeader, Returned
  <2>3. writes'["body"] = writes["body"]
    BY <1>a, <1>5 DEF BeginHeader, BeginWrite
  <2>. QED
    BY <1>a, <2>1, <2>2, <2>3
<1>. QED
  BY <1>a, <1>b, <1>1, <1>2, <1>4, <1>5

(* After close() the io thread begins nothing and check_pong() is not put   *)
(* to sleep, in whatever order the handlers that are left run and threads   *)
(* leave psend(); another thread begins a write only if it tested `open`    *)
(* before.                                                                  *)
THEOREM ClosedBeginsNothing == Spec => NoWorkAfterClose
<1>1. ASSUME IInv, [Next]_vars
      PROVE  [(~open /\ sock = "closed") =>
                /\ \/ writes'["header"] <= writes["header"]
                   \/ \E t \in Senders : At(t, "begin") /\ ~At(t, "begin")'
                /\ writes'["body"] <= writes["body"]
                /\ read' # read => read' \notin {"header", "body"}
                /\ pong_timer'.waits <= pong_timer.waits]_vars
  BY <1>1, ClosedStep
<1>. QED
  BY <1>1, Inductive, PTL DEF Spec, NoWorkAfterClose

=============================================================================
