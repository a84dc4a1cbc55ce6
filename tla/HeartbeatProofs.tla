--------------------------- MODULE HeartbeatProofs ---------------------------
(* Proofs about Heartbeat, for all times that satisfy CycleFits.            *)
EXTENDS Heartbeat, TLAPS

(* Every variable stays in its range.                                       *)
THEOREM TypeCorrect == Spec => []TypeOK
<1>1. Init => TypeOK
  BY TimesAssumption DEF Init, TypeOK
<1>2. TypeOK /\ [Next]_vars => TypeOK'
  <2> SUFFICES ASSUME TypeOK, [Next]_vars PROVE TypeOK'
    OBVIOUS
  <2> USE TimesAssumption DEF TypeOK
  <2>1. CASE PongArrives
    BY <2>1 DEF PongArrives, timerVars, ioVars
  <2>2. CASE FallSilent
    BY <2>2 DEF FallSilent, timerVars, ioVars
  <2>3. CASE Accept
    BY <2>3 DEF Accept, timerVars, peerVars
  <2>4. CASE OnPong
    BY <2>4 DEF OnPong, ioVars
  <2>5. CASE CheckPing
    BY <2>5 DEF CheckPing, ioVars
  <2>6. CASE CheckPong
    BY <2>6 DEF CheckPong, peerVars, ioVars
  <2>7. CASE Tick
    BY <2>7 DEF Tick
  <2>8. CASE Over \/ UNCHANGED vars
    BY <2>8 DEF Over, vars, timerVars, peerVars, ioVars
  <2> QED
    BY <2>1, <2>2, <2>3, <2>4, <2>5, <2>6, <2>7, <2>8 DEF Next
<1> QED
  BY <1>1, <1>2, PTL DEF Spec

-----------------------------------------------------------------------------
(* A live peer's connection is never past its deadline, in whatever phase   *)
(* of the cycle check_pong() runs.                                          *)
LEMMA DeadlineAhead ==
  ASSUME TypeOK, sock = "open", Clocks, CycleOK, peer = "alive", blocked = 0
  PROVE  ~DeadlinePassed
<1> USE TimesAssumption, CycleFits DEF TypeOK, Clocks, CycleOK, LagOK
<1>1. CASE pong = "owed"
  BY <1>1 DEF DeadlinePassed
<1>2. CASE pong = "arrived"
  BY <1>2 DEF DeadlinePassed
<1>3. CASE pong = "none"
  BY <1>3 DEF DeadlinePassed
<1> QED
  BY <1>1, <1>2, <1>3

(* The invariant of the three properties: the cycle, and a live peer's      *)
(* connection open.                                                         *)
Inv == TypeOK /\ Cycle /\ LivePeerKept /\ LatencyMeasured

LEMMA InitInv == Init => Inv
BY TimesAssumption, CycleFits
   DEF Init, Inv, TypeOK, Cycle, Clocks, CycleOK, SilenceOK, LagOK,
       LivePeerKept, LatencyMeasured

(* Every step of the io thread, the peer or the clock keeps the cycle.      *)
LEMMA StepInv ==
  ASSUME Inv, TypeOK', [Next]_vars
  PROVE  Inv'
<1> USE TimesAssumption, CycleFits
    DEF Inv, TypeOK, Cycle, Clocks, CycleOK, SilenceOK, LagOK, LivePeerKept,
        LatencyMeasured
<1>1. CASE PongArrives
  BY <1>1 DEF PongArrives, timerVars, ioVars
<1>2. CASE FallSilent
  BY <1>2 DEF FallSilent, timerVars, ioVars
<1>3. CASE Accept
  <2>1. PICK b \in 1..Lag : blocked' = b
    BY <1>3 DEF Accept
  <2>2. b \in Nat /\ b > 0 /\ b <= Lag
    BY <2>1
  <2> QED
    BY <1>3, <2>1, <2>2 DEF Accept, timerVars, peerVars
<1>4. CASE OnPong
  BY <1>4 DEF OnPong, IoThreadFree, ioVars
<1>5. CASE CheckPing
  BY <1>5 DEF CheckPing, IoThreadFree, PingDue, ioVars
<1>6. CASE CheckPong
  <2>1. CASE DeadlinePassed
    <3>1. peer = "silent" /\ sock' = "closed" /\ UNCHANGED <<peer, latency>>
      BY <1>6, <2>1, DeadlineAhead DEF CheckPong, IoThreadFree, peerVars
    <3> QED
      BY <3>1
  <2>2. CASE ~DeadlinePassed
    BY <1>6, <2>2 DEF CheckPong, IoThreadFree, peerVars, ioVars
  <2> QED
    BY <2>1, <2>2
<1>7. CASE Tick
  <2> USE <1>7 DEF Tick, HandlerReady, PingDue, PongDue, DeadlinePassed
  <2>1. CASE pong = "owed"
    BY <2>1
  <2>2. CASE pong = "arrived"
    BY <2>2
  <2>3. CASE pong = "none"
    BY <2>3
  <2> QED
    BY <2>1, <2>2, <2>3
<1>8. CASE Over \/ UNCHANGED vars
  BY <1>8 DEF Over, vars, timerVars, peerVars, ioVars
<1> QED
  BY <1>1, <1>2, <1>3, <1>4, <1>5, <1>6, <1>7, <1>8 DEF Next

(* The cycle always has the shape the properties follow from.               *)
THEOREM InvAlways == Spec => []Inv
<1>1. Inv /\ [Next]_vars /\ TypeOK' => Inv'
  BY StepInv
<1> QED
  BY InitInv, <1>1, TypeCorrect, PTL DEF Spec

(* A peer that answers within MaxRTT is never dropped: see LivePeerKept.    *)
THEOREM LivePeersKept == Spec => []LivePeerKept
<1>1. Inv => LivePeerKept
  BY DEF Inv
<1> QED
  BY <1>1, InvAlways, PTL

(* A peer that falls silent is cut off in time: see SilentPeerCut.          *)
THEOREM SilentPeersCut == Spec => []SilentPeerCut
<1>1. ASSUME Inv, sock = "open"
      PROVE  silence <= PingAfter + PongTimeout + 3 * Lag
  <2> USE <1>1, TimesAssumption DEF Inv, TypeOK, Cycle, CycleOK, SilenceOK, LagOK
  <2>1. CASE pong = "owed"
    BY <2>1
  <2>2. CASE pong = "arrived"
    BY <2>2
  <2>3. CASE pong = "none"
    BY <2>3
  <2> QED
    BY <2>1, <2>2, <2>3
<1>2. Inv => SilentPeerCut
  BY <1>1 DEF SilentPeerCut
<1> QED
  BY <1>2, InvAlways, PTL

(* What latency() returns is bounded by what it is to measure.              *)
THEOREM LatencyIsMeasured == Spec => []LatencyMeasured
<1>1. Inv => LatencyMeasured
  BY DEF Inv
<1> QED
  BY <1>1, InvAlways, PTL

=============================================================================
