------------------------------ MODULE Heartbeat ------------------------------
(***************************************************************************)
(* The PINGs, PONGs and deadlines of one TCPConnection, measured in time.  *)
(* ssl_handshake() sends a PING and gives the peer PongTimeout; each PONG  *)
(* sets ping_timer to PingAfter, and check_ping() then sends the next PING *)
(* and moves the deadline. A timer is the time left to its expiry; that of *)
(* last_ping is the time gone by. Handlers take no time, but the io thread *)
(* runs none of them while do_accept() serves a newcomer: the handshake    *)
(* blocks, and so does generateUUID(). TCPConnection has what this module  *)
(* leaves out: the other handlers, the write queue, the end of a           *)
(* connection whose socket is closed.                                      *)
(***************************************************************************)
EXTENDS Integers

CONSTANTS
  PingAfter,   (* from a PONG to the next PING: 5 s                        *)
  PongTimeout, (* from a PING to the deadline: 10 s                        *)
  MaxRTT,      (* a live peer's PONG is there as long after the PING       *)
  Lag          (* the longest do_accept() keeps the io thread              *)

ASSUME TimesAssumption ==
  /\ PingAfter \in Nat
  /\ PongTimeout \in Nat
  /\ MaxRTT \in Nat
  /\ Lag \in Nat

(* The deadline is moved when the next PING is sent, and not by the PONG, so*)
(* all of the cycle has to fit before it: the round trip, the pause, and the*)
(* io thread late for the PONG and again for the timer.                     *)
ASSUME CycleFits == MaxRTT + Lag + PingAfter + Lag < PongTimeout

VARIABLES
  sock,        (* "open", or "closed" by check_pong()                      *)
  ping_timer,
  ping_actor,  (* check_ping(): "waits" for ping_timer, or "none"          *)
  pong_timer,
  pong_actor,  (* check_pong(): "waits" for pong_timer, or "queued"        *)
  last_ping,
  latency,     (* latency_ms                                               *)
  pong,        (* the PONG to the last PING: "owed", "arrived", or "none"  *)
  peer,        (* "alive" or "silent"                                      *)
  silence,     (* history: for how long it has been silent                 *)
  blocked,     (* how much longer the io thread is in do_accept()          *)
  io           (* "rested" once it has run all there was since, or "busy"  *)

timerVars == <<ping_timer, ping_actor, pong_timer, pong_actor>>
peerVars == <<pong, peer, silence>>
ioVars == <<blocked, io>>
vars == <<sock, timerVars, last_ping, latency, peerVars, ioVars>>

-----------------------------------------------------------------------------
(* The peer, which is the same program, answers each PING once.             *)

PongArrives ==
  /\ sock = "open"
  /\ peer = "alive"
  /\ pong = "owed"
  /\ pong' = "arrived"
  /\ UNCHANGED <<sock, timerVars, last_ping, latency, peer, silence, ioVars>>

FallSilent ==
  /\ sock = "open"
  /\ peer = "alive"
  /\ peer' = "silent"
  /\ UNCHANGED <<sock, timerVars, last_ping, latency, pong, silence, ioVars>>

(* do_accept() serves another connection, which keeps the io thread busy.   *)
Accept ==
  /\ sock = "open"
  /\ io = "rested"
  /\ blocked' \in 1..Lag
  /\ io' = "busy"
  /\ UNCHANGED <<sock, timerVars, last_ping, latency, peerVars>>

-----------------------------------------------------------------------------
(* Handlers                                                                 *)

IoThreadFree == sock = "open" /\ blocked = 0

OnPong ==
  /\ IoThreadFree
  /\ pong = "arrived"
  /\ pong' = "none"
  /\ latency' = last_ping
  /\ ping_timer' = PingAfter
  /\ ping_actor' = "waits"
  /\ UNCHANGED <<sock, pong_timer, pong_actor, last_ping, peer, silence, ioVars>>

PingDue == ping_actor = "waits" /\ ping_timer <= 0

(* Mutant: the deadline is left where it is.                                *)
CheckPing_KeepsDeadline ==
  /\ IoThreadFree
  /\ PingDue
  /\ ping_actor' = "none"
  /\ pong' = "owed"
  /\ last_ping' = 0
  /\ UNCHANGED <<sock, ping_timer, pong_timer, pong_actor, latency, peer,
                 silence, ioVars>>

(* Mutant: write_header() does not record when the PING leaves.             *)
CheckPing_KeepsLastPing ==
  /\ IoThreadFree
  /\ PingDue
  /\ ping_actor' = "none"
  /\ pong' = "owed"
  /\ pong_timer' = PongTimeout
  /\ pong_actor' = "queued"
  /\ UNCHANGED <<sock, ping_timer, last_ping, latency, peer, silence, ioVars>>

(* check_ping(): to move the deadline cancels the wait, so check_pong() runs*)
CheckPing ==
  /\ IoThreadFree
  /\ PingDue
  /\ ping_actor' = "none"
  /\ pong' = "owed"
  /\ last_ping' = 0
  /\ pong_timer' = PongTimeout
  /\ pong_actor' = "queued"
  /\ UNCHANGED <<sock, ping_timer, latency, peer, silence, ioVars>>

DeadlinePassed == pong_timer <= 0
PongDue == pong_actor = "queued" \/ (pong_actor = "waits" /\ DeadlinePassed)

(* Mutant: check_pong() is not put back to sleep.                           *)
CheckPong_Ends ==
  /\ IoThreadFree
  /\ PongDue
  /\ pong_actor' = "none"
  /\ sock' = IF DeadlinePassed THEN "closed" ELSE "open"
  /\ UNCHANGED <<ping_timer, ping_actor, pong_timer, last_ping, latency, peerVars,
                 ioVars>>

CheckPong ==
  /\ IoThreadFree
  /\ PongDue
  /\ pong_actor' = "waits"
  /\ sock' = IF DeadlinePassed THEN "closed" ELSE "open"
  /\ UNCHANGED <<ping_timer, ping_actor, pong_timer, last_ping, latency, peerVars,
                 ioVars>>

-----------------------------------------------------------------------------
(* A second goes by. None does while the io thread is free and has something*)
(* to run, nor while a live peer should have answered.                      *)

HandlerReady == pong = "arrived" \/ PingDue \/ PongDue

Tick ==
  /\ sock = "open"
  /\ blocked = 0 => ~HandlerReady
  /\ peer = "alive" /\ pong = "owed" => last_ping < MaxRTT
  /\ last_ping' = last_ping + 1
  /\ ping_timer' = ping_timer - 1
  /\ pong_timer' = pong_timer - 1
  /\ silence' = IF peer = "silent" THEN silence + 1 ELSE 0
  /\ blocked' = IF blocked = 0 THEN 0 ELSE blocked - 1
  /\ io' = IF blocked = 0 THEN "rested" ELSE "busy"
  /\ UNCHANGED <<sock, ping_actor, pong_actor, latency, pong, peer>>

(* Nothing is measured once the socket is closed.                           *)
Over == sock = "closed" /\ UNCHANGED vars

-----------------------------------------------------------------------------
(* What ssl_handshake() leaves behind                                       *)
Init ==
  /\ sock = "open"
  /\ ping_timer = 0
  /\ ping_actor = "none"
  /\ pong_timer = PongTimeout
  /\ pong_actor = "waits"
  /\ last_ping = 0
  /\ latency = 0
  /\ pong = "owed"
  /\ peer = "alive"
  /\ silence = 0
  /\ blocked = 0
  /\ io = "rested"

Next ==
  \/ PongArrives
  \/ FallSilent
  \/ Accept
  \/ OnPong
  \/ CheckPing
  \/ CheckPong
  \/ Tick
  \/ Over

Spec == Init /\ [][Next]_vars

-----------------------------------------------------------------------------
TypeOK ==
  /\ sock \in {"open", "closed"}
  /\ ping_timer \in Int
  /\ ping_actor \in {"none", "waits"}
  /\ pong_timer \in Int
  /\ pong_actor \in {"queued", "waits"}
  /\ last_ping \in Nat
  /\ latency \in Nat
  /\ pong \in {"owed", "arrived", "none"}
  /\ peer \in {"alive", "silent"}
  /\ silence \in Nat
  /\ blocked \in 0..Lag
  /\ io \in {"rested", "busy"}

(* A peer that answers in time keeps its connection, although its PONG does *)
(* not move the deadline: check_ping() always gets to it first, however the *)
(* joins of other peers delay the io thread, as long as CycleFits.          *)
LivePeerKept == peer = "alive" => sock = "open"

(* The connection to a peer that falls silent, at any moment, is cut after a*)
(* pause, a timeout and at most three times the lag of the io thread: the   *)
(* last PONG, the next PING and the deadline may each find it busy.         *)
SilentPeerCut ==
  sock = "open" => silence <= PingAfter + PongTimeout + 3 * Lag

(* latency() is the time the last PONG took, plus the lag of the io thread. *)
LatencyMeasured == latency <= MaxRTT + Lag

-----------------------------------------------------------------------------
(* What of the time until the deadline is used up, phase by phase: waiting  *)
(* for the PONG, for the io thread to see it, for check_ping() to run.      *)

(* Since the io thread last was free all that has become ready has waited no*)
(* longer than do_accept() took.                                            *)
LagOK(overdue) ==
  /\ overdue + blocked <= Lag
  /\ io = "rested" => overdue <= 0

Clocks ==
  /\ pong_timer + last_ping = PongTimeout
  /\ blocked > 0 => io = "busy"
  /\ pong = "none" <=> ping_actor = "waits"
  /\ peer = "alive" => silence = 0

CycleOK ==
  /\ peer = "alive" /\ pong = "owed" => last_ping <= MaxRTT
  /\ pong = "arrived" => LagOK(last_ping - MaxRTT)
  /\ pong = "none" =>
       /\ LagOK(-ping_timer)
       /\ last_ping + ping_timer <= MaxRTT + Lag + PingAfter

SilenceOK ==
  /\ pong = "owed" =>
       /\ LagOK(-pong_timer)
       /\ silence + pong_timer <= PingAfter + PongTimeout + 2 * Lag
  /\ pong = "arrived" => LagOK(silence)
  /\ pong = "none" => silence + ping_timer <= PingAfter + Lag

(* The inductive invariant behind the three properties.                     *)
Cycle == sock = "open" => Clocks /\ CycleOK /\ SilenceOK

=============================================================================
