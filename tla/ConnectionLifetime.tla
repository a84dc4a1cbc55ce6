-------------------------- MODULE ConnectionLifetime --------------------------
(***************************************************************************)
(* Who keeps a TCPConnection of the server alive, and when its destructor  *)
(* runs. The handlers of reads and writes hold a shared_ptr (`self`), so   *)
(* does a thread inside psend(); the handlers of the two timers are bound  *)
(* to a raw `this` and hold nothing. Besides, the set `connections`, the   *)
(* packets in in_packets and do_accept() hold it until the last of them    *)
(* lets go, which the server does once it has found it closed. A handler of*)
(* a timer that runs after the destructor reads freed memory: what it does *)
(* is undefined, and this module ends there.                               *)
(***************************************************************************)
EXTENDS TCPConnection

VARIABLES
  held,        (* the server has a shared_ptr                              *)
  object       (* "whole"; "freed" after ~TCPConnection(); "undefined" when*)
               (* a handler has used it after that                         *)

lifetimeVars == <<vars, held, object>>

Live(A) == object = "whole" /\ A /\ UNCHANGED <<held, object>>

(* psend() is called by who holds the connection.                           *)
Step == Live(Next) /\ (held \/ sent' = sent)

(* psend_all() or psend_to() has erased it, and its packets are handled.    *)
Drop ==
  /\ held
  /\ ~open
  /\ sock # "connected"
  /\ held' = FALSE
  /\ UNCHANGED <<vars, object>>

Referenced ==
  \/ held
  \/ read # "none"
  \/ \E w \in Writes : writes[w] > 0
  \/ \E t \in Threads : ~At(t, "idle")

(* The last shared_ptr is gone. The destructors of the timers cancel what   *)
(* waits, so handlers bound to this connection still come.                  *)
Destroy ==
  /\ object = "whole"
  /\ ~Referenced
  /\ object' = "freed"
  /\ ping_timer' = Cancel(ping_timer)
  /\ pong_timer' = Cancel(pong_timer)
  /\ UNCHANGED <<netVars, outVars, callVars, held>>

(* check_ping() or check_pong() reads `open` of what was the connection.    *)
TimerRunsFreed ==
  /\ object = "freed"
  /\ ping_timer.queued + pong_timer.queued > 0
  /\ object' = "undefined"
  /\ UNCHANGED <<vars, held>>

LifetimeInit == Init /\ held = TRUE /\ object = "whole"

LifetimeNext == Step \/ Drop \/ Destroy \/ TimerRunsFreed

(* As in TCPConnection; and a destructor is not put off.                    *)
LifetimeSpec ==
  /\ LifetimeInit
  /\ [][LifetimeNext]_lifetimeVars
  /\ WF_vars(Live(Handle))
  /\ \A t \in Threads : WF_vars(Live(PSend(t)))
  /\ WF_vars(Live(HeaderWritten))
  /\ WF_vars(Live(BodyWritten))
  /\ WF_vars(Live(sock = "closed" /\ Fail))
  /\ WF_vars(Live(PingExpires))
  /\ WF_vars(Live(PongExpires))
  /\ WF_lifetimeVars(Destroy)

-----------------------------------------------------------------------------
Quiet ==
  /\ ~open
  /\ read = "none"
  /\ ~Writing
  /\ Actors(ping_timer) = 0
  /\ Actors(pong_timer) = 0

(* A header that Packet::S() refuses has ended the reading, and no handler  *)
(* of a read is left to notice that the socket is closed.                   *)
Stranded == open /\ sock = "closed" /\ temp = "INVALID" /\ read = "none"

(* A peer that falls silent, as MaxRead makes every peer do, is noticed: the*)
(* connection is closed and every handler that refers to it comes to an end,*)
(* unless it is destroyed before; except that an invalid header leaves it   *)
(* open for ever.                                                           *)
SilentPeerDropped == open ~> (Quiet \/ Stranded \/ object # "whole")

(* A connection the server has let go is destroyed: no handler keeps it, and*)
(* with it itself, alive for ever, whatever threads and timers are still    *)
(* busy with it.                                                            *)
Reclaimed == ~held ~> object # "whole"

=============================================================================
