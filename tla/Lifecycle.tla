------------------------------ MODULE Lifecycle ------------------------------
(***************************************************************************)
(* The server process and the client processes from start() to the end:    *)
(* TCPServer::start() and stop(), TCPClient::connect(), start() and stop(),*)
(* each with its threads, and what holds them together, the handshake that *)
(* blocks the io thread of both sides until the other one does its part.   *)
(* io_context::stop() lets the handler that runs finish, and stop() joins. *)
(* Nothing in the source calls TCPServer::stop() while start() runs; here  *)
(* on_tick() may, as that of the client calls TCPClient::stop().           *)
(***************************************************************************)
EXTENDS Naturals

CONSTANTS
  Clients,     (* processes that run this repository's client              *)
  Silent,      (* peers that connect and never send a byte                 *)
  Nobody,
  MaxPackets   (* bound: packets in in_packets                             *)

Peers == Clients \cup Silent

ASSUME PeersAssumption ==
  /\ Clients \cap Silent = {}
  /\ Nobody \notin Peers
  /\ MaxPackets \in Nat

VARIABLES
  alive,       (* TCPServer::alive                                         *)
  server,      (* its main thread: "ticks" in start(), "joins io" and      *)
               (* "joins update" in stop(); "exited"                       *)
  io,          (* its ctx_thread: "runs", "handshake", "ended"             *)
  serving,     (* the peer of that handshake                               *)
  update,      (* its update_thread: "loops"; "waits", "window" and        *)
               (* "asleep" in in_packets.wait(); "handles"; "ended"        *)
  in_packets,  (* how many                                                 *)
  client,      (* each client's main thread: "new", "connecting", "ticks", *)
               (* "joins", "exited"                                        *)
  client_io,   (* its ctx_thread: "none", "runs", "handshake", "ended"     *)
  link         (* each peer's TCP connection: "none", "backlog" until it   *)
               (* is accepted, "left" if the peer goes away before that,   *)
               (* "accepted", "secure" after the handshake, "broken"       *)

serverVars == <<alive, server, io, serving, update, in_packets>>
clientVars == <<client, client_io>>
vars == <<serverVars, clientVars, link>>

Set(f, p, value) == [f EXCEPT ![p] = value]

-----------------------------------------------------------------------------
(* TCPServer: the io thread                                                 *)

Serve(p, linked) ==
  /\ io' = "handshake"
  /\ serving' = p
  /\ link' = Set(link, p, linked)

(* Mutant: do_accept() is not called again.                                 *)
Accept_Once(p) ==
  /\ io = "runs"
  /\ alive
  /\ \A q \in Peers : link[q] \in {"none", "backlog", "left"}
  /\ link[p] = "backlog"
  /\ Serve(p, "accepted")
  /\ UNCHANGED <<alive, server, update, in_packets, clientVars>>

(* do_accept(): the handshake begins. With a peer that has gone away it is  *)
(* bound to fail, unless remote_endpoint() throws before: that is caught.   *)
Accept(p) ==
  /\ io = "runs"
  /\ alive
  /\ \/ link[p] = "backlog" /\ Serve(p, "accepted")
     \/ link[p] = "left" /\ Serve(p, "broken")
     \/ /\ link[p] = "left"
        /\ link' = Set(link, p, "broken")
        /\ UNCHANGED <<io, serving>>
  /\ UNCHANGED <<alive, server, update, in_packets, clientVars>>

(* It ends with the other side's; then do_accept() waits for the next one.  *)
HandshakeDone(c) ==
  /\ io = "handshake" /\ serving = c
  /\ client_io[c] = "handshake"
  /\ io' = "runs"
  /\ serving' = Nobody
  /\ client_io' = Set(client_io, c, "runs")
  /\ link' = Set(link, c, "secure")
  /\ UNCHANGED <<alive, server, update, in_packets, client>>

(* The process ends, and its connections with it.                           *)
Disconnect == link' = [p \in Peers |-> IF link[p] = "none" THEN "none" ELSE "broken"]

Dies ==
  /\ server' = "exited"
  /\ alive' = FALSE
  /\ io' = "ended" /\ serving' = Nobody
  /\ update' = "ended"
  /\ Disconnect
  /\ UNCHANGED <<in_packets, clientVars>>

(* The other side is gone: on_join() goes on, finds the connection closed   *)
(* and dereferences an entity that is not there (Server!NullEntityTwoWays). *)
HandshakeFails ==
  /\ io = "handshake"
  /\ link[serving] = "broken"
  /\ Dies

(* The process is killed.                                                   *)
Kill ==
  /\ server # "exited"
  /\ Dies

(* A packet of some connection is pushed to in_packets, which wakes wait(). *)
Push ==
  /\ io = "runs"
  /\ alive
  /\ \E p \in Peers : link[p] = "secure"
  /\ in_packets < MaxPackets
  /\ in_packets' = in_packets + 1
  /\ update' = IF update = "asleep" THEN "waits" ELSE update
  /\ UNCHANGED <<alive, server, io, serving, clientVars, link>>

(* Mutant: run() goes on until it is out of work, of which there is always  *)
(* an accept.                                                               *)
RunReturns_OutOfWork == FALSE

(* The io_context is stopped: run() returns.                                *)
RunReturns ==
  /\ io = "runs"
  /\ ~alive
  /\ io' = "ended"
  /\ UNCHANGED <<alive, server, serving, update, in_packets, clientVars, link>>

-----------------------------------------------------------------------------
(* The update thread: `while (alive) on_update();`                          *)

UpdateGoto(place) ==
  /\ update' = place
  /\ UNCHANGED <<alive, server, io, serving, clientVars, link>>

(* Mutant: `alive` is not looked at.                                        *)
UpdateLoops_Forever ==
  /\ update = "loops"
  /\ UpdateGoto("waits")
  /\ UNCHANGED in_packets

UpdateLoops ==
  /\ update = "loops"
  /\ UpdateGoto(IF alive THEN "waits" ELSE "ended")
  /\ UNCHANGED in_packets

(* wait() looks whether the queue is empty, then sleeps: a push_back() in   *)
(* between signals nobody, and the packet stays there (see AsyncQueue).     *)
UpdateWaits ==
  /\ update = "waits"
  /\ UpdateGoto(IF in_packets = 0 THEN "window" ELSE "handles")
  /\ UNCHANGED in_packets

UpdateSleeps ==
  /\ update = "window"
  /\ UpdateGoto("asleep")
  /\ UNCHANGED in_packets

(* A condition variable may wake up for no reason.                          *)
UpdateWakes ==
  /\ update = "asleep"
  /\ UpdateGoto("waits")
  /\ UNCHANGED in_packets

UpdateHandles ==
  /\ update = "handles"
  /\ in_packets' \in 0..in_packets - 1
  /\ UpdateGoto("loops")

-----------------------------------------------------------------------------
(* TCPServer::stop(), from on_tick() on the main thread                     *)

Stop ==
  /\ server = "ticks"
  /\ alive' = FALSE
  /\ server' = "joins io"
  /\ UNCHANGED <<io, serving, update, in_packets, clientVars, link>>

JoinIo ==
  /\ server = "joins io"
  /\ io = "ended"
  /\ server' = "joins update"
  /\ UNCHANGED <<alive, io, serving, update, in_packets, clientVars, link>>

(* stop() returns, and so do start() and main().                            *)
JoinUpdate ==
  /\ server = "joins update"
  /\ update = "ended"
  /\ server' = "exited"
  /\ Disconnect
  /\ UNCHANGED <<alive, io, serving, update, in_packets, clientVars>>

-----------------------------------------------------------------------------
(* TCPClient                                                                *)

(* connect(): async_connect() is begun; nothing runs its handler yet. The   *)
(* system connects, even to a server that does not accept any more.         *)
Connect(c) ==
  /\ client[c] = "new"
  /\ client' = Set(client, c, "connecting")
  /\ link' = Set(link, c, IF server = "exited" THEN "broken" ELSE "backlog")
  /\ UNCHANGED <<serverVars, client_io>>

Start(c) ==
  /\ client[c] = "connecting"
  /\ client' = Set(client, c, "ticks")
  /\ client_io' = Set(client_io, c, "runs")
  /\ UNCHANGED <<serverVars, link>>

(* The handler of async_connect(), ssl_handshake() whatever the error, ...  *)
ClientHandshake(c) ==
  /\ client_io[c] = "runs"
  /\ client[c] = "ticks"
  /\ link[c] \in {"backlog", "accepted"}
  /\ client_io' = Set(client_io, c, "handshake")
  /\ UNCHANGED <<serverVars, client, link>>

(* ... which fails at once or later if there is no connection (any more).   *)
ClientHandshakeFails(c) ==
  /\ client_io[c] = "handshake"
  /\ link[c] = "broken"
  /\ client_io' = Set(client_io, c, "runs")
  /\ UNCHANGED <<serverVars, client, link>>

(* run() returns: it is stopped, or without a connection out of work.       *)
ClientRunReturns(c) ==
  /\ client_io[c] = "runs"
  /\ client[c] = "joins" \/ link[c] = "broken"
  /\ client_io' = Set(client_io, c, "ended")
  /\ UNCHANGED <<serverVars, client, link>>

(* SDL_QUIT: on_tick() calls stop().                                        *)
ClientStop(c) ==
  /\ client[c] = "ticks"
  /\ client' = Set(client, c, "joins")
  /\ UNCHANGED <<serverVars, client_io, link>>

(* Mutant: stop() waits until the connection is closed.                     *)
ClientJoin_WaitsForClose(c) ==
  /\ client[c] = "joins"
  /\ client_io[c] = "ended"
  /\ link[c] = "broken"
  /\ client' = Set(client, c, "exited")
  /\ UNCHANGED <<serverVars, client_io, link>>

(* The client's process ends, and its connection with it.                   *)
Leave(p) == link' = Set(link, p, IF link[p] = "backlog" THEN "left" ELSE "broken")

(* stop(), start() and main() return.                                       *)
ClientJoin(c) ==
  /\ client[c] = "joins"
  /\ client_io[c] = "ended"
  /\ client' = Set(client, c, "exited")
  /\ Leave(c)
  /\ UNCHANGED <<serverVars, client_io>>

ClientKill(c) ==
  /\ client[c] \in {"connecting", "ticks", "joins"}
  /\ client' = Set(client, c, "exited")
  /\ client_io' = Set(client_io, c, "ended")
  /\ Leave(c)
  /\ UNCHANGED serverVars

(* A peer that never sends a byte connects, or goes away.                   *)
SilentPeer(p) ==
  /\ \/ link[p] = "none" /\ server # "exited" /\ link' = Set(link, p, "backlog")
     \/ link[p] \in {"backlog", "accepted"} /\ Leave(p)
  /\ UNCHANGED <<serverVars, clientVars>>

-----------------------------------------------------------------------------
Init ==
  /\ alive = TRUE
  /\ server = "ticks"
  /\ io = "runs"
  /\ serving = Nobody
  /\ update = "loops"
  /\ in_packets = 0
  /\ client = [c \in Clients |-> "new"]
  /\ client_io = [c \in Clients |-> "none"]
  /\ link = [p \in Peers |-> "none"]

(* What the threads do of themselves.                                       *)
ServerRuns ==
  \/ HandshakeFails
  \/ RunReturns
  \/ JoinIo
  \/ JoinUpdate

UpdateRuns == UpdateLoops \/ UpdateWaits \/ UpdateSleeps \/ UpdateHandles

ClientRuns(c) ==
  \/ Start(c)
  \/ HandshakeDone(c)
  \/ ClientHandshake(c)
  \/ ClientHandshakeFails(c)
  \/ ClientRunReturns(c)
  \/ ClientJoin(c)

Next ==
  \/ ServerRuns
  \/ UpdateRuns
  \/ UpdateWakes
  \/ Push
  \/ Stop
  \/ Kill
  \/ \E p \in Peers : Accept(p)
  \/ \E c \in Clients : ClientRuns(c) \/ Connect(c) \/ ClientStop(c) \/ ClientKill(c)
  \/ \E p \in Silent : SilentPeer(p)

Spec == Init /\ [][Next]_vars

(* Every thread that can go on does, and every connection in the backlog is *)
(* accepted. Nobody has to connect, send, or stop.                          *)
FairSpec ==
  /\ Spec
  /\ WF_vars(ServerRuns)
  /\ WF_vars(UpdateRuns)
  /\ \A p \in Peers : WF_vars(Accept(p))
  /\ \A c \in Clients : WF_vars(ClientRuns(c))

-----------------------------------------------------------------------------
(* The server's io thread is in the handshake of a peer that says nothing.  *)
HeldUp == io = "handshake" /\ serving \in Silent

(* tcp_server.h:43: stop() is "a blocking call which terminates the io run  *)
(* thread". It does, unless a silent peer has that thread in a handshake,   *)
(* for which no deadline is set.                                            *)
StopEndsIoThread == server = "joins io" ~> (server # "joins io" \/ []HeldUp)

(* stop() goes on to join the update thread, and returns unless that one is *)
(* in in_packets.wait() already, with packets or without: nobody is left to *)
(* push or to notify(). From anywhere else it comes back and sees `alive`.  *)
InWait == update \in {"waits", "window", "asleep"}
StopReturns ==
  /\ server = "joins update" /\ ~InWait ~> server = "exited"
  /\ server = "joins update" ~> (server = "exited" \/ []InWait)

(* The client is in a handshake nobody on the other side takes up: the      *)
(* server's io thread has ended or is held up, the process is still there.  *)
Unserved(c) ==
  /\ client_io[c] = "handshake"
  /\ server # "exited"
  /\ io = "ended" \/ HeldUp

(* TCPClient.h:42: stop() is "a blocking call which terminates all active   *)
(* server threads": a player who quits gets out, whatever the state of the  *)
(* connection, unless the client waits in such a handshake.                 *)
ClientStopReturns ==
  \A c \in Clients : client[c] = "joins" ~> (client[c] = "exited" \/ []Unserved(c))

(* A client that starts is served, although one io thread shakes hands with *)
(* all one by one, unless it gives up first, the server ends, or a silent   *)
(* peer is in between.                                                      *)
ClientServed ==
  \A c \in Clients :
    client[c] = "ticks" ~>
      (link[c] = "secure" \/ client[c] # "ticks" \/ ~alive \/ []HeldUp)

=============================================================================
