-------------------------------- MODULE Server --------------------------------
(***************************************************************************)
(* The game server: Server/network/tcp_server.cpp and the Server class     *)
(* built on it. Who is connected, which entities exist, and what every     *)
(* client has been told of them. Two threads call in: the io thread, which *)
(* accepts connections (on_join), and the update thread, which handles     *)
(* packets (on_packet). psend_to() and psend_all() find closed connections *)
(* and call on_quit(), which calls psend_all(): each thread has a stack of *)
(* calls, and a step is what a call does between two calls of its own or   *)
(* two accesses to `connections`. A psend() on an open connection arrives: *)
(* TCPConnection says when.                                                *)
(***************************************************************************)
EXTENDS Naturals, Sequences, FiniteSets, Functions

CONSTANTS
  Conns,       (* connections there can be, each accepted once at most     *)
  UUIDs,       (* what generateUUID() can return                           *)
  End,         (* connections.end(), and no uuid                           *)
  MaxStale,    (* bound: connections closed whose on_quit() is not over    *)
  MaxPlayers,  (* bound: connections open at once                          *)
  MaxPackets   (* bound: packets handled                                   *)

Threads == {"io", "update"}

ASSUME EndAssumption == End \notin Conns \cup UUIDs
ASSUME BoundsAssumption ==
  {MaxStale, MaxPlayers, MaxPackets} \subseteq Nat

(* generateUUID() always finds one that is free.                            *)
ASSUME UUIDsAssumption == Cardinality(UUIDs) >= Cardinality(Conns)

VARIABLES
  accepted,    (* connections do_accept() has made                         *)
  open,        (* the connections whose is_open() is true                  *)
  connections, (* the set of that name, in the order it is iterated over   *)
  uuid,        (* TCPConnection::uuid                                      *)
  entities,    (* the keys of uuid_entity_map                              *)
  stack,       (* the calls each thread is in, the innermost first         *)
  known,       (* entities each client was told of and not told to delete  *)
  torn,        (* clients that were sent a header without its body         *)
  packets,     (* packets handled so far, for MaxPackets                   *)
  fault,       (* "null entity" and "bad iterator" end the program         *)
  spoiled      (* history: "overlap": both threads were in calls at once;  *)
               (* "mistaken": a packet was taken for one of the player     *)
               (* that has its owner's uuid now                            *)

netVars == <<accepted, open, packets>>
dataVars == <<connections, uuid, entities>>
clientVars == <<known, torn>>
faultVars == <<fault, spoiled>>
vars == <<netVars, dataVars, clientVars, stack, faultVars>>

-----------------------------------------------------------------------------
(* Calls. `conn` is the connection the call is about; psend_all() also has  *)
(* the packet, its iterator, and whether std::move() has left the packet    *)
(* its data.                                                                *)

NoMsg == [kind |-> "none", uuid |-> End]
New(u) == [kind |-> "S2C_PLAYER_NEW", uuid |-> u]
Delete(u) == [kind |-> "S2C_ENTITY_DELETE", uuid |-> u]

Call(place, c) ==
  [at |-> place, conn |-> c, msg |-> NoMsg, it |-> End, whole |-> TRUE]

First(s) == IF s = <<>> THEN End ELSE Head(s)

(* What erase(it) and ++it return, the connection after c, and what erase() *)
(* leaves.                                                                  *)
Place(s, c) == CHOOSE i \in DOMAIN s : s[i] = c
After(s, c) == IF Place(s, c) = Len(s) THEN End ELSE s[Place(s, c) + 1]
Erase(s, c) == SubSeq(s, 1, Place(s, c) - 1) \o SubSeq(s, Place(s, c) + 1, Len(s))

(* The orders a set may be iterated over in.                                *)
Orders(S) == {s \in [1..Cardinality(S) -> S] : Range(s) = S}

PSendAll(msg, except) ==
  [Call("psend_all", except) EXCEPT !.msg = msg, !.it = First(connections)]

Running(t, place) ==
  /\ fault = "none"
  /\ stack[t] # <<>>
  /\ Head(stack[t]).at = place

Return(t) == stack' = [stack EXCEPT ![t] = Tail(@)]
Become(t, f) == stack' = [stack EXCEPT ![t] = <<f>> \o Tail(@)]
CallFrom(t, f, callee) == stack' = [stack EXCEPT ![t] = <<callee, f>> \o Tail(@)]

MayCall(t) ==
  /\ fault = "none"
  /\ stack[t] = <<>>
  /\ spoiled' = IF \A u \in Threads : stack[u] = <<>> THEN spoiled
                ELSE spoiled \cup {"overlap"}

Crash(how) ==
  /\ fault' = how
  /\ UNCHANGED <<netVars, dataVars, clientVars, stack, spoiled>>

-----------------------------------------------------------------------------
(* What happens on the net                                                  *)

(* do_accept(): the handshake is over, on_join() is called either way.      *)
Accept(c) ==
  /\ MayCall("io")
  /\ c \notin accepted
  /\ Cardinality(open) < MaxPlayers
  /\ accepted' = accepted \cup {c}
  /\ \/ open' = open \cup {c}
     \/ UNCHANGED open
  /\ stack' = [stack EXCEPT !["io"] = <<Call("on_join", c)>>]
  /\ UNCHANGED <<packets, dataVars, clientVars, fault>>

(* Closed connections whose on_quit() is not over.                          *)
Quitting == {c \in Conns : \E t \in Threads : \E f \in Range(stack[t]) :
               f.conn = c /\ f.at \in {"on_quit", "quit"}}
Stale == (Range(connections) \cup Quitting) \ open

(* A handler of TCPConnection, on the io thread, finds the connection gone. *)
Close(c) ==
  /\ fault = "none"
  /\ stack["io"] = <<>>
  /\ c \in open
  /\ Cardinality(Stale \cup {c}) <= MaxStale
  /\ open' = open \ {c}
  /\ UNCHANGED <<accepted, packets, dataVars, clientVars, stack, faultVars>>

(* on_update() takes a C2S_CLIENT_INPUT of c from in_packets, where it may  *)
(* have been since before c was closed, and since before c quit.            *)
Packet(c) ==
  /\ MayCall("update")
  /\ packets < MaxPackets
  /\ c \in accepted
  /\ \A f \in Range(stack["io"]) : ~(f.at \in {"on_join", "insert"} /\ f.conn = c)
  /\ packets' = packets + 1
  /\ stack' = [stack EXCEPT !["update"] = <<Call("on_packet", c)>>]
  /\ UNCHANGED <<accepted, open, dataVars, clientVars, fault>>

-----------------------------------------------------------------------------
(* on_quit()                                                                *)

(* Mutant: the entity is erased before the packet is sent.                  *)
OnQuit_ErasesFirst(t) ==
  /\ Running(t, "on_quit")
  /\ LET f == Head(stack[t])
         u == uuid[f.conn]
     IN  \/ /\ u \notin entities
            /\ Crash("null entity")
         \/ /\ u \in entities
            /\ entities' = entities \ {u}
            /\ CallFrom(t, [f EXCEPT !.at = "quit"], PSendAll(Delete(u), f.conn))
            /\ UNCHANGED <<netVars, connections, uuid, clientVars, faultVars>>

(* uuid_entity_map[uuid]->packet_delete(), for all clients but the quitter. *)
OnQuit(t) ==
  /\ Running(t, "on_quit")
  /\ LET f == Head(stack[t])
         u == uuid[f.conn]
     IN  \/ /\ u \notin entities
            /\ Crash("null entity")
         \/ /\ u \in entities
            /\ CallFrom(t, [f EXCEPT !.at = "quit"], PSendAll(Delete(u), f.conn))
            /\ UNCHANGED <<netVars, dataVars, clientVars, faultVars>>

(* Mutant: the entity is not erased.                                        *)
Quit_KeepsEntity(t) ==
  /\ Running(t, "quit")
  /\ Return(t)
  /\ UNCHANGED <<netVars, dataVars, clientVars, faultVars>>

Quit(t) ==
  /\ Running(t, "quit")
  /\ entities' = entities \ {uuid[Head(stack[t]).conn]}
  /\ Return(t)
  /\ UNCHANGED <<netVars, connections, uuid, clientVars, faultVars>>

-----------------------------------------------------------------------------
(* psend_all()                                                              *)

(* What a client knows once it has handled a packet.                        *)
Told(knows, msg) ==
  IF msg.kind = "S2C_PLAYER_NEW" THEN knows \cup {msg.uuid} ELSE knows \ {msg.uuid}

SendEnds(t) ==
  /\ Running(t, "psend_all")
  /\ Head(stack[t]).it = End
  /\ Return(t)
  /\ UNCHANGED <<netVars, dataVars, clientVars, faultVars>>

SendBadIterator(t) ==
  /\ Running(t, "psend_all")
  /\ Head(stack[t]).it \notin Range(connections) \cup {End}
  /\ Crash("bad iterator")

(* Mutant: `it` is left where it is.                                        *)
Advance_Stays(f) == f
Advance(f) == [f EXCEPT !.it = After(connections, f.it)]

(* The first psend() is given the packet with std::move(); for the next one *)
(* only its type is left.                                                   *)
SendNext(t) ==
  /\ Running(t, "psend_all")
  /\ LET f == Head(stack[t])
         excepted == f.it = f.conn
     IN  /\ f.it \in Range(connections) \cap open
         /\ known' = IF excepted \/ ~f.whole THEN known
                     ELSE [known EXCEPT ![f.it] = Told(@, f.msg)]
         /\ torn' = IF excepted \/ f.whole THEN torn ELSE torn \cup {f.it}
         /\ Become(t, [Advance(f) EXCEPT !.whole = @ /\ excepted])
  /\ UNCHANGED <<netVars, dataVars, faultVars>>

(* Mutant: it is passed over.                                               *)
SendFindsClosed_PassesOver(t) ==
  /\ Running(t, "psend_all")
  /\ LET f == Head(stack[t])
     IN  /\ f.it \in Range(connections) \ open
         /\ Become(t, Advance(f))
  /\ UNCHANGED <<netVars, dataVars, clientVars, faultVars>>
(* A closed connection is erased, and has quit.                             *)
SendFindsClosed(t) ==
  /\ Running(t, "psend_all")
  /\ LET f == Head(stack[t])
     IN  /\ f.it \in Range(connections) \ open
         /\ connections' = Erase(connections, f.it)
         /\ CallFrom(t, Advance(f), Call("on_quit", f.it))
  /\ UNCHANGED <<netVars, uuid, entities, clientVars, faultVars>>

-----------------------------------------------------------------------------
(* on_join(): a fresh uuid; identity and all players to the newcomer; its   *)
(* entity; the newcomer to all others. do_accept() then keeps it.           *)

(* Mutant: the newcomer is not told of the players.                         *)
Players_None(u) == {}
Players(u) == entities

OnJoin(t) ==
  /\ Running(t, "on_join")
  /\ LET f == Head(stack[t])
     IN  \E u \in UUIDs \ entities :
           /\ uuid' = [uuid EXCEPT ![f.conn] = u]
           /\ \/ /\ f.conn \in open
                 /\ known' = [known EXCEPT ![f.conn] = Players(u)]
                 /\ entities' = entities \cup {u}
                 /\ CallFrom(t, [f EXCEPT !.at = "insert"],
                             PSendAll(New(u), f.conn))
              \/ /\ f.conn \notin open
                 /\ CallFrom(t, [f EXCEPT !.at = "insert"], Call("on_quit", f.conn))
                 /\ UNCHANGED <<entities, known>>
  /\ UNCHANGED <<netVars, connections, torn, faultVars>>

(* The order of the set is up to the hashes, and insert() may rehash.       *)
Insert(t) ==
  /\ Running(t, "insert")
  /\ connections' \in Orders(Range(connections) \cup {Head(stack[t]).conn})
  /\ Return(t)
  /\ UNCHANGED <<netVars, uuid, entities, clientVars, faultVars>>

-----------------------------------------------------------------------------
(* on_packet(): the owner's entity moves, the owner is sent its motion. An  *)
(* owner that has quit has no entity; but generateUUID() may have returned  *)
(* its uuid once more, it starts from the same seed all through a second.   *)

Others(c) == {d \in Range(connections) \ {c} : uuid[d] = uuid[c]}

OnPacket(t) ==
  /\ Running(t, "on_packet")
  /\ LET f == Head(stack[t])
     IN  \/ /\ uuid[f.conn] \notin entities
            /\ Crash("null entity")
         \/ /\ uuid[f.conn] \in entities
            /\ Become(t, [f EXCEPT !.at = "motion"])
            /\ spoiled' = IF Others(f.conn) = {} THEN spoiled
                          ELSE spoiled \cup {"mistaken"}
            /\ UNCHANGED <<netVars, dataVars, clientVars, fault>>

(* psend_to(): a closed owner has quit. It then erases a null pointer from  *)
(* connections, which removes nothing.                                      *)
SendMotion(t) ==
  /\ Running(t, "motion")
  /\ LET c == Head(stack[t]).conn
     IN  \/ c \in open /\ Return(t)
         \/ c \notin open /\ Become(t, Call("on_quit", c))
  /\ UNCHANGED <<netVars, dataVars, clientVars, faultVars>>

-----------------------------------------------------------------------------
Init ==
  /\ accepted = {}
  /\ open = {}
  /\ connections = <<>>
  /\ uuid = [c \in Conns |-> End]
  /\ entities = {}
  /\ stack = [t \in Threads |-> <<>>]
  /\ known = [c \in Conns |-> {}]
  /\ torn = {}
  /\ packets = 0
  /\ fault = "none"
  /\ spoiled = {}

Run(t) ==
  \/ OnQuit(t)
  \/ Quit(t)
  \/ SendEnds(t)
  \/ SendBadIterator(t)
  \/ SendNext(t)
  \/ SendFindsClosed(t)
  \/ OnJoin(t)
  \/ Insert(t)
  \/ OnPacket(t)
  \/ SendMotion(t)

Next ==
  \/ \E c \in Conns : Accept(c) \/ Close(c) \/ Packet(c)
  \/ \E t \in Threads : Run(t)

Spec == Init /\ [][Next]_vars

(* A thread inside a call goes on; nobody has to join, leave or play.       *)
FairSpec == Spec /\ \A t \in Threads : WF_vars(Run(t))

-----------------------------------------------------------------------------
Calm == fault = "none" /\ \A t \in Threads : stack[t] = <<>>

(* uuid_entity_map and connections tell the same story whenever no call is  *)
(* under way: one connection for each entity and no connection twice, the   *)
(* closed ones nobody has noticed included. So it is until the threads      *)
(* overlap, or a late packet makes somebody quit, who has its owner's uuid. *)
RosterMatches ==
  Calm /\ spoiled = {} =>
    /\ entities = {uuid[c] : c \in Range(connections)}
    /\ \A i, j \in DOMAIN connections :
         uuid[connections[i]] = uuid[connections[j]] => i = j

(* uuid_entity_map[...] of an entity that is not there inserts a null       *)
(* pointer, and both its uses dereference it. Two orders of events lead to  *)
(* it, and no other: a packet is handled after its owner has quit           *)
(* (Server.cpp:106), or on_join() gets a connection that is closed already, *)
(* whose on_quit() comes before its entity does (Server.cpp:142).           *)
QuitFirst(s) == Head(s).at = "on_packet" /\ Head(s).conn \notin Range(connections)
NeverJoined(s) ==
  /\ Head(s).at = "on_quit"
  /\ Head(s).conn \notin open
  /\ \E f \in Range(Tail(s)) : f.at = "insert" /\ f.conn = Head(s).conn
NullEntityTwoWays ==
  fault = "null entity" /\ spoiled = {} =>
    \E t \in Threads :
      stack[t] # <<>> /\ (QuitFirst(stack[t]) \/ NeverJoined(stack[t]))

(* tcp_server.cpp:159: "always establish connection first". Then on_join()  *)
(* is about a connection that is there, and has an entity to remove if it   *)
(* is lost.                                                                 *)
JoinsAreConnected ==
  fault = "null entity" => \A t \in Threads : stack[t] # <<>> => ~NeverJoined(stack[t])

(* tcp_server.cpp:95: psend_all() is to "use std iterator to remove and     *)
(* increment". It erases connections while the psend_all() that called it   *)
(* has an iterator; that one is lost only when a second connection is found *)
(* closed while the first one's on_quit() runs, or the threads overlap.     *)
BadIterators ==
  \E t \in Threads : \E f \in Range(stack[t]) :
    f.at = "psend_all" /\ f.it \notin Range(connections) \cup {End}
IteratorsLostOnlyByTwo ==
  [][spoiled = {} /\ ~BadIterators /\ BadIterators' =>
       \E c, d \in Stale : c # d /\ c \in Quitting /\ d \notin Range(connections')]_vars

(* Whatever goes wrong, the threads overlapping and stale iterators         *)
(* included, no entity is left that nobody will remove: each is that of a   *)
(* connection in the set, or of one that a call under way is about.         *)
NoOrphanEntity ==
  LET inCalls == UNION {{f.conn : f \in Range(stack[t])} : t \in Threads}
  IN  entities \subseteq {uuid[c] : c \in Range(connections) \cup inCalls}

(* Whenever no call is under way, an open client was told of every other    *)
(* player there is, whoever of the two joined first, unless it was sent half*)
(* a packet (see WholePackets).                                             *)
ClientsMissNobody ==
  Calm /\ spoiled = {} =>
    \A c \in (Range(connections) \cap open) \ torn :
      entities \ {uuid[c]} \subseteq known[c]

(* Server.cpp:141: on_quit() is to "send deletion packet to all clients     *)
(* except the quitter". When an entity is erased, every client that is      *)
(* connected has been told, unless it was sent half a packet; the only one  *)
(* who still knows the player is a newcomer in the middle of its on_join(), *)
(* which is not among the connections yet and is never told.                *)
OnlyNewcomersMissQuits ==
  [][spoiled = {} =>
       \A u \in entities \ entities' : \A c \in open \ torn :
         u \in known[c] =>
           \E f \in Range(stack["io"]) : f.at = "insert" /\ f.conn = c]_vars

(* tcp_server.h:59: send_all() is "to send a packet along all open          *)
(* connections". So no client is sent a header without the body.            *)
WholePackets == torn = {}

(* After a join no connection found closed is left, nor its entity.         *)
JoinSweeps ==
  [][(spoiled = {} /\ stack["io"] # <<>> /\ stack'["io"] = <<>>) =>
       /\ Range(connections') \subseteq open'
       /\ entities' = {uuid'[c] : c \in Range(connections')}]_vars

(* A connection found closed by psend_to() is gone when on_packet() ends,   *)
(* although what psend_to() itself erases is not there.                     *)
ClosedOwnerRemoved ==
  [][\A c \in Conns :
       (/\ spoiled = {}
        /\ Running("update", "quit")
        /\ stack'["update"] = <<>>
        /\ Head(stack["update"]).conn = c) =>
         c \notin Range(connections') /\ uuid[c] \notin entities']_vars

(* Every call returns, or the program ends.                                 *)
CallsReturn ==
  \A t \in Threads : stack[t] # <<>> ~> (stack[t] = <<>> \/ fault # "none")

=============================================================================
