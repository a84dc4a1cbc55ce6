---------------------------- MODULE TCPConnection ----------------------------
(***************************************************************************)
(* Utils/network/tcp_connection.cpp: one TCPConnection, from the TLS       *)
(* handshake to the end of its last completion handler. The io thread      *)
(* (ctx_thread) runs every handler; each handler is one step, cut only     *)
(* inside psend() and around pop_front(), where out_packets is locked and  *)
(* unlocked several times. Senders are the other threads that call psend():*)
(* the update thread of the server, the main thread of the client. On such *)
(* a thread write_header() is two steps, its test of `open` and its        *)
(* async_write(): the io thread may close the connection in between. Time  *)
(* is reduced to whether a deadline has passed; Heartbeat measures it.     *)
(***************************************************************************)
EXTENDS Integers, Sequences

CONSTANTS
  IO,          (* the thread of the io_context                             *)
  Senders,     (* other threads that call psend()                          *)
  ChecksOpen,  (* the caller tests is_open() first: TCPServer::psend_to()  *)
               (* does, TCPClient::send() does not                         *)
  PeerTypes,   (* the types in the headers the peer sends                  *)
  MaxRead,     (* bound: headers the peer sends before it goes silent      *)
  MaxSend      (* bound: psend() calls of the Senders                      *)

Threads == Senders \cup {IO}

(* Types that control the connection, any other known one, and one that     *)
(* Packet::S() refuses.                                                     *)
Types == {"PING", "PONG", "DATA", "INVALID"}

ASSUME ThreadsAssumption == IO \notin Senders
ASSUME ChecksAssumption == ChecksOpen \in BOOLEAN
ASSUME PeerAssumption ==
  /\ PeerTypes \subseteq Types
  /\ MaxRead \in Nat
  /\ MaxSend \in Nat

VARIABLES
  open,        (* the member of that name                                  *)
  sock,        (* _socket: "connected", "open" after the handshake, "closed"*)
  out_packets, (* the types of the packets that wait to be written         *)
  temp,        (* temp.type, the header being read                         *)
  read,        (* the outstanding async_read                               *)
  writes,      (* how many async_writes are outstanding, by part and result*)
  ping_timer,
  pong_timer,
  call,        (* where each thread is in psend()                          *)
  resume,      (* what the io thread goes on with when psend() returns     *)
  received,    (* headers read so far, for MaxRead                         *)
  sent,        (* psend() calls of the Senders so far, for MaxSend         *)
  owed,        (* history: PINGs read whose PONG is not written yet        *)
  spoiled      (* history: what has upset the writer, see Overtaken and    *)
               (* Early                                                    *)

netVars == <<open, sock, temp, read, received>>
timerVars == <<ping_timer, pong_timer>>
outVars == <<out_packets, writes, owed>>
callVars == <<call, resume, sent, spoiled>>
vars == <<netVars, timerVars, outVars, callVars>>

-----------------------------------------------------------------------------
(* An asynchronous operation is outstanding until its handler runs. One     *)
(* that has succeeded waits for the io thread; one that fails need not be   *)
(* told from one still under way until its handler runs.                    *)

Reads == {"none", "header", "body", "headerRead", "bodyRead"}
Writes == {"header", "body", "headerDone", "bodyDone"}

(* Mutant: read_header() and read_body() do not test `open`.                *)
NewRead_NoGuard(part) == part
NewRead(part) == IF open THEN part ELSE "none"

BeginWrite(ws, part) == [ws EXCEPT ![part] = @ + 1]

EndWrite(ws, w) == [ws EXCEPT ![w] = @ - 1]

(* steady_timer. A new expiry cancels the waits there are, and a cancelled  *)
(* wait still runs its handler: std::bind drops the error code.             *)
ExpiresAfter(timer) ==
  [due |-> "later", waits |-> 0, queued |-> timer.queued + timer.waits]
AsyncWait(timer) == [timer EXCEPT !.waits = @ + 1]
Cancel(timer) ==
  [due |-> timer.due, waits |-> 0, queued |-> timer.queued + timer.waits]
RunHandler(timer) == [timer EXCEPT !.queued = @ - 1]

IdleTimer == [due |-> "passed", waits |-> 0, queued |-> 0]

(* Mutant: close() leaves the socket open.                                  *)
Close_KeepsSocket(pong) ==
  /\ open' = FALSE
  /\ UNCHANGED sock
  /\ pong_timer' = Cancel(pong)

(* close(): ping_timer is left alone.                                       *)
Close(pong) ==
  /\ open' = FALSE
  /\ sock' = "closed"
  /\ pong_timer' = Cancel(pong)

-----------------------------------------------------------------------------
(* psend(): was_empty is read, the packet pushed and write_header() called  *)
(* under three separate locks of out_packets.                               *)

At(t, place) == call[t].at = place
Goto(t, place) == call' = [call EXCEPT ![t].at = place]

BeginSend(t, type) ==
  call' = [call EXCEPT ![t] = [at |-> "test", type |-> type]]

(* Mutant: no psend() starts a write.                                       *)
WasEmpty_Never == FALSE
WasEmpty == out_packets = <<>>

TestEmpty(t) ==
  /\ At(t, "test")
  /\ Goto(t, IF WasEmpty THEN "pushFirst" ELSE "push")
  /\ UNCHANGED <<netVars, timerVars, outVars, resume, sent, spoiled>>

Returned(t) == IF t = IO THEN "return" ELSE "idle"

(* Mutant: psend() calls write_header() whatever it found.                  *)
AfterPush_Writes(t) == "write"
AfterPush(t) == IF At(t, "pushFirst") THEN "write" ELSE Returned(t)

(* What the thread has found is not so any more: the queue is empty, or has *)
(* a packet by now, or is about to be looked at by who has just popped it.  *)
Overtaken(t) ==
  \/ At(t, "push") /\ out_packets = <<>>
  \/ At(t, "pushFirst") /\ (out_packets # <<>> \/ At(IO, "popped"))

PushBack(t) ==
  /\ At(t, "pushFirst") \/ At(t, "push")
  /\ out_packets' = Append(out_packets, call[t].type)
  /\ Goto(t, AfterPush(t))
  /\ spoiled' = spoiled \cup {why \in {"overtaken"} : Overtaken(t)}
  /\ UNCHANGED <<netVars, timerVars, writes, owed, resume, sent>>

(* The connection is not open yet.                                          *)
Early == ~open /\ sock = "connected"

(* write_header() tests `open` ...                                          *)
StartWrite(t) ==
  /\ At(t, "write")
  /\ Goto(t, IF open THEN "begin" ELSE Returned(t))
  /\ spoiled' = spoiled \cup {why \in {"early"} : Early}
  /\ UNCHANGED <<netVars, timerVars, outVars, resume, sent>>

(* ... and calls async_write(), open or not by now.                         *)
BeginHeader(t) ==
  /\ At(t, "begin")
  /\ writes' = BeginWrite(writes, "header")
  /\ Goto(t, Returned(t))
  /\ UNCHANGED <<netVars, timerVars, out_packets, owed, resume, sent, spoiled>>

(* A thread that is not the io thread sends a packet.                       *)
Send(t) ==
  /\ At(t, "idle")
  /\ sent < MaxSend
  /\ ChecksOpen => open
  /\ sent' = sent + 1
  /\ BeginSend(t, "DATA")
  /\ UNCHANGED <<netVars, timerVars, outVars, resume, spoiled>>

-----------------------------------------------------------------------------
(* ssl_handshake(), which blocks the io thread.                             *)

HandshakeOK ==
  /\ At(IO, "idle")
  /\ sock = "connected"
  /\ open' = TRUE
  /\ sock' = "open"
  /\ read' = "header"
  /\ BeginSend(IO, "PING")
  /\ resume' = "ssl_handshake"
  /\ UNCHANGED <<temp, received, timerVars, outVars, sent, spoiled>>

HandshakeError ==
  /\ At(IO, "idle")
  /\ sock = "connected"
  /\ Close(pong_timer)
  /\ UNCHANGED <<temp, read, received, ping_timer, outVars, callVars>>

(* The rest of the handler that called psend(): ssl_handshake() starts the  *)
(* pong actor, the handler of read_header() goes on to read_body(), and     *)
(* check_ping() moves the deadline of the pong actor.                       *)
Resume ==
  /\ At(IO, "return")
  /\ Goto(IO, "idle")
  /\ \/ /\ resume = "ssl_handshake"
        /\ pong_timer' = AsyncWait(ExpiresAfter(pong_timer))
        /\ UNCHANGED read
     \/ /\ resume = "read_header"
        /\ read' = NewRead("body")
        /\ UNCHANGED pong_timer
     \/ /\ resume = "check_ping"
        /\ pong_timer' = ExpiresAfter(pong_timer)
        /\ UNCHANGED read
  /\ UNCHANGED <<open, sock, temp, received, ping_timer, outVars, resume, sent, spoiled>>

-----------------------------------------------------------------------------
(* The system completes an operation successfully.                          *)

ReadCompletes ==
  /\ sock = "open"
  /\ \/ /\ read = "header"
        /\ received < MaxRead
        /\ received' = received + 1
        /\ temp' \in PeerTypes
        /\ read' = "headerRead"
     \/ /\ read = "body"
        /\ read' = "bodyRead"
        /\ UNCHANGED <<received, temp>>
  /\ UNCHANGED <<open, sock, timerVars, outVars, callVars>>

WriteCompletes(part, done) ==
  /\ sock = "open"
  /\ writes[part] > 0
  /\ writes' = BeginWrite(EndWrite(writes, part), done)
  /\ UNCHANGED <<netVars, timerVars, out_packets, owed, callVars>>

HeaderWritten == WriteCompletes("header", "headerDone")
BodyWritten == WriteCompletes("body", "bodyDone")

(* A deadline passes; the waits on it become handlers to run.               *)
Expired(timer) ==
  [due |-> "passed", waits |-> 0, queued |-> timer.queued + timer.waits]

PingExpires ==
  /\ ping_timer.due = "later"
  /\ ping_timer' = Expired(ping_timer)
  /\ UNCHANGED <<netVars, pong_timer, outVars, callVars>>

PongExpires ==
  /\ pong_timer.due = "later"
  /\ pong_timer' = Expired(pong_timer)
  /\ UNCHANGED <<netVars, ping_timer, outVars, callVars>>

-----------------------------------------------------------------------------
(* Completion handlers of the reads                                         *)

HeaderRead ==
  /\ At(IO, "idle")
  /\ read = "headerRead"

(* A PING is answered before its body is read.                              *)
OnPingHeader ==
  /\ HeaderRead
  /\ temp = "PING"
  /\ read' = "none"
  /\ owed' = owed + 1
  /\ BeginSend(IO, "PONG")
  /\ resume' = "read_header"
  /\ UNCHANGED <<open, sock, temp, received, timerVars, out_packets, writes, sent, spoiled>>

(* Mutant: a new wait, and the one there is goes on.                        *)
OnPongHeader_KeepsWait ==
  /\ HeaderRead
  /\ temp = "PONG"
  /\ ping_timer' = AsyncWait([ping_timer EXCEPT !.due = "later"])
  /\ read' = NewRead("body")
  /\ UNCHANGED <<open, sock, temp, received, pong_timer, outVars, callVars>>

(* A PONG, expected or not, starts the wait for the next PING.              *)
OnPongHeader ==
  /\ HeaderRead
  /\ temp = "PONG"
  /\ ping_timer' = AsyncWait(ExpiresAfter(ping_timer))
  /\ read' = NewRead("body")
  /\ UNCHANGED <<open, sock, temp, received, pong_timer, outVars, callVars>>

(* read_body() of a type Packet::S() refuses starts nothing.                *)
OnOtherHeader ==
  /\ HeaderRead
  /\ temp \in {"DATA", "INVALID"}
  /\ read' = IF temp = "INVALID" THEN "none" ELSE NewRead("body")
  /\ UNCHANGED <<open, sock, temp, received, timerVars, outVars, callVars>>

(* Mutant: the handler of read_body() does not read the next header.        *)
OnBodyRead_Stops ==
  /\ At(IO, "idle")
  /\ read = "bodyRead"
  /\ read' = "none"
  /\ UNCHANGED <<open, sock, temp, received, timerVars, outVars, callVars>>

(* The packet goes to in_packets, and the next header is read.              *)
OnBodyRead ==
  /\ At(IO, "idle")
  /\ read = "bodyRead"
  /\ read' = NewRead("header")
  /\ UNCHANGED <<open, sock, temp, received, timerVars, outVars, callVars>>

(* A read fails: the peer is gone, or the socket is closed.                 *)
OnReadError ==
  /\ At(IO, "idle")
  /\ read \in {"header", "body"}
  /\ read' = "none"
  /\ Close(pong_timer)
  /\ UNCHANGED <<temp, received, ping_timer, outVars, callVars>>

-----------------------------------------------------------------------------
(* Completion handlers of the writes                                        *)

(* Mutant: write_body() does not test `open`.                               *)
WriteBody_NoGuard(ws) == BeginWrite(ws, "body")
WriteBody(ws) == IF open THEN BeginWrite(ws, "body") ELSE ws

OnHeaderWritten ==
  /\ At(IO, "idle")
  /\ writes["headerDone"] > 0
  /\ writes' = WriteBody(EndWrite(writes, "headerDone"))
  /\ UNCHANGED <<netVars, timerVars, out_packets, owed, callVars>>

(* The handler of write_body() pops the packet, ... (To pop an empty deque  *)
(* is undefined; see WriteHasBuffer.)                                       *)
OnBodyWritten ==
  /\ At(IO, "idle")
  /\ writes["bodyDone"] > 0
  /\ writes' = EndWrite(writes, "bodyDone")
  /\ out_packets' = IF out_packets = <<>> THEN <<>> ELSE Tail(out_packets)
  /\ owed' = IF out_packets # <<>> /\ Head(out_packets) = "PONG"
             THEN owed - 1 ELSE owed
  /\ Goto(IO, "popped")
  /\ UNCHANGED <<netVars, timerVars, resume, sent, spoiled>>

(* Mutant: the handler does not look at what is left.                       *)
WriteNext_Never ==
  /\ At(IO, "popped")
  /\ Goto(IO, "idle")
  /\ UNCHANGED <<netVars, timerVars, outVars, resume, sent, spoiled>>

(* write_header() on the io thread, which nobody can close it under.        *)
WriteHeader(ws) == IF open THEN BeginWrite(ws, "header") ELSE ws

(* ... then tests empty() and calls write_header() for the next one.        *)
WriteNext ==
  /\ At(IO, "popped")
  /\ Goto(IO, "idle")
  /\ writes' = IF out_packets = <<>> THEN writes ELSE WriteHeader(writes)
  /\ UNCHANGED <<netVars, timerVars, out_packets, owed, resume, sent, spoiled>>

(* A write fails.                                                           *)
OnWriteError(part) ==
  /\ At(IO, "idle")
  /\ writes[part] > 0
  /\ writes' = EndWrite(writes, part)
  /\ Close(pong_timer)
  /\ UNCHANGED <<temp, read, received, ping_timer, out_packets, owed, callVars>>

-----------------------------------------------------------------------------
(* Timer handlers                                                           *)

(* Mutant: the early return of check_pong() is missing.                     *)
PongActorStops_Never == FALSE
(* Mutant: check_pong() is put back to sleep twice.                         *)
PongSleeps_Twice(timer) == [timer EXCEPT !.waits = @ + 2]

PongActorStops == ~open
PongSleeps(timer) == AsyncWait(timer)

(* check_pong(): past the deadline it closes the socket, not the connection.*)
CheckPong ==
  /\ At(IO, "idle")
  /\ pong_timer.queued > 0
  /\ LET timer == RunHandler(pong_timer)
     IN  \/ /\ PongActorStops
            /\ pong_timer' = timer
            /\ UNCHANGED sock
         \/ /\ ~PongActorStops
            /\ timer.due = "passed"
            /\ sock' = "closed"
            /\ pong_timer' = PongSleeps([Cancel(timer) EXCEPT !.due = "never"])
         \/ /\ ~PongActorStops
            /\ timer.due # "passed"
            /\ pong_timer' = PongSleeps(timer)
            /\ UNCHANGED sock
  /\ UNCHANGED <<open, temp, read, received, ping_timer, outVars, callVars>>

(* check_ping()                                                             *)
CheckPing ==
  /\ At(IO, "idle")
  /\ ping_timer.queued > 0
  /\ ping_timer' = RunHandler(ping_timer)
  /\ \/ /\ open
        /\ ping_timer.due = "passed"
        /\ BeginSend(IO, "PING")
        /\ resume' = "check_ping"
     \/ /\ ~(open /\ ping_timer.due = "passed")
        /\ UNCHANGED <<call, resume>>
  /\ UNCHANGED <<netVars, pong_timer, outVars, sent, spoiled>>

-----------------------------------------------------------------------------
Init ==
  /\ open = FALSE
  /\ sock = "connected"
  /\ out_packets = <<>>
  /\ temp = "DATA"
  /\ read = "none"
  /\ writes = [w \in Writes |-> 0]
  /\ ping_timer = IdleTimer
  /\ pong_timer = IdleTimer
  /\ call = [t \in Threads |-> [at |-> "idle", type |-> "DATA"]]
  /\ resume = "ssl_handshake"
  /\ received = 0
  /\ sent = 0
  /\ owed = 0
  /\ spoiled = {}

PSend(t) == TestEmpty(t) \/ PushBack(t) \/ StartWrite(t) \/ BeginHeader(t)

(* A handler the io thread has to run: all but that of a read or a write    *)
(* which fails on an open socket.                                           *)
Handle ==
  \/ HandshakeOK
  \/ Resume
  \/ OnPingHeader
  \/ OnPongHeader
  \/ OnOtherHeader
  \/ OnBodyRead
  \/ OnHeaderWritten
  \/ OnBodyWritten
  \/ WriteNext
  \/ CheckPong
  \/ CheckPing

Fail ==
  \/ HandshakeError
  \/ OnReadError
  \/ \E part \in {"header", "body"} : OnWriteError(part)

Next ==
  \/ Handle
  \/ Fail
  \/ \E t \in Threads : PSend(t)
  \/ \E t \in Senders : Send(t)
  \/ ReadCompletes
  \/ HeaderWritten
  \/ BodyWritten
  \/ PingExpires
  \/ PongExpires

Spec == Init /\ [][Next]_vars

(* The io thread runs what it has to run and threads inside psend() get on. *)
(* A write is accepted or refused in the end, and every operation on a      *)
(* closed socket fails. The peer owes nothing.                              *)
Prompt ==
  /\ WF_vars(Handle)
  /\ \A t \in Threads : WF_vars(PSend(t))
  /\ WF_vars(HeaderWritten)
  /\ WF_vars(BodyWritten)
  /\ WF_vars(sock = "closed" /\ Fail)

PromptSpec == Spec /\ Prompt

-----------------------------------------------------------------------------
Timers == [due : {"later", "passed", "never"}, waits : Nat, queued : Nat]
Places == {"idle", "test", "pushFirst", "push", "write", "begin", "return",
           "popped"}

NetOK ==
  /\ open \in BOOLEAN
  /\ sock \in {"connected", "open", "closed"}
  /\ temp \in Types
  /\ read \in Reads
  /\ received \in 0..MaxRead
TimersOK ==
  /\ ping_timer \in Timers /\ ping_timer.waits <= 1
  /\ pong_timer \in Timers
OutOK ==
  /\ out_packets \in Seq(Types)
  /\ writes \in [Writes -> Nat]
  /\ owed \in Int
CallsOK ==
  /\ call \in [Threads -> [at : Places, type : Types]]
  /\ resume \in {"ssl_handshake", "read_header", "check_ping"}
  /\ sent \in 0..MaxSend
  /\ spoiled \subseteq {"overtaken", "early"}

(* Every variable stays in its range; ping_timer has one wait at most,      *)
(* whatever PONGs come.                                                     *)
TypeOK == NetOK /\ TimersOK /\ OutOK /\ CallsOK

Writing == \E w \in Writes : writes[w] > 0
InWriteHeader(t) == At(t, "write") \/ At(t, "begin")
AboutToWrite == At(IO, "popped") \/ \E t \in Threads : InWriteHeader(t)

(* asio allows one async_write() on a stream at a time. Two threads are in  *)
(* psend(), and the handlers of write_header() and write_body() run between *)
(* its locks: a second write is never started, unless a push was overtaken  *)
(* (tcp_connection.cpp:82).                                                 *)
SingleWriter ==
  "overtaken" \notin spoiled =>
    \A v, w \in Writes : writes[v] > 0 /\ writes[w] > 0 => v = w /\ writes[v] = 1

(* A packet in the queue of an open connection is on its way: nothing but   *)
(* the end of a write, or a psend() that finds the queue empty, starts the  *)
(* next write, so if neither is to come the queue is stuck. Two things only *)
(* do that, an overtaken push and a packet sent before the handshake.       *)
NoStall ==
  (open /\ out_packets # <<>> /\ spoiled = {}) => Writing \/ AboutToWrite

(* A queue gets stuck in one way only, if the callers test is_open(): the   *)
(* io thread pops the last packet after another thread has found the queue  *)
(* not empty and before it pushes, so that neither writes on. No other order*)
(* of the locks of out_packets leaves a packet behind, not even after this  *)
(* has happened before.                                                     *)
Stalled == open /\ out_packets # <<>> /\ ~Writing /\ ~AboutToWrite
StallsOnlyByRace ==
  [][(~Stalled /\ Stalled') =>
       \E t \in Senders :
         out_packets = <<>> /\ At(t, "push") /\ ~At(t, "push")']_vars

(* async_write() was given a reference to the packet at the front of the    *)
(* queue; the packet stays there until its body is written, and pop_front() *)
(* has one to pop, unless a push was overtaken and two writes pop.          *)
WriteHasBuffer ==
  "overtaken" \notin spoiled /\ (Writing \/ \E t \in Threads : InWriteHeader(t)) =>
    out_packets # <<>>

(* The PING of ssl_handshake() leaves, or something before it in the queue  *)
(* does, however psend() calls of others fall around the handshake. One that*)
(* finds the connection not open yet (TCPClient.h:60 does not test) is the  *)
(* exception: it leaves a packet that nobody starts to write.               *)
HandshakeStartsWriter ==
  (open /\ At(IO, "return") /\ resume = "ssl_handshake" /\ "early" \notin spoiled) =>
    Writing \/ AboutToWrite

(* The io thread is inside the psend() of this function.                    *)
Inside(function) == resume = function /\ call[IO].at \notin {"idle", "popped"}

(* An open connection reads, with exactly one operation, from the handshake *)
(* on and whatever else happens, unless the peer sent a header that         *)
(* Packet::S() refuses: then it stays open and never reads again.           *)
ReadLoopIntact ==
  /\ open /\ temp # "INVALID" => (read = "none" <=> Inside("read_header"))
  /\ Inside("read_header") => read = "none" /\ temp = "PING"

(* The handlers of a timer that wait or are queued.                         *)
Actors(timer) == timer.waits + timer.queued

(* check_pong() is scheduled once, never twice, and never lost, although    *)
(* check_ping() moves its deadline and so cancels its wait.                 *)
OnePongActor ==
  /\ Actors(pong_timer) <= 1
  /\ open /\ ~Inside("ssl_handshake") => Actors(pong_timer) = 1

(* Once close() has run the handlers start no operation and the pong actor  *)
(* is not put to sleep again. Only a thread that has tested `open` before   *)
(* may still begin its one write. (A PONG read before and handled after it  *)
(* still arms ping_timer.)                                                  *)
NoWorkAfterClose ==
  [][(~open /\ sock = "closed") =>
       /\ \/ writes'["header"] <= writes["header"]
          \/ \E t \in Senders : At(t, "begin") /\ ~At(t, "begin")'
       /\ writes'["body"] <= writes["body"]
       /\ read' # read => read' \notin {"header", "body"}
       /\ pong_timer'.waits <= pong_timer.waits]_vars

(* Each PING the peer sends gets a PONG of its own, unless the connection   *)
(* ends first, and no deadline has to pass for that; nor if the writer was  *)
(* upset, by an overtaken push or an early packet.                          *)
PingsAnswered == owed > 0 ~> (owed = 0 \/ ~open \/ spoiled # {})

=============================================================================
