-------------------------------- MODULE Stream --------------------------------
(***************************************************************************)
(* One direction of a connection as bytes: write_header() and write_body() *)
(* put a packet on the wire as two writes, read_header() and read_body()   *)
(* take it off as two reads whose lengths both sides look up in            *)
(* Packet::sizes; nothing on the wire marks where a packet begins. So a    *)
(* packet whose data does not have the length of its type, which is what   *)
(* psend_all() makes of it with its second std::move(), shifts all that    *)
(* comes after it. TLS delivers bytes in order; the two io threads run at  *)
(* their own pace. A psend() is one step: TCPConnection has its races.     *)
(***************************************************************************)
EXTENDS Naturals, Sequences, SequencesExt

CONSTANTS
  count,       (* Packet::Type::count, the number of packet types          *)
  sizes,       (* Packet::sizes, from type to the length of its data       *)
  WordSize,    (* sizeof(size_t)                                           *)
  MaxType,     (* the largest header: 2^16 - 1                             *)
  MaxLength,   (* the largest length read from behind the end of sizes     *)
  MaxSend      (* bound: packets sent                                      *)

(* A struct without members has a byte too, so no packet is without data,   *)
(* and the branches of read_body() and write_body() for such packets never  *)
(* run. There is a type: temp starts as one.                                *)
ASSUME SizesAssumption ==
  /\ count \in Nat \ {0}
  /\ WordSize \in Nat
  /\ MaxType \in Nat
  /\ MaxLength \in Nat
  /\ MaxSend \in Nat
  /\ sizes \in [0..count - 1 -> Nat \ {0}]

VARIABLES
  sent,        (* history: the packets given to psend()                    *)
  out_packets, (* the queue of the sender                                  *)
  write,       (* the outstanding write: "header", "body" or "none"        *)
  wire,        (* bytes under way                                          *)
  read,        (* the outstanding read: "header", "body" or "none"         *)
  temp,        (* temp.type                                                *)
  len,         (* the length of the body that is being read                *)
  received,    (* the in_packets of the receiver, nothing taken out        *)
  up           (* neither side has closed                                  *)

sendVars == <<sent, out_packets, write>>
receiveVars == <<read, temp, len, received>>
vars == <<sendVars, wire, receiveVars, up>>

-----------------------------------------------------------------------------
(* A byte is named by the packet it was serialised for, by its number, and  *)
(* by its place, the header of SIZE bytes first.                            *)

SIZE == 2
Bytes(n, first, last) == [i \in 1..(last - first + 1) |-> <<n, first + i - 1>>]

Header(n) == Bytes(n, 1, SIZE)

(* Packet::serialize(): the data has the size of the structure.             *)
serialize(n, type) ==
  [type |-> type, n |-> n, data |-> Bytes(n, SIZE + 1, SIZE + sizes[type])]

(* What is left of a packet that was moved from.                            *)
Moved(packet) == [packet EXCEPT !.data = <<>>]

Whole(packet) == Len(packet.data) = sizes[packet.type]

(* The header that SIZE bytes make: those of two packets, or of the data of *)
(* one, can make any.                                                       *)
TypesIn(bytes) ==
  LET n == Head(bytes)[1]
  IN  IF bytes = Header(n) THEN {sent[n].type} ELSE 0..MaxType

(* Mutant: the table is not in the order of the types.                      *)
S_OtherOrder(type) == IF type < count THEN {sizes[count - 1 - type]} ELSE {}

(* Packet::S(): the lengths it may return, none for INVALID_HEADER. It      *)
(* compares the type with the bytes of the table instead of its entries.    *)
S(type) ==
  IF type < count THEN {sizes[type]}
  ELSE IF type < WordSize * count THEN 0..MaxLength
  ELSE {}

-----------------------------------------------------------------------------
(* The sender                                                               *)

(* psend() of a packet, or of what std::move() has left of one.             *)
psend ==
  /\ up
  /\ Len(sent) < MaxSend
  /\ \E type \in 0..count - 1 :
       LET packet == serialize(Len(sent) + 1, type)
       IN  \E p \in {packet, Moved(packet)} :
             /\ sent' = Append(sent, p)
             /\ out_packets' = Append(out_packets, p)
  /\ write' = IF out_packets = <<>> THEN "header" ELSE write
  /\ UNCHANGED <<wire, receiveVars, up>>

write_header ==
  /\ up
  /\ write = "header"
  /\ wire' = wire \o Header(Head(out_packets).n)
  /\ write' = "body"
  /\ UNCHANGED <<sent, out_packets, receiveVars, up>>

(* Mutant: the packet that is written is the last of the queue.             *)
write_body_Last ==
  /\ up
  /\ write = "body"
  /\ wire' = wire \o Last(out_packets).data
  /\ out_packets' = Tail(out_packets)
  /\ write' = IF Tail(out_packets) = <<>> THEN "none" ELSE "header"
  /\ UNCHANGED <<sent, receiveVars, up>>

write_body ==
  /\ up
  /\ write = "body"
  /\ wire' = wire \o Head(out_packets).data
  /\ out_packets' = Tail(out_packets)
  /\ write' = IF Tail(out_packets) = <<>> THEN "none" ELSE "header"
  /\ UNCHANGED <<sent, receiveVars, up>>

-----------------------------------------------------------------------------
(* The receiver                                                             *)

Take(k) == SubSeq(wire, 1, k)
Drop(k) == SubSeq(wire, k + 1, Len(wire))

(* read_header(), and what read_body() starts: no read at all for a type    *)
(* S() refuses, the next header for a length of 0.                          *)
read_header ==
  /\ up
  /\ read = "header"
  /\ Len(wire) >= SIZE
  /\ wire' = Drop(SIZE)
  /\ temp' \in TypesIn(Take(SIZE))
  /\ \/ S(temp') = {} /\ read' = "none" /\ UNCHANGED len
     \/ len' \in S(temp') /\ read' = IF len' = 0 THEN "header" ELSE "body"
  /\ UNCHANGED <<sendVars, received, up>>

read_body ==
  /\ up
  /\ read = "body"
  /\ Len(wire) >= len
  /\ wire' = Drop(len)
  /\ received' = Append(received, [type |-> temp, data |-> Take(len)])
  /\ read' = "header"
  /\ UNCHANGED <<sendVars, temp, len, up>>

(* close(), on either side: what is outstanding fails.                      *)
close ==
  /\ up
  /\ up' = FALSE
  /\ UNCHANGED <<sendVars, wire, receiveVars>>

-----------------------------------------------------------------------------
Init ==
  /\ sent = <<>>
  /\ out_packets = <<>>
  /\ write = "none"
  /\ wire = <<>>
  /\ read = "header"
  /\ temp = 0
  /\ len = 0
  /\ received = <<>>
  /\ up = TRUE

Next == psend \/ write_header \/ write_body \/ read_header \/ read_body \/ close

Spec == Init /\ [][Next]_vars

(* Both io threads run their handlers, and a write is taken by the system.  *)
(* Nobody has to send or to close.                                          *)
FairSpec ==
  /\ Spec
  /\ WF_vars(write_header)
  /\ WF_vars(write_body)
  /\ WF_vars(read_header)
  /\ WF_vars(read_body)

-----------------------------------------------------------------------------
(* How many packets were sent before the first that is not whole            *)
Intact == Max({k \in 0..Len(sent) : \A i \in 1..k : Whole(sent[i])})

Contents(packet) == [type |-> packet.type, data |-> packet.data]

(* The abstract channel carries those.                                      *)
Promise == INSTANCE Channel WITH
  sent <- [i \in 1..Intact |-> Contents(sent[i])],
  received <- SubSeq(received, 1, IF Len(received) < Intact THEN Len(received)
                                  ELSE Intact)

(* In spite of headers and bodies written and read one by one, and of what  *)
(* a torn packet does later, every packet sent before it arrives, whole, in *)
(* order and once, and does arrive while the connection is up.              *)
ImplementsChannel == Promise!Spec

(* Packet.h:126: S() is to return "the sizeof(...) of a packet that is      *)
(* correlated to @type", and it reads behind the table for a type there is  *)
(* none of. No peer sends one: it takes a torn packet to make it up, and    *)
(* that after all that was whole has arrived.                               *)
OnlyTornMakeTypes ==
  temp >= count => Intact < Len(sent) /\ Len(received) >= Intact

=============================================================================
