----------------------------- MODULE StreamProofs -----------------------------
(***************************************************************************)
(* What the bytes of a connection become, for any types, sizes and numbers *)
(* of packets: until the receiver comes to a torn packet it is in step, at *)
(* the byte where the packet it waits for begins; so all that was whole    *)
(* arrives as it was sent, and no type is made up before.                  *)
(***************************************************************************)
EXTENDS Stream, SequenceTheorems, TLAPS

(* A byte: the packet it was serialised for, and its place.                 *)
AllBytes == Nat \X Nat
Packets == [type : 0..count - 1, n : Nat, data : Seq(AllBytes)]
Records == [type : Nat, data : Seq(AllBytes)]

TypeOK ==
  /\ sent \in Seq(Packets)
  /\ out_packets \in Seq(Packets)
  /\ write \in {"header", "body", "none"}
  /\ wire \in Seq(AllBytes)
  /\ read \in {"header", "body", "none"}
  /\ temp \in Nat
  /\ len \in Nat
  /\ received \in Seq(Records)

(* psend() numbers the packets, and their data is whole or gone.            *)
SentOK ==
  \A n \in 1..Len(sent) :
    /\ sent[n].n = n
    /\ sent[n].data \in {<<>>, Bytes(n, SIZE + 1, SIZE + sizes[sent[n].type])}

(* The queue is the end of what was sent.                                   *)
QueueOK ==
  /\ Len(out_packets) <= Len(sent)
  /\ \A i \in 1..Len(out_packets) :
       out_packets[i] = sent[Len(sent) - Len(out_packets) + i]
  /\ write = "none" <=> out_packets = <<>>

WireOK == \A i \in 1..Len(wire) : wire[i][1] \in 1..Len(sent)

(* The first k packets are whole, and no more.                              *)
Longest(packets, k) ==
  /\ k \in 0..Len(packets)
  /\ \A n \in 1..k : Whole(packets[n])
  /\ k < Len(packets) => ~Whole(packets[k + 1])

IntactOK == Longest(sent, Intact)

Arrived ==
  \A n \in 1..Len(received) : n <= Intact => received[n] = Contents(sent[n])

(* The receiver has not come to a torn packet.                              *)
InStep == Intact = Len(sent) \/ Len(received) < Intact

(* off[n]: how many bytes there are before packet n.                        *)
Size(packet) == SIZE + Len(packet.data)
Offsets(off, packets) ==
  /\ off \in [1..Len(packets) + 1 -> Nat]
  /\ \A n \in 1..Len(packets) : off[n + 1] = off[n] + Size(packets[n])
  /\ \A m \in 1..Len(packets) : \A n \in 1..Len(packets) + 1 :
       m < n => off[m] + Size(packets[m]) <= off[n]

(* bytes holds the places from + 1 to last of those of the packets.         *)
Carries(bytes, off, packets, from, last) ==
  /\ Len(bytes) = last - from
  /\ \A i \in 1..Len(bytes), n \in 1..Len(packets) : \A j \in 1..Size(packets[n]) :
       off[n] + j = from + i => bytes[i] = <<n, j>>

(* How many bytes have been written, and read.                              *)
Written(off) ==
  off[Len(sent) - Len(out_packets) + 1] + (IF write = "body" THEN SIZE ELSE 0)
Consumed(off) ==
  off[Len(received) + 1] + (IF read = "body" THEN SIZE ELSE 0)

Aligned(off) ==
  /\ Len(received) <= Intact
  /\ read # "none"
  /\ temp < count
  /\ read = "body" =>
       /\ Len(received) < Intact
       /\ temp = sent[Len(received) + 1].type
       /\ len = sizes[temp]
  /\ Carries(wire, off, sent, Consumed(off), Written(off))

Inv ==
  /\ TypeOK
  /\ SentOK
  /\ QueueOK
  /\ WireOK
  /\ IntactOK
  /\ Arrived
  /\ \E off \in [1..Len(sent) + 1 -> Nat] :
       Offsets(off, sent) /\ (InStep => Aligned(off))

-----------------------------------------------------------------------------
(* Bytes, and parts of sequences                                            *)

(* A function on 1..k is a sequence of length k.                            *)
LEMMA FcnIsSeq ==
  ASSUME NEW B, NEW k \in Nat, NEW s \in [1..k -> B]
  PROVE  s \in Seq(B) /\ Len(s) = k
<1>1. s \in Seq(B)
  BY SeqDef
<1>2. DOMAIN s = 1..k
  OBVIOUS
<1> QED BY <1>1, <1>2, LenProperties

(* A header is the first two bytes of a packet.                             *)
LEMMA HeaderIs ==
  ASSUME NEW n \in Nat
  PROVE  /\ Header(n) \in Seq(AllBytes) /\ Len(Header(n)) = SIZE
         /\ \A i \in 1..SIZE : Header(n)[i] = <<n, i>>
<1>1. 2 - 1 + 1 = 2 /\ \A i \in 1..2 : 1 + i - 1 = i
  OBVIOUS
<1>2. Header(n) = [i \in 1..2 |-> <<n, i>>]
  BY <1>1 DEF Header, Bytes, SIZE
<1>3. \A i \in 1..2 : <<n, i>> \in AllBytes
  BY DEF AllBytes
<1>4. Header(n) \in [1..2 -> AllBytes] /\ \A i \in 1..2 : Header(n)[i] = <<n, i>>
  BY <1>2, <1>3
<1> QED BY <1>4, FcnIsSeq DEF SIZE

(* The data of a packet, after its header.                                  *)
LEMMA DataIs ==
  ASSUME NEW n \in Nat, NEW k \in Nat
  PROVE  /\ Bytes(n, SIZE + 1, SIZE + k) \in Seq(AllBytes)
         /\ Len(Bytes(n, SIZE + 1, SIZE + k)) = k
         /\ \A i \in 1..k : Bytes(n, SIZE + 1, SIZE + k)[i] = <<n, SIZE + i>>
<1>0. PICK s : s = Bytes(n, SIZE + 1, SIZE + k)
  OBVIOUS
<1>1. 2 + k - (2 + 1) + 1 = k /\ \A i \in 1..k : 2 + 1 + i - 1 = 2 + i
  OBVIOUS
<1>2. s = [i \in 1..k |-> <<n, 2 + i>>]
  BY <1>0, <1>1 DEF Bytes, SIZE
<1>3. \A i \in 1..k : <<n, 2 + i>> \in AllBytes
  BY DEF AllBytes
<1>4. s \in [1..k -> AllBytes] /\ \A i \in 1..k : s[i] = <<n, 2 + i>>
  BY <1>2, <1>3
<1>5. s \in Seq(AllBytes) /\ Len(s) = k
  BY <1>4, FcnIsSeq
<1> QED BY <1>0, <1>4, <1>5 DEF SIZE

(* What Take() and Drop() give.                                             *)
LEMMA Cut ==
  ASSUME NEW B, NEW w \in Seq(B), NEW k \in Nat, k <= Len(w)
  PROVE  /\ SubSeq(w, 1, k) \in Seq(B)
         /\ Len(SubSeq(w, 1, k)) = k
         /\ \A i \in 1..k : SubSeq(w, 1, k)[i] = w[i]
         /\ SubSeq(w, k + 1, Len(w)) \in Seq(B)
         /\ Len(SubSeq(w, k + 1, Len(w))) = Len(w) - k
         /\ \A i \in 1..Len(w) - k : SubSeq(w, k + 1, Len(w))[i] = w[k + i]
<1>1. PICK L \in Nat : L = Len(w)
  OBVIOUS
<1>2. \A i \in 1..L : w[i] \in B
  BY <1>1
<1>3. /\ SubSeq(w, 1, k) \in Seq(B)
      /\ Len(SubSeq(w, 1, k)) = IF 1 <= k THEN k - 1 + 1 ELSE 0
      /\ \A i \in 1..k - 1 + 1 : SubSeq(w, 1, k)[i] = w[1 + i - 1]
  <2>1. \A i \in 1..k : w[i] \in B
    BY <1>1, <1>2
  <2> QED BY <2>1, SubSeqProperties
<1>4. /\ SubSeq(w, k + 1, L) \in Seq(B)
      /\ Len(SubSeq(w, k + 1, L)) = IF k + 1 <= L THEN L - (k + 1) + 1 ELSE 0
      /\ \A i \in 1..L - (k + 1) + 1 : SubSeq(w, k + 1, L)[i] = w[k + 1 + i - 1]
  <2>1. \A i \in k + 1..L : w[i] \in B
    BY <1>2
  <2> QED BY <2>1, SubSeqProperties
<1>5. /\ (IF 1 <= k THEN k - 1 + 1 ELSE 0) = k
      /\ (IF k + 1 <= L THEN L - (k + 1) + 1 ELSE 0) = L - k
      /\ k - 1 + 1 = k /\ L - (k + 1) + 1 = L - k
      /\ \A i \in Nat : 1 + i - 1 = i /\ k + 1 + i - 1 = k + i
  BY <1>1
<1> QED BY <1>1, <1>3, <1>4, <1>5

(* What is written is behind what was on the wire.                          *)
LEMMA Joined ==
  ASSUME NEW B, NEW v \in Seq(B), NEW w \in Seq(B)
  PROVE  /\ v \o w \in Seq(B) /\ Len(v \o w) = Len(v) + Len(w)
         /\ \A i \in 1..Len(v) : (v \o w)[i] = v[i]
         /\ \A i \in 1..Len(w) : (v \o w)[Len(v) + i] = w[i]
<1>1. PICK a \in Nat, b \in Nat : a = Len(v) /\ b = Len(w)
  OBVIOUS
<1>2. /\ v \o w \in Seq(B) /\ Len(v \o w) = a + b
      /\ \A i \in 1..a + b : (v \o w)[i] = IF i <= a THEN v[i] ELSE w[i - a]
  BY <1>1, ConcatProperties
<1>3. \A i \in 1..a : i \in 1..a + b /\ i <= a
  OBVIOUS
<1>4. \A i \in 1..b : a + i \in 1..a + b /\ ~ (a + i <= a) /\ a + i - a = i
  OBVIOUS
<1> QED BY <1>1, <1>2, <1>3, <1>4

-----------------------------------------------------------------------------
(* The packets before the first torn one                                    *)

(* Intact is the length of the longest prefix of whole packets.             *)
LEMMA LongestPrefix ==
  ASSUME NEW s \in Seq(Packets), NEW k, Longest(s, k)
  PROVE  Max({j \in 0..Len(s) : \A i \in 1..j : Whole(s[i])}) = k
<1>0. PICK L \in Nat : L = Len(s)
  OBVIOUS
<1> DEFINE K == {j \in 0..Len(s) : \A i \in 1..j : Whole(s[i])}
<1>1. k \in K /\ k \in 0..L
  BY <1>0 DEF Longest
<1>2. ASSUME NEW j \in K PROVE k >= j
  <2>1. j \in 0..L /\ \A i \in 1..j : Whole(s[i])
    BY <1>0
  <2>2. CASE j > k
    <3>1. k + 1 \in 1..j /\ k < L
      BY <1>1, <2>1, <2>2
    <3>2. ~Whole(s[k + 1])
      BY <3>1, <1>0 DEF Longest
    <3> QED BY <2>1, <3>1, <3>2
  <2> QED BY <1>1, <2>1, <2>2
<1>3. \A j \in K : j \in Nat
  BY <1>0
<1> HIDE DEF K
<1>4. \A x \in K : (\A y \in K : x >= y) => x = k
  <2> TAKE x \in K
  <2> HAVE \A y \in K : x >= y
  <2>1. x >= k /\ k >= x /\ x \in Nat /\ k \in Nat
    BY <1>1, <1>2, <1>3
  <2> QED BY <2>1
<1>5. Max(K) = k
  BY <1>1, <1>2, <1>4 DEF Max
<1> QED BY <1>5 DEF K

(* One more packet: whole after whole ones, or not.                         *)
LEMMA IntactGrows ==
  ASSUME NEW s \in Seq(Packets), NEW p \in Packets, NEW k, Longest(s, k)
  PROVE  Longest(Append(s, p), IF k = Len(s) /\ Whole(p) THEN k + 1 ELSE k)
<1>0. PICK t, j : t = Append(s, p) /\ j = IF k = Len(s) /\ Whole(p) THEN k + 1 ELSE k
  OBVIOUS
<1>1. PICK L \in Nat : L = Len(s)
  OBVIOUS
<1>2. /\ Len(t) = L + 1
      /\ \A i \in 1..L : t[i] = s[i]
      /\ t[L + 1] = p
  BY <1>0, <1>1, AppendProperties
<1>3. /\ j \in 0..L + 1 /\ k \in 0..L
      /\ \A i \in 1..k : Whole(s[i])
      /\ k < L => ~Whole(s[k + 1])
  BY <1>0, <1>1 DEF Longest
<1>4. \A i \in 1..j : Whole(t[i])
  <2> TAKE i \in 1..j
  <2>1. CASE i \in 1..k
    BY <2>1, <1>2, <1>3
  <2>2. CASE i \notin 1..k
    <3>1. k = L /\ Whole(p) /\ i = L + 1
      BY <2>2, <1>0, <1>1, <1>3
    <3> QED BY <3>1, <1>2
  <2> QED BY <2>1, <2>2
<1>5. j < L + 1 => ~Whole(t[j + 1])
  <2> HAVE j < L + 1
  <2>1. CASE k < L
    <3>1. j = k /\ k + 1 \in 1..L
      BY <2>1, <1>0, <1>1, <1>3
    <3>2. t[k + 1] = s[k + 1] /\ ~Whole(s[k + 1])
      BY <3>1, <2>1, <1>2, <1>3
    <3> QED BY <3>1, <3>2
  <2>2. CASE k = L
    BY <2>2, <1>0, <1>1, <1>2, <1>3
  <2>3. k < L \/ k = L
    BY <1>3
  <2> QED BY <2>1, <2>2, <2>3
<1>6. Longest(t, j)
  BY <1>2, <1>3, <1>4, <1>5 DEF Longest
<1> QED BY <1>0, <1>6

-----------------------------------------------------------------------------
(* What is on the wire                                                      *)

(* A packet takes the bytes of its header and those of its data.            *)
LEMMA SizeIs ==
  ASSUME NEW s \in Seq(Packets), NEW n \in 1..Len(s)
  PROVE  /\ s[n].data \in Seq(AllBytes)
         /\ Len(s[n].data) \in Nat
         /\ Size(s[n]) = SIZE + Len(s[n].data)
         /\ Size(s[n]) \in Nat /\ Size(s[n]) >= SIZE
<1>1. s[n] \in Packets
  BY ElementOfSeq
<1>2. s[n].data \in Seq(AllBytes)
  BY <1>1 DEF Packets
<1>3. Len(s[n].data) \in Nat
  BY <1>2, LenProperties
<1> QED BY <1>2, <1>3 DEF Size, SIZE

(* Every packet has an offset, and so has the end.                          *)
LEMMA OffsetsNat ==
  ASSUME NEW s, NEW off, Offsets(off, s)
  PROVE  off \in [1..Len(s) + 1 -> Nat]
BY DEF Offsets

(* Offsets grow.                                                            *)
LEMMA OffsetsGrow ==
  ASSUME NEW s \in Seq(Packets), NEW off, Offsets(off, s),
         NEW m \in 1..Len(s) + 1, NEW n \in 1..Len(s) + 1, m <= n
  PROVE  off[m] <= off[n] /\ (m < n => off[m] + SIZE <= off[n])
<1>1. PICK L \in Nat : L = Len(s)
  OBVIOUS
<1>2. off[m] \in Nat /\ off[n] \in Nat
  BY DEF Offsets
<1>3. CASE m < n
  <2>1. m \in 1..L
    BY <1>1, <1>3
  <2>2. off[m] + Size(s[m]) <= off[n]
    BY <2>1, <1>1, <1>3 DEF Offsets
  <2>3. Size(s[m]) \in Nat /\ Size(s[m]) >= SIZE
    BY <2>1, <1>1, SizeIs
  <2> QED BY <1>2, <2>2, <2>3 DEF SIZE
<1> QED BY <1>2, <1>3

(* Bytes of packet h, from its place c + 1 on, are written at the end.      *)
LEMMA WireGrows ==
  ASSUME NEW s \in Seq(Packets), NEW off, Offsets(off, s),
         NEW from \in Nat, NEW h \in 1..Len(s), NEW c \in Nat,
         NEW w \in Seq(AllBytes), NEW b \in Seq(AllBytes),
         Carries(w, off, s, from, off[h] + c),
         c + Len(b) <= Size(s[h]),
         \A i \in 1..Len(b) : b[i] = <<h, c + i>>
  PROVE  Carries(w \o b, off, s, from, off[h] + c + Len(b))
<1>1. PICK L \in Nat, l \in Nat, a \in Nat : L = Len(s) /\ l = Len(w) /\ a = Len(b)
  OBVIOUS
<1>2. /\ Len(w \o b) = l + a
      /\ \A i \in 1..l : (w \o b)[i] = w[i]
      /\ \A i \in 1..a : (w \o b)[l + i] = b[i]
  BY <1>1, Joined
<1>3. \A n \in 1..L : off[n] \in Nat /\ Size(s[n]) \in Nat
  <2>1. \A n \in 1..L : off[n] \in Nat
    <3>1. off \in [1..L + 1 -> Nat]
      BY <1>1, OffsetsNat
    <3> QED BY <3>1
  <2>2. \A n \in 1..L : Size(s[n]) \in Nat
    BY <1>1, SizeIs
  <2> QED BY <2>1, <2>2
<1>4. PICK q \in Nat, y \in Nat : q = off[h] /\ y = Size(s[h])
  BY <1>1, <1>3
<1>5. l = q + c - from /\ c + a <= y
  BY <1>1, <1>4 DEF Carries
<1>6. ASSUME NEW i \in 1..l + a, NEW n \in 1..L, NEW j \in 1..Size(s[n]),
             off[n] + j = from + i
      PROVE  (w \o b)[i] = <<n, j>>
  <2>1. PICK o \in Nat, z \in Nat : o = off[n] /\ z = Size(s[n])
    BY <1>3
  <2>2. j \in 1..z
    BY <2>1
  <2>3. CASE i \in 1..l
    <3>1. w[i] = <<n, j>>
      BY <2>3, <1>1, <1>6 DEF Carries
    <3> QED BY <2>3, <3>1, <1>2
  <2>4. CASE i \notin 1..l
    <3>1. PICK e \in Int : e = i - l
      OBVIOUS
    <3>2. e \in 1..a /\ i = l + e
      BY <2>4, <3>1
    <3>3. o + j = q + c + e
      BY <2>1, <3>2, <1>5, <1>6
    <3>4. h \in 1..L /\ (n < h => o + z <= q) /\ (h < n => q + y <= o)
      <4>1. n \in 1..L + 1 /\ h \in 1..L + 1 /\ h \in 1..L
        BY <1>1
      <4>2. n < h => off[n] + Size(s[n]) <= off[h]
        BY <4>1, <1>1 DEF Offsets
      <4>3. h < n => off[h] + Size(s[h]) <= off[n]
        BY <4>1, <1>1 DEF Offsets
      <4> QED BY <4>1, <4>2, <4>3, <2>1, <1>4
    <3>5. ~ (n < h)
      BY <2>2, <3>2, <3>3, <3>4
    <3>6. ~ (h < n)
      BY <2>2, <3>2, <3>3, <3>4, <1>5
    <3>7. n = h
      BY <3>4, <3>5, <3>6
    <3>8. j = c + e
      <4>1. o = q
        BY <3>7, <2>1, <1>4
      <4> QED BY <4>1, <2>2, <3>2, <3>3
    <3>9. (w \o b)[l + e] = b[e] /\ b[e] = <<h, c + e>>
      BY <3>2, <1>1, <1>2
    <3> QED BY <3>2, <3>7, <3>8, <3>9
  <2> QED BY <2>3, <2>4
<1>7. PICK v : v = w \o b
  OBVIOUS
<1>8. Len(v) = q + c + a - from /\ Len(v) = l + a
  BY <1>2, <1>5, <1>7
<1>9. Carries(v, off, s, from, q + c + a)
  <2>1. ASSUME NEW i \in 1..Len(v), NEW n \in 1..Len(s), NEW j \in 1..Size(s[n]),
               off[n] + j = from + i
        PROVE  v[i] = <<n, j>>
    <3>1. i \in 1..l + a /\ n \in 1..L
      BY <1>1, <1>8
    <3> QED BY <3>1, <2>1, <1>6, <1>7
  <2> QED BY <2>1, <1>8 DEF Carries
<1> QED BY <1>1, <1>4, <1>7, <1>9

(* The first k bytes are read.                                              *)
LEMMA WireShrinks ==
  ASSUME NEW s \in Seq(Packets), NEW off, Offsets(off, s),
         NEW from \in Nat, NEW last \in Nat, NEW k \in Nat,
         NEW w \in Seq(AllBytes), k <= Len(w),
         Carries(w, off, s, from, last)
  PROVE  Carries(SubSeq(w, k + 1, Len(w)), off, s, from + k, last)
<1>1. PICK L \in Nat, l \in Nat : L = Len(s) /\ l = Len(w)
  OBVIOUS
<1>2. PICK v : v = SubSeq(w, k + 1, Len(w))
  OBVIOUS
<1>3. Len(v) = l - k /\ \A i \in 1..l - k : v[i] = w[k + i]
  BY <1>1, <1>2, Cut
<1>4. l = last - from
  BY <1>1 DEF Carries
<1>5. ASSUME NEW i \in 1..l - k, NEW n \in 1..L, NEW j \in 1..Size(s[n]),
             off[n] + j = from + k + i
      PROVE  v[i] = <<n, j>>
  <2>1. k + i \in 1..l /\ off[n] + j = from + (k + i)
    BY <1>5
  <2>2. w[k + i] = <<n, j>>
    BY <2>1, <1>1 DEF Carries
  <2> QED BY <2>2, <1>3
<1>6. Len(v) = last - (from + k)
  BY <1>1, <1>3, <1>4
<1> QED BY <1>1, <1>2, <1>3, <1>5, <1>6 DEF Carries

(* A packet more to send: it comes after all others.                        *)
More(off, packets, packet) ==
  [n \in 1..Len(packets) + 2 |->
     IF n <= Len(packets) + 1 THEN off[n] ELSE off[Len(packets) + 1] + Size(packet)]

(* What a new packet leaves of the offsets, and that its own is where the   *)
(* last packet ends.                                                        *)
LEMMA OffsetsMore ==
  ASSUME NEW s \in Seq(Packets), NEW p \in Packets, NEW off, Offsets(off, s)
  PROVE  /\ Offsets(More(off, s, p), Append(s, p))
         /\ \A n \in 1..Len(s) + 1 : More(off, s, p)[n] = off[n]
<1>0. PICK t, more : t = Append(s, p) /\ more = More(off, s, p)
  OBVIOUS
<1>1. PICK L \in Nat : L = Len(s)
  OBVIOUS
<1>2. /\ t \in Seq(Packets) /\ Len(t) = L + 1
      /\ \A i \in 1..L : t[i] = s[i]
      /\ t[L + 1] = p
  BY <1>0, <1>1, AppendProperties
<1>3. \A n \in 1..L + 1 : off[n] \in Nat
  <2>1. off \in [1..L + 1 -> Nat]
    BY <1>1, OffsetsNat
  <2> QED BY <2>1
<1>4. PICK z \in Nat : z = Size(p)
  <2>1. L + 1 \in 1..Len(t)
    BY <1>2
  <2> QED BY <2>1, <1>2, SizeIs
<1>5. PICK q \in Nat : q = off[L + 1]
  BY <1>3
<1>6. /\ \A n \in 1..L + 1 : more[n] = off[n]
      /\ more[L + 2] = q + z
  <2>1. more = [n \in 1..L + 2 |-> IF n <= L + 1 THEN off[n] ELSE q + z]
    BY <1>0, <1>1, <1>4, <1>5 DEF More
  <2>2. \A n \in 1..L + 1 : n \in 1..L + 2 /\ n <= L + 1
    OBVIOUS
  <2>3. L + 2 \in 1..L + 2 /\ ~ (L + 2 <= L + 1)
    OBVIOUS
  <2> QED BY <2>1, <2>2, <2>3
<1>7. more \in [1..L + 2 -> Nat]
  <2>1. more = [n \in 1..L + 2 |-> IF n <= L + 1 THEN off[n] ELSE q + z]
    BY <1>0, <1>1, <1>4, <1>5 DEF More
  <2>2. \A n \in 1..L + 2 : (IF n <= L + 1 THEN off[n] ELSE q + z) \in Nat
    BY <1>3
  <2> QED BY <2>1, <2>2
<1>8. ASSUME NEW n \in 1..L + 1
      PROVE  more[n + 1] = more[n] + Size(t[n])
  <2>1. CASE n \in 1..L
    <3>1. n \in 1..L + 1 /\ n + 1 \in 1..L + 1
      BY <2>1
    <3>2. off[n + 1] = off[n] + Size(s[n])
      BY <2>1, <1>1 DEF Offsets
    <3> QED BY <3>1, <3>2, <2>1, <1>2, <1>6
  <2>2. CASE n = L + 1
    <3>1. more[n] = q /\ more[n + 1] = q + z /\ Size(t[n]) = z
      <4>1. L + 1 \in 1..L + 1 /\ L + 1 + 1 = L + 2
        OBVIOUS
      <4> QED BY <4>1, <2>2, <1>2, <1>4, <1>5, <1>6
    <3> QED BY <3>1
  <2>3. n \in 1..L \/ n = L + 1
    OBVIOUS
  <2> QED BY <2>1, <2>2, <2>3
<1>9. ASSUME NEW m \in 1..L + 1, NEW n \in 1..L + 2, m < n
      PROVE  more[m] + Size(t[m]) <= more[n]
  <2>1. CASE n \in 1..L + 1
    <3>1. m \in 1..L
      BY <2>1, <1>9
    <3>2. off[m] + Size(s[m]) <= off[n]
      BY <2>1, <3>1, <1>1, <1>9 DEF Offsets
    <3>3. more[m] = off[m] /\ more[n] = off[n] /\ t[m] = s[m]
      BY <2>1, <3>1, <1>2, <1>6
    <3> QED BY <3>2, <3>3
  <2>2. CASE n = L + 2
    <3>1. CASE m = L + 1
      <4>1. more[m] = q /\ Size(t[m]) = z /\ more[n] = q + z
        BY <2>2, <3>1, <1>2, <1>4, <1>5, <1>6
      <4> QED BY <4>1
    <3>2. CASE m \in 1..L
      <4>1. off[m] + Size(s[m]) <= q
        <5>1. L + 1 \in 1..L + 1 /\ m < L + 1
          BY <3>2
        <5> QED BY <5>1, <3>2, <1>1, <1>5 DEF Offsets
      <4>2. more[m] = off[m] /\ t[m] = s[m] /\ more[n] = q + z
        BY <2>2, <3>2, <1>2, <1>6
      <4>3. PICK o \in Nat, y \in Nat : o = off[m] /\ y = Size(s[m])
        BY <3>2, <1>1, <1>3, SizeIs
      <4>4. o + y <= q => o + y <= q + z
        OBVIOUS
      <4> QED BY <4>1, <4>2, <4>3, <4>4
    <3>3. m \in 1..L \/ m = L + 1
      OBVIOUS
    <3> QED BY <3>1, <3>2, <3>3
  <2>3. n \in 1..L + 1 \/ n = L + 2
    OBVIOUS
  <2> QED BY <2>1, <2>2, <2>3
<1>10. Offsets(more, t)
  <2>1. PICK M \in Nat : M = L + 1
    OBVIOUS
  <2>2. L + 2 = M + 1
    BY <2>1
  <2> QED BY <2>1, <2>2, <1>2, <1>7, <1>8, <1>9 DEF Offsets
<1> QED BY <1>0, <1>1, <1>6, <1>10

(* None of it is on the wire yet.                                           *)
LEMMA CarriesMore ==
  ASSUME NEW s \in Seq(Packets), NEW p \in Packets, NEW off, Offsets(off, s),
         NEW t, t = Append(s, p),
         NEW more, \A n \in 1..Len(s) + 1 : more[n] = off[n],
         NEW w \in Seq(AllBytes), NEW from \in Nat, NEW last \in Nat,
         last <= off[Len(s) + 1],
         Carries(w, off, s, from, last)
  PROVE  Carries(w, more, t, from, last)
<1>1. PICK L \in Nat, l \in Nat : L = Len(s) /\ l = Len(w)
  OBVIOUS
<1>2. /\ Len(t) = L + 1
      /\ \A i \in 1..L : t[i] = s[i]
      /\ t[L + 1] = p
      /\ t \in Seq(Packets)
  BY <1>1, AppendProperties
<1>3. l = last - from
  BY <1>1 DEF Carries
<1>4. PICK q \in Nat : q = off[L + 1]
  <2>1. off \in [1..L + 1 -> Nat]
    BY <1>1, OffsetsNat
  <2> QED BY <2>1
<1>5. ASSUME NEW i \in 1..l, NEW n \in 1..L + 1, NEW j \in 1..Size(t[n]),
             more[n] + j = from + i
      PROVE  w[i] = <<n, j>>
  <2>1. CASE n \in 1..L
    <3>1. more[n] = off[n] /\ t[n] = s[n]
      BY <2>1, <1>1, <1>2
    <3> QED BY <2>1, <3>1, <1>1, <1>5 DEF Carries
  <2>2. CASE n = L + 1
    <3>1. more[n] = q
      BY <2>2, <1>1, <1>4
    <3>2. last <= q
      BY <1>1, <1>4
    <3>3. PICK z \in Nat : z = Size(t[n])
      BY <1>2, SizeIs
    <3>4. j \in 1..z
      BY <3>3
    <3>5. q + j = from + i
      BY <3>1, <1>5
    <3> QED BY <3>2, <3>4, <3>5, <1>3
  <2> QED BY <2>1, <2>2
<1> QED BY <1>1, <1>2, <1>3, <1>5 DEF Carries

-----------------------------------------------------------------------------
(* The steps of the sender                                                  *)

(* Both numbers are those of a place on the way.                            *)
LEMMA PlacesAre ==
  ASSUME TypeOK, QueueOK, NEW off, Offsets(off, sent)
  PROVE  /\ Written(off) \in Nat
         /\ Written(off) <= off[Len(sent) + 1]
         /\ Len(received) <= Len(sent) => Consumed(off) \in Nat
<1>1. PICK L \in Nat, q \in Nat, r \in Nat :
        L = Len(sent) /\ q = Len(out_packets) /\ r = Len(received)
  BY DEF TypeOK
<1>2. \A n \in 1..L + 1 : off[n] \in Nat
  <2>1. off \in [1..L + 1 -> Nat]
    BY <1>1, OffsetsNat
  <2> QED BY <2>1
<1>3. q <= L /\ (write = "body" => q # 0)
  BY <1>1, EmptySeq DEF QueueOK, TypeOK
<1>4. PICK h \in 1..L + 1 : h = L - q + 1
  <2>1. L - q + 1 \in 1..L + 1
    BY <1>3
  <2> QED BY <2>1
<1>5. L + 1 \in 1..L + 1 /\ h <= L + 1 /\ (write = "body" => h < L + 1)
  BY <1>3, <1>4
<1>6. off[h] <= off[L + 1] /\ (h < L + 1 => off[h] + SIZE <= off[L + 1])
  BY <1>1, <1>5, OffsetsGrow DEF TypeOK
<1>7. Written(off) = off[h] + (IF write = "body" THEN SIZE ELSE 0)
  BY <1>1, <1>4 DEF Written
<1>8. Written(off) \in Nat /\ Written(off) <= off[L + 1]
  <2>1. off[h] \in Nat /\ off[L + 1] \in Nat
    BY <1>2, <1>5
  <2> QED BY <2>1, <1>5, <1>6, <1>7 DEF SIZE
<1>9. r <= L => Consumed(off) \in Nat
  <2> HAVE r <= L
  <2>1. r + 1 \in 1..L + 1
    OBVIOUS
  <2>2. off[r + 1] \in Nat
    BY <2>1, <1>2
  <2> QED BY <2>2, <1>1 DEF Consumed, SIZE
<1> QED BY <1>1, <1>8, <1>9

(* What psend() sends.                                                      *)
LEMMA PacketIs ==
  ASSUME NEW L \in Nat, NEW type \in 0..count - 1,
         NEW p \in {serialize(L + 1, type), Moved(serialize(L + 1, type))}
  PROVE  /\ p \in Packets
         /\ p.n = L + 1
         /\ p.data \in {<<>>, Bytes(L + 1, SIZE + 1, SIZE + sizes[p.type])}
<1>1. sizes[type] \in Nat
  BY SizesAssumption
<1>2. PICK d : d = Bytes(L + 1, SIZE + 1, SIZE + sizes[type])
  OBVIOUS
<1>3. d \in Seq(AllBytes)
  <2>1. PICK n \in Nat, k \in Nat : n = L + 1 /\ k = sizes[type]
    BY <1>1
  <2> QED BY <2>1, <1>2, DataIs
<1>4. serialize(L + 1, type) = [type |-> type, n |-> L + 1, data |-> d]
  BY <1>2 DEF serialize
<1>5. Moved(serialize(L + 1, type)) = [type |-> type, n |-> L + 1, data |-> <<>>]
  BY <1>4 DEF Moved
<1>6. L + 1 \in Nat /\ <<>> \in Seq(AllBytes)
  OBVIOUS
<1>7. CASE p = [type |-> type, n |-> L + 1, data |-> d]
  BY <1>2, <1>3, <1>6, <1>7 DEF Packets
<1>8. CASE p = [type |-> type, n |-> L + 1, data |-> <<>>]
  BY <1>6, <1>8 DEF Packets
<1> QED BY <1>4, <1>5, <1>7, <1>8

(* Each step keeps the invariant.                                           *)
LEMMA PsendStep == Inv /\ psend => Inv'
<1> SUFFICES ASSUME Inv, psend PROVE Inv'
  OBVIOUS
<1>1. /\ TypeOK /\ SentOK /\ QueueOK /\ WireOK /\ IntactOK /\ Arrived
  BY DEF Inv
<1>2. PICK off \in [1..Len(sent) + 1 -> Nat] :
        Offsets(off, sent) /\ (InStep => Aligned(off))
  BY DEF Inv
<1>3. PICK L \in Nat, q \in Nat, r \in Nat, l \in Nat :
        /\ L = Len(sent) /\ q = Len(out_packets)
        /\ r = Len(received) /\ l = Len(wire)
  BY <1>1 DEF TypeOK
<1>4. PICK type \in 0..count - 1 :
        \E p \in {serialize(L + 1, type), Moved(serialize(L + 1, type))} :
          sent' = Append(sent, p) /\ out_packets' = Append(out_packets, p)
  BY <1>3 DEF psend
<1>5. PICK p \in {serialize(L + 1, type), Moved(serialize(L + 1, type))} :
        sent' = Append(sent, p) /\ out_packets' = Append(out_packets, p)
  BY <1>4
<1>6. /\ write' = IF out_packets = <<>> THEN "header" ELSE write
      /\ UNCHANGED <<wire, receiveVars>>
  BY DEF psend
<1>7. /\ p \in Packets
      /\ p.n = L + 1
      /\ p.data \in {<<>>, Bytes(L + 1, SIZE + 1, SIZE + sizes[p.type])}
  BY PacketIs
<1>8. /\ sent' \in Seq(Packets) /\ Len(sent') = L + 1
      /\ \A n \in 1..L : sent'[n] = sent[n]
      /\ sent'[L + 1] = p
  <2>1. sent \in Seq(Packets)
    BY <1>1 DEF TypeOK
  <2> QED BY <2>1, <1>3, <1>5, <1>7, AppendProperties
<1>9. /\ out_packets' \in Seq(Packets) /\ Len(out_packets') = q + 1
      /\ \A i \in 1..q : out_packets'[i] = out_packets[i]
      /\ out_packets'[q + 1] = p
      /\ out_packets' # <<>>
  <2>1. out_packets \in Seq(Packets)
    BY <1>1 DEF TypeOK
  <2> QED BY <2>1, <1>3, <1>5, <1>7, AppendProperties
<1>10. TypeOK'
  <2>1. write' \in {"header", "body", "none"}
    BY <1>1, <1>6 DEF TypeOK
  <2> QED BY <2>1, <1>1, <1>6, <1>8, <1>9 DEF TypeOK, receiveVars
<1>11. SentOK'
  <2> SUFFICES ASSUME NEW n \in 1..L + 1
               PROVE  /\ sent'[n].n = n
                      /\ sent'[n].data
                           \in {<<>>, Bytes(n, SIZE + 1, SIZE + sizes[sent'[n].type])}
    BY <1>8 DEF SentOK
  <2>1. CASE n \in 1..L
    BY <2>1, <1>1, <1>3, <1>8 DEF SentOK
  <2>2. CASE n = L + 1
    BY <2>2, <1>7, <1>8
  <2>3. n \in 1..L \/ n = L + 1
    OBVIOUS
  <2> QED BY <2>1, <2>2, <2>3
<1>12. q <= L /\ (write = "none" <=> q = 0)
  BY <1>1, <1>3, EmptySeq DEF QueueOK, TypeOK
<1>13. QueueOK'
  <2>1. Len(out_packets') <= Len(sent')
    BY <1>8, <1>9, <1>12
  <2>2. ASSUME NEW i \in 1..q + 1
        PROVE  out_packets'[i] = sent'[L + 1 - (q + 1) + i]
    <3>1. CASE i \in 1..q
      <4>1. out_packets[i] = sent[L - q + i]
        BY <3>1, <1>1, <1>3 DEF QueueOK
      <4>2. L - q + i \in 1..L /\ L + 1 - (q + 1) + i = L - q + i
        BY <3>1, <1>12
      <4> QED BY <3>1, <4>1, <4>2, <1>8, <1>9
    <3>2. CASE i = q + 1
      <4>1. L + 1 - (q + 1) + i = L + 1
        BY <3>2
      <4> QED BY <3>2, <4>1, <1>8, <1>9
    <3>3. i \in 1..q \/ i = q + 1
      OBVIOUS
    <3> QED BY <3>1, <3>2, <3>3
  <2>3. write' # "none"
    BY <1>1, <1>6 DEF QueueOK
  <2> QED BY <2>1, <2>2, <2>3, <1>8, <1>9 DEF QueueOK
<1>14. WireOK'
  BY <1>1, <1>3, <1>6, <1>8 DEF WireOK
<1>15. PICK k \in 0..L : k = Intact
  BY <1>1, <1>3 DEF IntactOK, Longest
<1>16. PICK j : j = IF k = L /\ Whole(p) THEN k + 1 ELSE k
  OBVIOUS
<1>17. Longest(sent', j)
  <2>1. Longest(sent, k) /\ sent \in Seq(Packets)
    BY <1>1, <1>15 DEF IntactOK, TypeOK
  <2>2. Longest(Append(sent, p), IF k = Len(sent) /\ Whole(p) THEN k + 1 ELSE k)
    BY <2>1, <1>7, IntactGrows
  <2> QED BY <2>2, <1>3, <1>5, <1>16
<1>18. Intact' = j
  BY <1>8, <1>17, LongestPrefix DEF Intact
<1>19. IntactOK'
  BY <1>17, <1>18 DEF IntactOK
<1>20. k = L => r <= k
  BY <1>2, <1>3, <1>15 DEF InStep, Aligned
<1>21. Arrived'
  <2> SUFFICES ASSUME NEW n \in 1..r, n <= j
               PROVE  received[n] = Contents(sent'[n])
    BY <1>3, <1>6, <1>18 DEF Arrived, receiveVars
  <2>1. n <= k
    BY <1>16, <1>20
  <2>2. n \in 1..L
    BY <2>1
  <2> QED BY <2>1, <2>2, <1>1, <1>3, <1>8, <1>15 DEF Arrived
<1>22. PICK more : more = More(off, sent, p)
  OBVIOUS
<1>23. /\ Offsets(more, sent')
       /\ \A n \in 1..Len(sent) + 1 : more[n] = off[n]
  BY <1>1, <1>2, <1>5, <1>7, <1>22, OffsetsMore DEF TypeOK
<1>24. InStep' => Aligned(more)'
  <2> HAVE InStep'
  <2>1. (j = L + 1 \/ r < j) /\ (j = k \/ (j = L + 1 /\ k = L))
    BY <1>3, <1>6, <1>8, <1>15, <1>16, <1>18 DEF InStep, receiveVars
  <2>2. k = L \/ r < k
    BY <2>1
  <2>3. Aligned(off)
    BY <2>2, <1>2, <1>3, <1>15 DEF InStep
  <2>4. r <= k /\ k <= L /\ k <= j
    BY <2>3, <1>3, <1>15, <1>16 DEF Aligned
  <2>5. r + 1 \in 1..L + 1 /\ L - q + 1 \in 1..L + 1
    BY <2>4, <1>12
  <2>6. Consumed(more)' = Consumed(off)
    BY <2>5, <1>3, <1>6, <1>23 DEF Consumed, receiveVars
  <2>7. Written(more)' = Written(off)
    <3>1. L + 1 - (q + 1) + 1 = L - q + 1
      OBVIOUS
    <3>2. write' = "body" <=> write = "body"
      BY <1>1, <1>6 DEF QueueOK
    <3> QED BY <2>5, <3>1, <3>2, <1>3, <1>8, <1>9, <1>23 DEF Written
  <2>8. Carries(wire, more, sent', Consumed(off), Written(off))
    <3>1. /\ Written(off) \in Nat
          /\ Written(off) <= off[Len(sent) + 1]
          /\ Consumed(off) \in Nat
      BY <2>4, <1>1, <1>2, <1>3, PlacesAre
    <3>2. Carries(wire, off, sent, Consumed(off), Written(off))
      BY <2>3 DEF Aligned
    <3> QED BY <3>1, <3>2, <1>1, <1>2, <1>5, <1>7, <1>23, CarriesMore DEF TypeOK
  <2>9. read = "body" =>
          r < k /\ temp = sent[r + 1].type /\ len = sizes[temp]
    BY <2>3, <1>3, <1>15 DEF Aligned
  <2>10. read = "body" =>
           r < j /\ temp = sent'[r + 1].type /\ len = sizes[temp]
    <3> HAVE read = "body"
    <3>1. r + 1 \in 1..L
      BY <2>4, <2>9
    <3> QED BY <2>4, <2>9, <3>1, <1>8, <1>16
  <2>11. r <= j
    BY <2>4, <1>16
  <2>12. read # "none" /\ temp < count
    BY <2>3 DEF Aligned
  <2>13. /\ received' = received /\ read' = read /\ temp' = temp /\ len' = len
         /\ wire' = wire
    BY <1>6 DEF receiveVars
  <2> QED BY <2>6, <2>7, <2>8, <2>10, <2>11, <2>12, <2>13, <1>3, <1>18 DEF Aligned
<1>25. more \in [1..Len(sent') + 1 -> Nat]
  BY <1>23 DEF Offsets
<1> QED BY <1>10, <1>11, <1>13, <1>14, <1>19, <1>21, <1>23, <1>24, <1>25 DEF Inv

(* write_header() and write_body() write the packet after those written.    *)
LEMMA HeadIs ==
  ASSUME TypeOK, SentOK, QueueOK, write # "none",
         NEW off, Offsets(off, sent)
  PROVE  \E h \in 1..Len(sent) :
           /\ h = Len(sent) - Len(out_packets) + 1
           /\ Head(out_packets) = sent[h]
           /\ sent[h].n = h
           /\ sent[h].data \in {<<>>, Bytes(h, SIZE + 1, SIZE + sizes[sent[h].type])}
           /\ off[h] \in Nat
           /\ Written(off) = off[h] + (IF write = "body" THEN SIZE ELSE 0)
<1>1. PICK L \in Nat, q \in Nat : L = Len(sent) /\ q = Len(out_packets)
  BY DEF TypeOK
<1>2. q # 0 /\ q <= L
  BY <1>1, EmptySeq DEF QueueOK, TypeOK
<1>3. PICK h \in 1..L : h = L - q + 1
  <2>1. L - q + 1 \in 1..L
    BY <1>2
  <2> QED BY <2>1
<1>4. Head(out_packets) = sent[h]
  <2>1. 1 \in 1..q /\ L - q + 1 = h
    BY <1>2, <1>3
  <2>2. out_packets[1] = sent[h]
    BY <2>1, <1>1 DEF QueueOK
  <2> QED BY <2>2, <1>1, <1>2 DEF TypeOK
<1>5. off[h] \in Nat
  <2>1. off \in [1..L + 1 -> Nat]
    BY <1>1, OffsetsNat
  <2> QED BY <2>1
<1> QED BY <1>1, <1>3, <1>4, <1>5 DEF SentOK, Written

(* The other side sees what is written, and nothing else.                   *)
LEMMA WriteKeeps ==
  ASSUME Inv, NEW b \in Seq(AllBytes),
         wire' = wire \o b,
         \A i \in 1..Len(b) : b[i][1] \in 1..Len(sent),
         UNCHANGED <<sent, receiveVars>>
  PROVE  /\ wire' \in Seq(AllBytes)
         /\ WireOK' /\ IntactOK' /\ Arrived' /\ SentOK'
         /\ InStep' <=> InStep
         /\ Intact' = Intact
<1>1. PICK l \in Nat, a \in Nat : l = Len(wire) /\ a = Len(b)
  BY DEF Inv, TypeOK
<1>2. /\ wire' \in Seq(AllBytes) /\ Len(wire') = l + a
      /\ \A i \in 1..l : wire'[i] = wire[i]
      /\ \A i \in 1..a : wire'[l + i] = b[i]
  BY <1>1, Joined DEF Inv, TypeOK
<1>3. ASSUME NEW i \in 1..l + a
      PROVE  wire'[i][1] \in 1..Len(sent)
  <2>1. CASE i \in 1..l
    BY <2>1, <1>1, <1>2 DEF Inv, WireOK
  <2>2. CASE i \notin 1..l
    <3>1. PICK e \in Int : e = i - l
      OBVIOUS
    <3>2. e \in 1..a /\ i = l + e
      BY <2>2, <3>1
    <3> QED BY <3>2, <1>1, <1>2
  <2> QED BY <2>1, <2>2
<1>4. WireOK'
  BY <1>2, <1>3 DEF WireOK
<1> QED BY <1>2, <1>4 DEF Inv, IntactOK, Arrived, SentOK, InStep, Intact, receiveVars

(* In step, the receiver is at the place of a packet that was sent.         *)
LEMMA ConsumedIs ==
  ASSUME Inv, NEW off, Offsets(off, sent), Aligned(off)
  PROVE  Consumed(off) \in Nat /\ Len(received) <= Len(sent)
<1>1. PICK L \in Nat, r \in Nat : L = Len(sent) /\ r = Len(received)
  BY DEF Inv, TypeOK
<1>2. PICK k \in 0..L : k = Intact
  BY <1>1 DEF Inv, IntactOK, Longest
<1>3. r <= k
  BY <1>1, <1>2 DEF Aligned
<1>4. r <= L
  BY <1>2, <1>3
<1> QED BY <1>1, <1>4, PlacesAre DEF Inv

(* A write puts the next bytes of the packet at the head of the queue       *)
(* behind those on the wire.                                                *)
LEMMA WriteCarries ==
  ASSUME Inv, NEW off, Offsets(off, sent), Aligned(off),
         NEW h \in 1..Len(sent), NEW c \in Nat, Written(off) = off[h] + c,
         NEW b \in Seq(AllBytes), c + Len(b) <= Size(sent[h]),
         \A i \in 1..Len(b) : b[i] = <<h, c + i>>
  PROVE  Carries(wire \o b, off, sent, Consumed(off), off[h] + c + Len(b))
<1>1. PICK s, w, from : s = sent /\ w = wire /\ from = Consumed(off)
  OBVIOUS
<1>2. /\ s \in Seq(Packets) /\ w \in Seq(AllBytes) /\ h \in 1..Len(s)
      /\ Offsets(off, s) /\ from \in Nat
  BY <1>1, ConsumedIs DEF Inv, TypeOK
<1>3. Carries(w, off, s, from, off[h] + c)
  BY <1>1 DEF Aligned
<1>4. c + Len(b) <= Size(s[h])
  BY <1>1
<1>5. Carries(w \o b, off, s, from, off[h] + c + Len(b))
  BY <1>2, <1>3, <1>4, WireGrows
<1> QED BY <1>1, <1>5

(* write_header() continues the byte sequence.                              *)
LEMMA WriteHeaderStep == Inv /\ write_header => Inv'
<1> SUFFICES ASSUME Inv, write_header PROVE Inv'
  OBVIOUS
<1>1. /\ TypeOK /\ SentOK /\ QueueOK
  BY DEF Inv
<1>2. PICK off \in [1..Len(sent) + 1 -> Nat] :
        Offsets(off, sent) /\ (InStep => Aligned(off))
  BY DEF Inv
<1>3. /\ write = "header" /\ write' = "body"
      /\ wire' = wire \o Header(Head(out_packets).n)
      /\ UNCHANGED <<sent, out_packets, receiveVars>>
  BY DEF write_header
<1>4. PICK h \in 1..Len(sent) :
        /\ h = Len(sent) - Len(out_packets) + 1
        /\ Head(out_packets) = sent[h]
        /\ sent[h].n = h
        /\ off[h] \in Nat
        /\ Written(off) = off[h]
  <2>1. write # "none" /\ write # "body"
    BY <1>3
  <2>2. \A n \in Nat : n + 0 = n
    OBVIOUS
  <2> QED BY <2>1, <2>2, <1>1, <1>2, HeadIs
<1>5. PICK b : b = Header(h)
  OBVIOUS
<1>6. /\ b \in Seq(AllBytes) /\ Len(b) = SIZE
      /\ \A i \in 1..SIZE : b[i] = <<h, i>>
  <2>1. h \in Nat
    BY <1>1 DEF TypeOK
  <2> QED BY <2>1, <1>5, HeaderIs
<1>7. /\ wire' \in Seq(AllBytes)
      /\ WireOK' /\ IntactOK' /\ Arrived' /\ SentOK'
      /\ InStep' <=> InStep
      /\ Intact' = Intact
  <2>1. \A i \in 1..Len(b) : b[i][1] \in 1..Len(sent)
    BY <1>6
  <2>2. wire' = wire \o b
    BY <1>3, <1>4, <1>5
  <2> QED BY <2>1, <2>2, <1>3, <1>6, WriteKeeps
<1>8. TypeOK'
  BY <1>1, <1>3, <1>7 DEF TypeOK, receiveVars
<1>9. QueueOK'
  <2>1. write # "none" /\ write' # "none"
    BY <1>3
  <2> QED BY <2>1, <1>1, <1>3 DEF QueueOK
<1>10. Offsets(off, sent')
  BY <1>2, <1>3
<1>11. InStep' => Aligned(off)'
  <2> HAVE InStep'
  <2>1. Aligned(off)
    BY <1>2, <1>7
  <2>2. Consumed(off)' = Consumed(off)
    BY <1>3 DEF Consumed, receiveVars
  <2>3. Written(off)' = off[h] + SIZE
    BY <1>3, <1>4 DEF Written
  <2>5. Carries(wire \o b, off, sent, Consumed(off), off[h] + SIZE)
    <3>1. Written(off) = off[h] + 0 /\ off[h] + 0 + Len(b) = off[h] + SIZE
      BY <1>4, <1>6 DEF SIZE
    <3>2. 0 + Len(b) <= Size(sent[h])
      BY <1>1, <1>6, SizeIs DEF SIZE, TypeOK
    <3>3. \A i \in 1..Len(b) : b[i] = <<h, 0 + i>>
      BY <1>6
    <3>4. Carries(wire \o b, off, sent, Consumed(off), off[h] + 0 + Len(b))
      BY <2>1, <3>1, <3>2, <3>3, <1>2, <1>6, WriteCarries
    <3> QED BY <3>1, <3>4
  <2>6. wire' = wire \o b
    BY <1>3, <1>4, <1>5
  <2> QED BY <2>1, <2>2, <2>3, <2>5, <2>6, <1>3, <1>7 DEF Aligned, receiveVars
<1> QED BY <1>2, <1>3, <1>7, <1>8, <1>9, <1>10, <1>11 DEF Inv

(* write_body() does, and the next packet begins where it ends.             *)
LEMMA WriteBodyStep == Inv /\ write_body => Inv'
<1> SUFFICES ASSUME Inv, write_body PROVE Inv'
  OBVIOUS
<1>1. /\ TypeOK /\ SentOK /\ QueueOK
  BY DEF Inv
<1>2. PICK off \in [1..Len(sent) + 1 -> Nat] :
        Offsets(off, sent) /\ (InStep => Aligned(off))
  BY DEF Inv
<1>3. /\ write = "body"
      /\ wire' = wire \o Head(out_packets).data
      /\ out_packets' = Tail(out_packets)
      /\ write' = IF Tail(out_packets) = <<>> THEN "none" ELSE "header"
      /\ UNCHANGED <<sent, receiveVars>>
  BY DEF write_body
<1>4. PICK h \in 1..Len(sent) :
        /\ h = Len(sent) - Len(out_packets) + 1
        /\ Head(out_packets) = sent[h]
        /\ sent[h].data \in {<<>>, Bytes(h, SIZE + 1, SIZE + sizes[sent[h].type])}
        /\ off[h] \in Nat
        /\ Written(off) = off[h] + SIZE
  <2>1. write # "none"
    BY <1>3
  <2> QED BY <2>1, <1>1, <1>2, <1>3, HeadIs
<1>5. PICK b : b = sent[h].data
  OBVIOUS
<1>6. PICK L \in Nat, q \in Nat, a \in Nat :
        L = Len(sent) /\ q = Len(out_packets) /\ a = Len(b)
  <2>1. Len(sent) \in Nat /\ Len(out_packets) \in Nat
    BY <1>1 DEF TypeOK
  <2>2. Len(b) \in Nat
    BY <1>1, <1>5, SizeIs DEF TypeOK
  <2> QED BY <2>1, <2>2
<1>7. /\ b \in Seq(AllBytes) /\ Size(sent[h]) = SIZE + a
      /\ \A i \in 1..a : b[i] = <<h, SIZE + i>>
  <2>1. b \in Seq(AllBytes) /\ Size(sent[h]) = SIZE + a
    BY <1>1, <1>5, <1>6, SizeIs DEF TypeOK
  <2>2. CASE b = <<>>
    <3>1. a = 0
      BY <2>2, <1>6
    <3> QED BY <2>1, <3>1
  <2>3. CASE b = Bytes(h, SIZE + 1, SIZE + sizes[sent[h].type])
    <3>1. PICK k \in Nat : k = sizes[sent[h].type]
      <4>1. sent[h] \in Packets
        BY <1>1 DEF TypeOK
      <4>2. sent[h].type \in 0..count - 1
        BY <4>1 DEF Packets
      <4> QED BY <4>2, SizesAssumption
    <3>2. h \in Nat
      BY <1>6
    <3>3. Len(b) = k /\ \A i \in 1..k : b[i] = <<h, SIZE + i>>
      BY <2>3, <3>1, <3>2, DataIs
    <3> QED BY <2>1, <3>3, <1>6
  <2> QED BY <2>2, <2>3, <1>4, <1>5
<1>8. wire' = wire \o b
  BY <1>3, <1>4, <1>5
<1>9. /\ wire' \in Seq(AllBytes)
      /\ WireOK' /\ IntactOK' /\ Arrived' /\ SentOK'
      /\ InStep' <=> InStep
      /\ Intact' = Intact
  <2>1. \A i \in 1..Len(b) : b[i][1] \in 1..Len(sent)
    BY <1>6, <1>7
  <2> QED BY <2>1, <1>3, <1>7, <1>8, WriteKeeps
<1>10. /\ out_packets' \in Seq(Packets) /\ Len(out_packets') = q - 1
       /\ \A i \in 1..q - 1 : out_packets'[i] = out_packets[i + 1]
       /\ q \in 1..L
  <2>1. write # "none"
    BY <1>3
  <2>2. out_packets # <<>> /\ q <= L
    BY <2>1, <1>1, <1>6 DEF QueueOK
  <2>3. q # 0
    BY <2>2, <1>1, <1>6, EmptySeq DEF TypeOK
  <2>4. /\ out_packets' \in Seq(Packets) /\ Len(out_packets') = q - 1
        /\ \A i \in 1..Len(out_packets') : out_packets'[i] = out_packets[i + 1]
    BY <2>2, <1>1, <1>3, <1>6, HeadTailProperties DEF TypeOK
  <2> QED BY <2>2, <2>3, <2>4
<1>11. TypeOK'
  <2>1. write' \in {"header", "body", "none"}
    BY <1>3
  <2> QED BY <2>1, <1>1, <1>3, <1>9, <1>10 DEF TypeOK, receiveVars
<1>12. QueueOK'
  <2>1. ASSUME NEW i \in 1..q - 1
        PROVE  out_packets'[i] = sent[L - (q - 1) + i]
    <3>1. i + 1 \in 1..q /\ L - q + (i + 1) = L - (q - 1) + i
      BY <1>10
    <3>2. out_packets[i + 1] = sent[L - q + (i + 1)]
      BY <3>1, <1>1, <1>6 DEF QueueOK
    <3> QED BY <3>1, <3>2, <1>10
  <2>2. q - 1 <= L
    BY <1>10
  <2>3. write' = "none" <=> out_packets' = <<>>
    BY <1>3
  <2> QED BY <2>1, <2>2, <2>3, <1>3, <1>6, <1>10 DEF QueueOK
<1>13. Offsets(off, sent')
  BY <1>2, <1>3
<1>14. InStep' => Aligned(off)'
  <2> HAVE InStep'
  <2>1. Aligned(off)
    BY <1>2, <1>9
  <2>2. Consumed(off)' = Consumed(off)
    BY <1>3 DEF Consumed, receiveVars
  <2>3. Written(off)' = off[h] + SIZE + a
    <3>1. Written(off)' = off[L - (q - 1) + 1] + 0
      BY <1>3, <1>6, <1>10 DEF Written
    <3>2. L - (q - 1) + 1 = h + 1
      BY <1>4, <1>6
    <3>3. off[h + 1] = off[h] + (SIZE + a)
      BY <1>2, <1>7 DEF Offsets
    <3>4. \A o \in Nat : o + (SIZE + a) + 0 = o + SIZE + a
      BY DEF SIZE
    <3>5. Written(off)' = off[h] + (SIZE + a) + 0
      BY <3>1, <3>2, <3>3
    <3> QED BY <3>4, <3>5, <1>4
  <2>4. Carries(wire \o b, off, sent, Consumed(off), off[h] + SIZE + a)
    <3>1. SIZE \in Nat /\ SIZE + Len(b) <= Size(sent[h])
      BY <1>6, <1>7 DEF SIZE
    <3> QED BY <2>1, <3>1, <1>2, <1>4, <1>6, <1>7, WriteCarries
  <2> QED BY <2>1, <2>2, <2>3, <2>4, <1>3, <1>8, <1>9 DEF Aligned, receiveVars
<1> QED BY <1>2, <1>3, <1>9, <1>11, <1>12, <1>13, <1>14 DEF Inv

-----------------------------------------------------------------------------
(* The steps of the receiver                                                *)

(* What the bytes read leave as it was.                                     *)
LEMMA ReadKeeps ==
  ASSUME Inv, NEW k \in Nat, k <= Len(wire), wire' = Drop(k), UNCHANGED sendVars
  PROVE  /\ Take(k) \in Seq(AllBytes) /\ Len(Take(k)) = k
         /\ \A i \in 1..k : Take(k)[i] = wire[i]
         /\ wire' \in Seq(AllBytes)
         /\ SentOK' /\ QueueOK' /\ WireOK' /\ IntactOK'
         /\ Intact' = Intact
         /\ \A off : Written(off)' = Written(off)
         /\ \A off : Offsets(off, sent') = Offsets(off, sent)
<1>1. PICK l \in Nat : l = Len(wire)
  BY DEF Inv, TypeOK
<1>2. /\ Take(k) \in Seq(AllBytes) /\ Len(Take(k)) = k
      /\ \A i \in 1..k : Take(k)[i] = wire[i]
      /\ wire' \in Seq(AllBytes) /\ Len(wire') = l - k
      /\ \A i \in 1..l - k : wire'[i] = wire[k + i]
  BY <1>1, Cut DEF Inv, TypeOK, Take, Drop
<1>3. ASSUME NEW i \in 1..l - k
      PROVE  wire'[i][1] \in 1..Len(sent)
  <2>1. k + i \in 1..l
    OBVIOUS
  <2> QED BY <2>1, <1>1, <1>2 DEF Inv, WireOK
<1>4. WireOK'
  BY <1>2, <1>3 DEF WireOK, sendVars
<1> QED BY <1>2, <1>4 DEF Inv, IntactOK, SentOK, QueueOK, Intact, Written, sendVars

(* The two bytes read_header() takes are those of the next header if it is  *)
(* in step, and then that packet is whole.                                  *)
LEMMA ReadHeaderStep == Inv /\ read_header => Inv'
<1> SUFFICES ASSUME Inv, read_header PROVE Inv'
  OBVIOUS
<1>1. /\ TypeOK /\ SentOK /\ QueueOK /\ WireOK /\ IntactOK /\ Arrived
  BY DEF Inv
<1>2. PICK off \in [1..Len(sent) + 1 -> Nat] :
        Offsets(off, sent) /\ (InStep => Aligned(off))
  BY DEF Inv
<1>3. /\ read = "header"
      /\ Len(wire) >= SIZE
      /\ wire' = Drop(SIZE)
      /\ temp' \in TypesIn(Take(SIZE))
      /\ \/ S(temp') = {} /\ read' = "none" /\ UNCHANGED len
         \/ len' \in S(temp') /\ read' = IF len' = 0 THEN "header" ELSE "body"
      /\ UNCHANGED <<sendVars, received>>
  BY DEF read_header
<1>4. PICK L \in Nat, r \in Nat, l \in Nat :
        L = Len(sent) /\ r = Len(received) /\ l = Len(wire)
  BY <1>1 DEF TypeOK
<1>5. PICK k \in 0..L : k = Intact
  BY <1>1, <1>4 DEF IntactOK, Longest
<1>6. /\ Take(SIZE) \in Seq(AllBytes) /\ Len(Take(SIZE)) = SIZE
      /\ \A i \in 1..SIZE : Take(SIZE)[i] = wire[i]
      /\ wire' \in Seq(AllBytes)
      /\ SentOK' /\ QueueOK' /\ WireOK' /\ IntactOK'
      /\ Intact' = Intact
      /\ Written(off)' = Written(off)
      /\ Offsets(off, sent')
  <2>1. SIZE \in Nat /\ SIZE <= Len(wire)
    BY <1>3, <1>4 DEF SIZE
  <2> QED BY <2>1, <1>2, <1>3, ReadKeeps
<1>7. Head(Take(SIZE)) = wire[1]
  BY <1>6 DEF SIZE
<1>8. temp' \in Nat
  <2>1. wire[1][1] \in 1..L
    BY <1>1, <1>3, <1>4 DEF WireOK, SIZE
  <2>2. sent[wire[1][1]] \in Packets
    BY <2>1, <1>1, <1>4 DEF TypeOK
  <2>3. sent[wire[1][1]].type \in Nat
    BY <2>2, SizesAssumption DEF Packets
  <2>4. 0..MaxType \subseteq Nat
    BY SizesAssumption
  <2> QED BY <2>3, <2>4, <1>3, <1>7 DEF TypesIn
<1>9. TypeOK'
  <2>1. S(temp') \subseteq Nat
    <3>1. temp' < count => sizes[temp'] \in Nat
      BY <1>8, SizesAssumption
    <3>2. 0..MaxLength \subseteq Nat
      BY SizesAssumption
    <3> QED BY <3>1, <3>2 DEF S
  <2>2. len' \in Nat /\ read' \in {"header", "body", "none"}
    BY <2>1, <1>1, <1>3 DEF TypeOK
  <2> QED BY <2>2, <1>1, <1>3, <1>6, <1>8 DEF TypeOK, sendVars
<1>10. Arrived'
  BY <1>1, <1>3, <1>6 DEF Arrived, sendVars
<1>11. InStep' => Aligned(off)'
  <2> HAVE InStep'
  <2>1. InStep
    BY <1>3, <1>6 DEF InStep, sendVars
  <2>2. Aligned(off)
    BY <2>1, <1>2
  <2>3. PICK m \in Nat : m = r + 1
    OBVIOUS
  <2>4. r <= k /\ m \in 1..L + 1
    BY <2>2, <2>3, <1>4, <1>5 DEF Aligned
  <2>5. PICK o \in Nat : o = off[m]
    BY <2>4, <1>2, <1>4
  <2>6. Consumed(off) = o + 0
    BY <2>3, <2>5, <1>3, <1>4 DEF Consumed
  <2>7. PICK last \in Nat : last = Written(off) /\ last <= off[L + 1]
    BY <1>1, <1>2, <1>4, PlacesAre
  <2>8. Carries(wire, off, sent, o + 0, last)
    BY <2>2, <2>6, <2>7 DEF Aligned
  <2>9. l = last - o /\ l >= 2
    BY <2>8, <1>3, <1>4 DEF Carries, SIZE
  <2>10. m <= k
    <3>1. CASE r < k
      BY <3>1, <2>3, <2>4
    <3>2. CASE k = L /\ r = L
      <4>1. o = off[L + 1]
        BY <3>2, <2>3, <2>5
      <4>2. last <= o
        BY <4>1, <2>7
      <4> QED BY <4>2, <2>9
    <3>3. k = L \/ r < k
      BY <2>1, <1>4, <1>5 DEF InStep
    <3> QED BY <3>1, <3>2, <3>3, <2>4
  <2>11. m \in 1..L /\ Size(sent[m]) \in Nat /\ Size(sent[m]) >= 2
    <3>1. m \in 1..L
      BY <2>3, <2>10
    <3> QED BY <3>1, <1>1, <1>4, SizeIs DEF TypeOK, SIZE
  <2>12. \A i \in 1..SIZE : wire[i] = <<m, i>>
    <3> SUFFICES ASSUME NEW i \in 1..2 PROVE wire[i] = <<m, i>>
      BY DEF SIZE
    <3>1. i \in 1..Len(wire) /\ m \in 1..Len(sent) /\ i \in 1..Size(sent[m])
      BY <2>9, <2>11, <1>4
    <3>2. off[m] + i = o + 0 + i
      BY <2>5
    <3> QED BY <3>1, <3>2, <2>8 DEF Carries
  <2>13. Take(SIZE) = Header(m)
    <3>1. /\ Header(m) \in Seq(AllBytes) /\ Len(Header(m)) = SIZE
          /\ \A i \in 1..SIZE : Header(m)[i] = <<m, i>>
      BY HeaderIs
    <3> QED BY <3>1, <2>12, <1>6, SeqEqual
  <2>14. temp' = sent[m].type
    <3>1. wire[1][1] = m
      BY <2>12 DEF SIZE
    <3> QED BY <3>1, <2>13, <1>3, <1>7 DEF TypesIn
  <2>15. temp' \in 0..count - 1 /\ temp' < count
    <3>1. sent[m] \in Packets
      BY <2>11, <1>1, <1>4 DEF TypeOK
    <3>2. sent[m].type \in 0..count - 1
      BY <3>1 DEF Packets
    <3> QED BY <3>2, <2>14, SizesAssumption
  <2>16. len' = sizes[temp'] /\ read' = "body"
    <3>1. S(temp') = {sizes[temp']}
      BY <2>15 DEF S
    <3>2. sizes[temp'] # 0
      BY <2>15, SizesAssumption
    <3> QED BY <3>1, <3>2, <1>3
  <2>17. Consumed(off)' = o + 0 + SIZE
    BY <2>3, <2>5, <2>16, <1>3, <1>4 DEF Consumed, SIZE
  <2>18. Carries(wire', off, sent, o + 0 + SIZE, last)
    <3>1. SIZE \in Nat /\ SIZE <= Len(wire) /\ o + 0 \in Nat
      BY <2>9, <1>4 DEF SIZE
    <3>2. PICK s, w, from : s = sent /\ w = wire /\ from = o + 0
      OBVIOUS
    <3>3. /\ s \in Seq(Packets) /\ w \in Seq(AllBytes) /\ Offsets(off, s)
          /\ from \in Nat /\ SIZE <= Len(w)
          /\ Carries(w, off, s, from, last)
      BY <3>1, <3>2, <2>8, <1>1, <1>2 DEF TypeOK
    <3>4. Carries(SubSeq(w, SIZE + 1, Len(w)), off, s, from + SIZE, last)
      BY <3>1, <3>3, WireShrinks
    <3> QED BY <3>2, <3>4, <1>3 DEF Drop
  <2>19. sent' = sent /\ received' = received
    BY <1>3 DEF sendVars
  <2>20. r < k /\ r <= k
    BY <2>3, <2>4, <2>10
  <2>21. Carries(wire', off, sent', Consumed(off)', Written(off)')
    BY <2>7, <2>17, <2>18, <2>19, <1>6
  <2> QED BY <2>3, <2>14, <2>15, <2>16, <2>19, <2>20, <2>21, <1>4, <1>5, <1>6 DEF Aligned
<1>12. sent' = sent
  BY <1>3 DEF sendVars
<1> QED BY <1>2, <1>6, <1>9, <1>10, <1>11, <1>12 DEF Inv

(* While the receiver is in step, what it takes is the next packet.         *)
LEMMA NextPacket ==
  ASSUME Inv, read_body, InStep
  PROVE  /\ Len(received) < Intact
         /\ [type |-> temp, data |-> Take(len)] = Contents(sent[Len(received) + 1])
<1>1. /\ TypeOK /\ SentOK /\ QueueOK /\ WireOK /\ IntactOK /\ Arrived
  BY DEF Inv
<1>2. PICK off \in [1..Len(sent) + 1 -> Nat] :
        Offsets(off, sent) /\ (InStep => Aligned(off))
  BY DEF Inv
<1>3. /\ read = "body"
      /\ Len(wire) >= len
      /\ wire' = Drop(len)
      /\ UNCHANGED sendVars
  BY DEF read_body
<1>4. PICK L \in Nat, r \in Nat, l \in Nat :
        L = Len(sent) /\ r = Len(received) /\ l = Len(wire)
  BY <1>1 DEF TypeOK
<1>5. PICK k \in 0..L : k = Intact
  BY <1>1, <1>4 DEF IntactOK, Longest
<1>6. /\ Take(len) \in Seq(AllBytes) /\ Len(Take(len)) = len
      /\ \A i \in 1..len : Take(len)[i] = wire[i]
  <2>1. len \in Nat /\ len <= Len(wire)
    BY <1>1, <1>3, <1>4 DEF TypeOK
  <2> QED BY <2>1, <1>3, ReadKeeps
<1>7. PICK x : x = [type |-> temp, data |-> Take(len)]
  OBVIOUS
<1>8. Aligned(off)
  BY <1>2
<1>9. PICK m \in Nat : m = r + 1
  OBVIOUS
<1>10. /\ r < k /\ temp = sent[m].type /\ len = sizes[temp]
      /\ Carries(wire, off, sent, Consumed(off), Written(off))
  BY <1>8, <1>9, <1>3, <1>4, <1>5 DEF Aligned
<1>11. m \in 1..k /\ m \in 1..L
  BY <1>9, <1>10
<1>12. Whole(sent[m])
  BY <1>11, <1>1, <1>5 DEF IntactOK, Longest
<1>13. PICK d : d = sent[m].data
  OBVIOUS
<1>14. Len(d) = len
  BY <1>10, <1>12, <1>13 DEF Whole
<1>15. len # 0
  <2>1. sent[m] \in Packets
    BY <1>11, <1>1, <1>4 DEF TypeOK
  <2>2. sent[m].type \in 0..count - 1
    BY <2>1 DEF Packets
  <2> QED BY <2>2, <1>10, SizesAssumption
<1>16. d = Bytes(m, SIZE + 1, SIZE + len)
  <2>1. d # <<>>
    BY <1>14, <1>15
  <2> QED BY <2>1, <1>10, <1>11, <1>13, <1>1, <1>4 DEF SentOK
<1>17. /\ d \in Seq(AllBytes)
       /\ \A i \in 1..len : d[i] = <<m, SIZE + i>>
  BY <1>16, <1>1, DataIs DEF TypeOK
<1>18. PICK o \in Nat : o = off[m]
  BY <1>11, <1>2, <1>4
<1>19. Consumed(off) = o + SIZE
  BY <1>9, <1>18, <1>3, <1>4 DEF Consumed
<1>20. \A i \in 1..len : wire[i] = <<m, SIZE + i>>
  <2> SUFFICES ASSUME NEW i \in 1..len PROVE wire[i] = <<m, SIZE + i>>
    OBVIOUS
  <2>1. PICK c \in Nat, e \in Nat : c = len /\ e = i /\ e \in 1..c
    BY <1>1 DEF TypeOK
  <2>2. i \in 1..Len(wire) /\ m \in 1..Len(sent)
    BY <2>1, <1>11, <1>3, <1>4
  <2>3. SIZE + i \in 1..Size(sent[m])
    <3>1. Size(sent[m]) = 2 + c
      BY <2>1, <1>13, <1>14 DEF Size, SIZE
    <3> QED BY <3>1, <2>1 DEF SIZE
  <2>4. off[m] + (SIZE + i) = o + SIZE + i
    BY <2>1, <1>18 DEF SIZE
  <2> QED BY <2>2, <2>3, <2>4, <1>10, <1>19 DEF Carries
<1>21. Take(len) = d
  BY <1>14, <1>17, <1>20, <1>6, SeqEqual
<1>22. x = Contents(sent[m])
  BY <1>10, <1>13, <1>21, <1>7 DEF Contents
<1> QED BY <1>4, <1>5, <1>7, <1>9, <1>10, <1>22

(* read_body() takes the data whose header was read.                        *)
LEMMA ReadBodyStep == Inv /\ read_body => Inv'
<1> SUFFICES ASSUME Inv, read_body PROVE Inv'
  OBVIOUS
<1>1. /\ TypeOK /\ SentOK /\ QueueOK /\ WireOK /\ IntactOK /\ Arrived
  BY DEF Inv
<1>2. PICK off \in [1..Len(sent) + 1 -> Nat] :
        Offsets(off, sent) /\ (InStep => Aligned(off))
  BY DEF Inv
<1>3. /\ read = "body"
      /\ Len(wire) >= len
      /\ wire' = Drop(len)
      /\ received' = Append(received, [type |-> temp, data |-> Take(len)])
      /\ read' = "header"
      /\ UNCHANGED <<sendVars, temp, len>>
  BY DEF read_body
<1>4. PICK L \in Nat, r \in Nat, l \in Nat :
        L = Len(sent) /\ r = Len(received) /\ l = Len(wire)
  BY <1>1 DEF TypeOK
<1>5. PICK k \in 0..L : k = Intact
  BY <1>1, <1>4 DEF IntactOK, Longest
<1>6. /\ Take(len) \in Seq(AllBytes) /\ Len(Take(len)) = len
      /\ \A i \in 1..len : Take(len)[i] = wire[i]
      /\ wire' \in Seq(AllBytes)
      /\ SentOK' /\ QueueOK' /\ WireOK' /\ IntactOK'
      /\ Intact' = Intact
      /\ Written(off)' = Written(off)
      /\ Offsets(off, sent')
  <2>1. len \in Nat /\ len <= Len(wire)
    BY <1>1, <1>3, <1>4 DEF TypeOK
  <2> QED BY <2>1, <1>2, <1>3, ReadKeeps
<1>7. PICK x : x = [type |-> temp, data |-> Take(len)]
  OBVIOUS
<1>8. x \in Records
  BY <1>1, <1>6, <1>7 DEF TypeOK, Records
<1>9. /\ received' \in Seq(Records) /\ Len(received') = r + 1
      /\ \A i \in 1..r : received'[i] = received[i]
      /\ received'[r + 1] = x
  BY <1>1, <1>3, <1>4, <1>7, <1>8, AppendProperties DEF TypeOK
<1>10. TypeOK'
  BY <1>1, <1>3, <1>6, <1>9 DEF TypeOK, sendVars
<1>11. sent' = sent /\ temp' = temp /\ len' = len
  BY <1>3 DEF sendVars
<1>12. InStep => r + 1 <= k /\ x = Contents(sent[r + 1])
  BY <1>4, <1>5, <1>7, NextPacket
<1>13. Arrived'
  <2> SUFFICES ASSUME NEW n \in 1..r + 1, n <= k
               PROVE  received'[n] = Contents(sent[n])
    BY <1>5, <1>6, <1>9, <1>11 DEF Arrived
  <2>1. CASE n \in 1..r
    BY <2>1, <1>1, <1>4, <1>5, <1>9 DEF Arrived
  <2>2. CASE n = r + 1
    <3>1. r < k
      BY <2>2
    <3>2. InStep
      BY <3>1, <1>4, <1>5 DEF InStep
    <3> QED BY <3>2, <2>2, <1>9, <1>12
  <2>3. n \in 1..r \/ n = r + 1
    OBVIOUS
  <2> QED BY <2>1, <2>2, <2>3
<1>14. InStep' => Aligned(off)'
  <2> HAVE InStep'
  <2>1. k = L \/ r + 1 < k
    BY <1>4, <1>5, <1>6, <1>9, <1>11 DEF InStep
  <2>2. InStep
    <3>1. r + 1 < k => r < k
      OBVIOUS
    <3> QED BY <2>1, <3>1, <1>4, <1>5 DEF InStep
  <2>3. Aligned(off)
    BY <2>2, <1>2
  <2>4. PICK m \in Nat : m = r + 1
    OBVIOUS
  <2>5. m <= k /\ m \in 1..k /\ m \in 1..L /\ m + 1 \in 1..L + 1
    BY <2>2, <2>4, <1>12
  <2>6. PICK o \in Nat, c \in Nat : o = off[m] /\ c = len
    <3>1. off[m] \in Nat
      BY <2>5, <1>2, <1>4
    <3>2. len \in Nat
      BY <1>1 DEF TypeOK
    <3> QED BY <3>1, <3>2
  <2>7. Consumed(off) = o + SIZE
    BY <2>4, <2>6, <1>3, <1>4 DEF Consumed
  <2>8. len = Len(sent[m].data)
    <3>1. Whole(sent[m])
      BY <2>5, <1>1, <1>5 DEF IntactOK, Longest
    <3>2. temp = sent[m].type /\ len = sizes[temp]
      BY <2>3, <2>4, <1>3, <1>4 DEF Aligned
    <3> QED BY <3>1, <3>2 DEF Whole
  <2>9. off[m + 1] = o + SIZE + c
    <3>1. off[m + 1] = o + (SIZE + c)
      BY <2>5, <2>6, <2>8, <1>2, <1>4 DEF Offsets, Size
    <3> QED BY <3>1 DEF SIZE
  <2>10. Consumed(off)' = o + SIZE + c
    <3>1. Consumed(off)' = off[m + 1] + 0
      BY <2>4, <1>3, <1>9 DEF Consumed
    <3> QED BY <3>1, <2>9 DEF SIZE
  <2>11. Carries(wire', off, sent, o + SIZE + c, Written(off))
    <3>1. PICK s, w, from, last :
            s = sent /\ w = wire /\ from = o + SIZE /\ last = Written(off)
      OBVIOUS
    <3>2. /\ s \in Seq(Packets) /\ w \in Seq(AllBytes) /\ Offsets(off, s)
          /\ from \in Nat /\ last \in Nat /\ c <= Len(w)
          /\ Carries(w, off, s, from, last)
      <4>1. Written(off) \in Nat
        BY <1>1, <1>2, PlacesAre
      <4>2. Carries(wire, off, sent, o + SIZE, Written(off))
        BY <2>3, <2>7 DEF Aligned
      <4>3. c <= Len(wire)
        BY <2>6, <1>3, <1>4
      <4> QED BY <3>1, <4>1, <4>2, <4>3, <1>1, <1>2 DEF TypeOK, SIZE
    <3>3. Carries(SubSeq(w, c + 1, Len(w)), off, s, from + c, last)
      BY <3>2, WireShrinks
    <3> QED BY <3>1, <3>3, <2>6, <1>3 DEF Drop
  <2>12. Carries(wire', off, sent', Consumed(off)', Written(off)')
    BY <2>10, <2>11, <1>6, <1>11
  <2>13. temp' < count /\ read' # "none" /\ read' # "body"
    BY <2>3, <1>3, <1>11 DEF Aligned
  <2>14. Len(received') <= Intact'
    BY <2>4, <2>5, <1>5, <1>6, <1>9
  <2> QED BY <2>12, <2>13, <2>14 DEF Aligned
<1> QED BY <1>2, <1>6, <1>10, <1>11, <1>13, <1>14 DEF Inv

-----------------------------------------------------------------------------
(* The invariant                                                            *)

(* Nothing sent, nothing read: the offset of the first packet is 0.         *)
LEMMA InitInv == Init => Inv
<1> SUFFICES ASSUME Init PROVE Inv
  OBVIOUS
<1>1. /\ sent = <<>> /\ out_packets = <<>> /\ write = "none" /\ wire = <<>>
      /\ read = "header" /\ temp = 0 /\ len = 0 /\ received = <<>>
  BY DEF Init
<1>2. Len(<<>>) = 0 /\ \A X : <<>> \in Seq(X)
  OBVIOUS
<1>3. TypeOK
  BY <1>1, <1>2 DEF TypeOK
<1>4. SentOK /\ QueueOK /\ WireOK /\ Arrived
  BY <1>1, <1>2 DEF SentOK, QueueOK, WireOK, Arrived
<1>5. Longest(sent, 0)
  BY <1>1, <1>2 DEF Longest
<1>6. Intact = 0
  BY <1>3, <1>5, LongestPrefix DEF Intact, TypeOK
<1>7. PICK off : off = [n \in 1..1 |-> 0]
  OBVIOUS
<1>8. off \in [1..Len(sent) + 1 -> Nat] /\ off[1] = 0
  <2>1. Len(sent) + 1 = 1
    BY <1>1, <1>2
  <2> QED BY <2>1, <1>7
<1>9. Offsets(off, sent)
  BY <1>1, <1>2, <1>8 DEF Offsets
<1>10. Written(off) = 0 /\ Consumed(off) = 0
  BY <1>1, <1>2, <1>8 DEF Written, Consumed
<1>11. Carries(wire, off, sent, 0, 0)
  BY <1>1, <1>2 DEF Carries
<1>12. temp < count
  BY <1>1, SizesAssumption
<1>13. Aligned(off)
  BY <1>1, <1>2, <1>6, <1>10, <1>11, <1>12 DEF Aligned
<1> QED BY <1>3, <1>4, <1>5, <1>6, <1>8, <1>9, <1>13 DEF Inv, IntactOK

(* Every step keeps the invariant.                                          *)
LEMMA StepInv == Inv /\ [Next]_vars => Inv'
<1> SUFFICES ASSUME Inv, [Next]_vars PROVE Inv'
  OBVIOUS
<1>1. ASSUME UNCHANGED <<sendVars, wire, receiveVars>> PROVE Inv'
  BY <1>1 DEF Inv, TypeOK, SentOK, QueueOK, WireOK, IntactOK, Arrived, InStep, Intact,
     Aligned, Written, Consumed, sendVars, receiveVars
<1>2. CASE psend
  BY <1>2, PsendStep
<1>3. CASE write_header
  BY <1>3, WriteHeaderStep
<1>4. CASE write_body
  BY <1>4, WriteBodyStep
<1>5. CASE read_header
  BY <1>5, ReadHeaderStep
<1>6. CASE read_body
  BY <1>6, ReadBodyStep
<1>7. CASE close
  BY <1>1, <1>7 DEF close
<1>8. CASE UNCHANGED vars
  BY <1>1, <1>8 DEF vars
<1> QED BY <1>2, <1>3, <1>4, <1>5, <1>6, <1>7, <1>8 DEF Next

(* The invariant holds in every state.                                      *)
LEMMA StreamInv == Spec => []Inv
BY InitInv, StepInv, PTL DEF Spec

(* S() is asked for a type there is none of only when a torn packet was     *)
(* sent and all that was whole before it has arrived.                       *)
THEOREM OnlyTorn == Spec => []OnlyTornMakeTypes
<1>1. Inv => OnlyTornMakeTypes
  <2> SUFFICES ASSUME Inv, temp >= count
               PROVE  Intact < Len(sent) /\ Len(received) >= Intact
    BY DEF OnlyTornMakeTypes
  <2>1. PICK L \in Nat, r \in Nat, t \in Nat, c \in Nat :
          L = Len(sent) /\ r = Len(received) /\ t = temp /\ c = count
    BY SizesAssumption DEF Inv, TypeOK
  <2>2. PICK k \in 0..L : k = Intact
    BY <2>1 DEF Inv, IntactOK, Longest
  <2>3. ~ (t < c)
    BY <2>1
  <2>4. ~InStep
    BY <2>1, <2>3 DEF Inv, Aligned
  <2>5. k # L /\ ~ (r < k)
    BY <2>1, <2>2, <2>4 DEF InStep
  <2>6. k < L /\ r >= k
    BY <2>5
  <2> QED BY <2>1, <2>2, <2>6
<1> QED BY <1>1, StreamInv, PTL

-----------------------------------------------------------------------------
(* The channel                                                              *)

(* The packets it carries, and those it has delivered.                      *)
Carried == [i \in 1..Intact |-> Contents(sent[i])]
Delivered ==
  SubSeq(received, 1, IF Len(received) < Intact THEN Len(received) ELSE Intact)

(* A channel that carries the first k packets carries k.                    *)
LEMMA ContentsAre ==
  ASSUME NEW s \in Seq(Packets), NEW k \in 0..Len(s),
         NEW c, c = [i \in 1..k |-> Contents(s[i])]
  PROVE  /\ c \in Seq(Records) /\ Len(c) = k
         /\ \A i \in 1..k : c[i] = Contents(s[i])
<1>1. k \in Nat /\ \A i \in 1..k : i \in 1..Len(s)
  BY LenProperties
<1>2. ASSUME NEW i \in 1..k PROVE Contents(s[i]) \in Records
  <2>1. s[i] \in Packets
    BY <1>1, ElementOfSeq
  <2>2. s[i].type \in 0..count - 1 /\ s[i].data \in Seq(AllBytes)
    BY <2>1 DEF Packets
  <2>3. s[i].type \in Nat
    BY <2>2, SizesAssumption
  <2> QED BY <2>2, <2>3 DEF Contents, Records
<1>3. c \in [1..k -> Records]
  BY <1>2
<1> QED BY <1>1, <1>3, FcnIsSeq

(* psend() puts a packet behind those that are whole or behind a torn one.  *)
LEMMA PsendIntact ==
  ASSUME Inv, psend
  PROVE  /\ sent' \in Seq(Packets) /\ Len(sent') = Len(sent) + 1
         /\ \A n \in 1..Len(sent) : sent'[n] = sent[n]
         /\ \/ Intact' = Intact
            \/ Intact = Len(sent) /\ Intact' = Intact + 1
<1>1. TypeOK /\ Longest(sent, Intact)
  BY DEF Inv, IntactOK
<1>2. PICK L \in Nat : L = Len(sent)
  BY <1>1 DEF TypeOK
<1>3. PICK type \in 0..count - 1 :
        \E p \in {serialize(L + 1, type), Moved(serialize(L + 1, type))} :
          sent' = Append(sent, p)
  BY <1>2 DEF psend
<1>4. PICK p \in {serialize(L + 1, type), Moved(serialize(L + 1, type))} :
        sent' = Append(sent, p)
  BY <1>3
<1>5. p \in Packets
  BY PacketIs
<1>6. /\ sent' \in Seq(Packets) /\ Len(sent') = L + 1
      /\ \A n \in 1..L : sent'[n] = sent[n]
  BY <1>1, <1>2, <1>4, <1>5, AppendProperties DEF TypeOK
<1>7. PICK k : k = Intact
  OBVIOUS
<1>8. PICK j : j = IF k = Len(sent) /\ Whole(p) THEN k + 1 ELSE k
  OBVIOUS
<1>9. Longest(sent', j)
  BY <1>1, <1>4, <1>5, <1>7, <1>8, IntactGrows DEF TypeOK
<1>10. Intact' = j
  BY <1>6, <1>9, LongestPrefix DEF Intact
<1> QED BY <1>2, <1>6, <1>7, <1>8, <1>10

(* psend() sends on the channel, unless a torn packet is before it.         *)
LEMMA PsendRefines ==
  Inv /\ psend => Promise!Send \/ UNCHANGED Promise!vars
<1> SUFFICES ASSUME Inv, psend PROVE Promise!Send \/ UNCHANGED Promise!vars
  OBVIOUS
<1>1. PICK L \in Nat, r \in Nat : L = Len(sent) /\ r = Len(received)
  BY DEF Inv, TypeOK
<1>2. PICK k \in 0..L : k = Intact
  BY <1>1 DEF Inv, IntactOK, Longest
<1>3. up /\ UNCHANGED <<received, up>>
  BY DEF psend, receiveVars
<1>4. /\ sent' \in Seq(Packets) /\ Len(sent') = L + 1
      /\ \A n \in 1..L : sent'[n] = sent[n]
      /\ \/ Intact' = k
         \/ k = L /\ Intact' = k + 1
  BY <1>1, <1>2, PsendIntact
<1>5. CASE Intact' = k
  <2>1. \A i \in 1..k : sent'[i] = sent[i]
    BY <1>4
  <2>2. Carried' = Carried
    BY <2>1, <1>2, <1>5 DEF Carried
  <2>3. Delivered' = Delivered
    BY <1>2, <1>3, <1>5 DEF Delivered
  <2> QED BY <2>2, <2>3, <1>3 DEF Promise!vars, Carried, Delivered
<1>6. CASE k = L /\ Intact' = k + 1
  <2>1. r <= k
    BY <1>1, <1>2, <1>6 DEF Inv, InStep, Aligned
  <2>2. Delivered' = Delivered
    <3>1. r < k + 1 /\ (IF r < k THEN r ELSE k) = r
      BY <2>1
    <3>2. Delivered = SubSeq(received, 1, r)
      BY <3>1, <1>1, <1>2 DEF Delivered
    <3>3. Delivered' = SubSeq(received, 1, r)
      BY <3>1, <1>1, <1>3, <1>6 DEF Delivered
    <3> QED BY <3>2, <3>3
  <2>3. PICK c, d : c = Carried /\ d = Carried'
    OBVIOUS
  <2>4. /\ c \in Seq(Records) /\ Len(c) = k
        /\ \A i \in 1..k : c[i] = Contents(sent[i])
    <3>1. sent \in Seq(Packets) /\ k \in 0..Len(sent)
      BY <1>1 DEF Inv, TypeOK
    <3>2. c = [i \in 1..k |-> Contents(sent[i])]
      BY <2>3, <1>2 DEF Carried
    <3> QED BY <3>1, <3>2, ContentsAre
  <2>5. PICK e \in Nat : e = k + 1
    OBVIOUS
  <2>6. /\ d \in Seq(Records) /\ Len(d) = e
        /\ \A i \in 1..e : d[i] = Contents(sent'[i])
    <3>1. sent' \in Seq(Packets) /\ e \in 0..Len(sent')
      BY <2>5, <1>4, <1>6
    <3>2. d = [i \in 1..e |-> Contents(sent'[i])]
      BY <2>3, <2>5, <1>6 DEF Carried
    <3> QED BY <3>1, <3>2, ContentsAre
  <2>7. d # <<>>
    BY <2>5, <2>6
  <2>8. c = Front(d)
    <3>1. Front(d) = SubSeq(d, 1, k)
      BY <2>5, <2>6 DEF Front
    <3>2. k <= Len(d) /\ k \in Nat
      BY <2>5, <2>6
    <3>3. /\ SubSeq(d, 1, k) \in Seq(Records)
          /\ Len(SubSeq(d, 1, k)) = k
          /\ \A i \in 1..k : SubSeq(d, 1, k)[i] = d[i]
      BY <2>6, <3>2, Cut
    <3>4. \A i \in 1..k : c[i] = d[i]
      BY <2>4, <2>5, <2>6, <1>4
    <3> QED BY <2>4, <3>1, <3>3, <3>4, SeqEqual
  <2>9. Carried' # <<>> /\ Carried = Front(Carried')
    BY <2>3, <2>7, <2>8
  <2>10. Promise!Send
    BY <2>2, <2>9, <1>3 DEF Promise!Send, Promise!Front, Front, Carried, Delivered
  <2> QED BY <2>10
<1> QED BY <1>4, <1>5, <1>6

(* read_body() receives the packet that is next on the channel, or one that *)
(* nothing is promised of.                                                  *)
LEMMA ReadBodyRefines ==
  Inv /\ read_body => Promise!Receive \/ UNCHANGED Promise!vars
<1> SUFFICES ASSUME Inv, read_body PROVE Promise!Receive \/ UNCHANGED Promise!vars
  OBVIOUS
<1>1. PICK L \in Nat, r \in Nat : L = Len(sent) /\ r = Len(received)
  BY DEF Inv, TypeOK
<1>2. PICK k \in 0..L : k = Intact
  BY <1>1 DEF Inv, IntactOK, Longest
<1>3. PICK x : x = [type |-> temp, data |-> Take(len)]
  OBVIOUS
<1>4. /\ up /\ UNCHANGED <<sent, up>>
      /\ received' = Append(received, x)
  BY <1>3 DEF read_body, sendVars
<1>5. Intact' = k
  BY <1>2, <1>4 DEF Intact
<1>6. Carried' = Carried
  BY <1>4, <1>5, <1>2 DEF Carried
<1>7. x \in Records
  <2>1. len \in Nat /\ Len(wire) \in Nat /\ len <= Len(wire)
    BY DEF Inv, TypeOK, read_body
  <2>2. Take(len) \in Seq(AllBytes)
    BY <2>1, Cut DEF Inv, TypeOK, Take
  <2> QED BY <2>2, <1>3 DEF Inv, TypeOK, Records
<1>8. /\ received \in Seq(Records)
      /\ received' \in Seq(Records) /\ Len(received') = r + 1
      /\ \A i \in 1..r : received'[i] = received[i]
  BY <1>1, <1>4, <1>7, AppendProperties DEF Inv, TypeOK
<1>9. CASE InStep
  <2>1. r < k /\ x = Contents(sent[r + 1])
    BY <1>1, <1>2, <1>3, <1>9, NextPacket
  <2>2. Delivered = received
    <3>1. Delivered = SubSeq(received, 1, r)
      BY <2>1, <1>1, <1>2 DEF Delivered
    <3> QED BY <3>1, <1>1, <1>8, SubSeqFull
  <2>3. Delivered' = received'
    <3>1. (IF r + 1 < k THEN r + 1 ELSE k) = r + 1
      BY <2>1
    <3>2. Delivered' = SubSeq(received', 1, r + 1)
      BY <3>1, <1>5, <1>8 DEF Delivered
    <3> QED BY <3>2, <1>8, SubSeqFull
  <2>4. Len(Carried) = k /\ Carried[r + 1] = x
    <3>1. PICK c : c = Carried
      OBVIOUS
    <3>2. sent \in Seq(Packets) /\ k \in 0..Len(sent)
      BY <1>1 DEF Inv, TypeOK
    <3>3. c = [i \in 1..k |-> Contents(sent[i])]
      BY <3>1, <1>2 DEF Carried
    <3>4. Len(c) = k /\ \A i \in 1..k : c[i] = Contents(sent[i])
      BY <3>2, <3>3, ContentsAre
    <3>5. r + 1 \in 1..k
      BY <2>1
    <3> QED BY <3>1, <3>4, <3>5, <2>1
  <2>5. /\ Len(Delivered) < Len(Carried)
        /\ Delivered' = Append(Delivered, Carried[Len(Delivered) + 1])
    BY <2>1, <2>2, <2>3, <2>4, <1>1, <1>4
  <2> QED BY <2>5, <1>4, <1>6 DEF Promise!Receive, Carried, Delivered
<1>10. CASE ~InStep
  <2>1. k <= r /\ k <= r + 1 /\ ~ (r < k) /\ ~ (r + 1 < k)
    BY <1>1, <1>2, <1>10 DEF InStep
  <2>2. Delivered = SubSeq(received, 1, k) /\ Delivered' = SubSeq(received', 1, k)
    BY <2>1, <1>1, <1>2, <1>5, <1>8 DEF Delivered
  <2>3. /\ SubSeq(received, 1, k) \in Seq(Records)
        /\ Len(SubSeq(received, 1, k)) = k
        /\ \A i \in 1..k : SubSeq(received, 1, k)[i] = received[i]
    BY <2>1, <1>1, <1>8, Cut
  <2>4. /\ SubSeq(received', 1, k) \in Seq(Records)
        /\ Len(SubSeq(received', 1, k)) = k
        /\ \A i \in 1..k : SubSeq(received', 1, k)[i] = received'[i]
    <3>1. k \in Nat /\ k <= Len(received')
      BY <2>1, <1>8
    <3> QED BY <3>1, <1>8, Cut
  <2>5. \A i \in 1..k : received'[i] = received[i]
    BY <2>1, <1>8
  <2>6. SubSeq(received, 1, k) = SubSeq(received', 1, k)
    BY <2>3, <2>4, <2>5, SeqEqual
  <2> QED BY <2>2, <2>6, <1>4, <1>6 DEF Promise!vars, Carried, Delivered
<1> QED BY <1>9, <1>10

(* Nothing but psend() and read_body() is seen on the channel, and close(). *)
LEMMA OthersRefine ==
  ASSUME UNCHANGED <<sent, received>>, UNCHANGED up \/ (up /\ up' = FALSE)
  PROVE  Promise!Break \/ UNCHANGED Promise!vars
<1>1. Intact' = Intact
  BY DEF Intact
<1>2. Carried' = Carried /\ Delivered' = Delivered
  BY <1>1 DEF Carried, Delivered
<1> QED BY <1>2 DEF Promise!Break, Promise!vars, Carried, Delivered

(* The channel begins empty.                                                *)
LEMMA PromiseInit == Init => Promise!Init
<1> SUFFICES ASSUME Init PROVE Promise!Init
  OBVIOUS
<1>1. sent = <<>> /\ received = <<>> /\ up = TRUE
  BY DEF Init
<1>2. Intact = 0
  <2>1. Len(sent) = 0
    BY <1>1
  <2>2. Inv
    BY InitInv
  <2>3. Intact \in 0..0
    BY <2>1, <2>2 DEF Inv, IntactOK, Longest
  <2> QED BY <2>3
<1>3. Carried = <<>>
  <2>1. Carried = [i \in 1..0 |-> Contents(sent[i])]
    BY <1>2 DEF Carried
  <2>2. 0 \in 0..Len(sent) /\ sent \in Seq(Packets)
    BY <1>1
  <2>3. Carried \in Seq(Records) /\ Len(Carried) = 0
    BY <2>1, <2>2, ContentsAre
  <2> QED BY <2>3, EmptySeq
<1>4. Delivered = <<>>
  <2>1. Delivered = SubSeq(received, 1, 0)
    BY <1>1, <1>2 DEF Delivered
  <2> QED BY <2>1, SubSeqEmpty
<1> QED BY <1>1, <1>3, <1>4 DEF Promise!Init, Carried, Delivered

(* The bytes behave as the channel of packets promises, whatever the types  *)
(* and their sizes: each packet sent before the first torn one appears in   *)
(* in_packets as it was sent, once, in the order of psend(), and nothing    *)
(* after a close(). This is ImplementsChannel but for its fairness.         *)
THEOREM SafeChannel == Spec => Promise!Init /\ [][Promise!Next]_(Promise!vars)
<1>1. Inv /\ [Next]_vars => [Promise!Next]_(Promise!vars)
  <2> SUFFICES ASSUME Inv, [Next]_vars PROVE [Promise!Next]_(Promise!vars)
    OBVIOUS
  <2>1. CASE psend
    BY <2>1, PsendRefines DEF Promise!Next
  <2>2. CASE read_body
    BY <2>2, ReadBodyRefines DEF Promise!Next
  <2>3. CASE write_header \/ write_body \/ read_header \/ close \/ UNCHANGED vars
    <3>1. UNCHANGED <<sent, received>>
      BY <2>3 DEF write_header, write_body, read_header, close, vars, sendVars, receiveVars
    <3>2. UNCHANGED up \/ (up /\ up' = FALSE)
      BY <2>3 DEF write_header, write_body, read_header, close, vars
    <3> QED BY <3>1, <3>2, OthersRefine DEF Promise!Next
  <2> QED BY <2>1, <2>2, <2>3 DEF Next
<1> QED BY <1>1, PromiseInit, StreamInv, PTL DEF Spec

=============================================================================
