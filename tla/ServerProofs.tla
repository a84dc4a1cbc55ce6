----------------------------- MODULE ServerProofs -----------------------------
(***************************************************************************)
(* That no entity is ever orphaned, for any number of connections and with *)
(* everything allowed to go wrong: both threads inside the server at once, *)
(* failed handshakes, packets of those who have quit, iterators gone stale.*)
(* The invariant Inv says which calls are about to remove an entity; lemmas*)
(* say what a return, a change of the innermost call and a new call do to  *)
(* that.                                                                   *)
(* And that the server keeps what it promises until the threads overlap or *)
(* a late packet is mistaken for somebody else's, with connections lost at *)
(* any moment and handshakes failing: the map and the set match, nobody is *)
(* missed, a join sweeps, and what is dereferenced is there but in two     *)
(* cases. Shape says which stacks of calls there can be and what holds of  *)
(* each call; Notices, what each client knows already and what the calls on*)
(* the stack will still tell it.                                           *)
(***************************************************************************)
EXTENDS Server, SequenceTheorems, FiniteSetTheorems, TLAPS

-----------------------------------------------------------------------------
Messages == [kind : {"none", "S2C_PLAYER_NEW", "S2C_ENTITY_DELETE"},
             uuid : UUIDs \cup {End}]
Places == {"on_join", "insert", "on_quit", "quit", "psend_all", "on_packet", "motion"}
Calls == [at : Places, conn : Conns, msg : Messages, it : Conns \cup {End},
          whole : BOOLEAN]

(* The calls that put their connection among the connections or erase its   *)
(* entity before they return, and the connections they are about.           *)
Settling == {"insert", "on_quit", "quit"}
Settles(f) == IF f.at \in Settling THEN {f.conn} ELSE {}
Settled(s) == UNION {Settles(s[i]) : i \in DOMAIN s}

NoJoin(s) == \A i \in DOMAIN s : s[i].at # "on_join"

TypeOK ==
  /\ accepted \subseteq Conns
  /\ connections \in Seq(Conns)
  /\ uuid \in [Conns -> UUIDs \cup {End}]
  /\ entities \subseteq UUIDs
  /\ stack \in [Threads -> Seq(Calls)]

(* on_join() has called nothing yet, and its connection has no uuid.        *)
JoinsOK ==
  /\ \A c \in Conns \ accepted : uuid[c] = End
  /\ \A t \in Threads : stack[t] # <<>> =>
       /\ NoJoin(Tail(stack[t]))
       /\ Head(stack[t]).at = "on_join" =>
            /\ t = "io"
            /\ Head(stack[t]).conn \in accepted
            /\ uuid[Head(stack[t]).conn] = End

Kept(c) == c \in Range(connections) \/ \E t \in Threads : c \in Settled(stack[t])

EntitiesOK == \A u \in entities : \E c \in Conns : uuid[c] = u /\ Kept(c)

Inv == TypeOK /\ JoinsOK /\ EntitiesOK

-----------------------------------------------------------------------------
(* Stacks                                                                   *)

(* The innermost call and the others.                                       *)
LEMMA Innermost ==
  ASSUME NEW s \in Seq(Calls), s # <<>>
  PROVE  /\ Head(s) \in Calls
         /\ Tail(s) \in Seq(Calls)
         /\ Settled(s) = Settles(Head(s)) \cup Settled(Tail(s))
         /\ NoJoin(Tail(s)) => NoJoin(Tail(Tail(s))) \/ Tail(s) = <<>>
<1>1. /\ Head(s) \in Calls /\ Tail(s) \in Seq(Calls)
      /\ Len(s) \in Nat /\ Len(s) > 0 /\ Len(Tail(s)) = Len(s) - 1
      /\ Head(s) = s[1]
      /\ \A i \in 1..Len(s) - 1 : Tail(s)[i] = s[i + 1]
  OBVIOUS
<1>2. DOMAIN s = 1..Len(s) /\ DOMAIN Tail(s) = 1..Len(s) - 1
  BY <1>1
<1>3. \A i \in DOMAIN s : i = 1 \/ i - 1 \in DOMAIN Tail(s)
  BY <1>1, <1>2
<1>4. \A i \in DOMAIN Tail(s) : i + 1 \in DOMAIN s
  BY <1>1, <1>2
<1>5. 1 \in DOMAIN s
  BY <1>1, <1>2
<1>6. \A i \in DOMAIN s : i # 1 => s[i] = Tail(s)[i - 1]
  BY <1>1, <1>2, <1>3
<1>7. Settled(s) \subseteq Settles(Head(s)) \cup Settled(Tail(s))
  BY <1>1, <1>3, <1>6 DEF Settled
<1>8. Settles(Head(s)) \cup Settled(Tail(s)) \subseteq Settled(s)
  BY <1>1, <1>2, <1>4, <1>5 DEF Settled
<1>9. ASSUME NoJoin(Tail(s)), Tail(s) # <<>>
      PROVE  NoJoin(Tail(Tail(s)))
  <2>1. /\ DOMAIN Tail(Tail(s)) = 1..Len(Tail(s)) - 1 /\ DOMAIN Tail(s) = 1..Len(Tail(s))
        /\ Len(Tail(s)) \in Nat
        /\ \A i \in 1..Len(Tail(s)) - 1 : Tail(Tail(s))[i] = Tail(s)[i + 1]
    BY <1>1, <1>9
  <2> QED BY <1>9, <2>1 DEF NoJoin
<1> QED BY <1>1, <1>7, <1>8, <1>9

(* A call on top of others.                                                 *)
LEMMA OnTop ==
  ASSUME NEW f \in Calls, NEW r \in Seq(Calls)
  PROVE  /\ <<f>> \o r \in Seq(Calls)
         /\ <<f>> \o r # <<>>
         /\ Head(<<f>> \o r) = f
         /\ Tail(<<f>> \o r) = r
         /\ Settled(<<f>> \o r) = Settles(f) \cup Settled(r)
<1>1. <<f>> \o r \in Seq(Calls) /\ <<f>> \o r # <<>>
  OBVIOUS
<1>2. Head(<<f>> \o r) = f /\ Tail(<<f>> \o r) = r
  OBVIOUS
<1> QED BY <1>1, <1>2, Innermost

LEMMA TwoOnTop ==
  ASSUME NEW g \in Calls, NEW f \in Calls, NEW r \in Seq(Calls)
  PROVE  <<g, f>> \o r = <<g>> \o (<<f>> \o r)
<1>1. <<g>> \in Seq(Calls) /\ <<f>> \in Seq(Calls)
  OBVIOUS
<1>2. <<g>> \o <<f>> = <<g, f>>
  <2>1. Len(<<g>>) = 1 /\ <<g>>[1] = g /\ Len(<<f>>) = 1 /\ <<f>>[1] = f
    OBVIOUS
  <2>2. /\ <<g>> \o <<f>> \in Seq(Calls)
        /\ Len(<<g>> \o <<f>>) = 2
        /\ (<<g>> \o <<f>>)[1] = g /\ (<<g>> \o <<f>>)[2] = f
    BY <1>1, <2>1, ConcatProperties
  <2>3. <<g, f>> \in Seq(Calls) /\ Len(<<g, f>>) = 2 /\ <<g, f>>[1] = g /\ <<g, f>>[2] = f
    OBVIOUS
  <2>4. \A i \in 1..2 : i = 1 \/ i = 2
    OBVIOUS
  <2> QED BY <2>2, <2>3, <2>4, SeqEqual
<1>3. (<<g>> \o <<f>>) \o r = <<g>> \o (<<f>> \o r)
  BY <1>1, ConcatAssociative
<1> QED BY <1>2, <1>3

LEMMA NoJoinOnTop ==
  ASSUME NEW f \in Calls, NEW r \in Seq(Calls), f.at # "on_join", NoJoin(r)
  PROVE  NoJoin(<<f>> \o r)
<1>1. /\ Len(r) \in Nat /\ DOMAIN r = 1..Len(r)
      /\ DOMAIN (<<f>> \o r) = 1..Len(r) + 1
      /\ (<<f>> \o r)[1] = f
      /\ \A i \in 2..Len(r) + 1 : (<<f>> \o r)[i] = r[i - 1]
  OBVIOUS
<1>2. \A i \in 1..Len(r) + 1 : i = 1 \/ (i \in 2..Len(r) + 1 /\ i - 1 \in DOMAIN r)
  BY <1>1
<1> QED BY <1>1, <1>2 DEF NoJoin

(* What the stacks are after thread t has put s in place of its own.        *)
Replaced(t, s) == stack' = [stack EXCEPT ![t] = s]

(* The stacks stay in order, the connection of the innermost call is the    *)
(* only one that may be settled no longer, and those of the new calls are.  *)
StacksKept(t, new) ==
  /\ stack' \in [Threads -> Seq(Calls)]
  /\ \A o \in Threads : stack'[o] # <<>> =>
       /\ NoJoin(Tail(stack'[o]))
       /\ Head(stack'[o]).at = "on_join" => o # t /\ stack'[o] = stack[o]
  /\ \A o \in Threads, c \in Conns : c \in Settled(stack[o]) =>
       c \in Settles(Head(stack[t])) \/ \E p \in Threads : c \in Settled(stack'[p])
  /\ \A c \in new : \E p \in Threads : c \in Settled(stack'[p])

LEMMA StacksAfter ==
  ASSUME TypeOK, JoinsOK, NEW t \in Threads, stack[t] # <<>>,
         NEW s \in Seq(Calls), NEW new, Replaced(t, s),
         Settled(s) = new \cup Settled(Tail(stack[t])),
         s # <<>> => NoJoin(Tail(s)) /\ Head(s).at # "on_join"
  PROVE  StacksKept(t, new)
<1>1. /\ stack' \in [Threads -> Seq(Calls)] /\ stack'[t] = s
      /\ \A o \in Threads : o # t => stack'[o] = stack[o]
  BY DEF TypeOK, Replaced
<1>2. stack[t] \in Seq(Calls)
  BY DEF TypeOK
<1>3. Settled(stack[t]) = Settles(Head(stack[t])) \cup Settled(Tail(stack[t]))
  BY <1>2, Innermost
<1>4. \A o \in Threads : stack'[o] # <<>> =>
       /\ NoJoin(Tail(stack'[o]))
       /\ Head(stack'[o]).at = "on_join" => o # t /\ stack'[o] = stack[o]
  BY <1>1 DEF JoinsOK
<1>5. ASSUME NEW o \in Threads, NEW c \in Conns, c \in Settled(stack[o])
      PROVE  c \in Settles(Head(stack[t])) \/ \E p \in Threads : c \in Settled(stack'[p])
  <2>1. CASE o = t
    BY <1>1, <1>3, <1>5, <2>1
  <2>2. CASE o # t
    BY <1>1, <1>5, <2>2
  <2> QED BY <2>1, <2>2
<1>6. \A c \in new : \E p \in Threads : c \in Settled(stack'[p])
  BY <1>1
<1> QED BY <1>1, <1>4, <1>5, <1>6 DEF StacksKept

LEMMA AfterReturn ==
  ASSUME TypeOK, JoinsOK, NEW t \in Threads, stack[t] # <<>>, Return(t)
  PROVE  StacksKept(t, {})
<1>1. stack[t] \in Seq(Calls) /\ Tail(stack[t]) \in Seq(Calls) /\ NoJoin(Tail(stack[t]))
  BY Innermost DEF TypeOK, JoinsOK
<1>2. Replaced(t, Tail(stack[t]))
  BY DEF Return, Replaced
<1>3. ASSUME Tail(stack[t]) # <<>>
      PROVE  NoJoin(Tail(Tail(stack[t]))) /\ Head(Tail(stack[t])).at # "on_join"
  <2>1. NoJoin(Tail(Tail(stack[t])))
    BY <1>1, <1>3, Innermost
  <2>2. Head(Tail(stack[t])) = Tail(stack[t])[1] /\ 1 \in DOMAIN Tail(stack[t])
    BY <1>1, <1>3
  <2> QED BY <1>1, <2>1, <2>2 DEF NoJoin
<1>4. Settled(Tail(stack[t])) = {} \cup Settled(Tail(stack[t]))
  OBVIOUS
<1> QED BY <1>1, <1>2, <1>3, <1>4, StacksAfter

LEMMA AfterBecome ==
  ASSUME TypeOK, JoinsOK, NEW t \in Threads, stack[t] # <<>>,
         NEW f \in Calls, f.at # "on_join", Become(t, f)
  PROVE  StacksKept(t, Settles(f))
<1> DEFINE r == Tail(stack[t])
           s == <<f>> \o r
<1>1. r \in Seq(Calls) /\ NoJoin(r)
  BY Innermost DEF TypeOK, JoinsOK
<1>2. Replaced(t, s)
  BY DEF Become, Replaced
<1>3. /\ s \in Seq(Calls) /\ Head(s) = f /\ Tail(s) = r
      /\ Settled(s) = Settles(f) \cup Settled(r)
  BY <1>1, OnTop
<1> HIDE DEF s
<1> QED BY <1>1, <1>2, <1>3, StacksAfter

LEMMA AfterCall ==
  ASSUME TypeOK, JoinsOK, NEW t \in Threads, stack[t] # <<>>,
         NEW f \in Calls, f.at # "on_join", NEW g \in Calls, g.at # "on_join",
         CallFrom(t, f, g)
  PROVE  StacksKept(t, Settles(g) \cup Settles(f))
<1> DEFINE r == Tail(stack[t])
           q == <<f>> \o r
           s == <<g>> \o q
<1>1. r \in Seq(Calls) /\ NoJoin(r)
  BY Innermost DEF TypeOK, JoinsOK
<1>2. <<g, f>> \o r = s
  BY <1>1, TwoOnTop
<1>3. Replaced(t, s)
  BY <1>2 DEF CallFrom, Replaced
<1>4. q \in Seq(Calls) /\ Settled(q) = Settles(f) \cup Settled(r) /\ NoJoin(q)
  BY <1>1, OnTop, NoJoinOnTop
<1>5. /\ s \in Seq(Calls) /\ Head(s) = g /\ Tail(s) = q
      /\ Settled(s) = Settles(g) \cup Settled(q)
  BY <1>4, OnTop
<1>6. Settled(s) = (Settles(g) \cup Settles(f)) \cup Settled(r)
  BY <1>4, <1>5
<1> HIDE DEF s, q
<1> QED BY <1>3, <1>4, <1>5, <1>6, StacksAfter

-----------------------------------------------------------------------------
(* The set of connections                                                   *)

(* What erase() leaves, and where.                                          *)
LEMMA EraseIndex ==
  ASSUME NEW s \in Seq(Conns), NEW c \in Range(s)
  PROVE  \E p \in 1..Len(s) :
           /\ s[p] = c
           /\ Erase(s, c) \in Seq(Conns)
           /\ DOMAIN Erase(s, c) = 1..Len(s) - 1
           /\ \A i \in 1..p - 1 : Erase(s, c)[i] = s[i]
           /\ \A i \in p..Len(s) - 1 : Erase(s, c)[i] = s[i + 1]
           /\ After(s, c) = IF p = Len(s) THEN End ELSE s[p + 1]
<1> DEFINE p == Place(s, c)
           m == SubSeq(s, 1, p - 1)
           n == SubSeq(s, p + 1, Len(s))
<1>1. p \in DOMAIN s /\ s[p] = c
  BY DEF Range, Place
<1>2. p \in 1..Len(s) /\ Len(s) \in Nat /\ DOMAIN s = 1..Len(s)
      /\ \A i \in 1..Len(s) : s[i] \in Conns
  BY <1>1
<1>3. After(s, c) = IF p = Len(s) THEN End ELSE s[p + 1]
  BY DEF After
<1>4. Erase(s, c) = m \o n
  BY DEF Erase
<1> HIDE DEF p
<1>5. /\ m \in Seq(Conns) /\ Len(m) = p - 1
      /\ \A i \in 1..p - 1 : m[i] = s[i]
  BY <1>2
<1>6. /\ n \in Seq(Conns) /\ Len(n) = Len(s) - p
      /\ \A i \in 1..Len(s) - p : n[i] = s[p + i]
  <2>1. \A i \in p + 1..Len(s) : s[i] \in Conns
    BY <1>2
  <2>2. p + 1 \in Int /\ Len(s) \in Int
    BY <1>2
  <2>3. /\ n \in Seq(Conns)
        /\ Len(n) = IF p + 1 <= Len(s) THEN Len(s) - (p + 1) + 1 ELSE 0
        /\ \A i \in 1..Len(s) - (p + 1) + 1 : n[i] = s[p + 1 + i - 1]
    BY <2>1, <2>2, SubSeqProperties
  <2>4. Len(s) - (p + 1) + 1 = Len(s) - p
    BY <1>2
  <2>5. \A i \in 1..Len(s) - p : p + 1 + i - 1 = p + i
    BY <1>2
  <2> HIDE DEF n
  <2>6. Len(n) = Len(s) - p
    <3>1. CASE p + 1 <= Len(s)
      BY <2>3, <2>4, <3>1
    <3>2. CASE ~ (p + 1 <= Len(s))
      <4>a. p \in Int /\ Len(s) \in Int /\ p <= Len(s)
        BY <1>2
      <4>1. Len(s) - p = 0
        BY <4>a, <3>2
      <4> QED BY <2>3, <3>2, <4>1
    <3> QED BY <3>1, <3>2
  <2> QED BY <2>3, <2>4, <2>5, <2>6
<1> HIDE DEF m, n
<1>7. /\ m \o n \in Seq(Conns) /\ DOMAIN (m \o n) = 1..Len(s) - 1
      /\ \A i \in 1..p - 1 : (m \o n)[i] = s[i]
      /\ \A i \in p..Len(s) - 1 : (m \o n)[i] = s[i + 1]
  <2>1. /\ m \o n \in Seq(Conns) /\ Len(m \o n) = Len(m) + Len(n)
        /\ \A i \in 1..Len(m) + Len(n) : (m \o n)[i] =
              IF i <= Len(m) THEN m[i] ELSE n[i - Len(m)]
    BY <1>5, <1>6, ConcatProperties
  <2>2. Len(m) + Len(n) = Len(s) - 1
    BY <1>2, <1>5, <1>6
  <2>3. \A i \in 1..p - 1 : (m \o n)[i] = m[i]
    BY <1>2, <1>5, <2>1, <2>2
  <2>4. \A i \in p..Len(s) - 1 : (m \o n)[i] = n[i - (p - 1)]
    BY <1>2, <1>5, <2>1, <2>2
  <2>5. \A i \in p..Len(s) - 1 : i - (p - 1) \in 1..Len(s) - p /\ p + (i - (p - 1)) = i + 1
    BY <1>2
  <2>6. \A i \in p..Len(s) - 1 : (m \o n)[i] = s[i + 1]
    BY <1>6, <2>4, <2>5
  <2>7. DOMAIN (m \o n) = 1..Len(s) - 1
    BY <2>1, <2>2
  <2> QED BY <1>5, <2>1, <2>3, <2>6, <2>7
<1> QED BY <1>1, <1>2, <1>3, <1>7, <1>4

(* erase() takes out one connection, and nothing else.                      *)
LEMMA EraseKeeps ==
  ASSUME NEW s \in Seq(Conns), NEW c \in Range(s)
  PROVE  /\ Erase(s, c) \in Seq(Conns)
         /\ \A d \in Range(s) : d = c \/ d \in Range(Erase(s, c))
         /\ After(s, c) \in Conns \cup {End}
<1> DEFINE q == Erase(s, c)
<1>1. PICK p \in 1..Len(s) :
        /\ s[p] = c
        /\ q \in Seq(Conns)
        /\ DOMAIN q = 1..Len(s) - 1
        /\ \A i \in 1..p - 1 : q[i] = s[i]
        /\ \A i \in p..Len(s) - 1 : q[i] = s[i + 1]
        /\ After(s, c) = IF p = Len(s) THEN End ELSE s[p + 1]
  BY EraseIndex
<1> HIDE DEF q
<1>2. /\ Len(s) \in Nat /\ DOMAIN s = 1..Len(s)
      /\ \A i \in 1..Len(s) : s[i] \in Conns
  OBVIOUS
<1>3. p \in Nat /\ 1 <= p /\ p <= Len(s)
  BY <1>2
<1>4. After(s, c) \in Conns \cup {End}
  <2>1. PICK n \in Nat : n = Len(s)
    BY <1>2
  <2>2. p # n => p + 1 \in 1..n
    BY <1>3, <2>1
  <2>3. p # n => s[p + 1] \in Conns
    BY <1>2, <2>1, <2>2
  <2> QED BY <1>1, <2>1, <2>3
<1>5. ASSUME NEW d \in Range(s), d # c
      PROVE  d \in Range(q)
  <2>1. PICK i \in 1..Len(s) : s[i] = d
    BY <1>2 DEF Range
  <2>a. i # p
    BY <1>1, <1>5, <2>1
  <2>2. i < p \/ i > p
    BY <1>2, <1>3, <2>a
  <2>3. CASE i < p
    <3>1. i \in 1..p - 1 /\ i \in 1..Len(s) - 1
      BY <1>2, <2>1, <2>3
    <3> QED BY <1>1, <2>1, <3>1 DEF Range
  <2>4. CASE i > p
    <3>1. i - 1 \in p..Len(s) - 1 /\ i - 1 \in 1..Len(s) - 1 /\ i - 1 + 1 = i
      BY <1>2, <2>1, <2>4
    <3> QED BY <1>1, <2>1, <3>1 DEF Range
  <2> QED BY <2>2, <2>3, <2>4
<1> QED BY <1>1, <1>4, <1>5 DEF q

(* A sequence has finitely many elements.                                   *)
LEMMA RangeFinite ==
  ASSUME NEW S, NEW s \in Seq(S)
  PROVE  IsFiniteSet(Range(s))
<1>1. PICK n \in Nat : n = Len(s) /\ DOMAIN s = 1..n
  OBVIOUS
<1>2. IsFiniteSet(1..n)
  BY <1>1, FS_Interval
<1>3. s \in Surjection(1..n, Range(s))
  BY <1>1 DEF Surjection, Range
<1> QED BY <1>2, <1>3, FS_Surjection

-----------------------------------------------------------------------------
(* Steps                                                                    *)

(* A step that leaves uuids and the set alone and forgets no entity but     *)
(* that of the innermost call, once settled.                                *)
LEMMA KeptInv ==
  ASSUME Inv, NEW t \in Threads, NEW new, StacksKept(t, new),
         UNCHANGED <<accepted, uuid>>,
         TypeOK',
         \A c \in Range(connections) :
           c \in Range(connections') \/ c \in new,
         entities' \subseteq entities,
         \A c \in Settles(Head(stack[t])) :
           c \in new \/ c \in Range(connections') \/ uuid[c] \notin entities'
  PROVE  Inv'
<1>1. JoinsOK'
  BY DEF Inv, JoinsOK, StacksKept
<1>2. ASSUME NEW u \in entities'
      PROVE  \E c \in Conns : uuid'[c] = u /\ Kept(c)'
  <2>1. PICK c \in Conns : uuid[c] = u /\ Kept(c)
    BY <1>2 DEF Inv, EntitiesOK
  <2>2. \A d \in new : Kept(d)'
    BY DEF StacksKept, Kept
  <2>3. c \in Range(connections) => Kept(c)'
    BY <2>2 DEF Kept
  <2>4. (\E o \in Threads : c \in Settled(stack[o])) =>
          c \in Settles(Head(stack[t])) \/ \E o \in Threads : c \in Settled(stack'[o])
    BY DEF StacksKept
  <2>5. (\E o \in Threads : c \in Settled(stack[o])) => Kept(c)'
    BY <1>2, <2>1, <2>2, <2>4 DEF Kept
  <2> QED BY <2>1, <2>3, <2>5 DEF Kept
<1> QED BY <1>1, <1>2 DEF Inv, EntitiesOK

(* The common case: nothing changes but the stack of one thread.            *)
LEMMA OnlyStack ==
  ASSUME Inv, NEW t \in Threads, NEW new, StacksKept(t, new),
         UNCHANGED <<accepted, uuid, connections, entities>>,
         Settles(Head(stack[t])) \subseteq new
  PROVE  Inv'
<1>1. TypeOK'
  BY DEF Inv, TypeOK, StacksKept
<1> QED BY <1>1, KeptInv

LEMMA CallType ==
  ASSUME NEW place \in Places, NEW c \in Conns
  PROVE  Call(place, c) \in Calls
<1> QED BY DEF Call, NoMsg, Calls, Messages

LEMMA SendType ==
  ASSUME NEW c \in Conns, NEW u \in UUIDs, connections \in Seq(Conns)
  PROVE  /\ PSendAll(New(u), c) \in Calls /\ PSendAll(New(u), c).at = "psend_all"
         /\ PSendAll(Delete(u), c) \in Calls /\ PSendAll(Delete(u), c).at = "psend_all"
<1>1. First(connections) \in Conns \cup {End}
  BY DEF First
<1>2. New(u) \in Messages /\ Delete(u) \in Messages
  BY DEF New, Delete, Messages
<1> QED BY <1>1, <1>2 DEF PSendAll, Call, NoMsg, Calls, Places

LEMMA InitInv == Init => Inv
<1> SUFFICES ASSUME Init PROVE Inv
  OBVIOUS
<1>1. TypeOK
  BY DEF Init, TypeOK, Threads
<1>2. JoinsOK
  BY DEF Init, JoinsOK
<1>3. EntitiesOK
  BY DEF Init, EntitiesOK
<1> QED BY <1>1, <1>2, <1>3 DEF Inv

LEMMA StutterInv ==
  ASSUME Inv, UNCHANGED <<accepted, uuid, connections, entities, stack>>
  PROVE  Inv'
<1>1. TypeOK'
  BY DEF Inv, TypeOK
<1>2. JoinsOK'
  BY DEF Inv, JoinsOK
<1>3. EntitiesOK'
  BY DEF Inv, EntitiesOK, Kept
<1> QED BY <1>1, <1>2, <1>3 DEF Inv

(* Accept and Packet: the only call of a thread.                            *)
LEMMA NewCallInv ==
  ASSUME Inv, NEW t \in Threads, NEW f \in Calls, stack[t] = <<>>,
         Replaced(t, <<f>>), UNCHANGED <<uuid, connections, entities>>,
         accepted \subseteq accepted', accepted' \subseteq Conns,
         f.at = "on_join" => t = "io" /\ f.conn \in accepted' /\ f.conn \notin accepted
  PROVE  Inv'
<1>1. /\ <<f>> \in Seq(Calls) /\ Head(<<f>>) = f /\ Tail(<<f>>) = <<>>
      /\ stack' \in [Threads -> Seq(Calls)] /\ stack'[t] = <<f>>
      /\ \A o \in Threads : o # t => stack'[o] = stack[o]
  BY DEF Inv, TypeOK, Replaced
<1>2. TypeOK'
  BY <1>1 DEF Inv, TypeOK
<1>3. f.conn \in Conns
  BY DEF Calls
<1>4. JoinsOK'
  <2>1. \A c \in Conns \ accepted' : uuid'[c] = End
    BY DEF Inv, JoinsOK
  <2>2. NoJoin(Tail(<<f>>))
    BY <1>1 DEF NoJoin
  <2>3. f.at = "on_join" => uuid'[f.conn] = End
    BY <1>3 DEF Inv, JoinsOK
  <2> QED BY <1>1, <2>1, <2>2, <2>3 DEF Inv, JoinsOK
<1>5. \A c \in Conns : Kept(c) => Kept(c)'
  <2>1. \A c : c \notin Settled(<<>>)
    BY DEF Settled
  <2> QED BY <1>1, <2>1 DEF Kept
<1>6. EntitiesOK'
  BY <1>5 DEF Inv, EntitiesOK
<1> QED BY <1>2, <1>4, <1>6 DEF Inv

LEMMA OnJoinInv ==
  ASSUME Inv, NEW t \in Threads, OnJoin(t)
  PROVE  Inv'
<1> DEFINE f == Head(stack[t])
           g == [f EXCEPT !.at = "insert"]
<1>1. /\ stack[t] # <<>> /\ f.at = "on_join" /\ f \in Calls /\ f.conn \in Conns
      /\ t = "io" /\ f.conn \in accepted /\ uuid[f.conn] = End
  BY Innermost DEF OnJoin, Running, Inv, TypeOK, JoinsOK, Calls
<1>2. g \in Calls /\ g.at = "insert" /\ g.conn = f.conn
  BY <1>1 DEF Calls, Places
<1>3. PICK u \in UUIDs \ entities :
        /\ uuid' = [uuid EXCEPT ![f.conn] = u]
        /\ \/ /\ entities' = entities \cup {u}
              /\ CallFrom(t, g, PSendAll(New(u), f.conn))
           \/ /\ entities' = entities
              /\ CallFrom(t, g, Call("on_quit", f.conn))
  BY DEF OnJoin
<1>4. UNCHANGED <<accepted, connections>>
  BY DEF OnJoin, netVars
<1>5. PICK new : StacksKept(t, new) /\ f.conn \in new
  <2>1. CASE CallFrom(t, g, PSendAll(New(u), f.conn))
    <3>1. StacksKept(t, Settles(PSendAll(New(u), f.conn)) \cup Settles(g))
      BY <1>1, <1>2, <2>1, SendType, AfterCall DEF Inv, TypeOK
    <3> QED BY <1>2, <3>1 DEF Settles, Settling
  <2>2. CASE CallFrom(t, g, Call("on_quit", f.conn))
    <3>1. Call("on_quit", f.conn) \in Calls /\ Call("on_quit", f.conn).at = "on_quit"
      BY <1>1, CallType DEF Places, Call
    <3>2. StacksKept(t, Settles(Call("on_quit", f.conn)) \cup Settles(g))
      BY <1>1, <1>2, <2>2, <3>1, AfterCall DEF Inv
    <3> QED BY <1>2, <3>2 DEF Settles, Settling
  <2> QED BY <1>3, <2>1, <2>2
<1> HIDE DEF g
<1>6. TypeOK'
  BY <1>3, <1>4, <1>5 DEF Inv, TypeOK, StacksKept
<1>7. JoinsOK'
  <2>1. \A c \in Conns \ accepted' : uuid'[c] = End
    BY <1>1, <1>3, <1>4 DEF Inv, TypeOK, JoinsOK
  <2>2. \A o \in Threads : stack'[o] # <<>> =>
          /\ NoJoin(Tail(stack'[o]))
          /\ Head(stack'[o]).at # "on_join"
    BY <1>1, <1>5 DEF Inv, JoinsOK, StacksKept
  <2> QED BY <2>1, <2>2 DEF JoinsOK
<1>8. \E c \in Conns : c = f.conn /\ Kept(c)'
  <2>1. PICK c \in Conns : c = f.conn
    BY <1>1
  <2> QED BY <1>5, <2>1 DEF StacksKept, Kept
<1>9. uuid'[f.conn] = u /\ \A c \in Conns : c # f.conn => uuid'[c] = uuid[c]
  BY <1>1, <1>3 DEF Inv, TypeOK
<1>10. ASSUME NEW e \in entities'
       PROVE  \E c \in Conns : uuid'[c] = e /\ Kept(c)'
  <2>1. CASE e = u
    BY <1>1, <1>8, <1>9, <2>1
  <2>2. CASE e \in entities
    <3>1. PICK c \in Conns : uuid[c] = e /\ Kept(c)
      BY <2>2 DEF Inv, EntitiesOK
    <3>2. c # f.conn
      BY <1>1, <2>2, <3>1, EndAssumption DEF Inv, TypeOK
    <3>3. Kept(c)'
      <4>1. c \notin Settles(f)
        BY <1>1 DEF Settles, Settling
      <4> QED BY <1>4, <1>5, <3>1, <4>1 DEF Kept, StacksKept
    <3> QED BY <1>9, <3>1, <3>2, <3>3
  <2> QED BY <1>3, <1>10, <2>1, <2>2
<1> QED BY <1>6, <1>7, <1>10 DEF Inv, EntitiesOK

LEMMA RunInv ==
  ASSUME Inv, NEW t \in Threads, Run(t)
  PROVE  Inv'
<1> DEFINE f == Head(stack[t])
<1>0. TypeOK /\ JoinsOK
  BY DEF Inv
<1>a. /\ stack[t] # <<>> => f \in Calls /\ f.conn \in Conns
      /\ \A g \in Calls : g.conn \in Conns
  BY Innermost DEF Inv, TypeOK, Calls
<1>b. ASSUME NEW how, Crash(how) PROVE Inv'
  BY <1>b, StutterInv DEF Crash, netVars, dataVars
<1>1. CASE OnQuit(t)
  <2> DEFINE u == uuid[f.conn]
             g == [f EXCEPT !.at = "quit"]
  <2>1. stack[t] # <<>> /\ f.at = "on_quit"
    BY <1>1 DEF OnQuit, Running
  <2>2. CASE Crash("null entity")
    BY <1>b, <2>2
  <2>3. CASE /\ u \in entities /\ CallFrom(t, g, PSendAll(Delete(u), f.conn))
             /\ UNCHANGED <<netVars, dataVars>>
    <3>1. g \in Calls /\ g.at = "quit" /\ g.conn = f.conn
      BY <1>a, <2>1 DEF Calls, Places
    <3>2. u \in UUIDs
      BY <2>3 DEF Inv, TypeOK
    <3>3. StacksKept(t, Settles(PSendAll(Delete(u), f.conn)) \cup Settles(g))
      BY <1>0, <1>a, <2>1, <2>3, <3>1, <3>2, SendType, AfterCall DEF TypeOK
    <3>4. Settles(f) \subseteq Settles(PSendAll(Delete(u), f.conn)) \cup Settles(g)
      BY <3>1 DEF Settles, Settling
    <3> QED BY <2>3, <3>3, <3>4, OnlyStack DEF netVars, dataVars
  <2> QED BY <1>1, <2>2, <2>3 DEF OnQuit
<1>2. CASE Quit(t)
  <2>1. /\ stack[t] # <<>> /\ f.at = "quit" /\ Return(t)
        /\ entities' = entities \ {uuid[f.conn]}
        /\ UNCHANGED <<accepted, connections, uuid>>
    BY <1>2 DEF Quit, Running, netVars
  <2>2. StacksKept(t, {})
    BY <1>0, <2>1, AfterReturn
  <2>3. TypeOK'
    BY <2>1, <2>2 DEF Inv, TypeOK, StacksKept
  <2>4. \A c \in Settles(f) : uuid[c] \notin entities'
    BY <2>1 DEF Settles
  <2> QED BY <2>1, <2>2, <2>3, <2>4, KeptInv
<1>3. CASE SendEnds(t)
  <2>1. /\ stack[t] # <<>> /\ f.at = "psend_all" /\ Return(t)
        /\ UNCHANGED <<accepted, connections, uuid, entities>>
    BY <1>3 DEF SendEnds, Running, netVars, dataVars
  <2>2. StacksKept(t, {})
    BY <1>0, <2>1, AfterReturn
  <2>3. Settles(f) = {}
    BY <2>1 DEF Settles, Settling
  <2> QED BY <2>1, <2>2, <2>3, OnlyStack
<1>4. CASE SendBadIterator(t)
  BY <1>4, <1>b DEF SendBadIterator
<1>5. CASE SendNext(t)
  <2> DEFINE excepted == f.it = f.conn
             g == Advance(f)
             h == [g EXCEPT !.whole = g.whole /\ excepted]
  <2>1. /\ stack[t] # <<>> /\ f.at = "psend_all" /\ f.it \in Range(connections)
        /\ Become(t, h)
        /\ UNCHANGED <<accepted, connections, uuid, entities>>
    BY <1>5 DEF SendNext, Running, netVars, dataVars
  <2>2. After(connections, f.it) \in Conns \cup {End}
    BY <2>1, EraseKeeps DEF Inv, TypeOK
  <2>3. g \in Calls /\ g.at = "psend_all"
    BY <1>a, <2>1, <2>2 DEF Advance, Calls
  <2>4. (g.whole /\ excepted) \in BOOLEAN
    OBVIOUS
  <2> HIDE DEF g
  <2>5. h \in Calls /\ h.at = "psend_all"
    <3> HIDE DEF excepted
    <3> QED BY <2>3, <2>4 DEF Calls
  <2> HIDE DEF h
  <2>6. StacksKept(t, Settles(h))
    BY <1>0, <2>1, <2>5, AfterBecome
  <2>7. Settles(f) \subseteq Settles(h)
    BY <2>1 DEF Settles, Settling
  <2> QED BY <2>1, <2>6, <2>7, OnlyStack
<1>6. CASE SendFindsClosed(t)
  <2> DEFINE g == Advance(f)
             h == Call("on_quit", f.it)
  <2>1. /\ stack[t] # <<>> /\ f.at = "psend_all" /\ f.it \in Range(connections)
        /\ CallFrom(t, g, h)
        /\ connections' = Erase(connections, f.it)
        /\ UNCHANGED <<accepted, uuid, entities>>
    BY <1>6 DEF SendFindsClosed, Running, netVars
  <2>2. /\ After(connections, f.it) \in Conns \cup {End}
        /\ connections' \in Seq(Conns)
        /\ \A c \in Range(connections) : c = f.it \/ c \in Range(connections')
    BY <2>1, EraseKeeps DEF Inv, TypeOK
  <2>3. g \in Calls /\ g.at = "psend_all"
    BY <1>a, <2>1, <2>2 DEF Advance, Calls
  <2>4. f.it \in Conns
    BY <2>1 DEF Inv, TypeOK, Range
  <2>5. h \in Calls /\ h.at = "on_quit" /\ h.conn = f.it
    BY <2>4, CallType DEF Places, Call
  <2> HIDE DEF g, h
  <2>6. StacksKept(t, Settles(h) \cup Settles(g))
    BY <1>0, <2>1, <2>3, <2>5, AfterCall
  <2>7. f.it \in Settles(h) \cup Settles(g) /\ Settles(f) = {}
    BY <2>1, <2>5 DEF Settles, Settling
  <2>8. TypeOK'
    BY <2>1, <2>2, <2>6 DEF Inv, TypeOK, StacksKept
  <2> QED BY <2>1, <2>2, <2>6, <2>7, <2>8, KeptInv
<1>7. CASE OnJoin(t)
  BY <1>7, OnJoinInv
<1>8. CASE Insert(t)
  <2>1. /\ stack[t] # <<>> /\ Return(t)
        /\ connections' \in Orders(Range(connections) \cup {f.conn})
        /\ UNCHANGED <<accepted, uuid, entities>>
    BY <1>8 DEF Insert, Running, netVars
  <2>2. StacksKept(t, {})
    BY <1>0, <2>1, AfterReturn
  <2>3. Range(connections') = Range(connections) \cup {f.conn}
    BY <2>1 DEF Orders
  <2>4. connections' \in Seq(Conns)
    <3> DEFINE S == Range(connections) \cup {f.conn}
    <3>1. S \subseteq Conns
      BY <1>a, <2>1 DEF Inv, TypeOK, Range
    <3>2. IsFiniteSet(S)
      <4>1. connections \in Surjection(1..Len(connections), Range(connections))
        <5>1. connections \in Seq(Conns)
          BY DEF Inv, TypeOK
        <5>2. /\ DOMAIN connections = 1..Len(connections)
              /\ connections \in [DOMAIN connections -> Conns]
          BY <5>1
        <5> QED BY <5>2 DEF Range, Surjection
      <4>2. IsFiniteSet(1..Len(connections))
        BY FS_Interval DEF Inv, TypeOK
      <4>3. IsFiniteSet(Range(connections))
        BY <4>1, <4>2, FS_Surjection
      <4> QED BY <4>3, FS_AddElement
    <3>3. Cardinality(S) \in Nat
      BY <3>2, FS_CardinalityType
    <3>4. connections' \in [1..Cardinality(S) -> S]
      BY <2>1 DEF Orders
    <3> HIDE DEF S
    <3> QED BY <3>1, <3>3, <3>4
  <2>5. TypeOK'
    BY <2>1, <2>2, <2>4 DEF Inv, TypeOK, StacksKept
  <2>6. \A c \in Settles(f) : c \in Range(connections')
    BY <2>3 DEF Settles
  <2> QED BY <2>1, <2>2, <2>3, <2>5, <2>6, KeptInv
<1>9. CASE OnPacket(t)
  <2> DEFINE g == [f EXCEPT !.at = "motion"]
  <2>1. stack[t] # <<>> /\ f.at = "on_packet"
    BY <1>9 DEF OnPacket, Running
  <2>2. CASE Crash("null entity")
    BY <1>b, <2>2
  <2>3. CASE Become(t, g) /\ UNCHANGED <<netVars, dataVars>>
    <3>1. g \in Calls /\ g.at = "motion"
      BY <1>a, <2>1 DEF Calls, Places
    <3>2. StacksKept(t, Settles(g))
      BY <1>0, <2>1, <2>3, <3>1, AfterBecome
    <3>3. Settles(f) \subseteq Settles(g)
      BY <2>1 DEF Settles, Settling
    <3> QED BY <2>3, <3>2, <3>3, OnlyStack DEF netVars, dataVars
  <2> QED BY <1>9, <2>2, <2>3 DEF OnPacket
<1>10. CASE SendMotion(t)
  <2> DEFINE g == Call("on_quit", f.conn)
  <2>1. /\ stack[t] # <<>> /\ f.at = "motion" /\ (Return(t) \/ Become(t, g))
        /\ UNCHANGED <<accepted, connections, uuid, entities>>
    BY <1>10 DEF SendMotion, Running, netVars, dataVars
  <2>2. g \in Calls /\ g.at = "on_quit"
    BY <1>a, <2>1, CallType DEF Places, Call
  <2> HIDE DEF g
  <2>3. StacksKept(t, {}) \/ StacksKept(t, Settles(g))
    BY <1>0, <2>1, <2>2, AfterReturn, AfterBecome
  <2>4. Settles(f) = {}
    BY <2>1 DEF Settles, Settling
  <2> QED BY <2>1, <2>3, <2>4, OnlyStack
<1> QED BY <1>1, <1>2, <1>3, <1>4, <1>5, <1>6, <1>7, <1>8, <1>9, <1>10 DEF Run

LEMMA StepInv ==
  ASSUME Inv, [Next]_vars
  PROVE  Inv'
<1>1. ASSUME NEW c \in Conns, Accept(c) PROVE Inv'
  <2>1. /\ stack["io"] = <<>> /\ c \notin accepted /\ accepted' = accepted \cup {c}
        /\ Replaced("io", <<Call("on_join", c)>>)
        /\ UNCHANGED <<uuid, connections, entities>>
    BY <1>1 DEF Accept, MayCall, Replaced, dataVars
  <2>2. "io" \in Threads /\ Call("on_join", c) \in Calls /\ Call("on_join", c).conn = c
    BY CallType DEF Threads, Places, Call
  <2>3. accepted' \subseteq Conns
    BY <2>1 DEF Inv, TypeOK
  <2> QED BY <2>1, <2>2, <2>3, NewCallInv
<1>2. ASSUME NEW c \in Conns, Close(c) PROVE Inv'
  BY <1>2, StutterInv DEF Close, dataVars
<1>3. ASSUME NEW c \in Conns, Packet(c) PROVE Inv'
  <2>1. /\ stack["update"] = <<>> /\ accepted' = accepted
        /\ Replaced("update", <<Call("on_packet", c)>>)
        /\ UNCHANGED <<uuid, connections, entities>>
    BY <1>3 DEF Packet, MayCall, Replaced, dataVars
  <2>2. /\ "update" \in Threads /\ Call("on_packet", c) \in Calls
        /\ Call("on_packet", c).at = "on_packet"
    BY CallType DEF Threads, Places, Call
  <2>3. accepted' \subseteq Conns
    BY <2>1 DEF Inv, TypeOK
  <2> QED BY <2>1, <2>2, <2>3, NewCallInv
<1>4. ASSUME UNCHANGED vars PROVE Inv'
  BY <1>4, StutterInv DEF vars, netVars, dataVars
<1> QED BY <1>1, <1>2, <1>3, <1>4, RunInv DEF Next

-----------------------------------------------------------------------------
(* The strengthening of NoOrphanEntity that every step keeps: where calls,  *)
(* uuids and entities are, and that each entity is kept by the set or by a  *)
(* call that has yet to remove it.                                          *)
THEOREM InvAlways == Spec => []Inv
<1>1. Inv /\ [Next]_vars => Inv'
  BY StepInv
<1> QED BY InitInv, <1>1, PTL DEF Spec

(* Whoever joins, quits or crashes in whatever order, every entity of       *)
(* uuid_entity_map is that of a connection the server still knows of, which *)
(* the next psend_all() sweeps, or a call under way will (Server.cpp:142).  *)
THEOREM NoOrphans == Spec => []NoOrphanEntity
<1>1. Inv => NoOrphanEntity
  <2> SUFFICES ASSUME Inv PROVE NoOrphanEntity
    OBVIOUS
  <2> DEFINE inCalls == UNION {{f.conn : f \in Range(stack[t])} : t \in Threads}
  <2>1. ASSUME NEW c, NEW t \in Threads, c \in Settled(stack[t])
        PROVE  c \in inCalls
    <3>1. PICK i \in DOMAIN stack[t] : c \in Settles(stack[t][i])
      BY <2>1 DEF Settled
    <3>2. c = stack[t][i].conn
      BY <3>1 DEF Settles
    <3> QED BY <3>2 DEF Range
  <2> HIDE DEF inCalls
  <2>2. entities \subseteq {uuid[c] : c \in Range(connections) \cup inCalls}
    BY <2>1 DEF Inv, EntitiesOK, Kept
  <2> QED BY <2>2 DEF NoOrphanEntity, inCalls
<1> QED BY <1>1, InvAlways, PTL

-----------------------------------------------------------------------------
(* The threads one at a time                                                *)

Bottom(s) == s[Len(s)]
Links(s) == {<<s[i], s[i + 1]>> : i \in 1..Len(s) - 1}

Joined == Range(connections)
Frames == UNION {Range(stack[t]) : t \in Threads}

Distinct(s) == \A i, j \in DOMAIN s : s[i] = s[j] => i = j
Before(s, a, b) == \E i, j \in DOMAIN s : i <= j /\ s[i] = a /\ s[j] = b

(* psend_all() has not come by connection c yet, or never will any more.    *)
Ahead(g, c) == g.it # End /\ (g.it \in Joined => Before(connections, g.it, c))

OneCaller ==
  \A t, o \in Threads : stack[t] # <<>> /\ stack[o] # <<>> => t = o

ClientsOK ==
  /\ open \subseteq accepted
  /\ Joined \subseteq accepted
  /\ known \in [Conns -> SUBSET (UUIDs \cup {End})]
  /\ torn \subseteq Conns

(* A packet may be late: its owner has quit, or its uuid is another one's.  *)
Involved ==
  Joined \cup {f.conn : f \in {g \in Frames : g.at \notin {"on_join", "on_packet"}}}
Entering == {f.conn : f \in {g \in Frames : g.at = "insert" /\ g.conn \in open}}
UuidsOK ==
  /\ \A c \in Joined \cup Entering : uuid[c] \in entities
  /\ \A a, b \in Involved : uuid[a] = uuid[b] => a = b

Newcomers == {f.conn : f \in {g \in Frames : g.at \in {"on_join", "insert"}}}
OpenOK == open \subseteq Joined \cup Newcomers

FrameOK(f) ==
  /\ f.conn \in accepted
  /\ f.at \in {"on_quit", "quit"} => f.conn \notin open
  /\ f.at \in {"on_join", "insert"} => f.conn \notin Joined
  /\ f.at = "motion" => f.conn \in Joined

LinkOK(g, f) ==
  \/ /\ f.at = "insert"
     /\ g.conn = f.conn
     /\ \/ g.at = "psend_all" /\ g.msg = New(uuid[f.conn]) /\ f.conn \in open
        \/ g.at = "on_quit" /\ uuid[f.conn] \notin entities
  \/ /\ f.at = "quit"
     /\ g.at = "psend_all"
     /\ g.conn = f.conn
     /\ g.msg = Delete(uuid[f.conn])
     /\ f.conn \in Joined => Ahead(g, f.conn)
  \/ /\ f.at = "psend_all"
     /\ g.at \in {"on_quit", "quit"}
     /\ g.conn \notin Joined

(* on_quit() finds the entity, unless on_join() calls it right away.        *)
HasEntity(f, r) == uuid[f.conn] \in entities \/ (r # <<>> /\ Head(r).at = "insert")

Lower == {"insert", "quit", "psend_all"}
Outermost(t) ==
  IF t = "io" THEN {"on_join", "insert"} ELSE {"on_packet", "motion", "on_quit", "quit"}

StackOK(t) ==
  stack[t] # <<>> =>
    /\ Bottom(stack[t]).at \in Outermost(t)
    /\ \A f \in Range(Tail(stack[t])) : f.at \in Lower
    /\ \A l \in Links(stack[t]) : LinkOK(l[1], l[2])
    /\ \A f \in Range(stack[t]) : FrameOK(f)
    /\ Head(stack[t]).at = "quit" => Head(stack[t]).conn \notin Joined
    /\ Head(stack[t]).at = "insert" => Head(stack[t]).conn \in open
    /\ Head(stack[t]).at = "on_quit" => HasEntity(Head(stack[t]), Tail(stack[t]))

Shape ==
  /\ OneCaller
  /\ ClientsOK
  /\ Distinct(connections)
  /\ UuidsOK
  /\ OpenOK
  /\ \A t \in Threads : StackOK(t)

(* While somebody joins, each psend_all() will come by every connection that*)
(* is closed.                                                               *)
Joining == \E f \in Frames : f.at = "insert"
Sweeps(g) == g.at = "psend_all" /\ Joining => \A d \in Joined \ open : Ahead(g, d)

(* The clients that were sent no half packet. Each of them has been told to *)
(* delete an entity, or psend_all() will come by; ...                       *)
Listening == (Joined \cap open) \ torn
Deletes(g) ==
  g.at = "psend_all" /\ g.msg.kind = "S2C_ENTITY_DELETE" =>
    /\ g.conn \notin open
    /\ g.msg.uuid = uuid[g.conn]
    /\ \A c \in Listening : g.msg.uuid \in known[c] => Ahead(g, c)

(* ... and knows every other entity, or else it is leaving, or coming.      *)
Leaving(u) == \E f \in Frames : f.at = "quit" /\ uuid[f.conn] = u
Coming(u, c) == \E g \in Frames : g.at = "psend_all" /\ g.msg = New(u) /\ Ahead(g, c)
Knows(c, u) == u \in known[c] \/ Leaving(u) \/ Coming(u, c)
Briefed(g) ==
  g.at = "insert" /\ g.conn \in open => entities \ {uuid[g.conn]} \subseteq known[g.conn]

(* What psend_all() leaves to its caller.                                   *)
Swept(g) ==
  /\ g.at = "insert" => Joined \subseteq open
  /\ g.at = "quit" => \A c \in Listening : uuid[g.conn] \notin known[c]

Notices ==
  /\ \A g \in Frames : Sweeps(g) /\ Deletes(g) /\ Briefed(g)
  /\ \A c \in Listening : \A u \in entities \ {uuid[c]} : Knows(c, u)
  /\ \A t \in Threads : stack[t] # <<>> => Swept(Head(stack[t]))

-----------------------------------------------------------------------------
(* Calls one above another                                                  *)

(* What a call on top adds to the calls, to the pairs of caller and called, *)
(* and that it leaves the outermost call alone.                             *)
LEMMA Pushed ==
  ASSUME NEW f \in Calls, NEW r \in Seq(Calls)
  PROVE  /\ <<f>> \o r \in Seq(Calls)
         /\ <<f>> \o r # <<>>
         /\ Head(<<f>> \o r) = f
         /\ Tail(<<f>> \o r) = r
         /\ Range(<<f>> \o r) = {f} \cup Range(r)
         /\ Links(<<f>> \o r) = (IF r = <<>> THEN {} ELSE {<<f, Head(r)>>}) \cup Links(r)
         /\ Bottom(<<f>> \o r) = IF r = <<>> THEN f ELSE Bottom(r)
<1> DEFINE s == <<f>> \o r
<1>1. /\ s \in Seq(Calls) /\ s # <<>> /\ Head(s) = f /\ Tail(s) = r
      /\ Len(r) \in Nat /\ Len(s) = Len(r) + 1
      /\ s[1] = f
      /\ \A i \in 1..Len(r) : s[i + 1] = r[i]
      /\ DOMAIN s = 1..Len(r) + 1 /\ DOMAIN r = 1..Len(r)
      /\ r # <<>> => Head(r) = r[1] /\ Len(r) > 0
      /\ r = <<>> => Len(r) = 0
  OBVIOUS
<1> HIDE DEF s
<1>2. \A i \in 1..Len(r) + 1 : i = 1 \/ (i - 1 \in 1..Len(r) /\ i = i - 1 + 1)
  BY <1>1
<1>3. \A i \in 1..Len(r) : i + 1 \in 1..Len(r) + 1
  BY <1>1
<1>4. Range(s) = {f} \cup Range(r)
  <2>1. ASSUME NEW i \in 1..Len(r) + 1
        PROVE  s[i] \in {f} \cup Range(r)
    <3>1. CASE i = 1
      BY <1>1, <3>1
    <3>2. CASE i - 1 \in 1..Len(r) /\ i = i - 1 + 1
      <4>1. s[i] = r[i - 1]
        BY <1>1, <3>2
      <4> QED BY <1>1, <3>2, <4>1 DEF Range
    <3> QED BY <1>2, <3>1, <3>2
  <2>2. Range(r) \subseteq Range(s)
    BY <1>1, <1>3 DEF Range
  <2>3. f \in Range(s)
    BY <1>1 DEF Range
  <2>4. Range(s) = {s[i] : i \in 1..Len(r) + 1}
    BY <1>1 DEF Range
  <2> QED BY <2>1, <2>2, <2>3, <2>4
<1>5. Links(s) = (IF r = <<>> THEN {} ELSE {<<f, Head(r)>>}) \cup Links(r)
  <2>1. Links(s) = {<<s[i], s[i + 1]>> : i \in 1..Len(r)}
    BY <1>1 DEF Links
  <2>2. CASE r = <<>>
    <3>1. 1..Len(r) = {} /\ 1..Len(r) - 1 = {}
      BY <1>1, <2>2
    <3> QED BY <2>1, <2>2, <3>1 DEF Links
  <2>3. CASE r # <<>>
    <3>1. <<s[1], s[1 + 1]>> = <<f, Head(r)>> /\ 1 \in 1..Len(r)
      BY <1>1, <2>3
    <3>2. \A i \in 1..Len(r) : i # 1 =>
             i - 1 \in 1..Len(r) - 1 /\ s[i] = r[i - 1] /\ s[i + 1] = r[i - 1 + 1]
      <4> TAKE i \in 1..Len(r)
      <4> HAVE i # 1
      <4>1. i - 1 \in 1..Len(r) - 1 /\ i - 1 \in 1..Len(r) /\ i - 1 + 1 = i
        BY <1>1
      <4> QED BY <1>1, <4>1
    <3>3. \A i \in 1..Len(r) - 1 :
             i + 1 \in 1..Len(r) /\ s[i + 1] = r[i] /\ s[i + 1 + 1] = r[i + 1]
      <4> TAKE i \in 1..Len(r) - 1
      <4>1. i \in 1..Len(r) /\ i + 1 \in 1..Len(r)
        BY <1>1
      <4> QED BY <1>1, <4>1
    <3>4. ASSUME NEW i \in 1..Len(r)
          PROVE  <<s[i], s[i + 1]>> \in {<<f, Head(r)>>} \cup Links(r)
      <4>1. CASE i = 1
        BY <3>1, <4>1
      <4>2. CASE i # 1
        BY <3>2, <4>2 DEF Links
      <4> QED BY <4>1, <4>2
    <3>5. Links(r) \subseteq Links(s)
      BY <2>1, <3>3 DEF Links
    <3>6. <<f, Head(r)>> \in Links(s)
      BY <2>1, <3>1
    <3> QED BY <2>1, <2>3, <3>4, <3>5, <3>6
  <2> QED BY <2>2, <2>3
<1>6. Bottom(s) = IF r = <<>> THEN f ELSE Bottom(r)
  <2>1. CASE r = <<>>
    BY <1>1, <2>1 DEF Bottom
  <2>2. CASE r # <<>>
    <3>1. Len(r) \in 1..Len(r)
      BY <1>1, <2>2
    <3> QED BY <1>1, <2>2, <3>1 DEF Bottom
  <2> QED BY <2>1, <2>2
<1> QED BY <1>1, <1>4, <1>5, <1>6 DEF s

(* A stack that is not empty is a call on top of others.                    *)
LEMMA Split ==
  ASSUME NEW s \in Seq(Calls), s # <<>>
  PROVE  Head(s) \in Calls /\ Tail(s) \in Seq(Calls) /\ s = <<Head(s)>> \o Tail(s)
<1>1. Head(s) \in Calls /\ Tail(s) \in Seq(Calls)
  OBVIOUS
<1>2. s = <<Head(s)>> \o Tail(s)
  <2> DEFINE q == <<Head(s)>> \o Tail(s)
  <2>1. /\ Len(s) \in Nat /\ Len(s) > 0 /\ Len(Tail(s)) = Len(s) - 1
        /\ Head(s) = s[1]
        /\ \A i \in 1..Len(s) - 1 : Tail(s)[i] = s[i + 1]
    OBVIOUS
  <2>2. /\ q \in Seq(Calls) /\ Len(q) = Len(Tail(s)) + 1 /\ q[1] = Head(s)
        /\ \A i \in 1..Len(Tail(s)) : q[i + 1] = Tail(s)[i]
    BY <1>1
  <2> HIDE DEF q
  <2>3. Len(q) = Len(s)
    BY <2>1, <2>2
  <2>4. \A i \in 1..Len(s) : i = 1 \/ (i - 1 \in 1..Len(s) - 1 /\ i - 1 + 1 = i)
    BY <2>1
  <2>5. \A i \in 1..Len(s) : q[i] = s[i]
    BY <2>1, <2>2, <2>4
  <2>6. q = s
    BY <2>2, <2>3, <2>5, SeqEqual
  <2> QED BY <2>6 DEF q
<1> QED BY <1>1, <1>2

(* Every call but the innermost has called another.                         *)
LEMMA CalledBy ==
  ASSUME NEW s \in Seq(Calls), s # <<>>, NEW h \in Range(Tail(s))
  PROVE  \E g \in Range(s) : <<g, h>> \in Links(s)
<1>1. /\ Tail(s) \in Seq(Calls) /\ Len(s) \in Nat /\ Len(s) > 0
      /\ DOMAIN Tail(s) = 1..Len(s) - 1 /\ DOMAIN s = 1..Len(s)
      /\ \A i \in 1..Len(s) - 1 : Tail(s)[i] = s[i + 1]
  OBVIOUS
<1>2. PICK i \in 1..Len(s) - 1 : h = s[i + 1]
  BY <1>1 DEF Range
<1>3. i \in 1..Len(s)
  BY <1>1, <1>2
<1> QED BY <1>1, <1>2, <1>3 DEF Links, Range

(* StackOK for a thread inside call f with the others below it.             *)
Fits(t, f, r) ==
  /\ (IF r = <<>> THEN f ELSE Bottom(r)).at \in Outermost(t)
  /\ \A g \in Range(r) : g.at \in Lower
  /\ r # <<>> => LinkOK(f, Head(r))
  /\ \A l \in Links(r) : LinkOK(l[1], l[2])
  /\ FrameOK(f)
  /\ \A g \in Range(r) : FrameOK(g)
  /\ f.at = "quit" => f.conn \notin Joined
  /\ f.at = "insert" => f.conn \in open
  /\ f.at = "on_quit" => HasEntity(f, r)

(* StackOK is Fits of the innermost call and the others: read before a step,*)
(* and established after one.                                               *)
LEMMA Unstack ==
  ASSUME NEW t \in Threads, NEW f \in Calls, NEW r \in Seq(Calls),
         stack[t] = <<f>> \o r, StackOK(t)
  PROVE  Fits(t, f, r)
<1> DEFINE s == <<f>> \o r
<1>1. /\ s # <<>> /\ Head(s) = f /\ Tail(s) = r
      /\ Range(s) = {f} \cup Range(r)
      /\ Links(s) = (IF r = <<>> THEN {} ELSE {<<f, Head(r)>>}) \cup Links(r)
      /\ Bottom(s) = IF r = <<>> THEN f ELSE Bottom(r)
  BY Pushed
<1>2. stack[t] = s
  OBVIOUS
<1> HIDE DEF s
<1>3. /\ Bottom(s).at \in Outermost(t)
      /\ \A g \in Range(r) : g.at \in Lower
      /\ \A l \in Links(s) : LinkOK(l[1], l[2])
      /\ \A g \in Range(s) : FrameOK(g)
      /\ f.at = "quit" => f.conn \notin Joined
      /\ f.at = "insert" => f.conn \in open
      /\ f.at = "on_quit" => HasEntity(f, r)
  BY <1>1, <1>2 DEF StackOK
<1>4. r # <<>> => <<f, Head(r)>> \in Links(s)
  BY <1>1
<1>5. r # <<>> => LinkOK(f, Head(r))
  BY <1>3, <1>4
<1> QED BY <1>1, <1>3, <1>5 DEF Fits

LEMMA Restack ==
  ASSUME NEW t \in Threads, NEW f \in Calls, NEW r \in Seq(Calls),
         stack'[t] = <<f>> \o r, Fits(t, f, r)'
  PROVE  StackOK(t)'
<1> DEFINE s == <<f>> \o r
<1>1. /\ s # <<>> /\ Head(s) = f /\ Tail(s) = r
      /\ Range(s) = {f} \cup Range(r)
      /\ Links(s) = (IF r = <<>> THEN {} ELSE {<<f, Head(r)>>}) \cup Links(r)
      /\ Bottom(s) = IF r = <<>> THEN f ELSE Bottom(r)
  BY Pushed
<1>2. stack'[t] = s
  OBVIOUS
<1> HIDE DEF s
<1>3. /\ Bottom(s).at \in Outermost(t)
      /\ \A g \in Range(r) : g.at \in Lower
      /\ \A g \in Range(s) : FrameOK(g)'
      /\ f.at = "quit" => f.conn \notin Joined'
      /\ f.at = "insert" => f.conn \in open'
      /\ f.at = "on_quit" => HasEntity(f, r)'
  BY <1>1 DEF Fits
<1>4. ASSUME NEW l \in Links(s) PROVE LinkOK(l[1], l[2])'
  <2>1. CASE l \in Links(r)
    BY <2>1 DEF Fits
  <2>2. CASE r # <<>> /\ l = <<f, Head(r)>>
    BY <2>2 DEF Fits
  <2> QED BY <1>1, <2>1, <2>2
<1> QED BY <1>1, <1>2, <1>3, <1>4 DEF StackOK

(* While one thread is inside the server there is nothing but its calls.    *)
LEMMA Solo ==
  ASSUME TypeOK, OneCaller, NEW t \in Threads, stack[t] # <<>>
  PROVE  /\ \A o \in Threads : o # t => stack[o] = <<>>
         /\ Frames = Range(stack[t])
<1>1. \A o \in Threads : o # t => stack[o] = <<>>
  BY DEF OneCaller
<1>2. Range(<<>>) = {}
  BY DEF Range
<1> QED BY <1>1, <1>2 DEF Frames

(* And that stays so when it puts s in place of its own.                    *)
LEMMA SoloAfter ==
  ASSUME TypeOK, OneCaller, NEW t \in Threads, stack[t] # <<>>,
         NEW s \in Seq(Calls), Replaced(t, s)
  PROVE  /\ stack'[t] = s
         /\ \A o \in Threads : o # t => stack'[o] = <<>>
         /\ OneCaller'
         /\ Frames' = Range(s)
<1>1. stack'[t] = s /\ \A o \in Threads : o # t => stack'[o] = <<>>
  BY DEF OneCaller, TypeOK, Replaced
<1>2. OneCaller'
  BY <1>1 DEF OneCaller
<1>3. Range(<<>>) = {}
  BY DEF Range
<1> QED BY <1>1, <1>2, <1>3 DEF Frames

-----------------------------------------------------------------------------
(* The order of the set                                                     *)

(* erase() of one that is there once takes it out and keeps the order of    *)
(* the others.                                                              *)
LEMMA EraseOrder ==
  ASSUME NEW s \in Seq(Conns), Distinct(s), NEW c \in Range(s)
  PROVE  /\ Erase(s, c) \in Seq(Conns)
         /\ Range(Erase(s, c)) = Range(s) \ {c}
         /\ Distinct(Erase(s, c))
         /\ \A a, b : a # c /\ b # c /\ Before(s, a, b) => Before(Erase(s, c), a, b)
<1> DEFINE e == Erase(s, c)
<1>1. PICK p \in 1..Len(s) :
           /\ s[p] = c
           /\ e \in Seq(Conns)
           /\ DOMAIN e = 1..Len(s) - 1
           /\ \A i \in 1..p - 1 : e[i] = s[i]
           /\ \A i \in p..Len(s) - 1 : e[i] = s[i + 1]
  BY EraseIndex
<1> HIDE DEF e
<1>2. DOMAIN s = 1..Len(s) /\ Len(s) \in Nat
  OBVIOUS
<1> DEFINE Old(i) == IF i < p THEN i ELSE i + 1
           Fresh(i) == IF i < p THEN i ELSE i - 1
<1>3. ASSUME NEW i \in DOMAIN e
      PROVE  Old(i) \in DOMAIN s /\ e[i] = s[Old(i)] /\ Old(i) # p
  <2>1. CASE i < p
    <3>1. i \in 1..p - 1 /\ i \in 1..Len(s)
      BY <1>1, <1>2, <2>1
    <3> QED BY <1>1, <1>2, <2>1, <3>1
  <2>2. CASE ~(i < p)
    <3>1. i \in p..Len(s) - 1 /\ i + 1 \in 1..Len(s) /\ i + 1 # p
      BY <1>1, <1>2, <2>2
    <3> QED BY <1>1, <1>2, <2>2, <3>1
  <2> QED BY <2>1, <2>2
<1>4. ASSUME NEW i \in DOMAIN s, i # p
      PROVE  Fresh(i) \in DOMAIN e /\ e[Fresh(i)] = s[i]
  <2>1. CASE i < p
    <3>1. i \in 1..p - 1 /\ i \in 1..Len(s) - 1
      BY <1>1, <1>2, <2>1
    <3> QED BY <1>1, <1>2, <2>1, <3>1
  <2>2. CASE ~(i < p)
    <3>1. i - 1 \in p..Len(s) - 1 /\ i - 1 \in 1..Len(s) - 1 /\ i - 1 + 1 = i
      BY <1>1, <1>2, <1>4, <2>2
    <3> QED BY <1>1, <1>2, <2>2, <3>1
  <2> QED BY <2>1, <2>2
<1>5. \A i \in DOMAIN s : s[i] = c => i = p
  BY <1>1, <1>2 DEF Distinct
<1>6. Range(e) = Range(s) \ {c}
  <2>1. ASSUME NEW i \in DOMAIN e PROVE e[i] \in Range(s) \ {c}
    BY <1>3, <1>5 DEF Range
  <2>2. ASSUME NEW d \in Range(s) \ {c} PROVE d \in Range(e)
    <3>1. PICK i \in DOMAIN s : s[i] = d
      BY DEF Range
    <3>2. i # p
      BY <1>1, <3>1
    <3> QED BY <1>4, <3>1, <3>2 DEF Range
  <2>3. Range(e) = {e[i] : i \in DOMAIN e}
    BY DEF Range
  <2> QED BY <2>1, <2>2, <2>3
<1>7. Distinct(e)
  <2> SUFFICES ASSUME NEW i \in DOMAIN e, NEW j \in DOMAIN e, e[i] = e[j]
               PROVE  i = j
    BY DEF Distinct
  <2>1. Old(i) = Old(j)
    BY <1>3 DEF Distinct
  <2>2. i \in Int /\ j \in Int /\ p \in Int
    BY <1>1, <1>2
  <2> QED BY <2>1, <2>2
<1>8. ASSUME NEW a, NEW b, a # c, b # c, Before(s, a, b)
      PROVE  Before(e, a, b)
  <2>1. PICK i, j \in DOMAIN s : i <= j /\ s[i] = a /\ s[j] = b
    BY <1>8 DEF Before
  <2>2. i # p /\ j # p
    BY <1>1, <1>8, <2>1
  <2>3. Fresh(i) <= Fresh(j)
    BY <1>2, <2>1, <2>2
  <2>4. /\ Fresh(i) \in DOMAIN e /\ e[Fresh(i)] = a
        /\ Fresh(j) \in DOMAIN e /\ e[Fresh(j)] = b
    BY <1>4, <2>1, <2>2
  <2> HIDE DEF Fresh
  <2> QED BY <2>3, <2>4 DEF Before
<1> QED BY <1>1, <1>6, <1>7, <1>8 DEF e

(* ++it: what is not before an iterator, nor at it, is not before the next. *)
LEMMA AfterOrder ==
  ASSUME NEW s \in Seq(Conns), Distinct(s), NEW c \in Range(s)
  PROVE  /\ After(s, c) \in Conns \cup {End}
         /\ After(s, c) # c
         /\ After(s, c) \in Range(s) \cup {End}
         /\ \A d : d # c /\ Before(s, c, d) =>
              After(s, c) # End /\ Before(s, After(s, c), d)
<1>1. PICK p \in 1..Len(s) :
        s[p] = c /\ After(s, c) = IF p = Len(s) THEN End ELSE s[p + 1]
  BY EraseIndex
<1>2. DOMAIN s = 1..Len(s) /\ Len(s) \in Nat /\ \A i \in DOMAIN s : s[i] \in Conns
  OBVIOUS
<1>a. p \in Int /\ 1 <= p /\ p <= Len(s) /\ p \in DOMAIN s
  BY <1>2
<1>b. /\ \A k, n \in Int : 1 <= k /\ k <= n /\ k # n => k + 1 \in 1..n /\ k + 1 # k
      /\ \A k, n, j \in Int : k < j /\ j <= n => k # n /\ k + 1 <= j
  OBVIOUS
<1>c. Len(s) \in Int
  BY <1>2
<1>3. p # Len(s) => p + 1 \in DOMAIN s /\ p + 1 # p
  BY <1>2, <1>a, <1>b, <1>c
<1>4. c \in Conns /\ End \notin Conns
  BY <1>1, <1>2, EndAssumption
<1>5. After(s, c) # c
  <2>1. p # Len(s) => s[p + 1] # c
    BY <1>1, <1>3, <1>a DEF Distinct
  <2> QED BY <1>1, <1>4, <2>1
<1>6. After(s, c) \in Range(s) \cup {End} /\ After(s, c) \in Conns \cup {End}
  BY <1>1, <1>2, <1>3 DEF Range
<1>7. ASSUME NEW d, d # c, Before(s, c, d)
      PROVE  After(s, c) # End /\ Before(s, After(s, c), d)
  <2>1. PICK i, j \in DOMAIN s : i <= j /\ s[i] = c /\ s[j] = d
    BY <1>7 DEF Before
  <2>2. i = p
    BY <1>1, <1>a, <2>1 DEF Distinct
  <2>3. p < j
    <3>1. j # p /\ j \in Int /\ p <= j
      BY <1>1, <1>2, <1>7, <2>1, <2>2
    <3> QED BY <1>a, <3>1
  <2>4. p # Len(s) /\ p + 1 <= j
    <3>1. j \in Int /\ j <= Len(s)
      BY <1>2, <2>1
    <3> QED BY <1>a, <1>b, <1>c, <2>3, <3>1
  <2>5. After(s, c) = s[p + 1] /\ s[p + 1] \in Conns
    BY <1>1, <1>2, <1>3, <2>4
  <2> QED BY <1>3, <1>4, <2>1, <2>4, <2>5 DEF Before
<1> QED BY <1>5, <1>6, <1>7

(* An iteration begins before all.                                          *)
LEMMA FirstOrder ==
  ASSUME NEW s \in Seq(Conns)
  PROVE  /\ First(s) \in Range(s) \cup {End}
         /\ \A d \in Range(s) : First(s) # End /\ Before(s, First(s), d)
<1>1. DOMAIN s = 1..Len(s) /\ Len(s) \in Nat /\ \A i \in DOMAIN s : s[i] \in Conns
  OBVIOUS
<1>2. CASE s = <<>>
  <2>1. Range(s) = {}
    BY <1>2 DEF Range
  <2> QED BY <1>2, <2>1 DEF First
<1>3. CASE s # <<>>
  <2>1. 1 \in DOMAIN s /\ First(s) = s[1]
    BY <1>1, <1>3 DEF First
  <2>2. First(s) # End
    BY <1>1, <2>1, EndAssumption
  <2>3. \A d \in Range(s) : Before(s, First(s), d)
    BY <1>1, <2>1 DEF Range, Before
  <2> QED BY <2>1, <2>2, <2>3 DEF Range
<1> QED BY <1>2, <1>3

-----------------------------------------------------------------------------
(* What goes on while nobody joins                                          *)

(* erase() brings no iterator closer to a connection that stays.            *)
LEMMA AheadErased ==
  ASSUME connections \in Seq(Conns), Distinct(connections),
         NEW x \in Joined, connections' = Erase(connections, x),
         NEW g \in Calls, NEW c \in Joined', Ahead(g, c)
  PROVE  Ahead(g, c)'
<1>1. /\ Joined' = Joined \ {x}
      /\ \A a, b : a # x /\ b # x /\ Before(connections, a, b) => Before(connections', a, b)
  BY EraseOrder DEF Joined
<1> QED BY <1>1 DEF Ahead

(* ++it passes by one connection only.                                      *)
LEMMA AheadNext ==
  ASSUME connections \in Seq(Conns), Distinct(connections),
         NEW f \in Calls, NEW g \in Calls, f.it \in Joined,
         g.it = After(connections, f.it), NEW c, c # f.it, Ahead(f, c)
  PROVE  Ahead(g, c)
  BY AfterOrder DEF Ahead, Joined

Shrinks ==
  /\ UNCHANGED <<accepted, open, uuid>>
  /\ Joined' \subseteq Joined
  /\ entities' \subseteq entities
  /\ \A g \in Calls, c \in Joined' : Ahead(g, c) => Ahead(g, c)'

LEMMA LinksType ==
  ASSUME NEW r \in Seq(Calls), NEW l \in Links(r)
  PROVE  l[1] \in Range(r) /\ l[2] \in Range(r) /\ l[1] \in Calls /\ l[2] \in Calls
<1>1. /\ Len(r) \in Nat /\ DOMAIN r = 1..Len(r) /\ \A i \in DOMAIN r : r[i] \in Calls
  OBVIOUS
<1>2. PICK i \in 1..Len(r) - 1 : l = <<r[i], r[i + 1]>>
  BY DEF Links
<1>3. i \in 1..Len(r) /\ i + 1 \in 1..Len(r)
  BY <1>1
<1> QED BY <1>1, <1>2, <1>3 DEF Range

LEMMA RangeType ==
  ASSUME NEW r \in Seq(Calls)
  PROVE  Range(r) \subseteq Calls /\ (r # <<>> => Head(r) \in Range(r))
<1>1. \A i \in DOMAIN r : r[i] \in Calls
  OBVIOUS
<1>2. r # <<>> => 1 \in DOMAIN r /\ Head(r) = r[1]
  OBVIOUS
<1> QED BY <1>1, <1>2 DEF Range

(* The calls below the innermost one stay as they should be, ...            *)
LEMMA RestShrinks ==
  ASSUME Shrinks, NEW r \in Seq(Calls),
         \A g \in Range(r) : g.at \in Lower /\ FrameOK(g),
         \A l \in Links(r) : LinkOK(l[1], l[2])
  PROVE  /\ \A g \in Range(r) : FrameOK(g)'
         /\ \A l \in Links(r) : LinkOK(l[1], l[2])'
<1>1. ASSUME NEW g \in Range(r) PROVE FrameOK(g)'
  BY <1>1 DEF Shrinks, FrameOK, Lower
<1>2. ASSUME NEW l \in Links(r) PROVE LinkOK(l[1], l[2])'
  <2>1. l[1] \in Calls /\ l[2] \in Calls
    BY LinksType
  <2> QED BY <1>2, <2>1 DEF LinkOK, Shrinks
<1> QED BY <1>1, <1>2

(* ... and so do all, whether that one returns, ...                         *)
LEMMA ReturnFits ==
  ASSUME NEW t \in Threads, NEW f \in Calls, NEW r \in Seq(Calls), stack'[t] = r,
         Fits(t, f, r), Shrinks,
         r # <<>> /\ Head(r).at = "quit" => Head(r).conn \notin Joined',
         r # <<>> /\ Head(r).at = "insert" => Head(r).conn \in open
  PROVE  StackOK(t)'
<1>1. CASE r = <<>>
  BY <1>1 DEF StackOK
<1>2. CASE r # <<>>
  <2>1. PICK h, q : h = Head(r) /\ q = Tail(r)
    OBVIOUS
  <2>2. h \in Calls /\ q \in Seq(Calls) /\ r = <<h>> \o q
    BY <1>2, <2>1, Split
  <2>3. /\ Range(r) = {h} \cup Range(q)
        /\ Links(r) = (IF q = <<>> THEN {} ELSE {<<h, Head(q)>>}) \cup Links(q)
        /\ Bottom(r) = IF q = <<>> THEN h ELSE Bottom(q)
    BY <2>2, Pushed
  <2>4. /\ \A g \in Range(r) : FrameOK(g)'
        /\ \A l \in Links(r) : LinkOK(l[1], l[2])'
    BY RestShrinks DEF Fits
  <2>5. q # <<>> => LinkOK(h, Head(q))'
    <3>1. q # <<>> => <<h, Head(q)>> \in Links(r)
      BY <2>3
    <3> QED BY <2>4, <3>1
  <2>6. Fits(t, h, q)'
    BY <1>2, <2>1, <2>3, <2>4, <2>5 DEF Fits, Shrinks, Lower
  <2> QED BY <2>2, <2>6, Restack
<1> QED BY <1>1, <1>2

(* ... goes on, ...                                                         *)
LEMMA BecomeFits ==
  ASSUME NEW t \in Threads, NEW f \in Calls, NEW r \in Seq(Calls), NEW g \in Calls,
         stack'[t] = <<g>> \o r, Fits(t, f, r), Shrinks,
         r = <<>> => g.at \in Outermost(t),
         r # <<>> => LinkOK(g, Head(r))',
         FrameOK(g)',
         g.at \notin {"quit", "insert"},
         g.at = "on_quit" => HasEntity(g, r)'
  PROVE  StackOK(t)'
<1>1. /\ \A h \in Range(r) : FrameOK(h)'
      /\ \A l \in Links(r) : LinkOK(l[1], l[2])'
  BY RestShrinks DEF Fits
<1>2. Fits(t, g, r)'
  BY <1>1 DEF Fits
<1> QED BY <1>2, Restack

(* ... or calls another.                                                    *)
LEMMA CallFits ==
  ASSUME NEW t \in Threads, NEW f \in Calls, NEW r \in Seq(Calls),
         NEW h \in Calls, NEW g \in Calls,
         stack'[t] = <<g>> \o (<<h>> \o r), Fits(t, f, r), Shrinks,
         r = <<>> => h.at \in Outermost(t),
         r # <<>> => LinkOK(h, Head(r))',
         LinkOK(g, h)', FrameOK(h)', FrameOK(g)', h.at \in Lower,
         g.at \notin {"quit", "insert"},
         g.at = "on_quit" => uuid'[g.conn] \in entities' \/ h.at = "insert"
  PROVE  StackOK(t)'
<1>1. /\ \A e \in Range(r) : FrameOK(e)'
      /\ \A l \in Links(r) : LinkOK(l[1], l[2])'
  BY RestShrinks DEF Fits
<1> DEFINE q == <<h>> \o r
<1>2. /\ q \in Seq(Calls) /\ q # <<>> /\ Head(q) = h
      /\ Range(q) = {h} \cup Range(r)
      /\ Links(q) = (IF r = <<>> THEN {} ELSE {<<h, Head(r)>>}) \cup Links(r)
      /\ Bottom(q) = IF r = <<>> THEN h ELSE Bottom(r)
  BY Pushed
<1> HIDE DEF q
<1>3. \A l \in Links(q) : LinkOK(l[1], l[2])'
  <2> TAKE l \in Links(q)
  <2>1. CASE l \in Links(r)
    BY <1>1, <2>1
  <2>2. CASE r # <<>> /\ l = <<h, Head(r)>>
    BY <2>2
  <2> QED BY <1>2, <2>1, <2>2
<1>4. Fits(t, g, q)'
  BY <1>1, <1>2, <1>3 DEF Fits, HasEntity
<1> QED BY <1>2, <1>4, Restack DEF q

(* The rest of Shape, for a step of a thread that neither joins nor ends a  *)
(* join.                                                                    *)
LEMMA ShapeAfter ==
  ASSUME TypeOK, TypeOK', Shape, NEW t \in Threads, NEW f \in Calls,
         NEW r \in Seq(Calls), stack[t] = <<f>> \o r, f.at \notin {"on_join", "insert"},
         NEW s \in Seq(Calls), Replaced(t, s), StackOK(t)', Shrinks,
         ClientsOK', Distinct(connections'),
         Range(r) \subseteq Range(s),
         \A g \in Range(s) \ Range(r) : g.at # "insert" /\ g.conn \in Involved,
         \A c \in Joined' \cup Entering : uuid[c] \in entities',
         Joined \cap open' \subseteq Joined'
  PROVE  Shape'
<1>1. stack[t] # <<>> /\ Range(stack[t]) = {f} \cup Range(r)
  BY Pushed
<1>2. /\ Frames = {f} \cup Range(r)
      /\ OneCaller'
      /\ Frames' = Range(s)
      /\ stack'[t] = s
      /\ \A o \in Threads : o # t => stack'[o] = <<>>
  BY <1>1, Solo, SoloAfter DEF Shape
<1>3. \A o \in Threads : StackOK(o)'
  BY <1>2 DEF StackOK
<1>4. UuidsOK'
  <2>1. Involved' \subseteq Involved
    <3>1. ASSUME NEW g \in Range(s), g.at \notin {"on_join", "on_packet"}
          PROVE  g.conn \in Involved
      <4>1. CASE g \in Range(r)
        BY <1>2, <3>1, <4>1 DEF Involved
      <4> QED BY <3>1, <4>1
    <3> QED BY <1>2, <3>1 DEF Involved, Shrinks
  <2>2. uuid' = uuid /\ open' = open
    BY DEF Shrinks
  <2>3. Entering' \subseteq Entering
    BY <1>2, <2>2 DEF Entering
  <2> QED BY <2>1, <2>2, <2>3 DEF Shape, UuidsOK
<1>5. OpenOK'
  <2>1. Newcomers \subseteq Newcomers'
    BY <1>2 DEF Newcomers
  <2> QED BY <2>1 DEF Shape, OpenOK, Shrinks
<1> QED BY <1>2, <1>3, <1>4, <1>5 DEF Shape

-----------------------------------------------------------------------------
(* Each step keeps Shape                                                    *)

(* How each of the following proofs starts: the innermost call and those    *)
(* below it.                                                                *)
LEMMA Context ==
  ASSUME TypeOK, Shape, NEW t \in Threads, stack[t] # <<>>
  PROVE  \E f \in Calls, r \in Seq(Calls) :
           /\ f = Head(stack[t]) /\ r = Tail(stack[t])
           /\ stack[t] = <<f>> \o r
           /\ Fits(t, f, r)
           /\ Frames = {f} \cup Range(r)
           /\ f.conn \in Conns
           /\ f.at \notin {"on_join", "on_packet"} => f.conn \in Involved
<1>1. stack[t] \in Seq(Calls)
  BY DEF TypeOK
<1>2. PICK f, r : f = Head(stack[t]) /\ r = Tail(stack[t])
  OBVIOUS
<1>3. f \in Calls /\ r \in Seq(Calls) /\ stack[t] = <<f>> \o r
  BY <1>1, <1>2, Split
<1>4. Fits(t, f, r)
  BY <1>3, Unstack DEF Shape
<1>5. Frames = {f} \cup Range(r)
  <2>1. Range(<<f>> \o r) = {f} \cup Range(r)
    BY <1>3, Pushed
  <2>2. Range(stack[t]) = {f} \cup Range(r)
    BY <1>3, <2>1
  <2> QED BY <2>2, Solo DEF Shape
<1>6. f.conn \in Conns /\ (f.at \notin {"on_join", "on_packet"} => f.conn \in Involved)
  BY <1>3, <1>5 DEF Calls, Involved
<1> QED BY <1>2, <1>3, <1>4, <1>5, <1>6

(* What the two stack operations of Server do, seen from f and r.           *)
LEMMA Replacing ==
  ASSUME NEW t \in Threads, NEW f \in Calls, NEW r \in Seq(Calls), stack[t] = <<f>> \o r
  PROVE  /\ Return(t) => Replaced(t, r)
         /\ \A g : Become(t, g) => Replaced(t, <<g>> \o r)
         /\ \A g, h \in Calls : CallFrom(t, h, g) => Replaced(t, <<g>> \o (<<h>> \o r))
<1>1. Tail(stack[t]) = r
  BY Pushed
<1>2. \A g, h \in Calls : <<g, h>> \o r = <<g>> \o (<<h>> \o r)
  BY TwoOnTop
<1> QED BY <1>1, <1>2 DEF Return, Become, CallFrom, Replaced

LEMMA TwoPushed ==
  ASSUME NEW g \in Calls, NEW h \in Calls, NEW r \in Seq(Calls)
  PROVE  /\ <<g>> \o (<<h>> \o r) \in Seq(Calls)
         /\ Range(<<g>> \o (<<h>> \o r)) = {g, h} \cup Range(r)
         /\ <<g>> \o (<<h>> \o r) # <<>>
         /\ Head(<<g>> \o (<<h>> \o r)) = g
<1>1. PICK q : q = <<h>> \o r
  OBVIOUS
<1>2. q \in Seq(Calls) /\ Range(q) = {h} \cup Range(r)
  BY <1>1, Pushed
<1>3. /\ <<g>> \o q \in Seq(Calls) /\ Range(<<g>> \o q) = {g} \cup Range(q)
      /\ <<g>> \o q # <<>> /\ Head(<<g>> \o q) = g
  BY <1>2, Pushed
<1> QED BY <1>1, <1>2, <1>3

(* psend_all() starts with everybody ahead.                                 *)
LEMMA SendCall ==
  ASSUME connections \in Seq(Conns), NEW msg \in Messages, NEW c \in Conns
  PROVE  LET g == PSendAll(msg, c)
         IN  /\ g \in Calls /\ g.at = "psend_all" /\ g.conn = c /\ g.msg = msg
             /\ \A d \in Joined : Ahead(g, d)
             /\ g.it \in Joined \cup {End}
<1> DEFINE g == PSendAll(msg, c)
<1>1. First(connections) \in Joined \cup {End}
      /\ \A d \in Joined : First(connections) # End
                           /\ Before(connections, First(connections), d)
  BY FirstOrder DEF Joined
<1>2. Joined \subseteq Conns
  BY DEF Joined, Range
<1>3. /\ g \in Calls /\ g.at = "psend_all" /\ g.conn = c /\ g.msg = msg
      /\ g.it = First(connections)
  BY <1>1, <1>2 DEF PSendAll, Call, NoMsg, Calls, Places
<1> HIDE DEF g
<1>4. \A d \in Joined : Ahead(g, d)
  BY <1>1, <1>3 DEF Ahead
<1> QED BY <1>1, <1>3, <1>4 DEF g

(* Nothing but calls and what the clients know changes.                     *)
LEMMA SameShrinks ==
  ASSUME UNCHANGED <<accepted, open, uuid, connections, entities>>
  PROVE  Shrinks
  BY DEF Shrinks, Joined, Ahead

LEMMA ShapeStutter ==
  ASSUME Shape,
         UNCHANGED <<accepted, open, connections, uuid, entities, stack, known, torn>>
  PROVE  Shape'
  BY DEF Shape, OneCaller, ClientsOK, UuidsOK, OpenOK, StackOK, FrameOK, LinkOK, Ahead,
     HasEntity, Joined, Frames, Involved, Entering, Newcomers

LEMMA ShapeOnQuit ==
  ASSUME Inv, Inv', Shape, NEW t \in Threads, OnQuit(t)
  PROVE  Shape'
<1>0. TypeOK /\ TypeOK' /\ connections \in Seq(Conns) /\ stack[t] # <<>>
  BY DEF Inv, TypeOK, OnQuit, Running
<1>1. PICK f \in Calls, r \in Seq(Calls) :
           /\ f = Head(stack[t]) /\ stack[t] = <<f>> \o r
           /\ Fits(t, f, r)
           /\ f.conn \in Conns
           /\ f.at \notin {"on_join", "on_packet"} => f.conn \in Involved
  BY <1>0, Context
<1>2. f.at = "on_quit"
  BY <1>1 DEF OnQuit, Running
<1>3. CASE Crash("null entity")
  BY <1>3, ShapeStutter DEF Crash, netVars, dataVars, clientVars
<1>4. CASE /\ uuid[f.conn] \in entities
           /\ CallFrom(t, [f EXCEPT !.at = "quit"], PSendAll(Delete(uuid[f.conn]), f.conn))
           /\ UNCHANGED <<netVars, dataVars, clientVars>>
  <2>1. Delete(uuid[f.conn]) \in Messages
    BY <1>0, <1>4 DEF Delete, Messages, TypeOK
  <2>2. PICK g, h : g = PSendAll(Delete(uuid[f.conn]), f.conn) /\ h = [f EXCEPT !.at = "quit"]
    OBVIOUS
  <2>3. /\ g \in Calls /\ g.at = "psend_all" /\ g.conn = f.conn
        /\ g.msg = Delete(uuid[f.conn])
        /\ \A d \in Joined : Ahead(g, d)
    BY <1>0, <1>1, <2>1, <2>2, SendCall
  <2>4. h \in Calls /\ h.at = "quit" /\ h.conn = f.conn
    BY <1>1, <2>2 DEF Calls, Places
  <2> DEFINE s == <<g>> \o (<<h>> \o r)
  <2>5. /\ s \in Seq(Calls) /\ Range(s) = {g, h} \cup Range(r)
    BY <2>3, <2>4, TwoPushed
  <2>6. Replaced(t, s)
    BY <1>1, <1>4, <2>2, <2>3, <2>4, Replacing
  <2>7. stack'[t] = s
    BY <1>0, <2>6 DEF Replaced, TypeOK
  <2>8. UNCHANGED <<accepted, open, uuid, connections, entities, known, torn>>
    BY <1>4 DEF netVars, dataVars, clientVars
  <2>9. Shrinks
    BY <2>8, SameShrinks
  <2>10. StackOK(t)'
    <3>1. r = <<>> => h.at \in Outermost(t)
      BY <1>1, <1>2, <2>4 DEF Fits, Outermost
    <3>2. r # <<>> => LinkOK(h, Head(r))'
      BY <1>1, <1>2, <1>4, <2>4, <2>8 DEF Fits, LinkOK, Joined
    <3>3. LinkOK(g, h)'
      BY <2>3, <2>4, <2>8 DEF LinkOK, Ahead, Joined
    <3>4. FrameOK(h)' /\ FrameOK(g)'
      BY <1>1, <1>2, <2>3, <2>4, <2>8 DEF Fits, FrameOK, Joined
    <3> QED BY <1>1, <2>3, <2>4, <2>7, <2>9, <3>1, <3>2, <3>3, <3>4, CallFits DEF Lower
  <2> HIDE DEF s
  <2>11. ClientsOK' /\ Distinct(connections')
    BY <2>8 DEF Shape, ClientsOK, Joined
  <2>12. \A c \in Joined' \cup Entering : uuid[c] \in entities'
    BY <2>8 DEF Shape, UuidsOK, Joined
  <2>13. \A e \in Range(s) \ Range(r) : e.at # "insert" /\ e.conn \in Involved
    BY <1>1, <1>2, <2>3, <2>4, <2>5
  <2>14. Joined \cap open' \subseteq Joined'
    BY <2>8 DEF Joined
  <2>15. Range(r) \subseteq Range(s)
    BY <2>5
  <2> QED BY <1>0, <1>1, <1>2, <2>5, <2>6, <2>9, <2>10, <2>11, <2>12, <2>13, <2>14, <2>15,
             ShapeAfter
<1> QED BY <1>1, <1>3, <1>4 DEF OnQuit

(* A return, ...                                                            *)
LEMMA ShapeReturn ==
  ASSUME TypeOK, TypeOK', Shape, NEW t \in Threads, NEW f \in Calls,
         NEW r \in Seq(Calls), stack[t] = <<f>> \o r, f.at \notin {"on_join", "insert"},
         Return(t), Shrinks, ClientsOK', connections' = connections,
         r # <<>> /\ Head(r).at = "quit" => Head(r).conn \notin Joined,
         r # <<>> /\ Head(r).at = "insert" => Head(r).conn \in open,
         \A c \in Joined \cup Entering : uuid[c] \in entities'
  PROVE  Shape'
<1>1. Replaced(t, r) /\ Fits(t, f, r)
  BY Replacing, Unstack DEF Shape
<1>2. stack'[t] = r
  BY <1>1 DEF TypeOK, Replaced
<1>3. Joined' = Joined /\ open' = open /\ Distinct(connections')
  BY DEF Joined, Shrinks, Shape
<1>4. StackOK(t)'
  BY <1>1, <1>2, <1>3, ReturnFits
<1> QED BY <1>1, <1>3, <1>4, ShapeAfter

(* ... and a change of the innermost call.                                  *)
LEMMA ShapeBecome ==
  ASSUME TypeOK, TypeOK', Shape, NEW t \in Threads, NEW f \in Calls,
         NEW r \in Seq(Calls), stack[t] = <<f>> \o r, f.at \notin {"on_join", "insert"},
         NEW g \in Calls, Become(t, g), ClientsOK',
         UNCHANGED <<accepted, open, connections, uuid, entities>>,
         r = <<>> => g.at \in Outermost(t),
         r # <<>> => LinkOK(g, Head(r)),
         FrameOK(g),
         g.at \notin {"quit", "insert"},
         g.at = "on_quit" => HasEntity(g, r),
         g.conn = f.conn, f.at = "on_packet" => f.conn \in Joined
  PROVE  Shape'
<1>1. Replaced(t, <<g>> \o r) /\ Fits(t, f, r)
  BY Replacing, Unstack DEF Shape
<1>2. PICK s : s = <<g>> \o r
  OBVIOUS
<1>3. s \in Seq(Calls) /\ Range(s) = {g} \cup Range(r) /\ stack'[t] = s
  BY <1>1, <1>2, Pushed DEF TypeOK, Replaced
<1>4. Joined' = Joined /\ Shrinks /\ Distinct(connections')
  BY SameShrinks DEF Joined, Shape
<1>5. FrameOK(g)' /\ (r # <<>> => LinkOK(g, Head(r))')
  BY <1>4 DEF FrameOK, LinkOK, Ahead
<1>a. g.at = "on_quit" => HasEntity(g, r)'
  BY DEF HasEntity
<1>6. StackOK(t)'
  BY <1>1, <1>2, <1>3, <1>4, <1>5, <1>a, BecomeFits
<1>7. f.conn \in Involved
  <2>1. stack[t] # <<>> /\ f \in Range(stack[t])
    <3>1. <<f>> \o r # <<>> /\ Range(<<f>> \o r) = {f} \cup Range(r)
      BY Pushed
    <3> QED BY <3>1
  <2> QED BY <2>1 DEF Involved, Frames
<1>8. \A c \in Joined' \cup Entering : uuid[c] \in entities'
  BY <1>4 DEF Shape, UuidsOK
<1> QED BY <1>1, <1>2, <1>3, <1>4, <1>6, <1>7, <1>8, ShapeAfter

LEMMA ShapeQuit ==
  ASSUME Inv, Inv', Shape, NEW t \in Threads, Quit(t)
  PROVE  Shape'
<1>0. TypeOK /\ TypeOK' /\ stack[t] # <<>>
  BY DEF Inv, Quit, Running
<1>1. PICK f \in Calls, r \in Seq(Calls) :
           /\ f = Head(stack[t]) /\ stack[t] = <<f>> \o r
           /\ Fits(t, f, r)
           /\ f.at \notin {"on_join", "on_packet"} => f.conn \in Involved
  BY <1>0, Context
<1>2. /\ f.at = "quit" /\ Return(t)
      /\ entities' = entities \ {uuid[f.conn]}
      /\ UNCHANGED <<accepted, open, uuid, connections, known, torn>>
  BY <1>1 DEF Quit, Running, netVars, clientVars
<1>3. Shrinks /\ Joined' = Joined
  BY <1>2 DEF Shrinks, Joined, Ahead
<1>4. ClientsOK'
  BY <1>2, <1>3 DEF Shape, ClientsOK
<1>5. r # <<>> => Head(r).at = "psend_all"
  BY <1>1, <1>2 DEF Fits, LinkOK
<1>6. ASSUME NEW c \in Joined \cup Entering
      PROVE  uuid[c] \in entities'
  <2>1. c \in Involved
    BY DEF Involved, Entering
  <2>2. c # f.conn
    BY <1>1, <1>2 DEF Fits, FrameOK, Entering
  <2> QED BY <1>1, <1>2, <2>1, <2>2 DEF Shape, UuidsOK
<1> QED BY <1>0, <1>1, <1>2, <1>3, <1>4, <1>5, <1>6, ShapeReturn

LEMMA ShapeSendEnds ==
  ASSUME Inv, Inv', Shape, NEW t \in Threads, SendEnds(t)
  PROVE  Shape'
<1>0. TypeOK /\ TypeOK' /\ stack[t] # <<>>
  BY DEF Inv, SendEnds, Running
<1>1. PICK f \in Calls, r \in Seq(Calls) :
           f = Head(stack[t]) /\ stack[t] = <<f>> \o r /\ Fits(t, f, r)
  BY <1>0, Context
<1>2. /\ f.at = "psend_all" /\ f.it = End /\ Return(t)
      /\ UNCHANGED <<accepted, open, uuid, connections, entities, known, torn>>
  BY <1>1 DEF SendEnds, Running, netVars, dataVars, clientVars
<1>3. Shrinks /\ Joined' = Joined
  BY <1>2, SameShrinks DEF Joined
<1>4. ClientsOK'
  BY <1>2, <1>3 DEF Shape, ClientsOK
<1>5. /\ r # <<>> /\ Head(r).at = "quit" => Head(r).conn \notin Joined
      /\ r # <<>> /\ Head(r).at = "insert" => Head(r).conn \in open
  BY <1>1, <1>2 DEF Fits, LinkOK, Ahead
<1>6. \A c \in Joined \cup Entering : uuid[c] \in entities'
  BY <1>2 DEF Shape, UuidsOK
<1> QED BY <1>0, <1>1, <1>2, <1>3, <1>4, <1>5, <1>6, ShapeReturn

LEMMA ShapeSendNext ==
  ASSUME Inv, Inv', Shape, NEW t \in Threads, SendNext(t)
  PROVE  Shape'
<1>0. TypeOK /\ TypeOK' /\ stack[t] # <<>> /\ connections \in Seq(Conns)
  BY DEF Inv, TypeOK, SendNext, Running
<1>1. PICK f \in Calls, r \in Seq(Calls) :
           f = Head(stack[t]) /\ stack[t] = <<f>> \o r /\ Fits(t, f, r)
  BY <1>0, Context
<1>2. PICK g : g = [Advance(f) EXCEPT !.whole = @ /\ f.it = f.conn]
  OBVIOUS
<1>3. /\ f.at = "psend_all" /\ f.it \in Joined \cap open /\ Become(t, g)
      /\ UNCHANGED <<accepted, open, uuid, connections, entities>>
      /\ known' = IF f.it = f.conn \/ ~f.whole THEN known
                  ELSE [known EXCEPT ![f.it] = Told(@, f.msg)]
      /\ torn' = IF f.it = f.conn \/ f.whole THEN torn ELSE torn \cup {f.it}
  BY <1>1, <1>2 DEF SendNext, Running, netVars, dataVars, Joined
<1>4. After(connections, f.it) \in Conns \cup {End} /\ f.it \in Conns
  BY <1>0, <1>3, AfterOrder DEF Joined, Shape, Range
<1>5. /\ g \in Calls /\ g.at = "psend_all" /\ g.conn = f.conn /\ g.msg = f.msg
      /\ g.it = After(connections, f.it)
  <2>1. PICK h : h = Advance(f)
    OBVIOUS
  <2>2. /\ h \in Calls /\ h.at = "psend_all" /\ h.conn = f.conn /\ h.msg = f.msg
        /\ h.it = After(connections, f.it)
    BY <1>3, <1>4, <2>1 DEF Advance, Calls
  <2>3. PICK b \in BOOLEAN : b = (h.whole /\ f.it = f.conn)
    OBVIOUS
  <2>4. g = [h EXCEPT !.whole = b]
    BY <1>2, <2>1, <2>3
  <2> QED BY <2>2, <2>4 DEF Calls
<1>6. ClientsOK'
  <2>1. f.msg.uuid \in UUIDs \cup {End}
    BY DEF Calls, Messages
  <2>2. known' \in [Conns -> SUBSET (UUIDs \cup {End})]
    BY <1>3, <1>4, <2>1 DEF Shape, ClientsOK, Told
  <2> QED BY <1>3, <1>4, <2>2 DEF Shape, ClientsOK, Joined
<1>7. r # <<>> => LinkOK(g, Head(r))
  <2>1. ASSUME r # <<>>, Head(r).at = "quit", Head(r).conn \in Joined,
               Ahead(f, Head(r).conn)
        PROVE  Ahead(g, Head(r).conn)
    <3>1. Head(r).conn \notin open
      BY <1>1, <2>1, RangeType DEF Fits, FrameOK
    <3>2. Head(r).conn # f.it
      BY <1>3, <3>1
    <3> QED BY <1>0, <1>3, <1>5, <2>1, <3>2, AheadNext DEF Shape
  <2> QED BY <1>1, <1>3, <1>5, <2>1 DEF Fits, LinkOK
<1>8. r # <<>>
  BY <1>1, <1>3 DEF Fits, Outermost
<1>9. FrameOK(g)
  BY <1>1, <1>3, <1>5 DEF Fits, FrameOK
<1> QED BY <1>0, <1>1, <1>3, <1>5, <1>6, <1>7, <1>8, <1>9, ShapeBecome

LEMMA ShapeSendFindsClosed ==
  ASSUME Inv, Inv', Shape, NEW t \in Threads, SendFindsClosed(t)
  PROVE  Shape'
<1>0. TypeOK /\ TypeOK' /\ stack[t] # <<>> /\ connections \in Seq(Conns)
  BY DEF Inv, TypeOK, SendFindsClosed, Running
<1>1. PICK f \in Calls, r \in Seq(Calls) :
           /\ f = Head(stack[t]) /\ stack[t] = <<f>> \o r /\ Fits(t, f, r)
           /\ f.at \notin {"on_join", "on_packet"} => f.conn \in Involved
  BY <1>0, Context
<1>2. PICK x, h, g : x = f.it /\ h = Advance(f) /\ g = Call("on_quit", x)
  OBVIOUS
<1>3. /\ f.at = "psend_all" /\ x \in Joined \ open /\ CallFrom(t, h, g)
      /\ connections' = Erase(connections, x)
      /\ UNCHANGED <<accepted, open, uuid, entities, known, torn>>
  BY <1>1, <1>2 DEF SendFindsClosed, Running, netVars, clientVars, Joined
<1>4. After(connections, x) \in Conns \cup {End} /\ x \in Conns
  BY <1>0, <1>3, AfterOrder DEF Joined, Shape, Range
<1>5. /\ h \in Calls /\ h.at = "psend_all" /\ h.conn = f.conn /\ h.msg = f.msg
      /\ h.it = After(connections, f.it)
  BY <1>2, <1>3, <1>4 DEF Advance, Calls
<1>6. g \in Calls /\ g.at = "on_quit" /\ g.conn = x
  BY <1>2, <1>4, CallType DEF Call, Places
<1>7. Joined' = Joined \ {x} /\ Distinct(connections')
  BY <1>0, <1>3, EraseOrder DEF Joined, Shape
<1>8. Shrinks
  BY <1>0, <1>3, <1>7, AheadErased DEF Shape, Shrinks
<1> DEFINE s == <<g>> \o (<<h>> \o r)
<1>9. s \in Seq(Calls) /\ Range(s) = {g, h} \cup Range(r)
  BY <1>5, <1>6, TwoPushed
<1>10. Replaced(t, s)
  BY <1>1, <1>3, <1>5, <1>6, Replacing
<1>11. stack'[t] = s
  BY <1>0, <1>10 DEF Replaced, TypeOK
<1>12. r # <<>>
  BY <1>1, <1>3 DEF Fits, Outermost
<1>13. StackOK(t)'
  <2>1. LinkOK(h, Head(r))'
    <3>1. ASSUME Head(r).at = "quit", Head(r).conn \in Joined', Ahead(f, Head(r).conn)
          PROVE  Ahead(h, Head(r).conn)'
      <4>1. Head(r).conn \in Joined /\ Head(r).conn # f.it
        BY <1>2, <1>7, <3>1
      <4>2. Ahead(h, Head(r).conn)
        BY <1>0, <1>2, <1>3, <1>5, <3>1, <4>1, AheadNext DEF Shape
      <4> QED BY <1>5, <1>8, <3>1, <4>2 DEF Shrinks
    <3> QED BY <1>1, <1>3, <1>5, <1>7, <1>12, <3>1 DEF Fits, LinkOK
  <2>2. LinkOK(g, h)'
    BY <1>5, <1>6, <1>7 DEF LinkOK
  <2>3. FrameOK(h)'
    BY <1>1, <1>3, <1>5 DEF Fits, FrameOK
  <2>4. FrameOK(g)'
    BY <1>3, <1>6 DEF FrameOK, Shape, ClientsOK
  <2>5. uuid'[g.conn] \in entities'
    BY <1>3, <1>6 DEF Shape, UuidsOK
  <2> QED BY <1>1, <1>5, <1>6, <1>8, <1>11, <1>12, <2>1, <2>2, <2>3, <2>4, <2>5, CallFits
          DEF Lower
<1> HIDE DEF s
<1>14. ClientsOK'
  BY <1>3, <1>7 DEF Shape, ClientsOK
<1>15. \A c \in Joined' \cup Entering : uuid[c] \in entities'
  BY <1>3, <1>7 DEF Shape, UuidsOK
<1>16. \A e \in Range(s) \ Range(r) : e.at # "insert" /\ e.conn \in Involved
  BY <1>1, <1>3, <1>5, <1>6, <1>9 DEF Involved
<1>17. Joined \cap open' \subseteq Joined' /\ Range(r) \subseteq Range(s)
  BY <1>3, <1>7, <1>9
<1> QED BY <1>0, <1>1, <1>3, <1>7, <1>8, <1>9, <1>10, <1>13, <1>14, <1>15, <1>16, <1>17,
           ShapeAfter

(* A packet that is not mistaken has its owner among the connections.       *)
LEMMA ShapeOnPacket ==
  ASSUME spoiled' = {}, Inv, Inv', Shape, NEW t \in Threads, OnPacket(t)
  PROVE  Shape'
<1>0. TypeOK /\ TypeOK' /\ stack[t] # <<>>
  BY DEF Inv, OnPacket, Running
<1>1. PICK f \in Calls, r \in Seq(Calls) :
           f = Head(stack[t]) /\ stack[t] = <<f>> \o r /\ Fits(t, f, r)
  BY <1>0, Context
<1>2. f.at = "on_packet"
  BY <1>1 DEF OnPacket, Running
<1>3. CASE Crash("null entity")
  BY <1>3, ShapeStutter DEF Crash, netVars, dataVars, clientVars
<1>4. CASE /\ uuid[f.conn] \in entities /\ Others(f.conn) = {}
           /\ Become(t, [f EXCEPT !.at = "motion"])
           /\ UNCHANGED <<netVars, dataVars, clientVars>>
  <2>1. PICK g : g = [f EXCEPT !.at = "motion"]
    OBVIOUS
  <2>2. g \in Calls /\ g.at = "motion" /\ g.conn = f.conn
    BY <2>1 DEF Calls, Places
  <2>3. UNCHANGED <<accepted, open, connections, uuid, entities, known, torn>>
    BY <1>4 DEF netVars, dataVars, clientVars
  <2>4. ClientsOK'
    BY <2>3 DEF Shape, ClientsOK, Joined
  <2>5. r = <<>> /\ (r = <<>> => g.at \in Outermost(t))
    BY <1>1, <1>2, <2>2 DEF Fits, LinkOK, Outermost
  <2>a. f.conn \in Joined
    <3>1. PICK c \in Conns : uuid[c] = uuid[f.conn] /\ Kept(c)
      BY <1>4 DEF Inv, EntitiesOK
    <3>2. \A o \in Threads : Settled(stack[o]) = {}
      <4>1. Settled(<<>>) = {}
        BY DEF Settled
      <4>2. Settled(<<f>> \o r) = Settles(f) \cup Settled(r)
        BY OnTop
      <4>3. Settled(stack[t]) = {}
        BY <1>1, <1>2, <2>5, <4>1, <4>2 DEF Settles, Settling
      <4> QED BY <1>0, <4>1, <4>3, Solo DEF Shape
    <3>3. c \in Joined
      BY <3>1, <3>2 DEF Kept, Joined
    <3> QED BY <1>4, <3>1, <3>3 DEF Others, Joined
  <2>6. FrameOK(g)
    BY <1>1, <1>2, <2>2, <2>a DEF Fits, FrameOK
  <2> QED BY <1>0, <1>1, <1>2, <1>4, <2>1, <2>2, <2>3, <2>4, <2>5, <2>6, <2>a, ShapeBecome
<1>5. Others(f.conn) # {} => spoiled' # {} \/ Crash("null entity")
  BY <1>1 DEF OnPacket
<1> QED BY <1>1, <1>3, <1>4, <1>5 DEF OnPacket

LEMMA ShapeSendMotion ==
  ASSUME Inv, Inv', Shape, NEW t \in Threads, SendMotion(t)
  PROVE  Shape'
<1>0. TypeOK /\ TypeOK' /\ stack[t] # <<>>
  BY DEF Inv, SendMotion, Running
<1>1. PICK f \in Calls, r \in Seq(Calls) :
           /\ f = Head(stack[t]) /\ stack[t] = <<f>> \o r /\ Fits(t, f, r)
           /\ f.conn \in Conns
  BY <1>0, Context
<1>2. /\ f.at = "motion"
      /\ UNCHANGED <<accepted, open, connections, uuid, entities, known, torn>>
  BY <1>1 DEF SendMotion, Running, netVars, dataVars, clientVars
<1>3. ClientsOK' /\ Shrinks
  BY <1>2, SameShrinks DEF Shape, ClientsOK, Joined
<1>4. r = <<>>
  BY <1>1, <1>2 DEF Fits, LinkOK
<1>5. CASE Return(t)
  <2>1. \A c \in Joined \cup Entering : uuid[c] \in entities'
    BY <1>2 DEF Shape, UuidsOK
  <2> QED BY <1>0, <1>1, <1>2, <1>3, <1>4, <1>5, <2>1, ShapeReturn
<1>6. CASE f.conn \notin open /\ Become(t, Call("on_quit", f.conn))
  <2>1. PICK g : g = Call("on_quit", f.conn)
    OBVIOUS
  <2>2. g \in Calls /\ g.at = "on_quit" /\ g.conn = f.conn
    BY <1>1, <2>1, CallType DEF Call, Places
  <2>3. FrameOK(g) /\ HasEntity(g, r)
    BY <1>1, <1>2, <1>6, <2>2 DEF Fits, FrameOK, HasEntity, Shape, UuidsOK
  <2>4. g.at \in Outermost(t)
    BY <1>1, <1>2, <1>4, <2>2 DEF Fits, Outermost
  <2> QED BY <1>0, <1>1, <1>2, <1>3, <1>4, <1>6, <2>1, <2>2, <2>3, <2>4, ShapeBecome
<1> QED BY <1>1, <1>5, <1>6 DEF SendMotion

(* The empty stack.                                                         *)
LEMMA NoCalls == Range(<<>>) = {} /\ Links(<<>>) = {} /\ <<>> \in Seq(Calls)
<1>1. Len(<<>>) = 0 /\ DOMAIN <<>> = {} /\ <<>> \in Seq(Calls)
  OBVIOUS
<1>2. 1..Len(<<>>) - 1 = {}
  BY <1>1
<1> QED BY <1>1, <1>2 DEF Range, Links

(* What on_join() of connection c, call f, does: call h is what is left of  *)
(* it, q are all that are left, and h calls g.                              *)
JoinCalls(t, f, g, h, q, c, u) ==
  /\ f.at = "on_join" /\ t = "io" /\ Frames = {f} /\ Newcomers = {c}
  /\ c \notin Joined /\ c \in accepted
  /\ UNCHANGED <<accepted, open, connections, torn, Joined>>
  /\ uuid'[c] = u /\ \A d \in Conns : d # c => uuid'[d] = uuid[d]
  /\ h.at = "insert" /\ h.conn = c /\ g.conn = c
  /\ \/ /\ c \in open /\ g.at = "psend_all" /\ g.msg = New(u)
        /\ \A d \in Joined : Ahead(g, d)
        /\ known' = [known EXCEPT ![c] = entities]
        /\ entities' = entities \cup {u}
        /\ g.it \in Joined \cup {End}
     \/ c \notin open /\ g.at = "on_quit" /\ UNCHANGED <<entities, known>>
  /\ q # <<>> /\ Head(q) = h /\ Range(q) = {h} /\ Links(q) = {} /\ Bottom(q) = h
  /\ stack'[t] = <<g>> \o q /\ Head(stack'[t]) = g
  /\ \A o \in Threads : o # t => stack'[o] = <<>>
  /\ OneCaller' /\ Frames' = {g, h}

LEMMA Joins ==
  ASSUME Inv, Shape, NEW t \in Threads, OnJoin(t)
  PROVE  \E f, g, h \in Calls, q \in Seq(Calls), c \in Conns, u \in UUIDs \ entities :
           JoinCalls(t, f, g, h, q, c, u)
<1>0. TypeOK /\ stack[t] # <<>> /\ connections \in Seq(Conns)
  BY DEF Inv, TypeOK, OnJoin, Running
<1>1. PICK f \in Calls, r \in Seq(Calls) :
           /\ f = Head(stack[t]) /\ stack[t] = <<f>> \o r /\ Fits(t, f, r)
           /\ Frames = {f} \cup Range(r)
           /\ f.conn \in Conns
  BY <1>0, Context
<1>2. /\ f.at = "on_join" /\ t = "io"
      /\ UNCHANGED <<accepted, open, connections, torn>>
  BY <1>0, <1>1 DEF OnJoin, Running, netVars, Inv, JoinsOK
<1>3. r = <<>> /\ Frames = {f}
  BY <1>1, <1>2, NoCalls DEF Fits, LinkOK
<1>4. PICK c : c = f.conn
  OBVIOUS
<1>5. c \in Conns /\ c \notin Joined /\ c \in accepted
  BY <1>1, <1>2, <1>4 DEF Fits, FrameOK
<1>6. PICK u, h, g :
        /\ u \in UUIDs \ entities
        /\ h = [f EXCEPT !.at = "insert"]
        /\ uuid' = [uuid EXCEPT ![c] = u]
        /\ CallFrom(t, h, g)
        /\ \/ /\ c \in open
              /\ known' = [known EXCEPT ![c] = entities]
              /\ entities' = entities \cup {u}
              /\ g = PSendAll(New(u), c)
           \/ /\ c \notin open
              /\ g = Call("on_quit", c)
              /\ UNCHANGED <<entities, known>>
  BY <1>1, <1>4 DEF OnJoin, Players
<1>7. h \in Calls /\ h.at = "insert" /\ h.conn = c
  BY <1>1, <1>4, <1>6 DEF Calls, Places
<1>8. /\ g \in Calls /\ g.conn = c
      /\ \/ /\ c \in open /\ g.at = "psend_all" /\ g.msg = New(u)
            /\ \A d \in Joined : Ahead(g, d)
            /\ g.it \in Joined \cup {End}
         \/ c \notin open /\ g.at = "on_quit"
  <2>1. New(u) \in Messages
    BY <1>6 DEF New, Messages
  <2>2. Call("on_quit", c) \in Calls /\ Call("on_quit", c).at = "on_quit"
        /\ Call("on_quit", c).conn = c
    BY <1>5, CallType DEF Call, Places
  <2> QED BY <1>0, <1>5, <1>6, <2>1, <2>2, SendCall
<1>9. /\ uuid'[c] = u /\ \A d \in Conns : d # c => uuid'[d] = uuid[d]
      /\ Joined' = Joined
  BY <1>0, <1>2, <1>5, <1>6 DEF TypeOK, Joined
<1> DEFINE q == <<h>> \o r
           s == <<g>> \o q
<1>10. s \in Seq(Calls) /\ Range(s) = {g, h} /\ Head(s) = g
  <2>1. s \in Seq(Calls) /\ Range(s) = {g, h} \cup Range(r) /\ Head(s) = g
    BY <1>7, <1>8, TwoPushed
  <2>2. Range(r) = {}
    BY <1>3, NoCalls
  <2> QED BY <2>1, <2>2
<1>11. Replaced(t, s)
  BY <1>1, <1>6, <1>7, <1>8, Replacing
<1>12. /\ q \in Seq(Calls) /\ q # <<>> /\ Head(q) = h /\ Range(q) = {h}
       /\ Links(q) = {} /\ Bottom(q) = h
  BY <1>3, <1>7, Pushed, NoCalls
<1>13. s = <<g>> \o q
  OBVIOUS
<1> HIDE DEF s, q
<1>14. /\ stack'[t] = s
       /\ \A o \in Threads : o # t => stack'[o] = <<>>
       /\ OneCaller'
       /\ Frames' = {g, h}
  BY <1>0, <1>10, <1>11, SoloAfter DEF Shape
<1>15. Newcomers = {c} /\ u \in UUIDs \ entities
  BY <1>2, <1>3, <1>4, <1>6 DEF Newcomers
<1>16. \/ /\ c \in open /\ g.at = "psend_all" /\ g.msg = New(u)
          /\ \A d \in Joined : Ahead(g, d)
          /\ known' = [known EXCEPT ![c] = entities]
          /\ entities' = entities \cup {u}
          /\ g.it \in Joined \cup {End}
       \/ c \notin open /\ g.at = "on_quit" /\ UNCHANGED <<entities, known>>
  BY <1>6, <1>8
<1>17. JoinCalls(t, f, g, h, q, c, u)
  BY <1>2, <1>3, <1>5, <1>7, <1>8, <1>9, <1>10, <1>12, <1>13, <1>14, <1>15, <1>16
     DEF JoinCalls
<1> QED BY <1>5, <1>7, <1>8, <1>12, <1>15, <1>17

LEMMA ShapeOnJoin ==
  ASSUME Inv, Inv', Shape, NEW t \in Threads, OnJoin(t)
  PROVE  Shape'
<1>0. TypeOK
  BY DEF Inv
<1>a. PICK f, g, h \in Calls, q \in Seq(Calls), c \in Conns, u \in UUIDs \ entities :
        JoinCalls(t, f, g, h, q, c, u)
  BY Joins
<1>1. /\ t = "io" /\ Newcomers = {c}
      /\ c \notin Joined /\ c \in accepted
      /\ UNCHANGED <<accepted, open, connections, torn, Joined>>
      /\ uuid'[c] = u /\ \A d \in Conns : d # c => uuid'[d] = uuid[d]
      /\ h.at = "insert" /\ h.conn = c /\ g.conn = c
      /\ \/ /\ c \in open /\ g.at = "psend_all" /\ g.msg = New(u)
            /\ known' = [known EXCEPT ![c] = entities]
            /\ entities' = entities \cup {u}
         \/ c \notin open /\ g.at = "on_quit" /\ UNCHANGED <<entities, known>>
      /\ q # <<>> /\ Head(q) = h /\ Range(q) = {h} /\ Links(q) = {} /\ Bottom(q) = h
      /\ stack'[t] = <<g>> \o q
      /\ \A o \in Threads : o # t => stack'[o] = <<>>
      /\ OneCaller' /\ Frames' = {g, h}
  BY <1>a DEF JoinCalls
<1>2. u \in UUIDs /\ u \notin entities /\ Joined \subseteq Conns
  BY <1>0 DEF Joined, Range, TypeOK
<1>3. StackOK(t)'
  <2>1. LinkOK(g, h)'
    BY <1>1, <1>2 DEF LinkOK
  <2>2. FrameOK(h)' /\ FrameOK(g)'
    BY <1>1 DEF FrameOK
  <2>3. Fits(t, g, q)'
    BY <1>1, <2>1, <2>2 DEF Fits, HasEntity, Outermost, Lower
  <2> QED BY <1>1, <2>3, Restack
<1>4. \A o \in Threads : StackOK(o)'
  BY <1>1, <1>3 DEF StackOK
<1>5. ClientsOK'
  <2>1. known' \in [Conns -> SUBSET (UUIDs \cup {End})]
    BY <1>0, <1>1 DEF Shape, ClientsOK, TypeOK
  <2> QED BY <1>1, <2>1 DEF Shape, ClientsOK
<1>6. UuidsOK'
  <2>1. Involved' = Joined \cup {c} /\ Joined \subseteq Involved
    BY <1>1 DEF Involved
  <2>2. Entering' \subseteq {c} /\ (c \notin open => Entering' = {})
    BY <1>1 DEF Entering
  <2>3. \A d \in Joined : uuid'[d] \in entities /\ uuid'[d] = uuid[d]
    BY <1>1, <1>2 DEF Shape, UuidsOK
  <2>4. \A d \in Joined' \cup Entering' : uuid'[d] \in entities'
    BY <1>1, <2>2, <2>3
  <2>5. \A a, b \in Involved' : uuid'[a] = uuid'[b] => a = b
    BY <1>1, <1>2, <2>1, <2>3 DEF Shape, UuidsOK
  <2> QED BY <2>4, <2>5 DEF UuidsOK
<1>7. OpenOK'
  <2>1. c \in Newcomers'
    BY <1>1 DEF Newcomers
  <2> QED BY <1>1, <2>1 DEF Shape, OpenOK
<1>8. Distinct(connections')
  BY <1>1 DEF Shape
<1> QED BY <1>1, <1>4, <1>5, <1>6, <1>7, <1>8 DEF Shape

(* A finite set listed in an order of Orders is listed without repetition.  *)
LEMMA OrdersDistinct ==
  ASSUME NEW S, IsFiniteSet(S), NEW s \in Orders(S)
  PROVE  Distinct(s) /\ Range(s) = S
<1>1. s \in [1..Cardinality(S) -> S] /\ Range(s) = S
  BY DEF Orders
<1>2. Cardinality(S) \in Nat
  BY FS_CardinalityType
<1>3. IsFiniteSet(1..Cardinality(S)) /\ Cardinality(1..Cardinality(S)) = Cardinality(S)
  BY <1>2, FS_Interval
<1>4. s \in Surjection(1..Cardinality(S), S)
  BY <1>1 DEF Surjection, Range
<1>5. s \in Injection(1..Cardinality(S), S)
  BY <1>3, <1>4, FS_SurjSameCardinalityImpliesInj
<1> QED BY <1>1, <1>5 DEF Injection, IsInjective, Distinct

LEMMA ShapeInsert ==
  ASSUME Inv, Inv', Shape, NEW t \in Threads, Insert(t)
  PROVE  Shape'
<1>0. TypeOK /\ TypeOK' /\ stack[t] # <<>> /\ connections \in Seq(Conns)
  BY DEF Inv, TypeOK, Insert, Running
<1>1. PICK f \in Calls, r \in Seq(Calls) :
           /\ f = Head(stack[t]) /\ stack[t] = <<f>> \o r /\ Fits(t, f, r)
           /\ Frames = {f} \cup Range(r)
           /\ f.conn \in Conns
           /\ f.at \notin {"on_join", "on_packet"} => f.conn \in Involved
  BY <1>0, Context
<1>2. /\ f.at = "insert" /\ Return(t)
      /\ connections' \in Orders(Joined \cup {f.conn})
      /\ UNCHANGED <<accepted, open, uuid, entities, known, torn>>
  BY <1>1 DEF Insert, Running, netVars, clientVars, Joined
<1>3. r = <<>> /\ Frames = {f}
  BY <1>1, <1>2, NoCalls DEF Fits, LinkOK
<1>4. IsFiniteSet(Joined \cup {f.conn})
  BY <1>0, RangeFinite, FS_AddElement DEF Joined
<1>5. Distinct(connections') /\ Joined' = Joined \cup {f.conn}
  BY <1>2, <1>4, OrdersDistinct DEF Joined
<1>6. Replaced(t, <<>>)
  BY <1>1, <1>2, <1>3, Replacing
<1>7. OneCaller' /\ Frames' = {} /\ \A o \in Threads : stack'[o] = <<>>
  BY <1>0, <1>6, SoloAfter, NoCalls DEF Shape
<1>8. \A o \in Threads : StackOK(o)'
  BY <1>7 DEF StackOK
<1>9. ClientsOK'
  BY <1>1, <1>2, <1>5 DEF Shape, ClientsOK, Fits, FrameOK
<1>10. UuidsOK'
  <2>1. Involved' = Joined \cup {f.conn} /\ Joined \cup {f.conn} \subseteq Involved
    BY <1>1, <1>2, <1>5, <1>7 DEF Involved
  <2>2. f.conn \in Entering /\ Entering' = {}
    BY <1>1, <1>2, <1>3, <1>7 DEF Entering, Fits
  <2> QED BY <1>2, <1>5, <2>1, <2>2 DEF Shape, UuidsOK
<1>11. OpenOK'
  BY <1>2, <1>3, <1>5 DEF Shape, OpenOK, Newcomers
<1> QED BY <1>5, <1>7, <1>8, <1>9, <1>10, <1>11 DEF Shape

(* Accept and Packet: the only call there is.                               *)
LEMMA OnlyCall ==
  ASSUME TypeOK, \A o \in Threads : stack[o] = <<>>, NEW t \in Threads, NEW f \in Calls,
         stack' = [stack EXCEPT ![t] = <<f>>],
         f.at \in Outermost(t), f.at \in {"on_join", "on_packet"}, FrameOK(f)'
  PROVE  /\ Frames = {} /\ Frames' = {f} /\ OneCaller'
         /\ \A o \in Threads : StackOK(o)'
<1>1. Frames = {}
  BY NoCalls DEF Frames
<1>2. stack'[t] = <<f>> /\ \A o \in Threads : o # t => stack'[o] = <<>>
  BY DEF TypeOK
<1>3. PICK r \in Seq(Calls) : r = <<>> /\ Range(r) = {} /\ Links(r) = {}
  BY NoCalls
<1>4. <<f>> = <<f>> \o r
  BY <1>3, ConcatEmptySeq
<1>5. Frames' = {f}
  <2>1. Range(<<f>> \o r) = {f}
    BY <1>3, Pushed
  <2>2. Range(stack'[t]) = {f}
    BY <1>2, <1>4, <2>1
  <2> QED BY <1>2, <2>2, NoCalls DEF Frames
<1>6. Fits(t, f, r)'
  BY <1>3 DEF Fits
<1>7. StackOK(t)'
  BY <1>2, <1>4, <1>6, Restack
<1>8. \A o \in Threads : StackOK(o)'
  BY <1>2, <1>7 DEF StackOK
<1> QED BY <1>1, <1>2, <1>5, <1>8 DEF OneCaller

LEMMA ShapeAccept ==
  ASSUME spoiled' = {}, Inv, Shape, NEW c \in Conns, Accept(c)
  PROVE  Shape'
<1>1. PICK f : f = Call("on_join", c)
  OBVIOUS
<1>2. f \in Calls /\ f.at = "on_join" /\ f.conn = c
  BY <1>1, CallType DEF Call, Places
<1>3. /\ \A o \in Threads : stack[o] = <<>>
      /\ c \notin accepted /\ accepted' = accepted \cup {c}
      /\ open' = open \cup {c} \/ open' = open
      /\ stack' = [stack EXCEPT !["io"] = <<f>>]
      /\ UNCHANGED <<connections, uuid, entities, known, torn>>
  BY <1>1 DEF Accept, MayCall, dataVars, clientVars
<1>4. Joined' = Joined /\ c \notin Joined
  BY <1>3 DEF Joined, Shape, ClientsOK
<1>5. FrameOK(f)'
  BY <1>2, <1>3, <1>4 DEF FrameOK
<1>6. "io" \in Threads
  BY DEF Threads
<1>7. Frames = {} /\ Frames' = {f} /\ OneCaller' /\ \A o \in Threads : StackOK(o)'
  BY <1>2, <1>3, <1>5, <1>6, OnlyCall DEF Inv, Outermost
<1>8. ClientsOK'
  BY <1>3, <1>4 DEF Shape, ClientsOK
<1>9. UuidsOK'
  BY <1>2, <1>3, <1>4, <1>7 DEF Shape, UuidsOK, Involved, Entering
<1>10. OpenOK'
  BY <1>2, <1>3, <1>4, <1>7 DEF Shape, OpenOK, Newcomers
<1> QED BY <1>3, <1>7, <1>8, <1>9, <1>10 DEF Shape

LEMMA ShapePacket ==
  ASSUME spoiled' = {}, Inv, Shape, NEW c \in Conns, Packet(c)
  PROVE  Shape'
<1>1. PICK f : f = Call("on_packet", c)
  OBVIOUS
<1>2. f \in Calls /\ f.at = "on_packet" /\ f.conn = c
  BY <1>1, CallType DEF Call, Places
<1>3. /\ \A o \in Threads : stack[o] = <<>>
      /\ c \in accepted
      /\ stack' = [stack EXCEPT !["update"] = <<f>>]
      /\ UNCHANGED <<accepted, open, connections, uuid, entities, known, torn>>
  BY <1>1 DEF Packet, MayCall, dataVars, clientVars
<1>4. Joined' = Joined
  BY <1>3 DEF Joined
<1>5. FrameOK(f)'
  BY <1>2, <1>3, <1>4 DEF FrameOK
<1>6. "update" \in Threads
  BY DEF Threads
<1>7. Frames = {} /\ Frames' = {f} /\ OneCaller' /\ \A o \in Threads : StackOK(o)'
  BY <1>2, <1>3, <1>5, <1>6, OnlyCall DEF Inv, Outermost
<1>8. ClientsOK'
  BY <1>3, <1>4 DEF Shape, ClientsOK
<1>9. UuidsOK'
  BY <1>2, <1>3, <1>4, <1>7 DEF Shape, UuidsOK, Involved, Entering
<1>10. OpenOK'
  BY <1>2, <1>3, <1>4, <1>7 DEF Shape, OpenOK, Newcomers
<1> QED BY <1>3, <1>7, <1>8, <1>9, <1>10 DEF Shape

(* Only what calls others is above another call.                            *)
LEMMA Lowest ==
  ASSUME NEW s \in Seq(Calls), \A l \in Links(s) : LinkOK(l[1], l[2]),
         NEW h \in Range(s), h.at \notin {"psend_all", "on_quit", "quit"}
  PROVE  s # <<>> /\ h = Bottom(s)
<1>1. PICK n \in Nat : n = Len(s) /\ DOMAIN s = 1..n
  OBVIOUS
<1>2. PICK i \in 1..n : s[i] = h
  BY <1>1 DEF Range
<1>3. CASE i = n
  <2>1. n # 0 /\ h = Bottom(s)
    BY <1>1, <1>2, <1>3 DEF Bottom
  <2> QED BY <1>1, <2>1
<1>4. CASE i # n
  <2>1. i \in 1..n - 1
    BY <1>1, <1>4
  <2>2. LinkOK(h, s[i + 1])
    <3>1. <<s[i], s[i + 1]>> \in Links(s)
      BY <1>1, <2>1 DEF Links
    <3> QED BY <1>2, <3>1
  <2> QED BY <2>2 DEF LinkOK
<1> QED BY <1>3, <1>4

(* The io thread is needed to join.                                         *)
LEMMA NobodyJoins ==
  ASSUME Inv, Shape, stack["io"] = <<>>
  PROVE  \A g \in Frames : g.at \notin {"on_join", "insert"}
<1> SUFFICES ASSUME NEW g \in Frames, g.at \in {"on_join", "insert"} PROVE FALSE
  OBVIOUS
<1>1. PICK t \in Threads : g \in Range(stack[t])
  BY DEF Frames
<1>2. stack[t] # <<>> /\ t # "io"
  BY <1>1, NoCalls
<1>3. stack[t] \in Seq(Calls) /\ StackOK(t)
  BY DEF Inv, TypeOK, Shape
<1>4. g = Bottom(stack[t]) /\ Bottom(stack[t]).at \in Outermost(t)
  BY <1>1, <1>2, <1>3, Lowest DEF StackOK
<1> QED BY <1>2, <1>4 DEF Outermost

LEMMA ShapeClose ==
  ASSUME Inv, Shape, NEW c \in Conns, Close(c)
  PROVE  Shape'
<1>1. /\ stack["io"] = <<>> /\ c \in open /\ open' = open \ {c}
      /\ UNCHANGED <<accepted, connections, uuid, entities, stack, known, torn>>
  BY DEF Close, dataVars, clientVars
<1>2. Joined' = Joined /\ Frames' = Frames /\ \A g, d : Ahead(g, d)' = Ahead(g, d)
  BY <1>1 DEF Joined, Frames, Ahead
<1>3. \A g \in Frames : g.at \notin {"on_join", "insert"}
  BY <1>1, NobodyJoins
<1>4. ASSUME NEW t \in Threads PROVE StackOK(t)'
  <2> SUFFICES ASSUME stack[t] # <<>> PROVE StackOK(t)'
    BY <1>1 DEF StackOK
  <2>1. stack[t] \in Seq(Calls) /\ StackOK(t)
    BY DEF Inv, TypeOK, Shape
  <2>2. Head(stack[t]) \in Range(stack[t])
    BY <2>1, RangeType
  <2>3. \A f \in Range(stack[t]) : f \in Frames
    BY DEF Frames
  <2>4. ASSUME NEW f \in Range(stack[t]) PROVE FrameOK(f)'
    <3>1. FrameOK(f) /\ f.at # "on_join"
      BY <1>3, <2>1, <2>3 DEF StackOK
    <3> QED BY <1>1, <1>2, <3>1 DEF FrameOK
  <2>5. ASSUME NEW l \in Links(stack[t]) PROVE LinkOK(l[1], l[2])'
    <3>a. l[2] \in Range(stack[t])
      BY <2>1, LinksType
    <3>1. LinkOK(l[1], l[2]) /\ l[2].at # "insert"
      BY <1>3, <2>1, <2>3, <3>a DEF StackOK
    <3> QED BY <1>1, <1>2, <3>1 DEF LinkOK
  <2>6. Head(stack[t]).at # "insert"
    BY <1>3, <2>2, <2>3
  <2>7. HasEntity(Head(stack[t]), Tail(stack[t]))' <=>
          HasEntity(Head(stack[t]), Tail(stack[t]))
    BY <1>1 DEF HasEntity
  <2> QED BY <1>1, <1>2, <2>1, <2>4, <2>5, <2>6, <2>7 DEF StackOK
<1>5. OneCaller' /\ ClientsOK' /\ Distinct(connections')
  BY <1>1, <1>2 DEF Shape, OneCaller, ClientsOK
<1>6. UuidsOK'
  BY <1>1, <1>2 DEF Shape, UuidsOK, Involved, Entering
<1>7. OpenOK'
  BY <1>1, <1>2 DEF Shape, OpenOK, Newcomers
<1> QED BY <1>4, <1>5, <1>6, <1>7 DEF Shape

LEMMA ShapeInit == Init => Shape
<1> SUFFICES ASSUME Init PROVE Shape
  OBVIOUS
<1>1. \A t \in Threads : stack[t] = <<>>
  BY DEF Init
<1>2. Joined = {} /\ Frames = {}
  BY <1>1, NoCalls DEF Init, Joined, Frames
<1>3. OneCaller /\ \A t \in Threads : StackOK(t)
  BY <1>1 DEF OneCaller, StackOK
<1>4. ClientsOK
  BY <1>2 DEF Init, ClientsOK
<1>5. UuidsOK /\ OpenOK
  BY <1>2 DEF Init, UuidsOK, OpenOK, Involved, Entering
<1>6. Distinct(connections)
  BY DEF Init, Distinct
<1> QED BY <1>3, <1>4, <1>5, <1>6 DEF Shape

LEMMA ShapeRun ==
  ASSUME spoiled' = {}, Inv, Inv', Shape, NEW t \in Threads, Run(t)
  PROVE  Shape'
<1>1. CASE SendBadIterator(t)
  BY <1>1, ShapeStutter DEF SendBadIterator, Crash, netVars, dataVars, clientVars
<1> QED BY <1>1, ShapeOnQuit, ShapeQuit, ShapeSendEnds, ShapeSendNext, ShapeSendFindsClosed,
           ShapeOnJoin, ShapeInsert, ShapeOnPacket, ShapeSendMotion DEF Run

LEMMA ShapeStep ==
  ASSUME spoiled' = {}, Inv, Inv', Shape, [Next]_vars
  PROVE  Shape'
<1>1. CASE UNCHANGED vars
  BY <1>1, ShapeStutter DEF vars, netVars, dataVars, clientVars
<1> QED BY <1>1, ShapeAccept, ShapeClose, ShapePacket, ShapeRun DEF Next

-----------------------------------------------------------------------------
(* Each step keeps Notices                                                  *)

(* The calls that go on below.                                              *)
LEMMA RestNotices ==
  ASSUME Shrinks, Notices, NEW g \in Frames, g \in Calls,
         Joining' => Joining,
         Listening' \subseteq Listening,
         \A c \in Conns \ Joined : known'[c] = known[c],
         g.at = "psend_all" /\ g.msg.kind = "S2C_ENTITY_DELETE" =>
           \A c \in Listening' : g.msg.uuid \in known'[c] => g.msg.uuid \in known[c],
         g.at = "insert" => g.conn \notin Joined
  PROVE  Sweeps(g)' /\ Deletes(g)' /\ Briefed(g)'
<1>1. g.conn \in Conns /\ Sweeps(g) /\ Deletes(g) /\ Briefed(g)
  BY DEF Calls, Notices
<1>2. /\ uuid' = uuid /\ open' = open /\ Joined' \subseteq Joined
      /\ entities' \subseteq entities
      /\ \A c \in Joined' : Ahead(g, c) => Ahead(g, c)'
  BY DEF Shrinks
<1>3. Sweeps(g)'
  BY <1>1, <1>2 DEF Sweeps
<1>4. Deletes(g)'
  BY <1>1, <1>2 DEF Deletes, Listening
<1>5. Briefed(g)'
  BY <1>1, <1>2 DEF Briefed
<1> QED BY <1>3, <1>4, <1>5

(* A step of thread t that tells nobody anything: an entity that innermost  *)
(* call f was about is gone, or a call is still to tell of it.              *)
LEMMA QuietNotices ==
  ASSUME TypeOK, Shape, Notices, NEW t \in Threads, NEW f \in Calls,
         NEW r \in Seq(Calls), stack[t] = <<f>> \o r,
         NEW s \in Seq(Calls), Replaced(t, s), Shrinks, UNCHANGED <<known, torn>>,
         Range(r) \subseteq Range(s),
         \A g \in Range(s) \ Range(r) : g.at # "insert",
         Joining' => Joining,
         \A g \in Range(s) \ Range(r) : Sweeps(g)' /\ Deletes(g)' /\ Briefed(g)',
         f.at = "quit" => uuid[f.conn] \notin entities',
         f.at = "psend_all" => \A c \in Joined' \cap open : Ahead(f, c) =>
           \E h \in Range(s) : h.at = "psend_all" /\ h.msg = f.msg /\ Ahead(h, c)',
         s # <<>> => Swept(Head(s))'
  PROVE  Notices'
<1>1. stack[t] # <<>> /\ Range(stack[t]) = {f} \cup Range(r)
  BY Pushed
<1>2. /\ Frames = {f} \cup Range(r)
      /\ Frames' = Range(s)
      /\ stack'[t] = s
      /\ \A o \in Threads : o # t => stack'[o] = <<>>
  BY <1>1, Solo, SoloAfter DEF Shape
<1>3. /\ uuid' = uuid /\ open' = open /\ Joined' \subseteq Joined
      /\ entities' \subseteq entities
      /\ \A g \in Calls, c \in Joined' : Ahead(g, c) => Ahead(g, c)'
      /\ Listening' \subseteq Listening
  BY DEF Shrinks, Listening
<1>4. Range(r) \subseteq Calls
  BY RangeType
<1>5. ASSUME NEW g \in Range(r)
      PROVE  Sweeps(g)' /\ Deletes(g)' /\ Briefed(g)'
  <2>1. g \in Frames /\ g \in Calls
    BY <1>2, <1>4
  <2>2. g.at = "insert" => g.conn \notin Joined
    <3>1. Fits(t, f, r)
      BY Unstack DEF Shape
    <3> QED BY <3>1 DEF Fits, FrameOK
  <2> QED BY <1>3, <2>1, <2>2, RestNotices
<1>6. ASSUME NEW c \in Listening', NEW u \in entities' \ {uuid'[c]}
      PROVE  Knows(c, u)'
  <2>1. Knows(c, u) /\ c \in Joined' /\ c \in open
    BY <1>3 DEF Notices, Listening
  <2>2. CASE u \in known[c]
    BY <2>2 DEF Knows
  <2>3. CASE Leaving(u)
    <3>1. PICK q \in Frames : q.at = "quit" /\ uuid[q.conn] = u
      BY <2>3 DEF Leaving
    <3>2. q \in Range(s)
      BY <1>2, <3>1
    <3> QED BY <1>2, <1>3, <3>1, <3>2 DEF Knows, Leaving
  <2>4. CASE Coming(u, c)
    <3>1. PICK g \in Frames : g.at = "psend_all" /\ g.msg = New(u) /\ Ahead(g, c)
      BY <2>4 DEF Coming
    <3>2. \E h \in Range(s) : h.at = "psend_all" /\ h.msg = New(u) /\ Ahead(h, c)'
      <4>1. CASE g = f
        BY <2>1, <3>1, <4>1
      <4>2. CASE g \in Range(r)
        BY <1>3, <1>4, <2>1, <3>1, <4>2
      <4> QED BY <1>2, <4>1, <4>2
    <3> QED BY <1>2, <3>2 DEF Knows, Coming
  <2> QED BY <2>1, <2>2, <2>3, <2>4 DEF Knows
<1>7. \A g \in Frames' : Sweeps(g)' /\ Deletes(g)' /\ Briefed(g)'
  BY <1>2, <1>5
<1>8. \A o \in Threads : (stack[o] # <<>> => Swept(Head(stack[o])))'
  BY <1>2 DEF Swept
<1> QED BY <1>6, <1>7, <1>8 DEF Notices

(* Nothing changes.                                                         *)
LEMMA NoticesStutter ==
  ASSUME Notices, UNCHANGED <<open, connections, uuid, entities, stack, known, torn>>
  PROVE  Notices'
<1>1. /\ Joined' = Joined /\ Frames' = Frames /\ Listening' = Listening
      /\ Joining' = Joining
      /\ \A g, d : Ahead(g, d)' = Ahead(g, d)
  BY DEF Joined, Frames, Listening, Joining, Ahead
<1>2. \A g \in Frames : Sweeps(g)' /\ Deletes(g)' /\ Briefed(g)'
  BY <1>1 DEF Notices, Sweeps, Deletes, Briefed
<1>3. \A c \in Listening : \A u \in entities \ {uuid[c]} : Knows(c, u)'
  BY <1>1 DEF Notices, Knows, Leaving, Coming
<1>4. \A t \in Threads : stack[t] # <<>> => Swept(Head(stack[t]))'
  BY <1>1 DEF Notices, Swept
<1> QED BY <1>1, <1>2, <1>3, <1>4 DEF Notices

LEMMA NoticesOnQuit ==
  ASSUME Inv, Shape, Notices, NEW t \in Threads, OnQuit(t)
  PROVE  Notices'
<1>0. TypeOK /\ connections \in Seq(Conns) /\ stack[t] # <<>>
  BY DEF Inv, TypeOK, OnQuit, Running
<1>1. PICK f \in Calls, r \in Seq(Calls) :
           /\ f = Head(stack[t]) /\ stack[t] = <<f>> \o r
           /\ Fits(t, f, r)
           /\ Frames = {f} \cup Range(r)
           /\ f.conn \in Conns
  BY <1>0, Context
<1>2. f.at = "on_quit"
  BY <1>1 DEF OnQuit, Running
<1>3. CASE Crash("null entity")
  BY <1>3, NoticesStutter DEF Crash, netVars, dataVars, clientVars
<1>4. CASE /\ uuid[f.conn] \in entities
           /\ CallFrom(t, [f EXCEPT !.at = "quit"], PSendAll(Delete(uuid[f.conn]), f.conn))
           /\ UNCHANGED <<netVars, dataVars, clientVars>>
  <2>1. Delete(uuid[f.conn]) \in Messages
    BY <1>0, <1>4 DEF Delete, Messages, TypeOK
  <2>2. PICK g, h : g = PSendAll(Delete(uuid[f.conn]), f.conn) /\ h = [f EXCEPT !.at = "quit"]
    OBVIOUS
  <2>3. /\ g \in Calls /\ g.at = "psend_all" /\ g.conn = f.conn
        /\ g.msg = Delete(uuid[f.conn])
        /\ \A d \in Joined : Ahead(g, d)
    BY <1>0, <1>1, <2>1, <2>2, SendCall
  <2>4. h \in Calls /\ h.at = "quit" /\ h.conn = f.conn
    BY <1>1, <2>2 DEF Calls, Places
  <2> DEFINE s == <<g>> \o (<<h>> \o r)
  <2>5. s \in Seq(Calls) /\ Range(s) = {g, h} \cup Range(r) /\ s # <<>> /\ Head(s) = g
    BY <2>3, <2>4, TwoPushed
  <2>6. Replaced(t, s)
    BY <1>1, <1>4, <2>2, <2>3, <2>4, Replacing
  <2> HIDE DEF s
  <2>7. UNCHANGED <<accepted, open, uuid, connections, entities, known, torn>>
    BY <1>4 DEF netVars, dataVars, clientVars
  <2>8. Shrinks /\ Joined' = Joined /\ \A d \in Joined : Ahead(g, d)'
    BY <2>3, <2>7, SameShrinks DEF Joined, Ahead
  <2>9. Frames' = Range(s)
    BY <1>0, <2>5, <2>6, SoloAfter DEF Shape
  <2>10. Joining' => Joining
    BY <1>1, <2>3, <2>4, <2>5, <2>9 DEF Joining
  <2>11. Sweeps(g)' /\ Deletes(g)' /\ Briefed(g)' /\ Swept(g)'
    <3>1. f.conn \notin open
      BY <1>1, <1>2 DEF Fits, FrameOK
    <3> QED BY <2>3, <2>7, <2>8, <3>1
            DEF Sweeps, Deletes, Briefed, Swept, Delete, Listening
  <2>12. Sweeps(h)' /\ Deletes(h)' /\ Briefed(h)'
    BY <2>4 DEF Sweeps, Deletes, Briefed
  <2> QED BY <1>0, <1>1, <1>2, <2>3, <2>4, <2>5, <2>6, <2>7, <2>8, <2>10, <2>11, <2>12,
             QuietNotices
<1> QED BY <1>1, <1>3, <1>4 DEF OnQuit

LEMMA NoticesReturn ==
  ASSUME Inv, Shape, Notices, NEW t \in Threads, NEW f \in Calls, NEW r \in Seq(Calls),
         stack[t] = <<f>> \o r, Return(t), Shrinks, UNCHANGED <<known, torn>>,
         f.at = "quit" => uuid[f.conn] \notin entities',
         f.at = "psend_all" => f.it = End,
         r # <<>> => Swept(Head(r))'
  PROVE  Notices'
<1>1. TypeOK /\ stack[t] # <<>> /\ Range(stack[t]) = {f} \cup Range(r)
  BY Pushed DEF Inv
<1>2. Replaced(t, r)
  BY Replacing
<1>3. Frames = {f} \cup Range(r) /\ Frames' = Range(r)
  BY <1>1, <1>2, Solo, SoloAfter DEF Shape
<1>4. Joining' => Joining
  BY <1>3 DEF Joining
<1>5. \A c : f.at = "psend_all" => ~Ahead(f, c)
  BY DEF Ahead
<1> QED BY <1>1, <1>2, <1>4, <1>5, QuietNotices

LEMMA NoticesQuit ==
  ASSUME Inv, Shape, Notices, NEW t \in Threads, Quit(t)
  PROVE  Notices'
<1>0. TypeOK /\ stack[t] # <<>>
  BY DEF Inv, Quit, Running
<1>1. PICK f \in Calls, r \in Seq(Calls) :
           f = Head(stack[t]) /\ stack[t] = <<f>> \o r /\ Fits(t, f, r)
  BY <1>0, Context
<1>2. /\ f.at = "quit" /\ Return(t)
      /\ entities' = entities \ {uuid[f.conn]}
      /\ UNCHANGED <<accepted, open, uuid, connections, known, torn>>
  BY <1>1 DEF Quit, Running, netVars, clientVars
<1>3. Shrinks
  BY <1>2 DEF Shrinks, Joined, Ahead
<1>4. r # <<>> => Head(r).at = "psend_all"
  BY <1>1, <1>2 DEF Fits, LinkOK
<1>5. r # <<>> => Swept(Head(r))'
  BY <1>4 DEF Swept
<1> QED BY <1>1, <1>2, <1>3, <1>5, NoticesReturn

LEMMA NoticesSendEnds ==
  ASSUME Inv, Shape, Notices, NEW t \in Threads, SendEnds(t)
  PROVE  Notices'
<1>0. TypeOK /\ stack[t] # <<>>
  BY DEF Inv, SendEnds, Running
<1>1. PICK f \in Calls, r \in Seq(Calls) :
           /\ f = Head(stack[t]) /\ stack[t] = <<f>> \o r /\ Fits(t, f, r)
           /\ Frames = {f} \cup Range(r)
  BY <1>0, Context
<1>2. /\ f.at = "psend_all" /\ f.it = End /\ Return(t)
      /\ UNCHANGED <<accepted, open, uuid, connections, entities, known, torn>>
  BY <1>1 DEF SendEnds, Running, netVars, dataVars, clientVars
<1>3. Shrinks /\ Joined' = Joined /\ Listening' = Listening
  BY <1>2, SameShrinks DEF Joined, Listening
<1>4. \A c : ~Ahead(f, c)
  BY <1>2 DEF Ahead
<1>5. ASSUME r # <<>> PROVE Swept(Head(r))'
  <2>1. PICK h : h = Head(r) /\ h \in Range(r) /\ h \in Calls
    BY <1>5, RangeType
  <2>2. CASE h.at = "insert"
    <3>1. Joining /\ Sweeps(f)
      BY <1>1, <2>1, <2>2 DEF Joining, Notices
    <3> QED BY <1>2, <1>3, <1>4, <2>1, <2>2, <3>1 DEF Sweeps, Swept
  <2>3. CASE h.at = "quit"
    <3>1. f.msg = Delete(uuid[h.conn]) /\ Deletes(f)
      BY <1>1, <1>2, <1>5, <2>1, <2>3 DEF Fits, LinkOK, Notices
    <3> QED BY <1>2, <1>3, <1>4, <2>1, <2>3, <3>1 DEF Deletes, Delete, Swept
  <2> QED BY <2>1, <2>2, <2>3 DEF Swept
<1> QED BY <1>1, <1>2, <1>3, <1>5, NoticesReturn

LEMMA NoticesSendNext ==
  ASSUME Inv, Shape, Notices, NEW t \in Threads, SendNext(t)
  PROVE  Notices'
<1>0. TypeOK /\ stack[t] # <<>> /\ connections \in Seq(Conns)
  BY DEF Inv, TypeOK, SendNext, Running
<1>1. PICK f \in Calls, r \in Seq(Calls) :
           /\ f = Head(stack[t]) /\ stack[t] = <<f>> \o r /\ Fits(t, f, r)
           /\ Frames = {f} \cup Range(r)
  BY <1>0, Context
<1>2. PICK g : g = [Advance(f) EXCEPT !.whole = @ /\ f.it = f.conn]
  OBVIOUS
<1>3. /\ f.at = "psend_all" /\ f.it \in Joined \cap open /\ Become(t, g)
      /\ UNCHANGED <<accepted, open, uuid, connections, entities>>
      /\ known' = IF f.it = f.conn \/ ~f.whole THEN known
                  ELSE [known EXCEPT ![f.it] = Told(@, f.msg)]
      /\ torn' = IF f.it = f.conn \/ f.whole THEN torn ELSE torn \cup {f.it}
  BY <1>1, <1>2 DEF SendNext, Running, netVars, dataVars, Joined
<1>4. After(connections, f.it) \in Conns \cup {End} /\ f.it \in Conns
  BY <1>0, <1>3, AfterOrder DEF Joined, Shape, Range
<1>5. /\ g \in Calls /\ g.at = "psend_all" /\ g.conn = f.conn /\ g.msg = f.msg
      /\ g.it = After(connections, f.it)
  <2>1. PICK h : h = Advance(f)
    OBVIOUS
  <2>2. /\ h \in Calls /\ h.at = "psend_all" /\ h.conn = f.conn /\ h.msg = f.msg
        /\ h.it = After(connections, f.it)
    BY <1>3, <1>4, <2>1 DEF Advance, Calls
  <2>3. PICK b \in BOOLEAN : b = (h.whole /\ f.it = f.conn)
    OBVIOUS
  <2>4. g = [h EXCEPT !.whole = b]
    BY <1>2, <2>1, <2>3
  <2> QED BY <2>2, <2>4 DEF Calls
<1>6. PICK s \in Seq(Calls) : /\ s = <<g>> \o r /\ Range(s) = {g} \cup Range(r)
                              /\ s # <<>> /\ Head(s) = g
  BY <1>5, Pushed
<1>7. Replaced(t, s)
  BY <1>1, <1>3, <1>6, Replacing
<1>8. /\ Frames' = {g} \cup Range(r) /\ stack'[t] = s
      /\ \A o \in Threads : o # t => stack'[o] = <<>>
  BY <1>0, <1>6, <1>7, SoloAfter DEF Shape
<1>9. Shrinks /\ Joined' = Joined /\ Listening' \subseteq Listening
  BY <1>3, SameShrinks DEF Joined, Listening
<1>10. \A e, d : Ahead(e, d)' = Ahead(e, d)
  BY <1>3, <1>9 DEF Ahead
<1>11. Joining' => Joining
  BY <1>1, <1>5, <1>8 DEF Joining
<1>12. \A d : d # f.it /\ Ahead(f, d) => Ahead(g, d)
  BY <1>0, <1>3, <1>5, AheadNext DEF Shape
<1>13. PICK h \in Calls : h = Head(r) /\ h \in Range(r) /\ LinkOK(f, h)
  <2>1. r # <<>>
    BY <1>1, <1>3 DEF Fits, Outermost
  <2> QED BY <1>1, <2>1, RangeType DEF Fits
<1>14. \/ /\ h.at = "insert" /\ f.msg = New(uuid[h.conn])
          /\ h.conn \in open /\ h.conn = f.conn /\ h.conn \notin Joined
       \/ h.at = "quit" /\ f.msg = Delete(uuid[h.conn]) /\ f.conn \notin open
  BY <1>1, <1>3, <1>13 DEF Fits, LinkOK, FrameOK
<1>15. f.it # f.conn
  BY <1>3, <1>14
<1>16. /\ \A c : c # f.it => known'[c] = known[c]
       /\ f.whole => known'[f.it] = Told(known[f.it], f.msg)
       /\ f.it \in Listening' => f.whole
  BY <1>3, <1>4, <1>15 DEF Shape, ClientsOK, Listening
<1>17. Sweeps(g)' /\ Deletes(g)' /\ Briefed(g)'
  <2>1. Sweeps(f) /\ Deletes(f)
    BY <1>1 DEF Notices
  <2>2. Sweeps(g)'
    BY <1>3, <1>5, <1>9, <1>10, <1>11, <1>12, <2>1 DEF Sweeps
  <2>3. ASSUME f.msg.kind = "S2C_ENTITY_DELETE", NEW c \in Listening', f.msg.uuid \in known'[c]
        PROVE  Ahead(g, c)
    <3>1. c # f.it
      BY <1>16, <2>3 DEF Told
    <3> QED BY <1>3, <1>9, <1>12, <1>16, <2>1, <2>3, <3>1 DEF Deletes
  <2>4. Deletes(g)'
    BY <1>3, <1>5, <1>10, <2>1, <2>3 DEF Deletes
  <2> QED BY <1>5, <2>2, <2>4 DEF Briefed
<1>18. ASSUME NEW e \in Range(r)
       PROVE  Sweeps(e)' /\ Deletes(e)' /\ Briefed(e)'
  <2>1. e \in Frames /\ e \in Calls /\ h \in Frames
    BY <1>1, <1>13, RangeType
  <2>2. e.at = "insert" => e.conn \notin Joined
    BY <1>1 DEF Fits, FrameOK
  <2>3. \A c \in Conns \ Joined : known'[c] = known[c]
    BY <1>3, <1>16
  <2>4. ASSUME e.at = "psend_all", e.msg.kind = "S2C_ENTITY_DELETE",
               NEW c \in Listening', e.msg.uuid \in known'[c]
        PROVE  e.msg.uuid \in known[c]
    <3>1. CASE h.at = "quit"
      BY <1>14, <1>16, <2>4, <3>1 DEF Told, Delete
    <3>2. CASE h.at = "insert"
      <4>1. e.conn \notin open /\ e.msg.uuid = uuid[e.conn]
        BY <2>1, <2>4 DEF Notices, Deletes
      <4>2. e.conn \in Involved /\ h.conn \in Involved
        BY <2>1, <2>4, <3>2 DEF Involved
      <4>3. e.msg.uuid # uuid[h.conn]
        BY <1>14, <3>2, <4>1, <4>2 DEF Shape, UuidsOK
      <4> QED BY <1>14, <1>16, <2>4, <3>2, <4>3 DEF Told, New
    <3> QED BY <1>14, <3>1, <3>2
  <2> QED BY <1>9, <1>11, <2>1, <2>2, <2>3, <2>4, RestNotices
<1>19. ASSUME NEW c \in Listening', NEW u \in entities' \ {uuid'[c]}
       PROVE  Knows(c, u)'
  <2>1. Knows(c, u)
    BY <1>3, <1>9 DEF Notices
  <2>2. CASE u \in known[c]
    <3>1. CASE c # f.it
      BY <1>16, <2>2, <3>1 DEF Knows
    <3>2. CASE c = f.it /\ h.at = "insert"
      BY <1>14, <1>16, <2>2, <3>2 DEF Knows, Told, New
    <3>3. CASE c = f.it /\ h.at = "quit" /\ u # uuid[h.conn]
      BY <1>14, <1>16, <2>2, <3>3 DEF Knows, Told, Delete
    <3>4. CASE h.at = "quit" /\ u = uuid[h.conn]
      BY <1>3, <1>8, <1>13, <3>4 DEF Knows, Leaving
    <3> QED BY <1>14, <3>1, <3>2, <3>3, <3>4
  <2>3. CASE Leaving(u)
    <3>1. PICK q \in Frames : q.at = "quit" /\ uuid[q.conn] = u
      BY <2>3 DEF Leaving
    <3>2. q \in Range(r)
      BY <1>1, <1>3, <3>1
    <3> QED BY <1>3, <1>8, <3>1, <3>2 DEF Knows, Leaving
  <2>4. CASE Coming(u, c)
    <3>1. PICK e \in Frames : e.at = "psend_all" /\ e.msg = New(u) /\ Ahead(e, c)
      BY <2>4 DEF Coming
    <3>2. CASE e \in Range(r)
      BY <1>8, <1>10, <3>1, <3>2 DEF Knows, Coming
    <3>3. CASE e = f /\ c # f.it
      BY <1>5, <1>8, <1>10, <1>12, <3>1, <3>3 DEF Knows, Coming
    <3>4. CASE e = f /\ c = f.it
      BY <1>16, <3>1, <3>4 DEF Knows, Told, New
    <3> QED BY <1>1, <3>1, <3>2, <3>3, <3>4
  <2> QED BY <2>1, <2>2, <2>3, <2>4 DEF Knows
<1>20. \A o \in Threads : (stack[o] # <<>> => Swept(Head(stack[o])))'
  BY <1>5, <1>6, <1>8 DEF Swept
<1> QED BY <1>8, <1>17, <1>18, <1>19, <1>20 DEF Notices

LEMMA NoticesSendFindsClosed ==
  ASSUME Inv, Shape, Notices, NEW t \in Threads, SendFindsClosed(t)
  PROVE  Notices'
<1>0. TypeOK /\ stack[t] # <<>> /\ connections \in Seq(Conns)
  BY DEF Inv, TypeOK, SendFindsClosed, Running
<1>1. PICK f \in Calls, r \in Seq(Calls) :
           /\ f = Head(stack[t]) /\ stack[t] = <<f>> \o r
           /\ Frames = {f} \cup Range(r)
  BY <1>0, Context
<1>2. PICK x, h, g : x = f.it /\ h = Advance(f) /\ g = Call("on_quit", x)
  OBVIOUS
<1>3. /\ f.at = "psend_all" /\ x \in Joined \ open /\ CallFrom(t, h, g)
      /\ connections' = Erase(connections, x)
      /\ UNCHANGED <<accepted, open, uuid, entities, known, torn>>
  BY <1>1, <1>2 DEF SendFindsClosed, Running, netVars, clientVars, Joined
<1>4. After(connections, x) \in Conns \cup {End} /\ x \in Conns
  BY <1>0, <1>3, AfterOrder DEF Joined, Shape, Range
<1>5. /\ h \in Calls /\ h.at = "psend_all" /\ h.conn = f.conn /\ h.msg = f.msg
      /\ h.it = After(connections, f.it)
  BY <1>2, <1>3, <1>4 DEF Advance, Calls
<1>6. g \in Calls /\ g.at = "on_quit" /\ g.conn = x
  BY <1>2, <1>4, CallType DEF Call, Places
<1>7. Joined' = Joined \ {x}
  BY <1>0, <1>3, EraseOrder DEF Joined, Shape
<1>8. Shrinks /\ \A e \in Calls, c \in Joined' : Ahead(e, c) => Ahead(e, c)'
  BY <1>0, <1>3, <1>7, AheadErased DEF Shape, Shrinks
<1>9. \A c \in Joined' : Ahead(f, c) => Ahead(h, c)'
  <2> TAKE c \in Joined'
  <2> HAVE Ahead(f, c)
  <2>1. c # f.it
    BY <1>2, <1>7
  <2>2. Ahead(h, c)
    BY <1>0, <1>2, <1>3, <1>5, <2>1, AheadNext DEF Shape
  <2> QED BY <1>5, <1>8, <2>2
<1> DEFINE s == <<g>> \o (<<h>> \o r)
<1>10. s \in Seq(Calls) /\ Range(s) = {g, h} \cup Range(r) /\ s # <<>> /\ Head(s) = g
  BY <1>5, <1>6, TwoPushed
<1>11. Replaced(t, s)
  BY <1>1, <1>3, <1>5, <1>6, Replacing
<1> HIDE DEF s
<1>12. Frames' = Range(s)
  BY <1>0, <1>10, <1>11, SoloAfter DEF Shape
<1>13. Joining' => Joining
  BY <1>1, <1>5, <1>6, <1>10, <1>12 DEF Joining
<1>14. Sweeps(g)' /\ Deletes(g)' /\ Briefed(g)' /\ Swept(g)'
  BY <1>6 DEF Sweeps, Deletes, Briefed, Swept
<1>15. Sweeps(h)' /\ Deletes(h)' /\ Briefed(h)'
  <2>1. Sweeps(f) /\ Deletes(f)
    BY <1>1 DEF Notices
  <2>2. Sweeps(h)'
    BY <1>3, <1>7, <1>9, <1>13, <2>1 DEF Sweeps
  <2>3. Deletes(h)'
    BY <1>3, <1>5, <1>7, <1>9, <2>1 DEF Deletes, Listening
  <2> QED BY <1>5, <2>2, <2>3 DEF Briefed
<1>16. /\ Range(r) \subseteq Range(s)
       /\ \A e \in Range(s) \ Range(r) : e.at # "insert"
  BY <1>5, <1>6, <1>10
<1>17. \A e \in Range(s) \ Range(r) : Sweeps(e)' /\ Deletes(e)' /\ Briefed(e)'
  BY <1>10, <1>14, <1>15
<1>18. \A c \in Joined' \cap open : Ahead(f, c) =>
         \E e \in Range(s) : e.at = "psend_all" /\ e.msg = f.msg /\ Ahead(e, c)'
  BY <1>5, <1>9, <1>10
<1>19. (s # <<>> => Swept(Head(s))') /\ UNCHANGED <<known, torn>>
  BY <1>3, <1>10, <1>14
<1> QED BY <1>0, <1>1, <1>3, <1>8, <1>10, <1>11, <1>13, <1>16, <1>17, <1>18, <1>19,
           QuietNotices

(* Steps before and after which no call is under way that tells anybody.    *)
LEMMA PlainNotices ==
  ASSUME Notices, TypeOK', Listening' \subseteq Listening,
         UNCHANGED <<uuid, entities, known>>,
         \A g \in Frames \cup Frames' : g.at \notin {"psend_all", "quit", "insert"}
  PROVE  Notices'
<1>1. \A g \in Frames' : Sweeps(g)' /\ Deletes(g)' /\ Briefed(g)'
  BY DEF Sweeps, Deletes, Briefed
<1>2. \A c \in Listening' : \A u \in entities' \ {uuid'[c]} : Knows(c, u)'
  BY DEF Notices, Knows, Leaving, Coming
<1>3. ASSUME NEW t \in Threads PROVE (stack[t] # <<>> => Swept(Head(stack[t])))'
  <2> SUFFICES ASSUME stack'[t] # <<>> PROVE Swept(Head(stack[t]))'
    OBVIOUS
  <2>1. PICK g : g = Head(stack'[t])
    OBVIOUS
  <2>2. g \in Frames'
    BY <2>1, RangeType DEF Frames, TypeOK
  <2> QED BY <2>1, <2>2 DEF Swept
<1> QED BY <1>1, <1>2, <1>3 DEF Notices

LEMMA NoticesOnPacket ==
  ASSUME Inv, Inv', Shape, Notices, NEW t \in Threads, OnPacket(t)
  PROVE  Notices'
<1>0. TypeOK /\ TypeOK' /\ stack[t] # <<>>
  BY DEF Inv, OnPacket, Running
<1>1. PICK f \in Calls, r \in Seq(Calls) :
           /\ f = Head(stack[t]) /\ stack[t] = <<f>> \o r /\ Fits(t, f, r)
           /\ Frames = {f} \cup Range(r)
  BY <1>0, Context
<1>2. f.at = "on_packet"
  BY <1>1 DEF OnPacket, Running
<1>3. CASE Crash("null entity")
  BY <1>3, NoticesStutter DEF Crash, netVars, dataVars, clientVars
<1>4. CASE /\ Become(t, [f EXCEPT !.at = "motion"])
           /\ UNCHANGED <<netVars, dataVars, clientVars>>
  <2>a. [f EXCEPT !.at = "motion"] \in Calls
    BY DEF Calls, Places
  <2>1. PICK g \in Calls : g = [f EXCEPT !.at = "motion"] /\ g.at = "motion"
    BY <2>a DEF Calls
  <2>2. r = <<>> /\ Range(r) = {}
    BY <1>1, <1>2, NoCalls DEF Fits, LinkOK
  <2>3. PICK s \in Seq(Calls) : s = <<g>> \o r /\ Range(s) = {g} \cup Range(r)
    BY Pushed
  <2>4. Replaced(t, s)
    BY <1>1, <1>4, <2>1, <2>3, Replacing
  <2>5. Frames = {f} /\ Frames' = {g}
    BY <1>0, <1>1, <2>2, <2>3, <2>4, SoloAfter DEF Shape
  <2>6. /\ UNCHANGED <<open, connections, uuid, entities, known, torn>>
        /\ Listening' = Listening
    BY <1>4 DEF netVars, dataVars, clientVars, Listening, Joined
  <2> QED BY <1>0, <1>2, <2>1, <2>5, <2>6, PlainNotices
<1> QED BY <1>1, <1>3, <1>4 DEF OnPacket

LEMMA NoticesSendMotion ==
  ASSUME Inv, Inv', Shape, Notices, NEW t \in Threads, SendMotion(t)
  PROVE  Notices'
<1>0. TypeOK /\ TypeOK' /\ stack[t] # <<>>
  BY DEF Inv, SendMotion, Running
<1>1. PICK f \in Calls, r \in Seq(Calls) :
           /\ f = Head(stack[t]) /\ stack[t] = <<f>> \o r /\ Fits(t, f, r)
           /\ Frames = {f} \cup Range(r) /\ f.conn \in Conns
  BY <1>0, Context
<1>2. f.at = "motion" /\ UNCHANGED <<open, connections, uuid, entities, known, torn>>
  BY <1>1 DEF SendMotion, Running, netVars, dataVars, clientVars
<1>3. r = <<>> /\ Range(r) = {} /\ Frames = {f}
  BY <1>1, <1>2, NoCalls DEF Fits, LinkOK
<1>4. Frames' \subseteq {Call("on_quit", f.conn)}
  <2>1. CASE Return(t)
    <3>1. Replaced(t, r)
      BY <1>1, <2>1, Replacing
    <3> QED BY <1>0, <1>3, <3>1, SoloAfter DEF Shape
  <2>2. CASE Become(t, Call("on_quit", f.conn))
    <3>a. Call("on_quit", f.conn) \in Calls
      BY <1>1, CallType DEF Places
    <3>1. PICK g \in Calls : g = Call("on_quit", f.conn)
      BY <3>a
    <3>2. PICK s \in Seq(Calls) : s = <<g>> \o r /\ Range(s) = {g} \cup Range(r)
      BY Pushed
    <3>3. Replaced(t, s)
      BY <1>1, <2>2, <3>1, <3>2, Replacing
    <3>4. Frames' = Range(s)
      BY <1>0, <3>3, SoloAfter DEF Shape
    <3> QED BY <1>3, <3>1, <3>2, <3>4
  <2> QED BY <1>1, <2>1, <2>2 DEF SendMotion
<1>5. \A g \in Frames' : g.at = "on_quit"
  BY <1>4 DEF Call
<1>6. Listening' = Listening
  BY <1>2 DEF Listening, Joined
<1> QED BY <1>0, <1>2, <1>3, <1>5, <1>6, PlainNotices

LEMMA NoticesOnJoin ==
  ASSUME Inv, Shape, Notices, NEW t \in Threads, OnJoin(t)
  PROVE  Notices'
<1>0. TypeOK /\ known \in [Conns -> SUBSET (UUIDs \cup {End})] /\ Joined \subseteq Conns
  BY DEF Inv, TypeOK, Shape, ClientsOK, Joined, Range
<1>1. PICK f, g, h \in Calls, q \in Seq(Calls), c \in Conns, u \in UUIDs \ entities :
        JoinCalls(t, f, g, h, q, c, u)
  BY Joins
<1>2. /\ f.at = "on_join" /\ Frames = {f} /\ c \notin Joined
      /\ UNCHANGED <<open, connections, torn, Joined>>
      /\ uuid'[c] = u /\ \A d \in Conns : d # c => uuid'[d] = uuid[d]
      /\ h.at = "insert" /\ h.conn = c
      /\ \/ /\ c \in open /\ g.at = "psend_all" /\ g.msg = New(u)
            /\ \A d \in Joined : Ahead(g, d)
            /\ known' = [known EXCEPT ![c] = entities]
            /\ entities' = entities \cup {u}
         \/ c \notin open /\ g.at = "on_quit" /\ UNCHANGED <<entities, known>>
      /\ Head(stack'[t]) = g /\ \A o \in Threads : o # t => stack'[o] = <<>>
      /\ Frames' = {g, h}
  BY <1>1 DEF JoinCalls
<1>3. /\ Listening' = Listening /\ c \notin Listening /\ Listening \subseteq Conns
      /\ \A d : Ahead(g, d)' = Ahead(g, d)
      /\ \A d \in Conns : d # c => known'[d] = known[d]
  BY <1>0, <1>2 DEF Listening, Ahead
<1>4. Sweeps(g)' /\ Deletes(g)' /\ Briefed(g)'
  BY <1>2, <1>3 DEF Sweeps, Deletes, Briefed, New
<1>5. Sweeps(h)' /\ Deletes(h)' /\ Briefed(h)'
  BY <1>0, <1>2 DEF Sweeps, Deletes, Briefed
<1>6. ASSUME NEW d \in Listening', NEW e \in entities' \ {uuid'[d]} PROVE Knows(d, e)'
  <2>1. d \in Listening /\ d \in Conns /\ d # c /\ d \in Joined
    BY <1>3 DEF Listening
  <2>2. CASE e \in entities
    <3>1. Knows(d, e)
      BY <1>2, <2>1, <2>2 DEF Notices
    <3>2. e \in known[d]
      BY <1>2, <3>1 DEF Knows, Leaving, Coming
    <3> QED BY <1>3, <2>1, <3>2 DEF Knows
  <2>3. CASE c \in open /\ e = u /\ g.at = "psend_all"
    BY <1>2, <1>3, <2>1, <2>3 DEF Knows, Coming
  <2> QED BY <1>2, <2>2, <2>3
<1>7. \A o \in Threads : (stack[o] # <<>> => Swept(Head(stack[o])))'
  BY <1>2 DEF Swept
<1> QED BY <1>2, <1>4, <1>5, <1>6, <1>7 DEF Notices

LEMMA NoticesInsert ==
  ASSUME Inv, Inv', Shape, Notices, NEW t \in Threads, Insert(t)
  PROVE  Notices'
<1>0. TypeOK /\ TypeOK' /\ stack[t] # <<>>
  BY DEF Inv, Insert, Running
<1>1. PICK f \in Calls, r \in Seq(Calls) :
           /\ f = Head(stack[t]) /\ stack[t] = <<f>> \o r /\ Fits(t, f, r)
           /\ Frames = {f} \cup Range(r)
           /\ f.conn \in Conns
  BY <1>0, Context
<1>2. /\ f.at = "insert" /\ Return(t)
      /\ connections' \in Orders(Joined \cup {f.conn})
      /\ UNCHANGED <<accepted, open, uuid, entities, known, torn>>
  BY <1>1 DEF Insert, Running, netVars, clientVars, Joined
<1>3. r = <<>> /\ Frames = {f}
  BY <1>1, <1>2, NoCalls DEF Fits, LinkOK
<1>4. Joined' = Joined \cup {f.conn}
  BY <1>2 DEF Orders, Joined
<1>5. Replaced(t, <<>>)
  BY <1>1, <1>2, <1>3, Replacing
<1>6. Frames' = {} /\ \A o \in Threads : stack'[o] = <<>>
  BY <1>0, <1>5, SoloAfter, NoCalls DEF Shape
<1>7. f.conn \in open /\ entities \ {uuid[f.conn]} \subseteq known[f.conn]
  BY <1>1, <1>2 DEF Fits, Notices, Briefed
<1>8. \A c \in Listening : \A u \in entities \ {uuid[c]} : u \in known[c]
  BY <1>2, <1>3 DEF Notices, Knows, Leaving, Coming
<1>9. Listening' \subseteq Listening \cup {f.conn}
  BY <1>2, <1>4 DEF Listening
<1>10. \A c \in Listening' : \A u \in entities' \ {uuid'[c]} : Knows(c, u)'
  BY <1>2, <1>7, <1>8, <1>9 DEF Knows
<1> QED BY <1>6, <1>10 DEF Notices

LEMMA NoticesCall ==
  ASSUME spoiled' = {}, Inv, Inv', Shape, Notices, NEW c \in Conns, Accept(c) \/ Packet(c)
  PROVE  Notices'
<1>1. PICK t \in Threads, place \in {"on_join", "on_packet"} :
        /\ \A o \in Threads : stack[o] = <<>>
        /\ stack' = [stack EXCEPT ![t] = <<Call(place, c)>>]
        /\ UNCHANGED <<connections, uuid, entities, known, torn>>
        /\ open' \ {c} \subseteq open /\ (c \notin accepted \/ open' = open)
  BY DEF Accept, Packet, MayCall, dataVars, clientVars, Threads
<1>2. Frames = {}
  BY <1>1, NoCalls DEF Frames
<1>3. ASSUME NEW g \in Frames' PROVE g.at \notin {"psend_all", "quit", "insert"}
  <2>1. PICK o \in Threads : g \in Range(stack'[o])
    BY DEF Frames
  <2>2. o = t
    BY <1>1, <2>1, NoCalls DEF Inv, TypeOK
  <2>3. stack'[o] = <<Call(place, c)>>
    BY <1>1, <2>2 DEF Inv, TypeOK
  <2>4. g = Call(place, c)
    BY <2>1, <2>3 DEF Range
  <2> QED BY <2>4 DEF Call
<1>4. Listening' \subseteq Listening
  BY <1>1 DEF Listening, Joined, Shape, ClientsOK
<1> QED BY <1>1, <1>2, <1>3, <1>4, PlainNotices DEF Inv

LEMMA NoticesClose ==
  ASSUME Inv, Shape, Notices, NEW c \in Conns, Close(c)
  PROVE  Notices'
<1>1. /\ stack["io"] = <<>> /\ open' = open \ {c}
      /\ UNCHANGED <<connections, uuid, entities, stack, known, torn>>
  BY DEF Close, dataVars, clientVars
<1>2. /\ Joined' = Joined /\ Frames' = Frames /\ Listening' \subseteq Listening
      /\ \A g, d : Ahead(g, d)' = Ahead(g, d)
  BY <1>1 DEF Joined, Frames, Ahead, Listening
<1>3. ~Joining' /\ \A g \in Frames : g.at # "insert"
  BY <1>1, <1>2, NobodyJoins DEF Joining
<1>4. \A g \in Frames : Sweeps(g)' /\ Deletes(g)' /\ Briefed(g)'
  BY <1>1, <1>2, <1>3 DEF Notices, Sweeps, Deletes, Briefed
<1>5. \A d \in Listening' : \A u \in entities' \ {uuid'[d]} : Knows(d, u)'
  BY <1>1, <1>2 DEF Notices, Knows, Leaving, Coming
<1>6. ASSUME NEW t \in Threads, stack[t] # <<>> PROVE Swept(Head(stack[t]))'
  <2>1. Head(stack[t]) \in Frames
    BY <1>6, RangeType DEF Inv, TypeOK, Frames
  <2> QED BY <1>1, <1>2, <1>3, <1>6, <2>1 DEF Notices, Swept
<1> QED BY <1>1, <1>2, <1>4, <1>5, <1>6 DEF Notices

LEMMA NoticesInit == Init => Notices
<1> SUFFICES ASSUME Init PROVE Notices
  OBVIOUS
<1>1. \A t \in Threads : stack[t] = <<>>
  BY DEF Init
<1>2. Frames = {} /\ Listening = {}
  BY <1>1, NoCalls DEF Init, Frames, Listening
<1> QED BY <1>1, <1>2 DEF Notices

LEMMA NoticesStep ==
  ASSUME spoiled' = {}, Inv, Inv', Shape, Notices, [Next]_vars
  PROVE  Notices'
<1>1. CASE UNCHANGED vars
  BY <1>1, NoticesStutter DEF vars, netVars, dataVars, clientVars
<1>2. CASE \E t \in Threads : SendBadIterator(t)
  BY <1>2, NoticesStutter DEF SendBadIterator, Crash, netVars, dataVars, clientVars
<1>3. CASE \E t \in Threads : Run(t)
  BY <1>2, <1>3, NoticesOnQuit, NoticesQuit, NoticesSendEnds, NoticesSendNext,
     NoticesSendFindsClosed, NoticesOnJoin, NoticesInsert, NoticesOnPacket,
     NoticesSendMotion DEF Run
<1> QED BY <1>1, <1>3, NoticesCall, NoticesClose DEF Next

-----------------------------------------------------------------------------
(* The invariant the theorems below rest on.                                *)
Ordered == spoiled = {} => Shape /\ Notices

LEMMA SpoiledStays ==
  ASSUME [Next]_vars, spoiled' = {}
  PROVE  spoiled = {}
<1>1. CASE UNCHANGED vars
  BY <1>1 DEF vars, faultVars
<1>2. ASSUME NEW c \in Conns, Accept(c) \/ Close(c) \/ Packet(c) PROVE spoiled = {}
  BY <1>2 DEF Accept, Close, Packet, MayCall, faultVars
<1>3. ASSUME NEW t \in Threads, Run(t) PROVE spoiled = {}
  BY <1>3 DEF Run, OnQuit, Quit, SendEnds, SendBadIterator, SendNext, SendFindsClosed,
     OnJoin, Insert, OnPacket, SendMotion, Crash, faultVars
<1> QED BY <1>1, <1>2, <1>3 DEF Next

LEMMA OrderedStep ==
  ASSUME Inv, Ordered, [Next]_vars
  PROVE  Inv' /\ Ordered'
<1>1. Inv'
  BY StepInv
<1>2. ASSUME spoiled' = {} PROVE Shape' /\ Notices'
  <2>1. Shape /\ Notices
    BY <1>2, SpoiledStays DEF Ordered
  <2> QED BY <1>1, <1>2, <2>1, ShapeStep, NoticesStep
<1> QED BY <1>1, <1>2 DEF Ordered

LEMMA OrderedAlways == Spec => [](Inv /\ Ordered)
<1>1. Init => Inv /\ Ordered
  BY InitInv, ShapeInit, NoticesInit DEF Ordered
<1>2. (Inv /\ Ordered) /\ [Next]_vars => (Inv /\ Ordered)'
  BY OrderedStep
<1> QED BY <1>1, <1>2, PTL DEF Spec

(* Until the threads overlap or a late packet is mistaken, uuid_entity_map  *)
(* and connections tell the same story whenever no call is under way: an    *)
(* entity for each connection, and one connection for each.                 *)
THEOREM RosterKept == Spec => []RosterMatches
<1>1. Inv /\ Ordered => RosterMatches
  <2> SUFFICES ASSUME Inv, Shape, Calm PROVE
                 /\ entities = {uuid[c] : c \in Range(connections)}
                 /\ \A i, j \in DOMAIN connections :
                      uuid[connections[i]] = uuid[connections[j]] => i = j
    BY DEF RosterMatches, Ordered
  <2>1. \A t \in Threads : Settled(stack[t]) = {}
    BY DEF Calm, Settled
  <2>2. \A u \in entities : \E c \in Joined : uuid[c] = u
    BY <2>1 DEF Inv, EntitiesOK, Kept, Joined
  <2>3. \A c \in Joined : uuid[c] \in entities
    BY DEF Shape, UuidsOK
  <2>4. \A a, b \in Joined : uuid[a] = uuid[b] => a = b
    BY DEF Shape, UuidsOK, Involved
  <2>5. \A i \in DOMAIN connections : connections[i] \in Joined
    BY DEF Joined, Range
  <2>6. \A i, j \in DOMAIN connections :
          uuid[connections[i]] = uuid[connections[j]] => i = j
    BY <2>4, <2>5 DEF Shape, Distinct
  <2> QED BY <2>2, <2>3, <2>6 DEF Joined
<1> QED BY <1>1, OrderedAlways, PTL

(* And an open client has been told of every player there is, whoever joined*)
(* first.                                                                   *)
THEOREM ClientsTold == Spec => []ClientsMissNobody
<1>1. Inv /\ Ordered => ClientsMissNobody
  <2> SUFFICES ASSUME Inv, Notices, Calm, NEW c \in Listening, NEW u \in entities \ {uuid[c]}
               PROVE  u \in known[c]
    BY DEF ClientsMissNobody, Ordered, Listening, Joined
  <2>1. Frames = {}
    BY NoCalls DEF Calm, Frames
  <2> QED BY <2>1 DEF Notices, Knows, Leaving, Coming
<1> QED BY <1>1, OrderedAlways, PTL

(* When an entity is erased, only a newcomer whose on_join() is not over can*)
(* still know the player, although psend_all() runs inside psend_all().     *)
THEOREM QuitsTold == Spec => OnlyNewcomersMissQuits
<1>1. ASSUME Inv, Ordered, [Next]_vars
      PROVE  [spoiled = {} =>
               \A u \in entities \ entities' : \A c \in open \ torn :
                 u \in known[c] =>
                   \E f \in Range(stack["io"]) : f.at = "insert" /\ f.conn = c]_vars
  <2> SUFFICES ASSUME Shape, Notices, NEW u \in entities \ entities',
                      NEW c \in open \ torn, u \in known[c]
               PROVE  \E f \in Range(stack["io"]) : f.at = "insert" /\ f.conn = c
    BY <1>1 DEF Ordered
  <2>1. PICK t \in Threads : Quit(t)
    BY <1>1 DEF Next, Run, Accept, Close, Packet, OnQuit, SendEnds, SendBadIterator, SendNext,
       SendFindsClosed, OnJoin, Insert, OnPacket, SendMotion, Crash, vars, dataVars
  <2>2. /\ stack[t] # <<>> /\ Head(stack[t]).at = "quit" /\ u = uuid[Head(stack[t]).conn]
    BY <2>1 DEF Quit, Running
  <2>3. c \notin Listening
    BY <1>1, <2>2 DEF Notices, Swept
  <2>4. PICK f \in Frames : f.at \in {"on_join", "insert"} /\ f.conn = c
    BY <1>1, <2>3 DEF Listening, Shape, OpenOK, Newcomers
  <2>5. PICK o \in Threads : f \in Range(stack[o])
    BY DEF Frames
  <2>6. o = "io"
    <3>1. stack[o] \in Seq(Calls) /\ StackOK(o) /\ stack[o] # <<>>
      BY <1>1, <2>5, NoCalls DEF Inv, TypeOK, Shape
    <3>2. f = Bottom(stack[o]) /\ f.at \in Outermost(o)
      BY <2>4, <2>5, <3>1, Lowest DEF StackOK
    <3> QED BY <2>4, <3>2 DEF Outermost
  <2>7. f.at # "on_join"
    <3>1. t = "io"
      BY <1>1, <2>2, <2>5, <2>6, NoCalls DEF Shape, OneCaller
    <3>2. f = Head(stack["io"]) \/ f \in Range(Tail(stack["io"]))
      <4>1. stack["io"] \in Seq(Calls) /\ stack["io"] # <<>>
        BY <1>1, <2>2, <3>1 DEF Inv, TypeOK
      <4>2. PICK h, q : h = Head(stack["io"]) /\ q = Tail(stack["io"])
        OBVIOUS
      <4>3. h \in Calls /\ q \in Seq(Calls) /\ stack["io"] = <<h>> \o q
        BY <4>1, <4>2, Split
      <4>4. Range(<<h>> \o q) = {h} \cup Range(q)
        BY <4>3, Pushed
      <4> QED BY <2>5, <2>6, <4>2, <4>3, <4>4
    <3> QED BY <1>1, <2>2, <3>1, <3>2 DEF Shape, StackOK, Lower
  <2> QED BY <2>4, <2>5, <2>6, <2>7
<1> QED BY <1>1, OrderedAlways, PTL DEF Spec, OnlyNewcomersMissQuits

(* uuid_entity_map is asked for an entity it does not have in two cases only:*)
(* a packet is handled after its owner has quit, or on_join() gets a        *)
(* connection that is closed already.                                       *)
THEOREM NullTwoWays == Spec => []NullEntityTwoWays
<1>1. ASSUME Inv, Ordered, spoiled = {}, NEW t \in Threads, Run(t), fault' = "null entity"
      PROVE  QuitFirst(stack[t]) \/ NeverJoined(stack[t])
  <2>0. TypeOK /\ Shape /\ stack[t] # <<>> /\ fault = "none"
    BY <1>1 DEF Ordered, Inv, Run, Running, OnQuit, Quit, SendEnds, SendBadIterator,
       SendNext, SendFindsClosed, OnJoin, Insert, OnPacket, SendMotion
  <2>1. PICK f \in Calls, r \in Seq(Calls) :
          f = Head(stack[t]) /\ r = Tail(stack[t]) /\ Fits(t, f, r)
    BY <2>0, Context
  <2>2. CASE OnQuit(t)
    <3>1. f.at = "on_quit" /\ uuid[f.conn] \notin entities
      BY <1>1, <2>0, <2>1, <2>2 DEF OnQuit, Running, faultVars
    <3>2. r # <<>> /\ Head(r).at = "insert" /\ f.conn \notin open
      BY <2>1, <3>1 DEF Fits, HasEntity, FrameOK
    <3>3. Head(r).conn = f.conn
      BY <2>1, <3>2 DEF Fits, LinkOK
    <3>4. Head(r) \in Range(r)
      BY <3>2, RangeType
    <3> QED BY <2>1, <3>1, <3>2, <3>3, <3>4 DEF NeverJoined
  <2>3. CASE OnPacket(t)
    <3>1. f.at = "on_packet" /\ uuid[f.conn] \notin entities
      BY <1>1, <2>0, <2>1, <2>3 DEF OnPacket, Running
    <3>2. f.conn \notin Joined
      BY <2>0, <3>1 DEF Shape, UuidsOK
    <3> QED BY <2>1, <3>1, <3>2 DEF QuitFirst, Joined
  <2>4. CASE SendBadIterator(t)
    BY <1>1, <2>4 DEF SendBadIterator, Crash
  <2>5. CASE Quit(t) \/ SendEnds(t) \/ SendNext(t) \/ SendFindsClosed(t) \/ OnJoin(t)
             \/ Insert(t) \/ SendMotion(t)
    BY <1>1, <2>0, <2>5 DEF Quit, SendEnds, SendNext, SendFindsClosed, OnJoin, Insert,
       SendMotion, faultVars
  <2> QED BY <1>1, <2>2, <2>3, <2>4, <2>5 DEF Run
<1>2. ASSUME NEW t \in Threads, Run(t), fault' = "null entity"
      PROVE  UNCHANGED <<stack, connections, open, spoiled>> /\ stack[t] # <<>>
  <2>1. CASE OnQuit(t) \/ OnPacket(t) \/ SendBadIterator(t)
    BY <1>2, <2>1 DEF OnQuit, OnPacket, SendBadIterator, Running, Crash, netVars, dataVars,
       faultVars
  <2>2. CASE Quit(t) \/ SendEnds(t) \/ SendNext(t) \/ SendFindsClosed(t) \/ OnJoin(t)
             \/ Insert(t) \/ SendMotion(t)
    BY <1>2, <2>2 DEF Quit, SendEnds, SendNext, SendFindsClosed, OnJoin, Insert, SendMotion,
       Running, faultVars
  <2> QED BY <1>2, <2>1, <2>2 DEF Run
<1>3. ASSUME Inv, Ordered, NullEntityTwoWays, [Next]_vars
      PROVE  NullEntityTwoWays'
  <2>1. CASE UNCHANGED vars
    BY <1>3, <2>1
       DEF NullEntityTwoWays, QuitFirst, NeverJoined, vars, netVars, dataVars, faultVars
  <2>2. ASSUME NEW t \in Threads, Run(t) PROVE NullEntityTwoWays'
    <3> SUFFICES ASSUME fault' = "null entity", spoiled' = {}
                 PROVE  \E o \in Threads : (stack[o] # <<>> /\ (QuitFirst(stack[o])
                                                  \/ NeverJoined(stack[o])))'
      BY DEF NullEntityTwoWays
    <3>1. UNCHANGED <<stack, connections, open, spoiled>> /\ stack[t] # <<>>
      BY <1>2, <2>2
    <3>2. QuitFirst(stack[t]) \/ NeverJoined(stack[t])
      BY <1>1, <1>3, <2>2, <3>1
    <3> QED BY <3>1, <3>2 DEF QuitFirst, NeverJoined
  <2>3. CASE \E c \in Conns : Accept(c) \/ Close(c) \/ Packet(c)
    BY <2>3 DEF NullEntityTwoWays, Accept, Close, Packet, MayCall, faultVars
  <2> QED BY <1>3, <2>1, <2>2, <2>3 DEF Next
<1>4. Init => NullEntityTwoWays
  BY DEF Init, NullEntityTwoWays
<1> QED BY <1>3, <1>4, OrderedAlways, PTL DEF Spec

-----------------------------------------------------------------------------
(* Iterators                                                                *)

GoodIterators == \A g \in Frames : g.at = "psend_all" => g.it \in Joined \cup {End}

LEMMA GoodOrBad == GoodIterators <=> ~BadIterators
  BY DEF GoodIterators, BadIterators, Frames, Joined

(* A second connection is found closed while a first one quits.             *)
TwoLost == \E c, d \in Stale : c # d /\ c \in Quitting /\ d \notin Joined'

(* A step that changes neither connections nor the calls, but for those that*)
(* have no iterator.                                                        *)
LEMMA GoodAfter ==
  ASSUME GoodIterators, Joined' = Joined,
         \A g \in Frames' : g.at = "psend_all" /\ g \notin Frames => g.it \in Joined \cup {End}
  PROVE  GoodIterators'
  BY DEF GoodIterators

LEMMA IteratorsRun ==
  ASSUME Inv, Shape, GoodIterators, NEW t \in Threads, Run(t)
  PROVE  GoodIterators' \/ TwoLost
<1>0. TypeOK /\ stack[t] # <<>> /\ connections \in Seq(Conns)
  BY DEF Inv, TypeOK, Run, Running, OnQuit, Quit, SendEnds, SendBadIterator, SendNext,
     SendFindsClosed, OnJoin, Insert, OnPacket, SendMotion
<1>1. PICK f \in Calls, r \in Seq(Calls) :
           /\ f = Head(stack[t]) /\ stack[t] = <<f>> \o r /\ Fits(t, f, r)
           /\ Frames = {f} \cup Range(r)
           /\ f.conn \in Conns
  BY <1>0, Context
<1>a. ASSUME NEW how, Crash(how) PROVE GoodIterators'
  BY <1>a DEF GoodIterators, Crash, netVars, dataVars, Joined, Frames
<1>b. \A s \in Seq(Calls) : Replaced(t, s) => Frames' = Range(s)
  BY <1>0, SoloAfter DEF Shape
<1>c. ASSUME Return(t), UNCHANGED connections
      PROVE  GoodIterators'
  <2>1. Frames' = Range(r) /\ Joined' = Joined
    BY <1>1, <1>b, <1>c, Replacing DEF Joined
  <2> QED BY <1>1, <2>1, GoodAfter
<1>d. ASSUME NEW g \in Calls, Become(t, g), UNCHANGED connections,
             g.at = "psend_all" => g.it \in Joined \cup {End}
      PROVE  GoodIterators'
  <2>1. PICK s \in Seq(Calls) : s = <<g>> \o r /\ Range(s) = {g} \cup Range(r)
    BY Pushed
  <2>2. Frames' = {g} \cup Range(r) /\ Joined' = Joined
    BY <1>1, <1>b, <1>d, <2>1, Replacing DEF Joined
  <2> QED BY <1>1, <1>d, <2>2, GoodAfter
<1>3. CASE OnQuit(t)
  <2>1. f.at = "on_quit"
    BY <1>1, <1>3 DEF OnQuit, Running
  <2>2. CASE /\ uuid[f.conn] \in entities
             /\ CallFrom(t, [f EXCEPT !.at = "quit"], PSendAll(Delete(uuid[f.conn]), f.conn))
             /\ UNCHANGED <<netVars, dataVars, clientVars>>
    <3>1. Delete(uuid[f.conn]) \in Messages
      BY <1>0, <2>2 DEF Delete, Messages, TypeOK
    <3>2. PICK g, h : g = PSendAll(Delete(uuid[f.conn]), f.conn) /\ h = [f EXCEPT !.at = "quit"]
      OBVIOUS
    <3>3. g \in Calls /\ g.at = "psend_all" /\ g.it \in Joined \cup {End}
      BY <1>0, <1>1, <3>1, <3>2, SendCall
    <3>4. h \in Calls /\ h.at = "quit" /\ h.conn = f.conn
      BY <1>1, <3>2 DEF Calls, Places
    <3> DEFINE s == <<g>> \o (<<h>> \o r)
    <3>5. s \in Seq(Calls) /\ Range(s) = {g, h} \cup Range(r)
      BY <3>3, <3>4, TwoPushed
    <3>a. Replaced(t, s)
      BY <1>1, <2>2, <3>2, <3>3, <3>4, Replacing
    <3> HIDE DEF s
    <3>6. Frames' = {g, h} \cup Range(r) /\ Joined' = Joined
      BY <1>b, <2>2, <3>5, <3>a DEF Joined, netVars, dataVars
    <3> QED BY <1>1, <3>3, <3>4, <3>6, GoodAfter
  <2> QED BY <1>1, <1>3, <1>a, <2>2 DEF OnQuit
<1>4. CASE Quit(t) \/ SendEnds(t)
  BY <1>4, <1>c DEF Quit, SendEnds, netVars, dataVars
<1>5. CASE SendBadIterator(t)
  BY <1>5, <1>a DEF SendBadIterator
<1>6. CASE SendNext(t)
  <2>1. PICK g : g = [Advance(f) EXCEPT !.whole = @ /\ f.it = f.conn]
    OBVIOUS
  <2>2. f.at = "psend_all" /\ f.it \in Joined /\ Become(t, g) /\ UNCHANGED connections
    BY <1>1, <1>6, <2>1 DEF SendNext, Running, netVars, dataVars, Joined
  <2>3. /\ After(connections, f.it) \in Conns \cup {End}
        /\ After(connections, f.it) \in Joined \cup {End}
    BY <1>0, <2>2, AfterOrder DEF Joined, Shape
  <2>4. g \in Calls /\ g.at = "psend_all" /\ g.it = After(connections, f.it)
    <3>1. PICK h : h = Advance(f)
      OBVIOUS
    <3>2. h \in Calls /\ h.at = "psend_all" /\ h.it = After(connections, f.it)
      BY <2>2, <2>3, <3>1 DEF Advance, Calls
    <3>3. PICK b \in BOOLEAN : b = (h.whole /\ f.it = f.conn)
      OBVIOUS
    <3>4. g = [h EXCEPT !.whole = b]
      BY <2>1, <3>1, <3>3
    <3> QED BY <3>2, <3>4 DEF Calls
  <2> QED BY <1>d, <2>2, <2>3, <2>4
<1>7. CASE SendFindsClosed(t)
  <2>1. PICK x, h, g : x = f.it /\ h = Advance(f) /\ g = Call("on_quit", x)
    OBVIOUS
  <2>2. /\ f.at = "psend_all" /\ x \in Joined \ open /\ CallFrom(t, h, g)
        /\ connections' = Erase(connections, x) /\ open' = open
    BY <1>1, <1>7, <2>1 DEF SendFindsClosed, Running, netVars, Joined
  <2>3. /\ After(connections, x) \in Conns \cup {End} /\ x \in Conns
        /\ After(connections, x) \in Joined \cup {End} /\ After(connections, x) # x
    BY <1>0, <2>2, AfterOrder DEF Joined, Shape, Range
  <2>4. h \in Calls /\ h.at = "psend_all" /\ h.it = After(connections, x)
    BY <2>1, <2>2, <2>3 DEF Advance, Calls
  <2>5. g \in Calls /\ g.at = "on_quit" /\ g.conn = x
    BY <2>1, <2>3, CallType DEF Call, Places
  <2>6. Joined' = Joined \ {x}
    BY <1>0, <2>2, EraseOrder DEF Joined, Shape
  <2>7. PICK s : s = <<g>> \o (<<h>> \o r)
    OBVIOUS
  <2>a. s \in Seq(Calls) /\ Range(s) = {g, h} \cup Range(r)
    BY <2>4, <2>5, <2>7, TwoPushed
  <2>8. Frames' = {g, h} \cup Range(r)
    BY <1>1, <1>b, <2>2, <2>4, <2>5, <2>7, <2>a, Replacing
  <2>9. ASSUME NEW e \in Range(r), e.at = "psend_all", e.it = x PROVE TwoLost
    <3>1. stack[t] \in Seq(Calls) /\ Tail(stack[t]) = r /\ StackOK(t)
      BY <1>0, <1>1, Pushed DEF TypeOK, Shape
    <3>2. PICK q \in Range(stack[t]) : <<q, e>> \in Links(stack[t])
      BY <1>0, <2>9, <3>1, CalledBy
    <3>3. LinkOK(q, e) /\ FrameOK(q) /\ q \in Calls
      BY <1>0, <3>1, <3>2, RangeType DEF StackOK
    <3>4. /\ q.at \in {"on_quit", "quit"} /\ q.conn \notin Joined /\ q.conn \notin open
          /\ q.conn \in Conns
      BY <2>9, <3>3 DEF LinkOK, FrameOK, Calls
    <3>5. q.conn \in Quitting
      BY <3>2, <3>4 DEF Quitting
    <3>6. q.conn \in Stale /\ x \in Stale
      BY <2>2, <3>4, <3>5 DEF Stale, Joined
    <3>7. q.conn # x /\ x \notin Joined'
      BY <2>2, <2>6, <3>4
    <3> QED BY <3>5, <3>6, <3>7 DEF TwoLost
  <2>10. CASE \A e \in Range(r) : e.at = "psend_all" => e.it # x
    BY <1>1, <2>3, <2>4, <2>5, <2>6, <2>8, <2>10 DEF GoodIterators
  <2> QED BY <2>9, <2>10
<1>8. CASE OnJoin(t)
  <2>1. PICK e, g, h \in Calls, q \in Seq(Calls), c \in Conns, u \in UUIDs \ entities :
          JoinCalls(t, e, g, h, q, c, u)
    BY <1>8, Joins
  <2>2. /\ Joined' = Joined /\ Frames' = {g, h} /\ h.at = "insert"
        /\ g.at = "psend_all" => g.it \in Joined \cup {End}
    BY <2>1 DEF JoinCalls
  <2> QED BY <2>2, GoodAfter
<1>9. CASE Insert(t)
  <2>1. f.at = "insert" /\ Return(t)
    BY <1>1, <1>9 DEF Insert, Running
  <2>2. r = <<>> /\ Range(r) = {}
    BY <1>1, <2>1, NoCalls DEF Fits, LinkOK
  <2>3. Frames' = {}
    BY <1>1, <1>b, <2>1, <2>2, Replacing
  <2> QED BY <2>3 DEF GoodIterators
<1>10. CASE OnPacket(t)
  <2>1. CASE Become(t, [f EXCEPT !.at = "motion"]) /\ UNCHANGED <<netVars, dataVars>>
    <3>1. PICK g : g = [f EXCEPT !.at = "motion"]
      OBVIOUS
    <3>2. g \in Calls /\ g.at = "motion"
      BY <3>1 DEF Calls, Places
    <3> QED BY <1>d, <2>1, <3>1, <3>2 DEF netVars, dataVars
  <2> QED BY <1>1, <1>10, <1>a, <2>1 DEF OnPacket
<1>11. CASE SendMotion(t)
  <2>1. UNCHANGED connections
    BY <1>11 DEF SendMotion, dataVars
  <2>2. Call("on_quit", f.conn) \in Calls /\ Call("on_quit", f.conn).at = "on_quit"
    BY <1>1, CallType DEF Call, Places
  <2> QED BY <1>1, <1>11, <1>c, <1>d, <2>1, <2>2 DEF SendMotion
<1> QED BY <1>3, <1>4, <1>5, <1>6, <1>7, <1>8, <1>9, <1>10, <1>11 DEF Run

(* An iterator of psend_all() is lost only when a second connection is found*)
(* closed while on_quit() of a first one runs inside that psend_all().      *)
THEOREM IteratorsLost == Spec => IteratorsLostOnlyByTwo
<1>1. ASSUME Inv, Ordered, [Next]_vars
      PROVE  [spoiled = {} /\ ~BadIterators /\ BadIterators' =>
               \E c, d \in Stale : c # d /\ c \in Quitting /\ d \notin Range(connections')]_vars
  <2> SUFFICES ASSUME spoiled = {}, GoodIterators, ~GoodIterators' PROVE TwoLost
    <3>1. BadIterators' <=> ~GoodIterators'
      BY DEF GoodIterators, BadIterators, Frames, Joined
    <3> QED BY <3>1, GoodOrBad DEF TwoLost, Joined
  <2>1. CASE UNCHANGED <<connections, stack>>
    BY <2>1 DEF GoodIterators, Joined, Frames
  <2>2. ASSUME NEW c \in Conns, Accept(c) \/ Packet(c) PROVE FALSE
    <3>1. PICK t \in Threads, place \in {"on_join", "on_packet"} :
            /\ stack' = [stack EXCEPT ![t] = <<Call(place, c)>>]
            /\ connections' = connections
      BY <2>2 DEF Accept, Packet, dataVars, Threads
    <3>2. ASSUME NEW g \in Frames' PROVE g \in Frames \/ g.at # "psend_all"
      <4>1. PICK o \in Threads : g \in Range(stack'[o])
        BY DEF Frames
      <4>2. CASE o # t
        BY <1>1, <3>1, <4>1, <4>2 DEF Inv, TypeOK, Frames
      <4>3. CASE o = t
        <5>1. stack'[o] = <<Call(place, c)>>
          BY <1>1, <3>1, <4>3 DEF Inv, TypeOK
        <5>2. g = Call(place, c)
          BY <4>1, <5>1 DEF Range
        <5> QED BY <5>2 DEF Call
      <4> QED BY <4>2, <4>3
    <3> QED BY <3>1, <3>2, GoodAfter DEF Joined
  <2>3. ASSUME NEW c \in Conns, Close(c) PROVE TwoLost
    BY <2>1, <2>3 DEF Close, dataVars
  <2>4. ASSUME NEW t \in Threads, Run(t) PROVE TwoLost
    BY <1>1, <2>4, IteratorsRun DEF Ordered
  <2> QED BY <1>1, <2>1, <2>2, <2>3, <2>4 DEF Next, vars, dataVars
<1> QED BY <1>1, OrderedAlways, PTL DEF Spec, IteratorsLostOnlyByTwo

-----------------------------------------------------------------------------
(* What is over when a call returns                                         *)

(* Only an outermost call leaves its thread outside the server.             *)
LEMMA LastReturn ==
  ASSUME Inv, Shape, NEW t \in Threads, stack[t] # <<>>, Run(t), stack'[t] = <<>>
  PROVE  Head(stack[t]).at \in Outermost(t) /\ ~OnJoin(t)
<1>0. TypeOK /\ \A s : Replaced(t, s) => stack'[t] = s
  BY DEF Inv, TypeOK, Replaced
<1>1. PICK f \in Calls, r \in Seq(Calls) :
        /\ f = Head(stack[t]) /\ r = Tail(stack[t])
        /\ stack[t] = <<f>> \o r /\ Fits(t, f, r)
  BY <1>0, Context
<1>2. \A g, h : <<g>> \o r # <<>> /\ <<g, h>> \o r # <<>>
  <2> SUFFICES ASSUME NEW g, NEW h PROVE <<g>> \o r # <<>> /\ <<g, h>> \o r # <<>>
    OBVIOUS
  <2> QED OBVIOUS
<1>3. ASSUME NEW g, NEW h PROVE ~Become(t, g) /\ ~CallFrom(t, g, h)
  <2>1. Become(t, g) => Replaced(t, <<g>> \o r)
    BY <1>1 DEF Become, Replaced
  <2>2. CallFrom(t, g, h) => Replaced(t, <<h, g>> \o r)
    BY <1>1 DEF CallFrom, Replaced
  <2>3. Replaced(t, <<g>> \o r) => stack'[t] = <<g>> \o r
    BY <1>0
  <2>4. Replaced(t, <<h, g>> \o r) => stack'[t] = <<h, g>> \o r
    BY <1>0
  <2> QED BY <1>2, <2>1, <2>2, <2>3, <2>4
<1>4. stack' # stack
  OBVIOUS
<1>5. Return(t)
  BY <1>3, <1>4 DEF Run, OnQuit, Quit, SendEnds, SendBadIterator, SendNext, SendFindsClosed,
     OnJoin, Insert, OnPacket, SendMotion, Crash
<1>6. r = <<>>
  BY <1>0, <1>1, <1>5, Replacing
<1>7. ~OnJoin(t)
  BY <1>3 DEF OnJoin
<1> QED BY <1>1, <1>6, <1>7 DEF Fits

(* After a join every connection is open and every entity has one, although *)
(* those found closed on the way quit in calls inside calls.                *)
THEOREM JoinsSweep == Spec => JoinSweeps
<1>1. ASSUME Inv, Ordered, Inv', [Next]_vars
      PROVE  [(spoiled = {} /\ stack["io"] # <<>> /\ stack'["io"] = <<>>) =>
                /\ Range(connections') \subseteq open'
                /\ entities' = {uuid'[c] : c \in Range(connections')}]_vars
  <2> SUFFICES ASSUME Shape, Notices, spoiled = {}, stack["io"] # <<>>, stack'["io"] = <<>>
               PROVE  /\ Joined' \subseteq open'
                      /\ entities' = {uuid'[c] : c \in Joined'}
    BY <1>1 DEF Joined, Ordered
  <2>0. "io" \in Threads
    BY DEF Threads
  <2>1. PICK t \in Threads : Run(t)
    <3>1. CASE UNCHANGED vars
      BY <3>1 DEF vars
    <3>2. CASE \E c \in Conns : Accept(c) \/ Close(c) \/ Packet(c)
      BY <1>1, <2>0, <3>2 DEF Accept, Close, Packet, MayCall, Inv, TypeOK
    <3> QED BY <1>1, <3>1, <3>2 DEF Next
  <2>2. stack[t] # <<>>
    BY <2>1 DEF Run, Running, OnQuit, Quit, SendEnds, SendBadIterator, SendNext,
       SendFindsClosed, OnJoin, Insert, OnPacket, SendMotion
  <2>3. t = "io"
    BY <1>1, <2>0, <2>2 DEF Shape, OneCaller
  <2>4. PICK f : f = Head(stack["io"])
    OBVIOUS
  <2>5. f.at \in {"on_join", "insert"}
    BY <1>1, <2>0, <2>1, <2>2, <2>3, <2>4, LastReturn DEF Outermost
  <2>6. f.at = "insert"
    <3>1. f.at # "on_join" \/ OnJoin(t)
      BY <2>1, <2>3, <2>4 DEF Run, Running, OnQuit, Quit, SendEnds, SendBadIterator, SendNext,
         SendFindsClosed, Insert, OnPacket, SendMotion
    <3>2. ~OnJoin(t)
      BY <1>1, <2>0, <2>1, <2>3, LastReturn
    <3> QED BY <2>5, <3>1, <3>2
  <2>7. Insert(t)
    BY <2>1, <2>3, <2>4, <2>6 DEF Run, Running, OnQuit, Quit, SendEnds, SendBadIterator,
       SendNext, SendFindsClosed, OnJoin, OnPacket, SendMotion
  <2>a. Shape'
    <3>1. spoiled' = {}
      BY <2>7 DEF Insert, faultVars
    <3> QED BY <1>1, <3>1, ShapeStep
  <2>8. /\ Joined' = Joined \cup {f.conn}
        /\ open' = open
    BY <2>3, <2>4, <2>7 DEF Insert, Orders, Joined, netVars
  <2>9. Joined \subseteq open /\ f.conn \in open
    BY <1>1, <2>0, <2>4, <2>6 DEF Notices, Swept, Shape, StackOK
  <2>10. \A o \in Threads : stack'[o] = <<>>
    BY <1>1, <2>0, <2>2, <2>3, <2>7 DEF Shape, OneCaller, Insert, Return, Inv, TypeOK
  <2>11. \A o \in Threads : Settled(stack'[o]) = {}
    BY <2>10 DEF Settled
  <2>12. \A u \in entities' : \E c \in Joined' : uuid'[c] = u
    BY <1>1, <2>11 DEF Inv, EntitiesOK, Kept, Joined
  <2>13. \A c \in Joined' : uuid'[c] \in entities'
    BY <2>a DEF Shape, UuidsOK
  <2> QED BY <2>8, <2>9, <2>12, <2>13
<1> QED BY <1>1, OrderedAlways, PTL DEF Spec, JoinSweeps

(* When on_packet() has found its connection closed and returns, neither the*)
(* connection nor its entity is left.                                       *)
THEOREM OwnersRemoved == Spec => ClosedOwnerRemoved
<1>1. ASSUME Inv, Ordered, [Next]_vars
      PROVE  [\A c \in Conns :
               (/\ spoiled = {}
                /\ Running("update", "quit")
                /\ stack'["update"] = <<>>
                /\ Head(stack["update"]).conn = c) =>
                 c \notin Range(connections') /\ uuid[c] \notin entities']_vars
  <2> SUFFICES ASSUME Shape, NEW c \in Conns, Running("update", "quit"),
                      stack'["update"] = <<>>, Head(stack["update"]).conn = c
               PROVE  c \notin Joined' /\ uuid[c] \notin entities'
    BY <1>1 DEF Joined, Ordered
  <2>0. "update" \in Threads /\ stack["update"] # <<>>
    BY DEF Threads, Running
  <2>1. PICK t \in Threads : Run(t)
    <3>1. CASE UNCHANGED vars
      BY <2>0, <3>1 DEF vars
    <3>2. CASE \E d \in Conns : Accept(d) \/ Close(d) \/ Packet(d)
      BY <1>1, <2>0, <3>2 DEF Accept, Close, Packet, MayCall, Inv, TypeOK
    <3> QED BY <1>1, <3>1, <3>2 DEF Next
  <2>2. stack[t] # <<>>
    BY <2>1 DEF Run, Running, OnQuit, Quit, SendEnds, SendBadIterator, SendNext,
       SendFindsClosed, OnJoin, Insert, OnPacket, SendMotion
  <2>3. t = "update"
    BY <1>1, <2>0, <2>2 DEF Shape, OneCaller
  <2>4. Quit(t)
    BY <2>1, <2>3 DEF Run, Running, OnQuit, SendEnds, SendBadIterator, SendNext,
       SendFindsClosed, OnJoin, Insert, OnPacket, SendMotion
  <2>5. c \notin Joined
    BY <1>1, <2>0 DEF Shape, StackOK, Running
  <2> QED BY <2>3, <2>4, <2>5 DEF Quit, Joined
<1> QED BY <1>1, OrderedAlways, PTL DEF Spec, ClosedOwnerRemoved

=============================================================================
