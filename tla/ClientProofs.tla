---------------------------- MODULE ClientProofs ----------------------------
(***************************************************************************)
(* The keys win, for any keys, any number of ticks and any width of the    *)
(* sequence number. (pending_inputs plays no part in it.)                  *)
(***************************************************************************)
EXTENDS Client, TLAPS

Inputs == [last_processed_input : Numbers, input_mask : Masks]
Motions == [last_processed_input : Numbers, a : Accelerations]

-----------------------------------------------------------------------------
(* The last packet of a queue is the one appended to it.                    *)
LEMMA AppendLast ==
  ASSUME NEW S, NEW q \in Seq(S), NEW e \in S
  PROVE  /\ Append(q, e) \in Seq(S)
         /\ Append(q, e) # <<>>
         /\ LastOf(Append(q, e)) = e
<1>1. Append(q, e) \in Seq(S)
  OBVIOUS
<1>2. Len(Append(q, e)) = Len(q) + 1 /\ Len(q) \in Nat
  OBVIOUS
<1>3. Append(q, e) # <<>>
  BY <1>1, <1>2
<1>4. Append(q, e)[Len(q) + 1] = e
  OBVIOUS
<1>. QED
  BY <1>1, <1>2, <1>3, <1>4 DEF LastOf

(* Taking a packet from the front leaves the last one where it is, unless   *)
(* it was the only one.                                                     *)
LEMMA TailLast ==
  ASSUME NEW S, NEW q \in Seq(S), q # <<>>
  PROVE  /\ Head(q) \in S
         /\ Tail(q) \in Seq(S)
         /\ Tail(q) # <<>> => LastOf(Tail(q)) = LastOf(q)
         /\ Tail(q) = <<>> => Head(q) = LastOf(q)
<1>1. Head(q) \in S /\ Tail(q) \in Seq(S)
  OBVIOUS
<1>2. Len(Tail(q)) = Len(q) - 1 /\ Len(q) \in Nat /\ Len(q) > 0
  OBVIOUS
<1>3. ASSUME Tail(q) # <<>>
      PROVE  LastOf(Tail(q)) = LastOf(q)
  <2>1. Len(Tail(q)) \in 1..Len(Tail(q))
    BY <1>1, <1>2, <1>3
  <2>2. Tail(q)[Len(Tail(q))] = q[Len(Tail(q)) + 1]
    BY <1>2, <2>1
  <2>3. Len(Tail(q)) + 1 = Len(q)
    BY <1>2
  <2>. QED
    BY <2>2, <2>3 DEF LastOf
<1>4. ASSUME Tail(q) = <<>>
      PROVE  Head(q) = LastOf(q)
  <2>1. Len(Tail(q)) = 0
    <3>1. Len(<<>>) = 0
      OBVIOUS
    <3>. QED
      BY <1>4, <3>1
  <2>2. Len(q) - 1 = 0 /\ Len(q) \in Nat
    BY <1>2, <2>1
  <2>3. \A n \in Nat : n - 1 = 0 => n = 1
    OBVIOUS
  <2>4. Len(q) = 1
    BY <2>2, <2>3, Zenon
  <2>. QED
    BY <2>4 DEF LastOf
<1>. QED
  BY <1>1, <1>3, <1>4

(* Masks, numbers and accelerations stay in their ranges.                   *)
LEMMA Ranges ==
  /\ \A keys : InputMask(keys) \in Masks
  /\ \A mask : InputMove(mask) \in Accelerations
  /\ \A n \in Numbers : NextNumber(n) \in Numbers
  /\ {} \in Masks
<1>1. \A keys : InputMask(keys) \in Masks
  BY DEF InputMask, Masks
<1>2. \A mask : InputMove(mask) \in Accelerations
  BY DEF InputMove, Accelerations
<1>3. \A n \in Numbers : NextNumber(n) \in Numbers
  <2>1. SeqMod \in Nat \ {0}
    BY NumbersAssumption
  <2>. QED
    BY <2>1 DEF NextNumber, Numbers
<1>4. {} \in Masks
  BY DEF Masks
<1>. QED
  BY <1>1, <1>2, <1>3, <1>4

-----------------------------------------------------------------------------
IInv == MovesOK /\ KeysObeyed

(* Before the first tick nothing is pressed and nothing under way.          *)
LEMMA InitInv == Init => IInv
<1>. SUFFICES ASSUME Init
              PROVE  IInv
  OBVIOUS
<1>1. /\ last_input_mask \in Masks
      /\ player \in Accelerations /\ entity \in Accelerations
  BY Ranges DEF Init
<1>2. input_sequence_number \in Numbers /\ limit \in 0..Limit /\ ticks \in Nat
  BY NumbersAssumption DEF Init, Numbers
<1>3. MovesOK
  BY <1>1, <1>2 DEF Init, MovesOK
<1>4. KeysObeyed
  BY DEF Init, KeysObeyed
<1>. QED
  BY <1>3, <1>4 DEF IInv

(* A tick applies the mask it sends.                                        *)
LEMMA TickInv ==
  ASSUME IInv, NEW keys \in KeySets, Tick(keys)
  PROVE  IInv'
<1>. DEFINE mask == InputMask(keys)
            n == NextNumber(input_sequence_number)
            packet == [last_processed_input |-> n, input_mask |-> mask]
<1>1. mask \in Masks /\ n \in Numbers /\ input_sequence_number \in Numbers
  BY Ranges DEF IInv, MovesOK
<1>2. packet \in Inputs
  BY <1>1 DEF Inputs
<1>3. /\ last_input_mask' \in Masks
      /\ input_sequence_number' \in Numbers
      /\ limit' \in 0..Limit
      /\ ticks' \in Nat
  BY <1>1, NumbersAssumption DEF Tick, IInv, MovesOK
<1>5. inputs \in Seq(Inputs)
  BY DEF IInv, MovesOK, Inputs
<1>6. UNCHANGED <<entity, motions>> /\ last_input_mask' = mask
  BY DEF Tick
<1>7. CASE Changed(mask)
  <2>1. inputs' = Append(inputs, packet) /\ player' = InputMove(mask)
    BY <1>7 DEF Tick
  <2>2. inputs' \in Seq(Inputs) /\ inputs' # <<>> /\ LastOf(inputs') = packet
    BY <1>2, <1>5, <2>1, AppendLast
  <2>3. player' \in Accelerations
    BY <2>1, Ranges
  <2>4. MovesOK'
    BY <1>3, <1>6, <2>2, <2>3 DEF IInv, MovesOK, Inputs
  <2>5. KeysObeyed'
    BY <1>6, <2>2 DEF KeysObeyed
  <2>. QED
    BY <2>4, <2>5 DEF IInv
<1>8. CASE ~Changed(mask)
  <2>1. UNCHANGED <<inputs, player>>
    BY <1>8 DEF Tick
  <2>2. last_input_mask' = last_input_mask
    BY <1>6, <1>8 DEF Changed
  <2>3. MovesOK'
    BY <1>3, <1>6, <2>1 DEF IInv, MovesOK
  <2>4. KeysObeyed'
    BY <1>6, <2>1, <2>2 DEF IInv, KeysObeyed
  <2>. QED
    BY <2>3, <2>4 DEF IInv
<1>. QED
  BY <1>7, <1>8

(* The server moves the entity as the oldest input says, and answers so.    *)
LEMMA OnPacketInv ==
  ASSUME IInv, OnPacket
  PROVE  IInv'
<1>. DEFINE t == Head(inputs)
            answer == [last_processed_input |-> t.last_processed_input, a |-> entity']
<1>1. inputs \in Seq(Inputs) /\ inputs # <<>> /\ motions \in Seq(Motions)
  BY DEF IInv, MovesOK, OnPacket, Inputs, Motions
<1>2. /\ t \in Inputs
      /\ Tail(inputs) \in Seq(Inputs)
      /\ Tail(inputs) # <<>> => LastOf(Tail(inputs)) = LastOf(inputs)
      /\ Tail(inputs) = <<>> => t = LastOf(inputs)
  BY <1>1, TailLast
<1>3. inputs' = Tail(inputs) /\ entity' = InputMove(t.input_mask)
  BY DEF OnPacket
<1>4. motions' = Append(motions, answer)
  BY DEF OnPacket
<1>5. entity' \in Accelerations
  BY <1>3, Ranges
<1>6. answer \in Motions /\ answer.a = entity'
  BY <1>2, <1>5 DEF Inputs, Motions
<1>7. motions' \in Seq(Motions) /\ motions' # <<>> /\ LastOf(motions') = answer
  BY <1>1, <1>4, <1>6, AppendLast
<1>8. UNCHANGED clientVars
  BY DEF OnPacket
<1>9. MovesOK'
  BY <1>2, <1>3, <1>5, <1>7, <1>8
  DEF IInv, MovesOK, Inputs, Motions, clientVars, sentVars
<1>10. KeysObeyed'
  <2>1. last_input_mask' = last_input_mask
    BY <1>8 DEF clientVars, sentVars
  <2>2. InputMove(LastOf(inputs).input_mask) = InputMove(last_input_mask)
    BY <1>1 DEF IInv, KeysObeyed
  <2>3. CASE Tail(inputs) = <<>>
    BY <1>2, <1>3, <1>6, <1>7, <2>1, <2>2, <2>3 DEF KeysObeyed
  <2>4. CASE Tail(inputs) # <<>>
    BY <1>2, <1>3, <2>1, <2>2, <2>4 DEF KeysObeyed
  <2>. QED
    BY <2>3, <2>4
<1>. QED
  BY <1>9, <1>10 DEF IInv

(* The listener moves the player as the oldest answer says.                 *)
LEMMA ListenInv ==
  ASSUME IInv, Listen
  PROVE  IInv'
<1>. DEFINE t == Head(motions)
<1>1. motions \in Seq(Motions) /\ motions # <<>>
  BY DEF IInv, MovesOK, Listen, Motions
<1>2. /\ t \in Motions
      /\ Tail(motions) \in Seq(Motions)
      /\ Tail(motions) # <<>> => LastOf(Tail(motions)) = LastOf(motions)
      /\ Tail(motions) = <<>> => t = LastOf(motions)
  BY <1>1, TailLast
<1>3. motions' = Tail(motions) /\ player' = t.a
  BY DEF Listen
<1>4. UNCHANGED <<sentVars, inputs, entity>>
  BY DEF Listen
<1>5. player' \in Accelerations
  BY <1>2, <1>3 DEF Motions
<1>7. limit' \in 0..Limit
  BY NumbersAssumption DEF IInv, MovesOK, Listen
<1>8. MovesOK'
  BY <1>2, <1>3, <1>4, <1>5, <1>7
  DEF IInv, MovesOK, Motions, sentVars
<1>9. KeysObeyed'
  BY <1>1, <1>2, <1>3, <1>4 DEF IInv, KeysObeyed, sentVars
<1>. QED
  BY <1>8, <1>9 DEF IInv

(* Every step preserves the invariant.                                      *)
LEMMA StepInv == IInv /\ [Next]_vars => IInv'
<1>. SUFFICES ASSUME IInv, [Next]_vars
              PROVE  IInv'
  OBVIOUS
<1>1. ASSUME NEW keys \in KeySets, Tick(keys)
      PROVE  IInv'
  BY <1>1, TickInv
<1>2. CASE OnPacket
  BY <1>2, OnPacketInv
<1>3. CASE Listen
  BY <1>3, ListenInv
<1>4. CASE ListenEnds
  BY <1>4, NumbersAssumption DEF ListenEnds, IInv, MovesOK, KeysObeyed, sentVars
<1>5. CASE UNCHANGED vars
  BY <1>5 DEF IInv, MovesOK, KeysObeyed, vars, clientVars, sentVars
<1>. QED
  BY <1>1, <1>2, <1>3, <1>4, <1>5 DEF Next

(* The invariant behind the theorem below.                                  *)
THEOREM Inductive == Spec => []IInv
  BY InitInv, StepInv, PTL DEF Spec

(* Client and server end up moving the player as the keys say, although     *)
(* only changes are sent and answers to older inputs are applied first.     *)
THEOREM KeysWin == Spec => []KeysObeyed
<1>1. IInv => KeysObeyed
  BY DEF IInv
<1>. QED
  BY <1>1, Inductive, PTL

=============================================================================
