-------------------------------- MODULE Client --------------------------------
(***************************************************************************)
(* The input of one player: Client::on_tick() and the game_listener() of   *)
(* Client/network/Client.cpp on the main thread of the client, and         *)
(* Server::on_packet() that answers it. The two connections between them   *)
(* deliver in order what is sent. Positions are left out: what the player  *)
(* does is the acceleration that input_move() sets.                        *)
(***************************************************************************)
EXTENDS Integers, Sequences

CONSTANTS
  KeySets,     (* the sets of keys that may be down in a tick              *)
  SeqMod,      (* input_sequence_number is a uint16_t: 2^16 in the source  *)
  Limit,       (* packets the listener is given per tick; 5 in the source  *)
  MaxTicks     (* bound: ticks of the client                               *)

ASSUME KeysAssumption == KeySets \subseteq SUBSET {"W", "A", "S", "D"}
ASSUME NumbersAssumption ==
  /\ {SeqMod, Limit} \subseteq Nat \ {0}
  /\ MaxTicks \in Nat

VARIABLES
  last_input_mask,
  input_sequence_number,
  pending_inputs,
  player,      (* acceleration of the player on the client                 *)
  inputs,      (* C2S_CLIENT_INPUT on their way to the server              *)
  entity,      (* acceleration of the player on the server                 *)
  motions,     (* S2C_CLIENT_MOTION on their way to the listener           *)
  limit,       (* what is left of Limit; 0 outside the listener's loop     *)
  ticks        (* ticks so far, for MaxTicks                               *)

sentVars == <<last_input_mask, input_sequence_number, ticks>>
clientVars == <<sentVars, pending_inputs, player, limit>>
vars == <<clientVars, inputs, entity, motions>>

-----------------------------------------------------------------------------
(* A mask is the set of its bits. Of opposite keys one counts.              *)
Bits == {"PRESS_UP", "PRESS_RIGHT", "PRESS_DOWN", "PRESS_LEFT"}
InputMask(keys) ==
  {b \in Bits : \/ b = "PRESS_UP" /\ "W" \in keys
                \/ b = "PRESS_DOWN" /\ "S" \in keys /\ "W" \notin keys
                \/ b = "PRESS_RIGHT" /\ "D" \in keys
                \/ b = "PRESS_LEFT" /\ "A" \in keys /\ "D" \notin keys}

(* input_move(): the acceleration a mask asks for.                          *)
InputMove(mask) ==
  [ax |-> IF "PRESS_LEFT" \in mask THEN -700
          ELSE IF "PRESS_RIGHT" \in mask THEN 700 ELSE 0,
   ay |-> IF "PRESS_UP" \in mask THEN -700
          ELSE IF "PRESS_DOWN" \in mask THEN 700 ELSE 0]

(* { input_mask, input_sequence_number } initialises the first two of the   *)
(* three fields of SequencedInput.                                          *)
SequencedInput(mask, n) ==
  [press_time |-> mask, input_mask |-> n, input_sequence_number |-> 0]

NextNumber(n) == (n + 1) % SeqMod

(* Mutant: only pressing a key counts as a change.                          *)
Changed_OnPress(mask) == ~ (mask \subseteq last_input_mask)
Changed(mask) == mask # last_input_mask

(* on_tick(), with the listener's loop still to come. Every input is        *)
(* pending, but only a change is applied and sent, with the next number.    *)
Tick(keys) ==
  /\ limit = 0
  /\ ticks < MaxTicks
  /\ LET mask == InputMask(keys)
         n == NextNumber(input_sequence_number)
     IN  /\ pending_inputs' =
              Append(pending_inputs, SequencedInput(mask, input_sequence_number))
         /\ input_sequence_number' = n
         /\ \/ /\ Changed(mask)
               /\ player' = InputMove(mask)
               /\ inputs' = Append(inputs,
                    [last_processed_input |-> n, input_mask |-> mask])
            \/ /\ ~Changed(mask)
               /\ UNCHANGED <<player, inputs>>
         /\ last_input_mask' = mask
  /\ limit' = Limit
  /\ ticks' = ticks + 1
  /\ UNCHANGED <<entity, motions>>

(* Server::on_packet().                                                     *)
OnPacket ==
  /\ inputs # <<>>
  /\ LET t == Head(inputs)
     IN  /\ entity' = InputMove(t.input_mask)
         /\ motions' = Append(motions,
              [last_processed_input |-> t.last_processed_input, a |-> entity'])
  /\ inputs' = Tail(inputs)
  /\ UNCHANGED clientVars

(* game_listener() of a motion: the server's transform always, and the      *)
(* inputs it has processed are pending no longer.                           *)
Listen ==
  /\ limit > 0
  /\ motions # <<>>
  /\ LET t == Head(motions)
     IN  /\ player' = t.a
         /\ pending_inputs' = SelectSeq(pending_inputs, LAMBDA input :
              ~ (input.input_sequence_number <= t.last_processed_input))
  /\ motions' = Tail(motions)
  /\ limit' = limit - 1
  /\ UNCHANGED <<sentVars, inputs, entity>>

(* in_packets is empty, what is on its way notwithstanding.                 *)
ListenEnds ==
  /\ limit > 0
  /\ limit' = 0
  /\ UNCHANGED <<sentVars, pending_inputs, player, inputs, entity, motions>>

-----------------------------------------------------------------------------
(* Client() leaves input_sequence_number uninitialized.                     *)
Init ==
  /\ last_input_mask = {}
  /\ input_sequence_number \in 0..(SeqMod - 1)
  /\ pending_inputs = <<>>
  /\ player = InputMove({})
  /\ inputs = <<>>
  /\ entity = InputMove({})
  /\ motions = <<>>
  /\ limit = 0
  /\ ticks = 0

Next ==
  \/ \E keys \in KeySets : Tick(keys)
  \/ OnPacket
  \/ Listen
  \/ ListenEnds

Spec == Init /\ [][Next]_vars

-----------------------------------------------------------------------------
Masks == SUBSET Bits
Accelerations == [ax : {-700, 0, 700}, ay : {-700, 0, 700}]
Numbers == 0..(SeqMod - 1)

(* Every variable that moves the player stays in its range.                 *)
MovesOK ==
  /\ last_input_mask \in Masks
  /\ input_sequence_number \in Numbers
  /\ player \in Accelerations
  /\ inputs \in Seq([last_processed_input : Numbers, input_mask : Masks])
  /\ entity \in Accelerations
  /\ motions \in Seq([last_processed_input : Numbers, a : Accelerations])
  /\ limit \in 0..Limit
  /\ ticks \in Nat

LastOf(s) == s[Len(s)]

(* Only changes are sent, and an answer to an older input throws the player *)
(* back. Still the keys that are down win: when nothing is under way client *)
(* and server move the player as they say, and before that the last packet  *)
(* under way, in either direction, says so too.                             *)
KeysObeyed ==
  LET wanted == InputMove(last_input_mask)
  IN  /\ inputs # <<>> => InputMove(LastOf(inputs).input_mask) = wanted
      /\ inputs = <<>> => entity = wanted
      /\ inputs = <<>> /\ motions # <<>> => LastOf(motions).a = wanted
      /\ inputs = <<>> /\ motions = <<>> => player = wanted

(* Client.cpp:227: reconciliation is to "Apply the next unprocessed input". *)
(* So an input the server has not seen yet is still pending.                *)
UnprocessedPending == Len(inputs) <= Len(pending_inputs)

=============================================================================
