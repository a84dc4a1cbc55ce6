-------------------------------- MODULE Motion --------------------------------
(***************************************************************************)
(* The physics of a player, IEntity::on_physics(), which the client runs to*)
(* predict and the server to decide, each with the length of its own ticks,*)
(* and the packets that set one right by the other. On the server two      *)
(* threads are at it: the main thread ticks, and the update thread sets the*)
(* acceleration and reads the velocity in the middle of it.                *)
(*                                                                         *)
(* One axis; the other one is the same. A velocity is counted in 1/Hz of   *)
(* the unit of the source and a tick in 1/Hz of a second, so that both are *)
(* integers and v += a * delta is exact. Positions are left out: they add  *)
(* up the velocities that a tick ends with.                                *)
(***************************************************************************)
EXTENDS Integers, Sequences

CONSTANTS
  MaxSpeed,    (* IEntity::max_speed: 150                                  *)
  Fric,        (* IEntity::fric: 50                                        *)
  Accel,       (* the acceleration input_move() sets: 700                  *)
  Hz,
  MaxTick,     (* the longest tick                                         *)
  Deltas,      (* the lengths of ticks                                     *)
  MaxInFlight  (* bound: packets under way in each direction               *)

Copies == {"client", "server"}
Forces == {-Accel, 0, Accel}

ASSUME ForcesAssumption ==
  /\ MaxSpeed \in Nat
  /\ Fric \in Nat \ {0}
  /\ Accel \in Nat \ {0}
  /\ Hz \in Nat \ {0}
  /\ MaxInFlight \in Nat \ {0}

(* No tick takes longer than a second. Nothing in the source sees to that:  *)
(* delta is whatever time has gone by.                                      *)
ASSUME TicksAssumption ==
  /\ MaxTick \in 1..Hz
  /\ Deltas \subseteq 1..MaxTick

VARIABLES
  v,           (* vx of each copy                                          *)
  a,           (* ax of each copy                                          *)
  keys,        (* last_input_mask: what the keys of the last tick ask for  *)
  phase,       (* where the server's on_physics() is: "none", "limit",     *)
               (* "friction"                                               *)
  delta,       (* and the length of its tick                               *)
  inputs,      (* C2S_CLIENT_INPUT under way                               *)
  motions      (* S2C_CLIENT_MOTION under way                              *)

ticking == <<phase, delta>>
vars == <<v, a, keys, ticking, inputs, motions>>

-----------------------------------------------------------------------------
(* on_physics()                                                             *)

Limit == MaxSpeed * Hz
Epsilon == Fric * Hz

(* Mutant: only the speed to the right is limited.                          *)
Terminal_Right(w) == IF w > Limit THEN Limit ELSE w

Terminal(w) == IF w > Limit THEN Limit ELSE IF w < -Limit THEN -Limit ELSE w

(* Mutant: a small velocity is not taken for none.                          *)
Braked_NoEpsilon(w, d) == IF w < 0 THEN w + Fric * d ELSE w - Fric * d

(* Friction is subtracted from a velocity of 0, too; that what is left of   *)
(* it, or beyond, counts as 0 up to fric is what makes it stop.             *)
Braked(w, d) ==
  LET left == IF w < 0 THEN w + Fric * d ELSE w - Fric * d
  IN  IF -Epsilon <= left /\ left <= Epsilon THEN 0 ELSE left

Friction(w, force, d) == IF force = 0 THEN Braked(w, d) ELSE w

Physics(w, force, d) == Friction(Terminal(w + force * d), force, d)

-----------------------------------------------------------------------------
(* Client::on_tick(): a change of the keys is applied and sent, and the     *)
(* player moves.                                                            *)
ClientTick(force, d) ==
  /\ \/ /\ force # keys
        /\ Len(inputs) < MaxInFlight
        /\ a' = [a EXCEPT !["client"] = force]
        /\ inputs' = Append(inputs, force)
     \/ /\ force = keys
        /\ UNCHANGED <<a, inputs>>
  /\ keys' = force
  /\ v' = [v EXCEPT !["client"] = Physics(@, a'["client"], d)]
  /\ UNCHANGED <<ticking, motions>>

(* game_listener(): set_transform()                                         *)
Listen ==
  /\ motions # <<>>
  /\ v' = [v EXCEPT !["client"] = Head(motions).v]
  /\ a' = [a EXCEPT !["client"] = Head(motions).a]
  /\ motions' = Tail(motions)
  /\ UNCHANGED <<keys, ticking, inputs>>

(* Server::on_tick(), on the main thread: on_physics() in three steps.      *)
Accelerate(d) ==
  /\ phase = "none"
  /\ v' = [v EXCEPT !["server"] = @ + a["server"] * d]
  /\ phase' = "limit"
  /\ delta' = d
  /\ UNCHANGED <<a, keys, inputs, motions>>

LimitSpeed ==
  /\ phase = "limit"
  /\ v' = [v EXCEPT !["server"] = Terminal(@)]
  /\ phase' = "friction"
  /\ UNCHANGED <<a, keys, delta, inputs, motions>>

ApplyFriction ==
  /\ phase = "friction"
  /\ v' = [v EXCEPT !["server"] = Friction(@, a["server"], delta)]
  /\ phase' = "none"
  /\ UNCHANGED <<a, keys, delta, inputs, motions>>

(* Mutant: the answer says how the player moved before the input.           *)
OnPacket_AnswersOld ==
  /\ inputs # <<>>
  /\ Len(motions) < MaxInFlight
  /\ a' = [a EXCEPT !["server"] = Head(inputs)]
  /\ motions' = Append(motions, [v |-> v["server"], a |-> a["server"]])
  /\ inputs' = Tail(inputs)
  /\ UNCHANGED <<v, keys, ticking>>

(* Server::on_packet(), on the update thread                                *)
OnPacket ==
  /\ inputs # <<>>
  /\ Len(motions) < MaxInFlight
  /\ a' = [a EXCEPT !["server"] = Head(inputs)]
  /\ motions' = Append(motions, [v |-> v["server"], a |-> Head(inputs)])
  /\ inputs' = Tail(inputs)
  /\ UNCHANGED <<v, keys, ticking>>

-----------------------------------------------------------------------------
Init ==
  /\ v = [c \in Copies |-> 0]
  /\ a = [c \in Copies |-> 0]
  /\ keys = 0
  /\ phase = "none"
  /\ delta = 0
  /\ inputs = <<>>
  /\ motions = <<>>

ServerTicks == (\E d \in Deltas : Accelerate(d)) \/ LimitSpeed \/ ApplyFriction

Next ==
  \/ \E force \in Forces, d \in Deltas : ClientTick(force, d)
  \/ Listen
  \/ ServerTicks
  \/ OnPacket

Spec == Init /\ [][Next]_vars

(* Both sides tick, and packets arrive. Nobody has to press a key.          *)
FairSpec ==
  /\ Spec
  /\ WF_vars(\E d \in Deltas : ClientTick(keys, d))
  /\ WF_vars(ServerTicks)
  /\ WF_vars(OnPacket)
  /\ WF_vars(Listen)

-----------------------------------------------------------------------------
UpTo(speed) == -speed..speed
Overshoot == Limit + Accel * MaxTick

(* max_speed is kept by the server whenever a tick ends, friction and a     *)
(* change of the acceleration in the middle of it notwithstanding. What the *)
(* client is told may have been read before the limit was applied, and is   *)
(* too fast by one tick's acceleration at most, not by those of many.       *)
SpeedBounded ==
  /\ v["server"] \in UpTo(IF phase = "limit" THEN Overshoot ELSE Limit)
  /\ v["client"] \in UpTo(Overshoot)
  /\ \A i \in DOMAIN motions : motions[i].v \in UpTo(Overshoot)

Brakes(w, u) == (0 <= u /\ u <= w) \/ (w <= u /\ u <= 0)

(* IEntity.cpp:66: friction is "an acceleration in the opposite direction": *)
(* without a force nothing but a packet from the server turns a velocity    *)
(* round or makes it larger, and what is at rest stays there.               *)
FrictionBrakes ==
  [][\A c \in Copies :
       a'[c] = 0 /\ (c = "server" \/ ~Listen) => Brakes(v[c], v'[c])]_vars

(* A player who lets go of the keys comes to rest on both sides, although   *)
(* answers to older inputs still set it moving again.                       *)
ComesToRest == keys = 0 ~> (v = [c \in Copies |-> 0] \/ keys # 0)

=============================================================================
