----------------------------- MODULE MotionProofs -----------------------------
(***************************************************************************)
(* That max_speed is kept and that friction brakes, for every speed, force *)
(* and friction, and every length of the ticks up to a second. Lemmas say  *)
(* what each step of on_physics() does to a velocity; the invariant then   *)
(* never looks into them.                                                  *)
(***************************************************************************)
EXTENDS Motion, TLAPS

-----------------------------------------------------------------------------
(* The limits are numbers: what the lemmas below need of the constants.     *)
LEMMA Numbers ==
  /\ Limit \in Nat /\ Epsilon \in Nat /\ Overshoot \in Nat
  /\ Limit <= Overshoot
  /\ MaxTick \in Nat /\ MaxTick <= Hz
  /\ \A d \in Deltas : d \in Nat /\ d <= MaxTick
<1>1. MaxTick \in Nat /\ MaxTick <= Hz /\ \A d \in Deltas : d \in Nat /\ d <= MaxTick
  BY ForcesAssumption, TicksAssumption
<1>2. Limit \in Nat /\ Epsilon \in Nat
  BY ForcesAssumption DEF Limit, Epsilon
<1>3. Accel * MaxTick \in Nat
  BY <1>1, ForcesAssumption
<1> QED BY <1>1, <1>2, <1>3 DEF Overshoot

(* The terminal velocity is within the limit, and never faster.             *)
LEMMA TerminalLimits ==
  ASSUME NEW w \in Int
  PROVE  Terminal(w) \in UpTo(Limit) /\ Brakes(w, Terminal(w))
<1> QED BY Numbers DEF Terminal, UpTo, Brakes

(* What friction takes from a velocity in a tick is less than Epsilon.      *)
LEMMA FrictionOfTick ==
  ASSUME NEW d \in Deltas
  PROVE  Fric * d \in Nat /\ Fric * d <= Epsilon
<1>1. Fric \in Nat /\ Hz \in Nat /\ d \in Nat /\ d <= Hz
  BY Numbers, ForcesAssumption
<1>2. Fric * (Hz - d) >= 0
  BY <1>1
<1>3. Fric * (Hz - d) = Fric * Hz - Fric * d
  BY <1>1
<1> QED BY <1>1, <1>2, <1>3 DEF Epsilon

(* Friction without a force brakes; with one it does nothing.               *)
LEMMA FrictionSlows ==
  ASSUME NEW w \in Int, NEW force, NEW d \in Deltas
  PROVE  Friction(w, force, d) \in Int /\ Brakes(w, Friction(w, force, d))
<1> DEFINE f == Fric * d
<1>1. f \in Nat /\ f <= Epsilon /\ Epsilon \in Nat
  BY FrictionOfTick, Numbers
<1>2. Braked(w, d) \in Int /\ Brakes(w, Braked(w, d))
  <2>1. Braked(w, d) = LET left == IF w < 0 THEN w + f ELSE w - f
                       IN  IF -Epsilon <= left /\ left <= Epsilon THEN 0 ELSE left
    BY DEF Braked
  <2> HIDE DEF f
  <2> QED BY <1>1, <2>1 DEF Brakes
<1>3. Brakes(w, w)
  BY DEF Brakes
<1> QED BY <1>2, <1>3 DEF Friction

(* What brakes stays within a limit.                                        *)
LEMMA BrakedStays ==
  ASSUME NEW n \in Nat, NEW w \in UpTo(n), NEW u \in Int, Brakes(w, u)
  PROVE  u \in UpTo(n)
<1> QED BY DEF UpTo, Brakes

(* One tick's acceleration.                                                 *)
LEMMA AccelerationOfTick ==
  ASSUME NEW w \in UpTo(Limit), NEW force \in Forces, NEW d \in Deltas
  PROVE  w + force * d \in UpTo(Overshoot)
<1>1. Accel \in Nat /\ d \in Nat /\ d <= MaxTick /\ MaxTick \in Nat /\ Limit \in Nat
  BY Numbers, ForcesAssumption
<1>2. Accel * d \in Nat /\ Accel * MaxTick \in Nat
  BY <1>1
<1>3. Accel * (MaxTick - d) >= 0 /\ Accel * (MaxTick - d) = Accel * MaxTick - Accel * d
  BY <1>1
<1>4. /\ force * d = Accel * d \/ force * d = 0 \/ force * d = -(Accel * d)
      /\ force * d \in Int
  BY <1>1 DEF Forces
<1> QED BY <1>1, <1>2, <1>3, <1>4 DEF UpTo, Overshoot

(* A whole tick, the client's: within the limit, and braking without force. *)
LEMMA TickLimits ==
  ASSUME NEW w \in Int, NEW force \in Forces, NEW d \in Deltas
  PROVE  /\ Physics(w, force, d) \in UpTo(Limit)
         /\ force = 0 => Brakes(w, Physics(w, force, d))
<1>1. w + force * d \in Int
  BY Numbers, ForcesAssumption DEF Forces
<1> DEFINE u == Terminal(w + force * d)
<1>2. u \in UpTo(Limit) /\ u \in Int /\ Brakes(w + force * d, u)
  BY <1>1, TerminalLimits, Numbers DEF UpTo
<1>3. Friction(u, force, d) \in Int /\ Brakes(u, Friction(u, force, d))
  BY <1>2, FrictionSlows
<1>4. Friction(u, force, d) \in UpTo(Limit)
  BY <1>2, <1>3, BrakedStays, Numbers
<1>5. force = 0 => Brakes(w, u)
  <2>1. force = 0 => w + force * d = w
    BY Numbers
  <2> QED BY <1>2, <2>1
<1>6. Physics(w, force, d) = Friction(u, force, d)
  BY DEF Physics
<1> HIDE DEF u
<1>7. Brakes(w, u) => Brakes(w, Friction(u, force, d))
  BY <1>2, <1>3 DEF Brakes
<1> QED BY <1>4, <1>5, <1>6, <1>7

-----------------------------------------------------------------------------
Told == [v : UpTo(Overshoot), a : Forces]

TypeOK ==
  /\ v \in [Copies -> Int]
  /\ a \in [Copies -> Forces]
  /\ keys \in Forces
  /\ phase \in {"none", "limit", "friction"}
  /\ phase # "none" => delta \in Deltas
  /\ inputs \in Seq(Forces)
  /\ motions \in Seq(Told)

(* The inductive invariant: that what is under way is not too fast is in    *)
(* the type of motions.                                                     *)
Inv ==
  /\ TypeOK
  /\ v["server"] \in UpTo(IF phase = "limit" THEN Overshoot ELSE Limit)
  /\ v["client"] \in UpTo(Overshoot)

LEMMA InvImplies == Inv => SpeedBounded
<1> SUFFICES ASSUME Inv PROVE SpeedBounded
  OBVIOUS
<1>1. \A i \in DOMAIN motions : motions[i] \in Told
  BY DEF Inv, TypeOK
<1>2. \A i \in DOMAIN motions : motions[i].v \in UpTo(Overshoot)
  BY <1>1 DEF Told
<1> QED BY <1>2 DEF Inv, SpeedBounded

LEMMA InitInv == Init => Inv
<1>1. 0 \in UpTo(Limit) /\ 0 \in UpTo(Overshoot)
  BY Numbers DEF UpTo
<1> QED BY <1>1 DEF Init, Inv, TypeOK, Forces, Copies

LEMMA Slower == UpTo(Limit) \subseteq UpTo(Overshoot) /\ UpTo(Overshoot) \subseteq Int
<1> QED BY Numbers DEF UpTo

(* Each step keeps the invariant, and brakes where it should.               *)
LEMMA StepInv ==
  ASSUME Inv, [Next]_vars
  PROVE  /\ Inv'
         /\ \A c \in Copies :
              a'[c] = 0 /\ (c = "server" \/ ~Listen) => Brakes(v[c], v'[c])
<1> USE DEF Copies
<1>0. /\ v["server"] \in Int /\ v["client"] \in Int
      /\ a["server"] \in Forces /\ a["client"] \in Forces /\ 0 \in Forces
  BY DEF Inv, TypeOK, Forces
<1>a. \A w \in Int : Brakes(w, w)
  BY DEF Brakes
<1>1. CASE \E force \in Forces, d \in Deltas : ClientTick(force, d)
  <2>1. PICK force \in Forces, d \in Deltas : ClientTick(force, d)
    BY <1>1
  <2>2. a' \in [Copies -> Forces] /\ a'["server"] = a["server"] /\ inputs' \in Seq(Forces)
    <3>1. CASE a' = [a EXCEPT !["client"] = force] /\ inputs' = Append(inputs, force)
      BY <3>1 DEF Inv, TypeOK
    <3>2. CASE UNCHANGED <<a, inputs>>
      BY <3>2 DEF Inv, TypeOK
    <3> QED BY <2>1, <3>1, <3>2 DEF ClientTick
  <2>3. /\ v'["client"] = Physics(v["client"], a'["client"], d)
        /\ v' = [v EXCEPT !["client"] = v'["client"]]
    BY <2>1 DEF ClientTick, Inv, TypeOK
  <2>4. /\ v'["client"] \in UpTo(Limit)
        /\ a'["client"] = 0 => Brakes(v["client"], v'["client"])
    BY <1>0, <2>2, <2>3, TickLimits
  <2>5. v' \in [Copies -> Int] /\ v'["server"] = v["server"] /\ v'["client"] \in UpTo(Overshoot)
    BY <2>3, <2>4, Slower DEF Inv, TypeOK
  <2>6. Inv'
    BY <2>1, <2>2, <2>5 DEF Inv, TypeOK, ClientTick, ticking
  <2> QED BY <1>0, <1>a, <2>4, <2>5, <2>6
<1>2. CASE Listen
  <2>1. Head(motions) \in Told /\ motions' \in Seq(Told)
    BY <1>2 DEF Listen, Inv, TypeOK
  <2>2. Head(motions).v \in UpTo(Overshoot) /\ Head(motions).a \in Forces
    BY <2>1 DEF Told
  <2>3. v' = [v EXCEPT !["client"] = Head(motions).v] /\ a' = [a EXCEPT !["client"] = Head(motions).a]
    BY <1>2 DEF Listen
  <2>4. Inv'
    BY <1>2, <2>1, <2>2, <2>3, Slower DEF Inv, TypeOK, Listen, ticking
  <2>5. v'["server"] = v["server"]
    BY <2>3 DEF Inv, TypeOK
  <2> QED BY <1>0, <1>a, <1>2, <2>4, <2>5
<1>3. CASE \E d \in Deltas : Accelerate(d)
  <2>1. PICK d \in Deltas : Accelerate(d)
    BY <1>3
  <2>2. v["server"] \in UpTo(Limit)
    BY <2>1 DEF Accelerate, Inv
  <2>3. v["server"] + a["server"] * d \in UpTo(Overshoot)
    BY <1>0, <2>2, AccelerationOfTick
  <2>4. a["server"] = 0 => v["server"] + a["server"] * d = v["server"]
    BY <1>0, Numbers
  <2>5. /\ v' = [v EXCEPT !["server"] = v["server"] + a["server"] * d]
        /\ phase' = "limit" /\ delta' = d /\ UNCHANGED <<a, keys, inputs, motions>>
    BY <2>1 DEF Accelerate
  <2>6. /\ v' \in [Copies -> Int] /\ v'["client"] = v["client"]
        /\ v'["server"] = v["server"] + a["server"] * d
    BY <2>3, <2>5, Slower DEF Inv, TypeOK
  <2>7. Inv'
    BY <2>3, <2>5, <2>6 DEF Inv, TypeOK
  <2> QED BY <1>0, <1>a, <2>4, <2>5, <2>6, <2>7
<1>4. CASE LimitSpeed
  <2>1. Terminal(v["server"]) \in UpTo(Limit) /\ Brakes(v["server"], Terminal(v["server"]))
    BY <1>0, TerminalLimits
  <2>2. /\ v' = [v EXCEPT !["server"] = Terminal(v["server"])] /\ phase = "limit"
        /\ phase' = "friction" /\ UNCHANGED <<a, keys, delta, inputs, motions>>
    BY <1>4 DEF LimitSpeed
  <2>3. /\ v' \in [Copies -> Int] /\ v'["client"] = v["client"]
        /\ v'["server"] = Terminal(v["server"])
    BY <2>1, <2>2, Slower DEF Inv, TypeOK
  <2>4. Inv'
    BY <2>1, <2>2, <2>3 DEF Inv, TypeOK
  <2> QED BY <1>0, <1>a, <2>1, <2>3, <2>4
<1>5. CASE ApplyFriction
  <2> DEFINE u == Friction(v["server"], a["server"], delta)
  <2>1. v["server"] \in UpTo(Limit) /\ delta \in Deltas
    BY <1>5 DEF ApplyFriction, Inv, TypeOK
  <2>2. u \in Int /\ Brakes(v["server"], u)
    BY <1>0, <2>1, FrictionSlows
  <2>3. u \in UpTo(Limit)
    BY <2>1, <2>2, BrakedStays, Numbers
  <2>4. /\ v' = [v EXCEPT !["server"] = u]
        /\ phase' = "none" /\ UNCHANGED <<a, keys, delta, inputs, motions>>
    BY <1>5 DEF ApplyFriction
  <2> HIDE DEF u
  <2>5. v' \in [Copies -> Int] /\ v'["client"] = v["client"] /\ v'["server"] = u
    BY <2>2, <2>4 DEF Inv, TypeOK
  <2>6. Inv'
    BY <2>3, <2>4, <2>5 DEF Inv, TypeOK
  <2> QED BY <1>0, <1>a, <2>2, <2>5, <2>6
<1>6. CASE OnPacket
  <2>1. Head(inputs) \in Forces /\ inputs' \in Seq(Forces)
    BY <1>6 DEF OnPacket, Inv, TypeOK
  <2>2. v["server"] \in UpTo(Overshoot)
    BY Slower DEF Inv
  <2>3. motions' \in Seq(Told)
    BY <1>6, <2>1, <2>2 DEF OnPacket, Inv, TypeOK, Told
  <2>4. Inv'
    BY <1>6, <2>1, <2>3 DEF OnPacket, Inv, TypeOK, ticking
  <2> QED BY <1>0, <1>a, <1>6, <2>4 DEF OnPacket
<1>7. CASE UNCHANGED vars
  BY <1>0, <1>a, <1>7 DEF vars, ticking, Inv, TypeOK
<1> QED BY <1>1, <1>2, <1>3, <1>4, <1>5, <1>6, <1>7 DEF Next, ServerTicks

-----------------------------------------------------------------------------
(* The inductive invariant holds in every reachable state.                  *)
THEOREM InvAlways == Spec => []Inv
<1>1. Inv /\ [Next]_vars => Inv'
  BY StepInv
<1> QED BY InitInv, <1>1, PTL DEF Spec

(* Neither side is ever faster than max_speed, but for one acceleration the *)
(* server has not limited yet (IEntity.cpp:55).                             *)
THEOREM SpeedIsBounded == Spec => []SpeedBounded
<1> QED BY InvAlways, InvImplies, PTL

(* With ticks of up to a second, friction never turns a player round nor    *)
(* sets one at rest in motion (IEntity.cpp:79).                             *)
THEOREM FrictionAlwaysBrakes == Spec => FrictionBrakes
<1> DEFINE Step == \A c \in Copies :
       a'[c] = 0 /\ (c = "server" \/ ~Listen) => Brakes(v[c], v'[c])
<1>1. Inv /\ [Next]_vars => [Step]_vars
  BY StepInv
<1>2. Spec => [][Step]_vars
  BY <1>1, InvAlways, PTL DEF Spec
<1> QED BY <1>2 DEF FrictionBrakes

=============================================================================
