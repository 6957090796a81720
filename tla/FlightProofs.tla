---------------------------- MODULE FlightProofs ----------------------------
(***************************************************************************)
(* The flight node's pair rule and its gate, for every envelope, pair limit, *)
(* rate and scale.                                                           *)
(***************************************************************************)
EXTENDS Flight, TLAPS

-----------------------------------------------------------------------------
(* Arithmetic, on plain integers *)

(* clamp_pm returns a value between its bounds *)
LEMMA ClampBounds ==
  ASSUME NEW v \in Int, NEW lo \in Int, NEW hi \in Int, lo <= hi
  PROVE  Clamp(v, lo, hi) \in lo .. hi
BY DEF Clamp

(* A horn that slews from a place in the envelope to another stays in it *)
LEMMA SlewInside ==
  ASSUME NEW e \in Nat, NEW a \in -e .. e, NEW x \in -e .. e, NEW s \in Nat
  PROVE  Slewed(a, x, s) \in -e .. e
BY DEF Slewed, Clamp

(* Two horns that are apart and slew alike to places that are apart are apart
   on the way: when one has arrived or crossed neutral, the other is either
   within its target or has come down as far as the first may have gone up *)
LEMMA SlewApart ==
  ASSUME NEW m \in Nat, NEW a \in Int, NEW b \in Int, NEW x \in Int, NEW y \in Int,
         NEW s \in Nat, Abs(a) + Abs(b) <= m, Abs(x) + Abs(y) <= m
  PROVE  Abs(Slewed(a, x, s)) + Abs(Slewed(b, y, s)) <= m
BY SMTT(30) DEF Slewed, Clamp, Abs

(* The equal cut brings an overlapping pair to the limit or below it *)
LEMMA CutEnough ==
  ASSUME NEW m \in Nat, NEW e \in Nat, e <= m, NEW a \in -e .. e, NEW b \in -e .. e,
         Abs(a) + Abs(b) > m,
         NEW c \in Int, c = (Abs(a) + Abs(b) - m + 1) \div 2
  PROVE  /\ Less(a, c) \in -e .. e /\ Less(b, c) \in -e .. e
         /\ Abs(Less(a, c)) + Abs(Less(b, c)) <= m
<1>1. c >= 1 /\ 2 * c >= Abs(a) + Abs(b) - m
  BY DEF Abs
<1> QED BY <1>1, SMTT(30) DEF Less, Abs

(* The first two loops of servo_task leave targets inside the envelope and
   apart *)
LEMMA ExcludeApart ==
  ASSUME NEW w \in [Flaps -> -ENV .. ENV]
  PROVE  Exclude(w) \in [Flaps -> -ENV .. ENV] /\ Apart(Exclude(w))
<1>0. ENV \in Nat /\ PAIR_MAX \in Nat /\ ENV <= PAIR_MAX
  BY FlightConstants DEF FlightConstants
<1>1. w[1] \in -ENV .. ENV /\ w[2] \in -ENV .. ENV
  BY DEF Flaps
<1>2. CASE Apart(w)
  BY <1>2 DEF Exclude
<1>3. CASE ~Apart(w)
  <2> DEFINE c == Cut(w)
  <2>1. c \in Int /\ c = (Abs(w[1]) + Abs(w[2]) - PAIR_MAX + 1) \div 2
    BY <1>0, <1>1 DEF Cut, Abs
  <2>2. Abs(w[1]) + Abs(w[2]) > PAIR_MAX
    BY <1>0, <1>1, <1>3 DEF Apart, Abs
  <2>3. /\ Less(w[1], c) \in -ENV .. ENV /\ Less(w[2], c) \in -ENV .. ENV
        /\ Abs(Less(w[1], c)) + Abs(Less(w[2], c)) <= PAIR_MAX
    <3> HIDE DEF c
    <3> QED BY <1>0, <1>1, <2>1, <2>2, CutEnough
  <2>4. Exclude(w) = [f \in Flaps |-> Less(w[f], c)]
    BY <1>3 DEF Exclude
  <2> HIDE DEF c
  <2> QED BY <2>3, <2>4 DEF Apart, Flaps
<1> QED BY <1>2, <1>3

-----------------------------------------------------------------------------
(* The inductive invariant: the pending targets are apart, and once a late move
   has been made none is pending *)
WantApart == moving => Apart(want)
LateOnce  == late <= 1 /\ (state = OPERATIONAL => late = 0) /\ (late = 1 => ~act)
Inv == TypeOK /\ HornsApart /\ WantApart /\ LateOnce

(* app_main starts the task with the horns at neutral and nothing commanded *)
LEMMA InvInit == Init => Inv
<1> SUFFICES ASSUME Init PROVE Inv
  OBVIOUS
<1> USE FlightConstants, FlightStates DEF FlightConstants, FlightStates, Init
<1>1. target \in [Flaps -> [pos : -INGEST .. INGEST, rate_lim : Nat, brake : BOOLEAN]]
  BY DEF Neutral
<1>2. /\ want \in [Flaps -> -ENV .. ENV] /\ cur \in [Flaps -> -ENV .. ENV]
      /\ step \in [Flaps -> Nat]
  BY DEF Still
<1>3. TypeOK
  <2>1. state \in States /\ cb \in States \cup {FAULT}
    OBVIOUS
  <2>2. late \in Nat /\ walked \in 0 .. HOME
    OBVIOUS
  <2> QED BY <1>1, <1>2, <2>1, <2>2, Zenon DEF TypeOK
<1>4. HornsApart
  BY DEF HornsApart, Apart, Abs, Still, Flaps
<1> QED BY <1>3, <1>4 DEF Inv, WantApart, LateOnce

(* What the first loop of servo_task makes of the stored commands *)
Targets(can_act) == [f \in Flaps |-> IF can_act THEN Wanted(target[f]) ELSE 0]

(* The clamp of servo_task puts every target inside the envelope *)
LEMMA TargetsInside ==
  ASSUME TypeOK, NEW can_act \in BOOLEAN
  PROVE  Targets(can_act) \in [Flaps -> -ENV .. ENV]
<1> USE FlightConstants DEF FlightConstants
<1>1. ASSUME NEW f \in Flaps PROVE Wanted(target[f]) \in -ENV .. ENV
  <2>1. (IF target[f].brake THEN BRAKE ELSE target[f].pos) \in Int
    BY DEF TypeOK
  <2>2. -ENV \in Int /\ ENV \in Int /\ -ENV <= ENV
    OBVIOUS
  <2> QED BY Zenon, <2>1, <2>2, ClampBounds DEF Wanted
<1> QED BY <1>1 DEF Targets

(* Init and every action keep the types *)
LEMMA TypeStep == TypeOK /\ [Next]_vars => TypeOK'
<1> SUFFICES ASSUME TypeOK, [Next]_vars PROVE TypeOK'
  OBVIOUS
<1> USE FlightConstants, FlightStates DEF FlightConstants, FlightStates
<1>1. CASE Change
  BY <1>1 DEF TypeOK, Change, tick, talk
<1>2. CASE Callback
  BY <1>2 DEF TypeOK, Callback, tick, talk, seen, Neutral
<1>3. ASSUME NEW f \in Flaps, FlapCmd(f) PROVE TypeOK'
  <2>1. PICK c \in Cmds :
          target' = [target EXCEPT ![f] = [c EXCEPT !.pos = Clamp(@, -INGEST, INGEST)]]
    BY Zenon, <1>3 DEF FlapCmd
  <2>2. c.pos \in Int /\ c.rate_lim \in Nat /\ c.brake \in BOOLEAN
    OBVIOUS
  <2>3. Clamp(c.pos, -INGEST, INGEST) \in -INGEST .. INGEST
    <3>1. -INGEST \in Int /\ INGEST \in Int /\ -INGEST <= INGEST
      OBVIOUS
    <3> QED BY Zenon, <2>2, <3>1, ClampBounds
  <2>4. target' \in [Flaps -> [pos : -INGEST .. INGEST, rate_lim : Nat, brake : BOOLEAN]]
    BY <2>1, <2>2, <2>3 DEF TypeOK
  <2> QED BY <1>3, <2>4 DEF TypeOK, FlapCmd, tick, talk, seen
<1>4. CASE Wake
  <2>2. Targets(act') \in [Flaps -> -ENV .. ENV]
    BY Zenon, <1>4, TargetsInside DEF Wake, Gate
  <2>3. want' \in [Flaps -> -ENV .. ENV]
    BY <1>4, <2>2, ExcludeApart DEF Wake, Targets
  <2>4. \A f \in Flaps, s \in Scales : Step(Rate(target[f], act'), s) \in Nat
    <3> TAKE f \in Flaps, s \in Scales
    <3>1. Rate(target[f], act') \in Nat
      BY DEF TypeOK, Rate
    <3>2. \A r \in Nat : Step(r, s) \in Nat
      BY DEF Step
    <3> QED BY <3>1, <3>2
  <2>5. step' \in [Flaps -> Nat]
    BY <1>4, <2>4 DEF Wake
  <2>6. act' \in BOOLEAN /\ moving' \in BOOLEAN
    BY <1>4 DEF Wake, Gate
  <2> QED BY <1>4, <2>3, <2>5, <2>6 DEF TypeOK, Wake, talk, seen
<1>5. CASE Move
  <2>1. \A f \in Flaps : Slewed(cur[f], want[f], step[f]) \in -ENV .. ENV
    BY SlewInside DEF TypeOK
  <2>2. cur' \in [Flaps -> -ENV .. ENV]
    BY <1>5, <2>1 DEF Move
  <2>3. want' \in [Flaps -> -ENV .. ENV] /\ step' \in [Flaps -> Nat]
    BY <1>5 DEF Move, Still
  <2>4. moving' \in BOOLEAN /\ act' \in BOOLEAN /\ uneven' \in BOOLEAN
    BY Zenon, <1>5 DEF Move
  <2>5. sent' \in BOOLEAN /\ heard' \in BOOLEAN
    BY Zenon, <1>5 DEF Move, TypeOK
  <2>6. late' \in Nat /\ walked' \in 0 .. HOME
    BY <1>5 DEF Move, TypeOK
  <2> QED BY <1>5, <2>2, <2>3, <2>4, <2>5, <2>6 DEF TypeOK, Move
<1>6. ASSUME NEW slot \in BOOLEAN, NEW lost \in BOOLEAN, Aero(slot, lost) PROVE TypeOK'
  BY <1>6 DEF TypeOK, Aero, tick, seen
<1>7. CASE UNCHANGED vars
  BY <1>7 DEF TypeOK, vars, tick, talk, seen
<1> QED BY <1>1, <1>2, <1>3, <1>4, <1>5, <1>6, <1>7 DEF Next, Servo

(* Only Wake sets targets, only Move moves the horns and makes a move late *)
LEMMA InvStep == Inv /\ [Next]_vars => Inv'
<1> SUFFICES ASSUME Inv, [Next]_vars PROVE Inv'
  OBVIOUS
<1>0. TypeOK /\ TypeOK'
  BY TypeStep DEF Inv
<1>1. CASE Change
  BY <1>0, <1>1 DEF Inv, HornsApart, WantApart, LateOnce, Change, tick
<1>2. CASE Callback
  BY <1>0, <1>2 DEF Inv, HornsApart, WantApart, LateOnce, Callback, tick, seen
<1>3. ASSUME NEW f \in Flaps, FlapCmd(f) PROVE Inv'
  BY <1>0, <1>3 DEF Inv, HornsApart, WantApart, LateOnce, FlapCmd, tick, seen
<1>4. CASE Wake
  <2>1. Targets(act') \in [Flaps -> -ENV .. ENV]
    BY Zenon, <1>0, <1>4, TargetsInside DEF Wake, Gate
  <2>2. WantApart'
    BY <1>4, <2>1, ExcludeApart DEF WantApart, Wake, Apart, Targets
  <2>3. HornsApart'
    BY <1>4 DEF Inv, HornsApart, Wake, seen, Apart
  <2>4. LateOnce'
    BY <1>0, <1>4 DEF Inv, LateOnce, Wake, Gate, seen, TypeOK
  <2> QED BY <1>0, <2>2, <2>3, <2>4 DEF Inv
<1>5. CASE Move
  <2>1. HornsApart'
    <3>1. CASE Apart(cur) /\ step[1] = step[2]
      <4>1. cur[1] \in Int /\ cur[2] \in Int /\ want[1] \in Int /\ want[2] \in Int /\ step[1] \in Nat
        BY <1>0 DEF TypeOK, Flaps
      <4>2. Abs(cur[1]) + Abs(cur[2]) <= PAIR_MAX /\ Abs(want[1]) + Abs(want[2]) <= PAIR_MAX
        BY <1>5, <3>1 DEF Inv, WantApart, Move, Apart
      <4>3. PAIR_MAX \in Nat
        BY FlightConstants DEF FlightConstants
      <4>4. Abs(Slewed(cur[1], want[1], step[1])) + Abs(Slewed(cur[2], want[2], step[1])) <= PAIR_MAX
        BY Zenon, <4>1, <4>2, <4>3, SlewApart
      <4>5. cur'[1] = Slewed(cur[1], want[1], step[1]) /\ cur'[2] = Slewed(cur[2], want[2], step[1])
        BY <1>5, <3>1 DEF Move, Flaps
      <4> QED BY <4>4, <4>5 DEF HornsApart, Apart
    <3>2. CASE ~(Apart(cur) /\ step[1] = step[2])
      BY <1>5, <3>2, Zenon DEF Inv, HornsApart, Move
    <3> QED BY <3>1, <3>2
  <2>2. WantApart'
    BY <1>5 DEF WantApart, Move
  <2>3. LateOnce'
    BY <1>0, <1>5 DEF Inv, LateOnce, Move, TypeOK
  <2> QED BY <1>0, <2>1, <2>2, <2>3 DEF Inv
<1>6. ASSUME NEW slot \in BOOLEAN, NEW lost \in BOOLEAN, Aero(slot, lost) PROVE Inv'
  BY <1>0, <1>6 DEF Inv, HornsApart, WantApart, LateOnce, Aero, tick, seen
<1>7. CASE UNCHANGED vars
  BY <1>0, <1>7 DEF Inv, HornsApart, WantApart, LateOnce, vars, tick, seen
<1> QED BY <1>1, <1>2, <1>3, <1>4, <1>5, <1>6, <1>7 DEF Next, Servo

(* The invariant holds of every behaviour of the flight node *)
THEOREM Invariance == Spec => []Inv
BY InvInit, InvStep, PTL DEF Spec

(* Targets and horns of the flight node stay inside the envelope of
   board_flight.h, and the stored commands inside the wire range *)
THEOREM TypeCorrect == Spec => []TypeOK
BY Invariance, PTL DEF Inv

(* servo_task keeps the horns of a pair apart as long as it slews both alike *)
THEOREM HornsApartHolds == Spec => []HornsApart
BY Invariance, PTL DEF Inv

(* servo_task makes at most one commanded move after the suit has left
   OPERATIONAL *)
THEOREM OneLateMoveHolds == Spec => []OneLateMove
<1>1. Inv => OneLateMove
  BY DEF Inv, LateOnce, OneLateMove
<1> QED BY <1>1, Invariance, PTL

-----------------------------------------------------------------------------
(* The way home.  The tick that moves without a command moves towards neutral by
   m at least, and a horn that has made k such moves in a row since the last
   commanded one is within ENV - k m of it, or there *)
Homing(m) == moving /\ ~act => want = Still /\ \A f \in Flaps : m <= step[f]
Within(v, k, m) == Abs(v) + k * m <= ENV \/ v = 0
Walked(m) == \A f \in Flaps : Within(cur[f], walked, m)
HomeInv(m) == Homing(m) /\ Walked(m)

(* One move of servo_task towards neutral *)
LEMMA WalkOne ==
  ASSUME NEW v \in Int, NEW k \in Nat, NEW m \in Nat, NEW s \in Nat, m <= s,
         ENV \in Nat, Within(v, k, m)
  PROVE  Within(Slewed(v, 0, s), k + 1, m)
<1>1. PICK p \in Nat : p = k * m
  OBVIOUS
<1>2. (k + 1) * m = p + m
  BY <1>1
<1>3. Slewed(v, 0, s) \in Int /\ (Slewed(v, 0, s) = 0 \/ Abs(Slewed(v, 0, s)) = Abs(v) - s)
  BY DEF Slewed, Clamp, Abs
<1>4. CASE v = 0
  BY <1>4 DEF Slewed, Clamp, Within
<1>5. CASE Abs(v) + p <= ENV /\ v # 0
  <2>1. CASE Slewed(v, 0, s) = 0
    BY <2>1 DEF Within
  <2>2. CASE Abs(Slewed(v, 0, s)) = Abs(v) - s
    <3>1. Abs(v) \in Nat
      BY DEF Abs
    <3>2. Abs(Slewed(v, 0, s)) + (p + m) <= ENV
      BY <1>5, <2>2, <3>1
    <3> QED BY <1>2, <3>2 DEF Within
  <2> QED BY <1>3, <2>1, <2>2
<1> QED BY <1>1, <1>4, <1>5 DEF Within

(* A horn that is HOME moves on its way is at neutral, and stays *)
LEMMA WalkDone ==
  ASSUME NEW v \in Int, NEW m \in Nat, HOME \in Nat, ENV \in Nat, ENV <= HOME * m,
         Within(v, HOME, m)
  PROVE  v = 0
<1>1. PICK p \in Nat : p = HOME * m
  OBVIOUS
<1> QED BY <1>1 DEF Within, Abs

(* servo_task starts with the horns at neutral *)
LEMMA HomeInit == ASSUME NEW m \in Nat PROVE Init => HomeInv(m)
BY DEF Init, HomeInv, Homing, Walked, Within, Still, Flaps

(* Every step of the flight node keeps the horns on their way *)
LEMMA HomeStep ==
  ASSUME NEW m \in Nat, \A s \in Scales : m <= Step(SLEW, s), ENV <= HOME * m,
         TypeOK, TypeOK', HomeInv(m), [Next]_vars
  PROVE  HomeInv(m)'
<1>0. ENV \in Nat /\ PAIR_MAX \in Nat /\ HOME \in Nat
  BY FlightConstants DEF FlightConstants
<1>1. CASE Change
  BY <1>1 DEF HomeInv, Homing, Walked, Change, tick
<1>2. CASE Callback
  BY <1>2 DEF HomeInv, Homing, Walked, Callback, tick, seen
<1>3. ASSUME NEW f \in Flaps, FlapCmd(f) PROVE HomeInv(m)'
  BY <1>3 DEF HomeInv, Homing, Walked, FlapCmd, tick, seen
<1>4. CASE Wake
  <2>1. Walked(m)'
    BY <1>4 DEF HomeInv, Walked, Wake, seen
  <2>2. ASSUME ~act' PROVE want' = Still
    <3>1. want' = Exclude([f \in Flaps |-> 0])
      BY <1>4, <2>2 DEF Wake
    <3>2. Apart([f \in Flaps |-> 0])
      BY <1>0 DEF Apart, Abs, Flaps
    <3> QED BY <3>1, <3>2 DEF Exclude, Still
  <2>3. ASSUME ~act', NEW f \in Flaps PROVE m <= step'[f]
    <3>1. PICK s \in Scales : step' = [g \in Flaps |-> Step(Rate(target[g], act'), s)]
      BY <1>4 DEF Wake
    <3>2. Rate(target[f], act') = SLEW
      BY <2>3 DEF Rate
    <3> QED BY <3>1, <3>2
  <2> QED BY <2>1, <2>2, <2>3 DEF HomeInv, Homing
<1>5. CASE Move
  <2>1. Homing(m)'
    BY <1>5 DEF Move, Homing
  <2>2. ASSUME NEW f \in Flaps PROVE Within(cur'[f], walked', m)
    <3>0. /\ cur[f] \in Int /\ cur'[f] \in -ENV .. ENV /\ step[f] \in Nat
          /\ walked \in 0 .. HOME
          /\ cur'[f] = Slewed(cur[f], want[f], step[f])
      BY <1>5 DEF TypeOK, Move
    <3>1. CASE act
      BY <1>0, <1>5, <3>0, <3>1 DEF Move, Within, Abs
    <3>2. CASE ~act
      <4>1. want[f] = 0 /\ m <= step[f] /\ Within(cur[f], walked, m)
        BY <1>5, <3>2 DEF HomeInv, Homing, Walked, Move, Still
      <4>2. Within(cur'[f], walked + 1, m)
        BY <1>0, <3>0, <4>1, WalkOne
      <4>3. CASE walked < HOME
        BY <1>5, <3>2, <4>2, <4>3 DEF Move
      <4>4. CASE walked = HOME
        <5>1. cur[f] = 0
          BY <1>0, <3>0, <4>1, <4>4, WalkDone
        <5>2. cur'[f] = 0
          BY <3>0, <4>1, <5>1 DEF Slewed, Clamp
        <5> QED BY <5>2 DEF Within
      <4> QED BY <1>0, <3>0, <4>3, <4>4
    <3> QED BY <3>1, <3>2
  <2> QED BY <2>1, <2>2 DEF HomeInv, Walked
<1>6. ASSUME NEW slot \in BOOLEAN, NEW lost \in BOOLEAN, Aero(slot, lost)
      PROVE HomeInv(m)'
  BY <1>6 DEF HomeInv, Homing, Walked, Aero, tick, seen
<1>7. CASE UNCHANGED vars
  BY <1>7 DEF HomeInv, Homing, Walked, vars, tick, seen
<1> QED BY <1>1, <1>2, <1>3, <1>4, <1>5, <1>6, <1>7 DEF Next, Servo

(* servo_task brings every flap home in the time the way takes at the slowest
   rate, whatever rate limit its last command carried *)
THEOREM HomeInTimeHolds == Spec => []HomeInTime
<1>1. PICK m \in Nat : (\A s \in Scales : m <= Step(SLEW, s)) /\ ENV <= HOME * m
  BY HomeAssumption, FlightConstants DEF HomeAssumption, FlightConstants
<1>2. Init => HomeInv(m)
  BY HomeInit
<1>3. TypeOK /\ TypeOK' /\ HomeInv(m) /\ [Next]_vars => HomeInv(m)'
  BY <1>1, HomeStep
<1>4. TypeOK /\ HomeInv(m) => HomeInTime
  <2> SUFFICES ASSUME TypeOK, HomeInv(m), walked = HOME PROVE cur = Still
    BY DEF HomeInTime
  <2>1. ASSUME NEW f \in Flaps PROVE cur[f] = 0
    <3>1. ENV \in Nat /\ HOME \in Nat /\ cur[f] \in Int
      BY FlightConstants DEF FlightConstants, TypeOK
    <3> QED BY <1>1, <3>1, WalkDone DEF HomeInv, Walked
  <2> QED BY <2>1 DEF TypeOK, Still
<1> QED BY <1>2, <1>3, <1>4, TypeCorrect, PTL DEF Spec

(* Out of OPERATIONAL, the horns of the flight node follow one move at most and are
   home in time *)
THEOREM StopsInTimeHolds == Spec => []StopsInTime
BY OneLateMoveHolds, HomeInTimeHolds, PTL DEF StopsInTime
=============================================================================
