------------------------------- MODULE Flight -------------------------------
(***************************************************************************)
(* The flight node (firmware/apps/node_flight/main): the 100 Hz servo task  *)
(* and the telemetry task on core 1, the command handler and the transition *)
(* callback on core 0.                                                      *)
(*                                                                          *)
(* Flaps interact only within a pair of PS_FLAP_PAIRS, and the pairs of     *)
(* board_flight.h are disjoint with one table row for both members, so the  *)
(* module is about one pair.  Positions are in a coarser unit than          *)
(* permille.  The safety core has its own module: here its state moves at   *)
(* will.                                                                    *)
(***************************************************************************)
EXTENDS Integers

CONSTANTS
  INGEST,     (* control_rx clamps to -INGEST .. INGEST, 1000 in the code   *)
  ENV,        (* env_max_pm = -env_min_pm                                   *)
  PAIR_MAX,   (* joint_max_sum_pm                                           *)
  BRAKE,      (* brake_pm                                                   *)
  SLEW,       (* slew_default_pct_s; slew_max_pct_s is above it             *)
  Scales, UNIT, (* rate_scale, in units of 1 / UNIT                         *)
  Cmds,       (* the FLAP_CMD frames: pos, rate_lim, brake                  *)
  States,     (* of the safety core, PASSIVE or ESTOP among them            *)
  HOME        (* servo ticks in which the slowest scale walks ENV           *)

ASSUME FlightConstants ==
  /\ INGEST \in Nat /\ ENV \in 1 .. INGEST /\ PAIR_MAX \in Nat /\ ENV <= PAIR_MAX
  /\ BRAKE \in -INGEST .. INGEST
  /\ SLEW \in Nat /\ UNIT \in Nat \ {0} /\ Scales \subseteq 1 .. UNIT
  /\ Cmds \subseteq [pos : Int, rate_lim : Nat, brake : BOOLEAN] /\ HOME \in Nat

STANDBY     == 1   \* PS_STATE_*
OPERATIONAL == 2
PASSIVE     == 3
ESTOP       == 4
FAULT       == 5

ASSUME FlightStates == {STANDBY, OPERATIONAL} \subseteq States /\ FAULT \notin States

Flaps == {1, 2}
Still == [f \in Flaps |-> 0]

VARIABLES
  state, cb,  (* the safety state; the one a callback is due for, or FAULT  *)
  target,     (* s_targets                                                  *)
  moving,     (* servo_task is in its tick, past its snapshot and its gate: *)
  act,        (* can_act                                                    *)
  want, step, (* want, and step of the third loop                           *)
  cur,        (* cur_pm, the value on the horn, and s_states                *)
  sent,       (* last_sent of flap 1 is its present state                   *)
  heard,      (* so is what the Pi last received of it                      *)
  (* observers *)
  late,       (* commanded moves since the suit left OPERATIONAL            *)
  walked,     (* moves home in a row                                        *)
  uneven      (* the horns moved by different steps since they were apart   *)

tick == <<moving, act, want, step>>
talk == <<sent, heard>>
seen == <<late, walked, uneven>>
vars == <<state, cb, target, tick, cur, talk, seen>>

Neutral == [pos |-> 0, rate_lim |-> 0, brake |-> FALSE]

(* app_main; servo_bank_init starts every flap at neutral, and last_sent
   matches nothing *)
Init ==
  /\ state = STANDBY /\ cb = FAULT
  /\ target = [f \in Flaps |-> Neutral]
  /\ moving = FALSE /\ act = FALSE /\ want = Still /\ step = Still /\ cur = Still
  /\ sent = FALSE /\ heard = FALSE
  /\ late = 0 /\ walked = HOME /\ uneven = FALSE

-----------------------------------------------------------------------------
Abs(n) == IF n < 0 THEN -n ELSE n
Apart(p) == Abs(p[1]) + Abs(p[2]) <= PAIR_MAX

(* clamp_pm *)
Clamp(v, lo, hi) == IF v < lo THEN lo ELSE IF v > hi THEN hi ELSE v

(* The first two loops of servo_task: the envelope, then the magnitudes of an
   overlapping pair reduced equally *)
Wanted(t) ==
  Clamp(IF t.brake THEN BRAKE ELSE t.pos, -ENV, ENV)

Less(v, cut) ==
  LET mag == IF Abs(v) > cut THEN Abs(v) - cut ELSE 0
  IN  IF v < 0 THEN -mag ELSE mag

Cut_down(w) == (Abs(w[1]) + Abs(w[2]) - PAIR_MAX) \div 2   (* mutant: rounds down *)
Cut(w) == (Abs(w[1]) + Abs(w[2]) - PAIR_MAX + 1) \div 2

Exclude(w) ==
  IF Apart(w) THEN w ELSE [f \in Flaps |-> Less(w[f], Cut(w))]

(* The third: rate_lim may lower the board's rate, but only of a commanded
   move; the parameter derates everything *)
Rate_always(t, can_act) ==        (* mutant: and of the move home *)
  IF t.rate_lim # 0 /\ t.rate_lim < SLEW THEN t.rate_lim ELSE SLEW
Rate(t, can_act) ==
  IF can_act /\ t.rate_lim # 0 /\ t.rate_lim < SLEW THEN t.rate_lim ELSE SLEW

Step(rate, scale) ==
  LET s == (rate * scale) \div UNIT IN IF s < 1 THEN 1 ELSE s

(* HOME is the time the way home takes at the slowest rate the parameter allows *)
ASSUME HomeAssumption ==
  \E m \in 0 .. ENV : (\A s \in Scales : m <= Step(SLEW, s)) /\ ENV <= HOME * m

Slewed(from, to, by) == from + Clamp(to - from, -by, by)

-----------------------------------------------------------------------------
(* The safety core changes state ... *)
Change ==
  /\ cb = FAULT
  /\ state' \in States \ {state} /\ cb' = state'
  /\ late' = IF OPERATIONAL \in {state, state'} THEN 0 ELSE late
  /\ UNCHANGED <<target, tick, cur, talk, walked, uneven>>

(* ... and calls flight_safety_on_transition *)
Callback ==
  /\ cb # FAULT /\ cb' = FAULT
  /\ target' = IF cb \in {PASSIVE, ESTOP} THEN [f \in Flaps |-> Neutral] ELSE target
  /\ UNCHANGED <<state, tick, cur, talk, seen>>

(* control_rx, FLAP_CMD *)
FlapCmd(f) ==
  /\ \E c \in Cmds :
       target' = [target EXCEPT ![f] = [c EXCEPT !.pos = Clamp(@, -INGEST, INGEST)]]
  /\ UNCHANGED <<state, cb, tick, cur, talk, seen>>

(* servo_task: snapshot, gate, parameter, and what follows from them ... *)
Gate == state = OPERATIONAL       \* ps_safety_can_actuate

Wake ==
  /\ ~moving /\ moving' = TRUE
  /\ act' = Gate
  /\ want' = Exclude([f \in Flaps |-> IF act' THEN Wanted(target[f]) ELSE 0])
  /\ \E s \in Scales : step' = [f \in Flaps |-> Step(Rate(target[f], act'), s)]
  /\ UNCHANGED <<state, cb, target, cur, talk, seen>>

(* ... and the writes, with their flight_flap_state_publish.  flap_write
   clamps again, to an envelope the horns do not leave. *)
Move ==
  /\ moving
  /\ moving' = FALSE /\ act' = FALSE /\ want' = Still /\ step' = Still
  /\ cur' = [f \in Flaps |-> Slewed(cur[f], want[f], step[f])]
  /\ IF cur' = cur THEN UNCHANGED <<sent, heard>>
     ELSE sent' \in {FALSE, ~sent} /\ heard' \in {FALSE, ~heard}
  /\ late' = IF act /\ state # OPERATIONAL THEN late + 1 ELSE late
  /\ walked' = IF act THEN 0 ELSE IF walked < HOME THEN walked + 1 ELSE walked
  /\ uneven' = (~Apart(cur') /\ (uneven \/ step[1] # step[2]))
  /\ UNCHANGED <<state, cb, target>>

-----------------------------------------------------------------------------
(* aero_task: every fifth tick FLAP_STATE, if it changed or its keepalive slot
   has come.  Whether the bus takes the frame is not asked (flight_telem_send),
   and of the IMU and the pitot there is nothing to remember. *)
Due_changed(slot) == ~sent                     (* mutant: no keepalive *)
Due(slot) == ~sent \/ slot

Aero(slot, lost) ==
  /\ Due(slot)
  /\ sent' = TRUE /\ heard' = (heard \/ ~lost)
  /\ UNCHANGED <<state, cb, target, tick, cur, seen>>

Servo == Wake \/ Move

Next ==
  \/ Change \/ Callback \/ Servo
  \/ \E f \in Flaps : FlapCmd(f)
  \/ \E slot, lost \in BOOLEAN : Aero(slot, lost)

(* vTaskDelayUntil runs both tasks for ever; a flap's slot comes round every
   500 ms, and a bus that is not dead carries some such frame. *)
Spec ==
  /\ Init /\ [][Next]_vars
  /\ WF_vars(Callback) /\ WF_vars(Servo) /\ WF_vars(Aero(TRUE, FALSE))

-----------------------------------------------------------------------------
TypeOK ==
  /\ state \in States /\ cb \in States \cup {FAULT}
  /\ target \in [Flaps -> [pos : -INGEST .. INGEST, rate_lim : Nat, brake : BOOLEAN]]
  /\ moving \in BOOLEAN /\ act \in BOOLEAN
  /\ want \in [Flaps -> -ENV .. ENV] /\ step \in [Flaps -> Nat]
  /\ cur \in [Flaps -> -ENV .. ENV]
  /\ sent \in BOOLEAN /\ heard \in BOOLEAN
  /\ late \in Nat /\ walked \in 0 .. HOME /\ uneven \in BOOLEAN

(* board_flight.h: "|a| + |b| must stay at/below" the limit of a pair.  The
   exclusion is applied to the targets and the horns slew after them, so the
   horns keep it as long as both slew alike; a FLAP_CMD.rate_lim on one of the
   two is the only thing that takes them past it. *)
HornsApart == Apart(cur) \/ uneven

(* The gate is read once a tick: after the suit has left OPERATIONAL at most
   one commanded move reaches the horns, whatever state it went to. *)
OneLateMove == late <= 1

(* Every flap is home HOME ticks after its last commanded move, whatever rate
   limit its last command left behind. *)
HomeInTime == walked = HOME => cur = Still

(* Out of OPERATIONAL for good, the flaps come to rest at neutral and the Pi
   gets to know, though FLAP_STATE is sent on change and a send may fail. *)
RestIsHeard == <>[](state # OPERATIONAL) => <>[](cur = Still /\ heard)

(* Out of OPERATIONAL the horns stop following commands with one move at most, and
   are home after the time the way takes. *)
StopsInTime == OneLateMove /\ HomeInTime
=============================================================================
