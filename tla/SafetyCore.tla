----------------------------- MODULE SafetyCore -----------------------------
(***************************************************************************)
(* The node safety state machine of firmware/components/ps_safety          *)
(* (ps_safety_core.c), with the lock discipline and the 5 ms timer of      *)
(* ps_safety_esp.c: every handler and the tick run under one mutex, so     *)
(* each is one action.                                                     *)
(*                                                                         *)
(* Time.  The code keeps uint32_t millisecond stamps and only ever looks   *)
(* at differences (int32_t)(now - then).  The model keeps each stamp as    *)
(* its age, now - then modulo WORD = 2 * HALF, so the signed wrap-around   *)
(* of `elapsed' is part of the model.  HALF stands for 2^31.               *)
(*                                                                         *)
(* Left out: estop_since_ms (written, never read) and the uptime and       *)
(* src_state fields of the frames (never read by the core).                *)
(***************************************************************************)
EXTENDS Integers

CONSTANTS
  HEARTBEAT_TIMEOUT_MS,  (* PS_HEARTBEAT_TIMEOUT_MS, 50 in wire.h          *)
  REARM_WINDOW_MS,       (* PS_REARM_WINDOW_MS, 250                        *)
  CMD_STALE_MS,          (* PS_CMD_STALE_MS, 200                           *)
  ESTOP_REARM_MS,        (* PS_ESTOP_REARM_MS, 1000                        *)
  TICK_MS,               (* PS_SAFETY_TICK_US / 1000, 5                    *)
  LOCK_MS,               (* longest wait of safety_rx for the mutex        *)
  HALF,                  (* half the range of the millisecond counter      *)
  Seqs,                  (* heartbeat sequence numbers                     *)
  Causes,                (* ESTOP causes that can be received, 0 included  *)
  Counters               (* CLEAR_ESTOP counters that can be received      *)

ASSUME TimingAssumption ==
  /\ HEARTBEAT_TIMEOUT_MS \in Nat \ {0}
  /\ REARM_WINDOW_MS \in Nat \ {0}
  /\ CMD_STALE_MS \in Nat \ {0}
  /\ ESTOP_REARM_MS \in Nat \ {0}
  /\ TICK_MS \in Nat \ {0}
  /\ LOCK_MS \in Nat
  /\ HALF \in Nat
  /\ HALF > HEARTBEAT_TIMEOUT_MS + TICK_MS + LOCK_MS
  /\ HALF > REARM_WINDOW_MS
  /\ HALF > CMD_STALE_MS + 1
  /\ HALF > ESTOP_REARM_MS

ASSUME InputAssumption ==
  /\ 0 \in Seqs
  /\ Causes \subseteq Nat
  /\ Counters \subseteq Nat

(* PS_STATE_* of wire.h.  FAULT is part of the type; no handler enters it. *)
BOOT        == 0
STANDBY     == 1
OPERATIONAL == 2
PASSIVE     == 3
ESTOP       == 4
FAULT       == 5
States      == BOOT .. FAULT

(* PS_ESTOP_* of wire.h.  In the state, cause 0 while latched encodes "clear
   accepted, awaiting re-arm". *)
ESTOP_OPERATOR == 4
ESTOP_SOFTWARE == 7

WORD == 2 * HALF
Ages == 0 .. WORD - 1

VARIABLES
  state,             (* c->state                                            *)
  estop_cause,       (* c->estop_cause                                      *)
  last_hb_seq,       (* c->last_hb_seq                                      *)
  hb_age,            (* now - c->last_hb_ms                                 *)
  streak_age,        (* now - c->hb_streak_start_ms                         *)
  cmd_age,           (* now - c->last_cmd_ms                                *)
  clear_counter,     (* c->clear_counter                                    *)
  have_hb,           (* c->have_hb                                          *)
  want_operational,  (* c->want_operational                                 *)
  since_tick         (* ms since tick_cb last ran                           *)

core == <<state, estop_cause, last_hb_seq, hb_age, streak_age, cmd_age,
          clear_counter, have_hb, want_operational>>

(* Observers: what really happened, computed without the code's formulas.
   The counts stop at HALF, which also stands for "never". *)
VARIABLES
  silence,           (* ms since the last accepted heartbeat was received   *)
  clean,             (* ms the link has been up with no hole > the timeout  *)
  quiet,             (* ms since a command was last received                *)
  report,            (* the last of: ESTOP reported, CLEAR_ESTOP accepted   *)
  beyond,            (* a gap left the range `elapsed' is valid for         *)
  asked,             (* the operator wants force, since the last e-stop     *)
  owed               (* a bad link took force, and nothing has settled it   *)

observers == <<silence, clean, quiet, report, beyond, asked, owed>>
vars == <<core, since_tick, observers>>

-----------------------------------------------------------------------------
(* (int32_t)(now - then) for an age *)
elapsed(age) == IF age >= HALF THEN age - WORD ELSE age

(* then_a - then_b as the code computes it from two stamps *)
between(age_a, age_b) ==
  elapsed(IF age_b >= age_a THEN age_b - age_a ELSE age_b - age_a + WORD)

Older(age) == IF age = WORD - 1 THEN 0 ELSE age + 1
Count(n)   == IF n < HALF THEN n + 1 ELSE HALF

(* mutant: the watchdog off by one *)
heartbeat_ok_late == have_hb /\ elapsed(hb_age) <= HEARTBEAT_TIMEOUT_MS + 1
heartbeat_ok == have_hb /\ elapsed(hb_age) <= HEARTBEAT_TIMEOUT_MS

(* mutant: the streak measured from the last beat *)
streak_ms_last_beat == IF have_hb THEN elapsed(hb_age) ELSE 0
streak_ms == IF have_hb THEN elapsed(streak_age) ELSE 0

cmd_fresh == elapsed(cmd_age) < CMD_STALE_MS

(* ps_safety_core_init, run by ps_safety_start at every boot *)
Init ==
  /\ state = BOOT
  /\ estop_cause = 0
  /\ last_hb_seq = 0
  /\ hb_age = HEARTBEAT_TIMEOUT_MS + 1
  /\ streak_age = HEARTBEAT_TIMEOUT_MS + 1
  /\ cmd_age = CMD_STALE_MS + 1
  /\ clear_counter = 0
  /\ have_hb = FALSE
  /\ want_operational = FALSE
  /\ since_tick = 0
  /\ silence = HALF
  /\ clean = 0
  /\ quiet = HALF
  /\ report = "none"
  /\ beyond = FALSE
  /\ asked = FALSE
  /\ owed = FALSE

(* The body of ps_safety_core_on_estop: what it does to the four fields it
   writes, given whether the early return is taken. *)
Echo == state = ESTOP /\ estop_cause # 0

Latch(cause) ==
  /\ estop_cause' = IF Echo THEN estop_cause
                    ELSE IF cause = 0 THEN ESTOP_SOFTWARE ELSE cause
  /\ want_operational' = (Echo /\ want_operational)
  /\ state' = ESTOP
  /\ report' = "estop"
  /\ asked' = (asked /\ state = ESTOP /\ report # "clear")

(* ps_safety_core_on_estop / _on_local_fault: an ESTOP frame, or a fault of
   the node itself. *)
OnEstop(cause) ==
  /\ Latch(cause)
  /\ UNCHANGED <<last_hb_seq, hb_age, streak_age, cmd_age, clear_counter,
                 have_hb, since_tick, silence, clean, quiet, beyond, owed>>

(* A heartbeat the core accepts: not a repetition of the last number. *)
Accept(seq) == ~(have_hb /\ seq = last_hb_seq)

(* safety_rx reads the time before it takes the mutex: the beat it hands to
   the core was received `lag' ms ago, though not before the last one. *)
Received(lag) == lag <= hb_age /\ (state = BOOT => lag <= since_tick)

(* safety_rx with ps_safety_core_on_heartbeat; estop_latched is the flag
   PS_HB_ESTOP_LATCHED. *)
OnHeartbeat(seq, estop_latched, lag) ==
  /\ Received(lag)
  /\ Accept(seq)
  /\ streak_age' = IF ~have_hb \/ between(lag, hb_age) > HEARTBEAT_TIMEOUT_MS
                   THEN lag ELSE streak_age
  /\ have_hb' = TRUE
  /\ hb_age' = lag
  /\ last_hb_seq' = seq
  /\ IF estop_latched THEN Latch(ESTOP_OPERATOR)
     ELSE UNCHANGED <<estop_cause, want_operational, state, report, asked>>
  /\ silence' = lag
  /\ clean' = IF silence - lag > HEARTBEAT_TIMEOUT_MS THEN lag ELSE clean
  /\ UNCHANGED <<cmd_age, clear_counter, since_tick, quiet, beyond, owed>>

(* ps_safety_core_on_clear; a rejected clear changes nothing. *)
OnClear(magic_ok, counter) ==
  /\ magic_ok
  /\ counter > clear_counter
  /\ clear_counter' = counter
  /\ estop_cause' = IF state = ESTOP THEN 0 ELSE estop_cause
  /\ report' = "clear"
  /\ UNCHANGED <<state, last_hb_seq, hb_age, streak_age, cmd_age, have_hb,
                 want_operational, since_tick, silence, clean, quiet,
                 beyond, asked, owed>>

(* ps_safety_core_on_cmd *)
OnCmd ==
  /\ cmd_age' = 0
  /\ quiet' = 0
  /\ UNCHANGED <<state, estop_cause, last_hb_seq, hb_age, streak_age,
                 clear_counter, have_hb, want_operational, since_tick,
                 silence, clean, report, beyond, asked, owed>>

(* ps_safety_core_on_mode_set *)
OnModeSet(target) ==
  \/ /\ target = ESTOP
     /\ OnEstop(ESTOP_OPERATOR)
  \/ /\ target \in {OPERATIONAL, STANDBY, PASSIVE}
     /\ want_operational' = (target = OPERATIONAL)
     /\ state' = CASE target = STANDBY /\ state \in {OPERATIONAL, PASSIVE}
                        -> STANDBY
                   [] target = PASSIVE /\ state \in {OPERATIONAL, STANDBY}
                        -> PASSIVE
                   [] OTHER -> state
     /\ asked' = (target = OPERATIONAL)
     /\ owed' = (owed /\ target # STANDBY)
     /\ UNCHANGED <<estop_cause, last_hb_seq, hb_age, streak_age, cmd_age,
                    clear_counter, have_hb, since_tick, silence, clean,
                    quiet, report, beyond>>

OnBusDown_standby ==   (* mutant: a lost link parks the node in STANDBY *)
  /\ have_hb' = FALSE
  /\ state' = IF state = OPERATIONAL THEN STANDBY ELSE state
  /\ silence' = HALF
  /\ owed' = (owed \/ state = OPERATIONAL)
  /\ UNCHANGED <<estop_cause, last_hb_seq, hb_age, streak_age, cmd_age,
                 clear_counter, want_operational, since_tick, clean, quiet,
                 report, beyond, asked>>

(* ps_safety_core_on_bus_down, called on BUS_OFF and on ERR_PASSIVE *)
OnBusDown ==
  /\ have_hb' = FALSE
  /\ state' = IF state = OPERATIONAL THEN PASSIVE ELSE state
  /\ silence' = HALF
  /\ owed' = (owed \/ state = OPERATIONAL)
  /\ UNCHANGED <<estop_cause, last_hb_seq, hb_age, streak_age, cmd_age,
                 clear_counter, want_operational, since_tick, clean, quiet,
                 report, beyond, asked>>

(* The conditions under which a tick leaves ESTOP and PASSIVE. *)
EstopRearmed ==
  /\ estop_cause = 0
  /\ heartbeat_ok
  /\ streak_ms >= ESTOP_REARM_MS

PassiveRearmed ==
  /\ want_operational
  /\ heartbeat_ok
  /\ streak_ms >= REARM_WINDOW_MS
  /\ between(cmd_age, streak_age) >= 0
  /\ cmd_fresh

TickState ==
  CASE state = BOOT -> STANDBY
    [] state = ESTOP /\ EstopRearmed -> STANDBY
    [] state = OPERATIONAL /\ ~heartbeat_ok -> PASSIVE
    [] state = STANDBY /\ want_operational /\ heartbeat_ok -> OPERATIONAL
    [] state = PASSIVE /\ PassiveRearmed -> OPERATIONAL
    [] OTHER -> state

(* tick_cb, every TICK_MS *)
Tick ==
  /\ since_tick = TICK_MS
  /\ since_tick' = 0
  /\ state' = TickState
  /\ owed' = IF state' = state THEN owed ELSE state = OPERATIONAL
  /\ UNCHANGED <<estop_cause, last_hb_seq, hb_age, streak_age, cmd_age,
                 clear_counter, have_hb, want_operational, silence, clean,
                 quiet, report, beyond, asked>>

(* One millisecond passes.  The periodic esp_timer is on time: the clock
   does not pass a due tick. *)
Advance ==
  /\ since_tick < TICK_MS
  /\ since_tick' = since_tick + 1
  /\ hb_age' = Older(hb_age)
  /\ streak_age' = Older(streak_age)
  /\ cmd_age' = Older(cmd_age)
  /\ silence' = Count(silence)
  /\ clean' = Count(clean)
  /\ quiet' = Count(quiet)
  /\ beyond' = IF (have_hb /\ hb_age' = HALF) \/ cmd_age' = HALF
               THEN TRUE ELSE beyond
  /\ UNCHANGED <<state, estop_cause, last_hb_seq, clear_counter, have_hb,
                 want_operational, report, asked, owed>>

(* A soft reset: ps_safety_start clears the context and runs init again. *)
Reboot ==
  /\ state' = BOOT
  /\ estop_cause' = 0
  /\ last_hb_seq' = 0
  /\ hb_age' = HEARTBEAT_TIMEOUT_MS + 1
  /\ streak_age' = HEARTBEAT_TIMEOUT_MS + 1
  /\ cmd_age' = CMD_STALE_MS + 1
  /\ clear_counter' = 0
  /\ have_hb' = FALSE
  /\ want_operational' = FALSE
  /\ since_tick' = 0
  /\ silence' = HALF
  /\ clean' = 0
  /\ quiet' = HALF
  /\ report' = "none"
  /\ beyond' = FALSE
  /\ asked' = FALSE
  /\ owed' = FALSE

Handlers ==
  \/ \E seq \in Seqs, flag \in BOOLEAN, lag \in 0 .. LOCK_MS :
       OnHeartbeat(seq, flag, lag)
  \/ \E cause \in Causes : OnEstop(cause)
  \/ \E ok \in BOOLEAN, n \in Counters : OnClear(ok, n)
  \/ OnCmd
  \/ \E target \in States : OnModeSet(target)
  \/ OnBusDown

Next == Handlers \/ Tick \/ Advance \/ Reboot

Spec == Init /\ [][Next]_vars

(* The esp_timer keeps firing and time keeps passing. *)
FairSpec == Spec /\ WF_vars(Tick) /\ WF_vars(Advance)

-----------------------------------------------------------------------------
(* Every field keeps its range; FAULT is never entered. *)
TypeOK ==
  /\ state \in BOOT .. ESTOP
  /\ estop_cause \in Nat
  /\ last_hb_seq \in Seqs
  /\ hb_age \in Ages
  /\ streak_age \in Ages
  /\ cmd_age \in Ages
  /\ clear_counter \in Nat
  /\ have_hb \in BOOLEAN
  /\ want_operational \in BOOLEAN
  /\ since_tick \in 0 .. TICK_MS
  /\ silence \in 0 .. HALF
  /\ clean \in 0 .. HALF
  /\ quiet \in 0 .. HALF
  /\ report \in {"none", "estop", "clear"}
  /\ beyond \in BOOLEAN
  /\ asked \in BOOLEAN
  /\ owed \in BOOLEAN

(* The dead-man switch: a node that may actuate has received a heartbeat
   within the watchdog window plus one tick, and its bus is up.  As the
   comment on `elapsed' says, this is for gaps under 2^31 ms (~24 days). *)
DeadMan ==
  state = OPERATIONAL /\ ~beyond =>
    /\ have_hb
    /\ silence <= HEARTBEAT_TIMEOUT_MS + TICK_MS

(* The stamps tell the truth: as long as no gap has left the range of
   `elapsed', last_hb_ms is when the last beat came in, hb_streak_start_ms is
   when the link last came up without a hole since, and last_cmd_ms is when
   the last command came, or old if there was none.  It is also what makes
   the other properties inductive. *)
StampsTellTruth ==
  ~beyond =>
    /\ IF have_hb THEN hb_age = silence /\ silence < HALF
                  ELSE silence = HALF
    /\ have_hb /\ clean < HALF => streak_age = clean
    /\ cmd_age < HALF
    /\ IF quiet = HALF THEN cmd_age > CMD_STALE_MS ELSE cmd_age = quiet

(* The latch remembers the latest report: a clear counts only if no ESTOP was
   reported after it, whatever the order in which frames of several senders
   arrive. *)
LatestReportRules ==
  state = ESTOP => (estop_cause = 0 <=> report = "clear")

(* An e-stop is left for STANDBY only, with a clear as the latest report and a
   link that has really been up for the whole re-arm time; only a reset
   leaves it otherwise.  The clear does not restart that time: beats from
   before it count, where docs/safety.md:44 says "continuous beats required
   after CLEAR_ESTOP". *)
EstopExit ==
  [][(state = ESTOP /\ state' # ESTOP) =>
       \/ state' = BOOT
       \/ /\ state' = STANDBY
          /\ report = "clear"
          /\ beyond \/ clean >= ESTOP_REARM_MS]_vars

(* The link has really had no hole for the whole re-arm window, and a command
   arrived, recently, in that same window. *)
WindowKept ==
  clean >= REARM_WINDOW_MS /\ quiet < CMD_STALE_MS /\ quiet <= clean

(* Whenever a node begins to actuate, the operator's last word, and one given
   since the last e-stop was reported, is MODE_SET(OPERATIONAL), and the link
   is up.  A node that is passive, or that lost its force to a bad link at any
   earlier time, has gone through the re-arm window; what settles such a loss
   without one is the operator's own MODE_SET(STANDBY), which takes a passive
   node to where the next MODE_SET(OPERATIONAL) finds it, an e-stop that was
   left again, or a reset. *)
ForceEarned ==
  [][(state # OPERATIONAL /\ state' = OPERATIONAL) =>
       /\ asked
       /\ ~beyond => silence <= HEARTBEAT_TIMEOUT_MS
       /\ (owed \/ state = PASSIVE) /\ ~beyond => WindowKept]_vars

(* ps_safety_core_tick gives force, and ends an e-stop, only when it is earned. *)
ExitsEarned == EstopExit /\ ForceEarned

(* A cleared node with a healthy link does not stay latched. *)
ClearReleases ==
  []<>~(state = ESTOP /\ estop_cause = 0 /\ heartbeat_ok)

(* A node the operator wants on, with a healthy link and a stream of
   commands, does not stay passive. *)
PassiveRecovers ==
  []<>~(state = PASSIVE /\ want_operational /\ heartbeat_ok /\ cmd_fresh)

(* The core does what its users rely on: every handler, tick, reset and lapse
   of time is a move of SafetyStates, or none. *)
Abstract == INSTANCE SafetyStates WITH latched <- (estop_cause # 0),
                                       wants <- want_operational
ImplementsStates == Abstract!SuitSpec

(* Force comes back: ps_safety_core_tick releases a cleared node and re-arms a
   passive one that the operator wants on, if the link and the commands last. *)
Rearms == ClearReleases /\ PassiveRecovers
=============================================================================
