---------------------------- MODULE SafetyStates ----------------------------
(***************************************************************************)
(* What ps_safety_core promises its users, without its clocks: the moves    *)
(* between safety states that some sequence of beats, commands and reports  *)
(* can cause (firmware/components/ps_safety/src/ps_safety_core.c).  Whether *)
(* the link is good enough for a move is left open here; SafetyCore says    *)
(* when it is and implements this module (SafetyCore!ImplementsStates).     *)
(* Modules about the users of a core build on this one.                     *)
(***************************************************************************)
EXTENDS Integers

(* PS_STATE_* of wire.h.  FAULT is part of the type; no handler enters it. *)
BOOT        == 0
STANDBY     == 1
OPERATIONAL == 2
PASSIVE     == 3
ESTOP       == 4
FAULT       == 5
States      == BOOT .. FAULT

VARIABLES
  state,     (* c->state                                                    *)
  latched,   (* c->estop_cause # 0: an ESTOP no clear has been accepted for *)
  wants      (* c->want_operational                                         *)

suit == <<state, latched, wants>>

SuitInit ==
  /\ state = BOOT
  /\ latched = FALSE
  /\ wants = FALSE

(* ps_safety_core_on_estop: the first report of an e-stop drops the wish to
   be operational, its echoes change nothing. *)
Report ==
  /\ state' = ESTOP
  /\ latched' = TRUE
  /\ wants' = IF latched THEN wants ELSE FALSE

(* ps_safety_core_on_clear, accepted *)
Clear ==
  /\ latched' = FALSE
  /\ UNCHANGED <<state, wants>>

(* ps_safety_core_on_mode_set, other than ESTOP *)
ModeSet(target) ==
  /\ wants' = (target = OPERATIONAL)
  /\ state' = CASE target = STANDBY /\ state \in {OPERATIONAL, PASSIVE}
                     -> STANDBY
                [] target = PASSIVE /\ state \in {OPERATIONAL, STANDBY}
                     -> PASSIVE
                [] OTHER -> state
  /\ UNCHANGED latched

(* ps_safety_core_tick and ps_safety_core_on_bus_down: a bad link ... *)
LinkBad ==
  /\ state' = CASE state = BOOT -> STANDBY
                [] state = OPERATIONAL -> PASSIVE
                [] OTHER -> state
  /\ UNCHANGED <<latched, wants>>

(* ... and one that has been good for as long as the state asks for *)
LinkGood ==
  /\ state' = CASE state = BOOT -> STANDBY
                [] state = ESTOP /\ ~latched -> STANDBY
                [] state \in {STANDBY, PASSIVE} /\ wants -> OPERATIONAL
                [] OTHER -> state
  /\ UNCHANGED <<latched, wants>>

Reset ==
  /\ state' = BOOT
  /\ latched' = FALSE
  /\ wants' = FALSE

SuitNext ==
  \/ Report
  \/ Clear
  \/ \E target \in {STANDBY, OPERATIONAL, PASSIVE} : ModeSet(target)
  \/ LinkBad
  \/ LinkGood
  \/ Reset

SuitSpec == SuitInit /\ [][SuitNext]_suit
=============================================================================
