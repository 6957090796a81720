--------------------------------- MODULE Bms ---------------------------------
(***************************************************************************)
(* Battery management on the chest hub (apps/node_chest_hub/main/           *)
(* bms_task.c) with the two things it shares state with: the hardware       *)
(* short-circuit latch with its ISR, and the gateway's mirror of the suit   *)
(* state (SafetyStates).                                                    *)
(*                                                                          *)
(* The BMS task loops about once a millisecond on core 1, the mirror's tick *)
(* and the gateway run on core 0, so their steps interleave freely.  The    *)
(* measurements are reduced to the set of families whose reading is         *)
(* critical; warnings and reports are left out.                             *)
(***************************************************************************)
EXTENDS SafetyStates, FiniteSets

CONSTANTS
  FAMILIES,      (* FAM_COUNT: the families are 1 .. FAMILIES               *)
  DEBOUNCE,      (* s_th.debounce_ms, in loops                              *)
  STRIKES        (* bound: short circuits                                   *)

ASSUME BmsAssumption ==
  /\ FAMILIES \in Nat
  /\ DEBOUNCE \in Nat \ {0}
  /\ STRIKES \in Nat

Families    == 1 .. FAMILIES
SHORT_LATCH == 0                (* bits of s_fault_bits; a family's is its number *)
COMP_ARMED  == FAMILIES + 1

VARIABLES
  latch,           (* hardware: the SR latch holds the discharge gate open  *)
  comparator,      (* hardware: current above the threshold                 *)
  strobe,          (* level of the re-arm strobe                            *)
  strikes,         (* short circuits so far                                 *)
  boot,            (* hub_bms_start: "start", then "no_isr", then "up"      *)
  trip_flag,       (* s_trip_flag, with the notification given beside it    *)
  rearm_requested, (* s_rearm_requested                                     *)
  short_latched,   (* s_short_latched                                       *)
  fault_bits,      (* s_fault_bits, as a set of bits                        *)
  deb, tripped,    (* s_deb and s_tripped                                   *)
  pc, fam,         (* next step of bms_task, and the family it is at        *)
  crit,            (* families whose reading is critical in this loop       *)
  accepted,        (* gateway: a clear was accepted, the BMS not yet told   *)
  cleared,         (* observer: a clear was accepted since the last report  *)
  unseen           (* observer: the latch was set before its ISR was there  *)

hardware == <<latch, comparator, strobe, strikes, unseen>>
families == <<deb, tripped>>
loop     == <<pc, fam, crit>>
vars     == <<suit, hardware, families, loop, boot, trip_flag, rearm_requested,
              short_latched, fault_bits, accepted, cleared>>

(* The 16-bit debounce counters saturate (bms_check), the loop of bms_task is
   at one of its steps, and every other variable keeps its range. *)
TypeOK ==
  /\ state \in States /\ latched \in BOOLEAN /\ wants \in BOOLEAN
  /\ latch \in BOOLEAN /\ comparator \in BOOLEAN /\ strobe \in BOOLEAN
  /\ strikes \in 0 .. STRIKES
  /\ boot \in {"start", "no_isr", "up"}
  /\ trip_flag \in BOOLEAN /\ rearm_requested \in BOOLEAN
  /\ short_latched \in BOOLEAN
  /\ fault_bits \subseteq SHORT_LATCH .. COMP_ARMED
  /\ deb \in [Families -> 0 .. DEBOUNCE]
  /\ tripped \in [Families -> BOOLEAN]
  /\ pc \in {"take", "report", "sample", "check", "raise", "rearm",
             "strobe_on", "strobe_off", "feedback"}
  /\ fam \in 1 .. FAMILIES + 1
  /\ crit \subseteq Families
  /\ accepted \in BOOLEAN /\ cleared \in BOOLEAN /\ unseen \in BOOLEAN

Init ==
  /\ SuitInit
  /\ latch \in BOOLEAN               (* may power up into a tripped latch *)
  /\ comparator \in BOOLEAN
  /\ comparator => latch
  /\ strobe = FALSE
  /\ strikes = 0
  /\ boot = "start"
  /\ trip_flag = FALSE
  /\ rearm_requested = FALSE
  /\ short_latched = FALSE
  /\ fault_bits = {}
  /\ deb = [f \in Families |-> 0]
  /\ tripped = [f \in Families |-> FALSE]
  /\ pc = "take"
  /\ fam = 1
  /\ crit = {}
  /\ accepted = FALSE
  /\ cleared = FALSE
  /\ unseen = FALSE

-----------------------------------------------------------------------------
(* External: the analog comparator and the SR latch.  A short sets the latch;
   if that is an edge and bms_sc_latch_isr is installed, the ISR raises the
   flag and notifies the task. *)
Short ==
  /\ strikes < STRIKES
  /\ ~comparator
  /\ strikes' = strikes + 1
  /\ comparator' = TRUE
  /\ latch' = TRUE
  /\ trip_flag' = (trip_flag \/ (boot = "up" /\ ~latch))
  /\ unseen' = (unseen \/ (boot = "no_isr" /\ ~latch))
  /\ UNCHANGED <<suit, strobe, families, loop, boot, rearm_requested,
                 short_latched, fault_bits, accepted, cleared>>

(* The current is back below the threshold; the strobe reaches the latch only
   through the AND with this. *)
Below ==
  /\ comparator
  /\ comparator' = FALSE
  /\ latch' = (latch /\ ~strobe)
  /\ unseen' = (unseen /\ latch')
  /\ UNCHANGED <<suit, strobe, strikes, families, loop, boot, trip_flag,
                 rearm_requested, short_latched, fault_bits, accepted, cleared>>

(* hub_bms_start: read the latch and start the task ... *)
Start ==
  /\ boot = "start"
  /\ boot' = "no_isr"
  /\ short_latched' = latch
  /\ fault_bits' = {IF latch THEN SHORT_LATCH ELSE COMP_ARMED}
  /\ UNCHANGED <<suit, hardware, families, loop, trip_flag, rearm_requested,
                 accepted, cleared>>

(* ... then install the ISR. *)
InstallIsr ==
  /\ boot = "no_isr"
  /\ boot' = "up"
  /\ UNCHANGED <<suit, hardware, families, loop, trip_flag, rearm_requested,
                 short_latched, fault_bits, accepted, cleared>>

-----------------------------------------------------------------------------
(* ulTaskNotifyTake, and bms_handle_short_trip up to its report *)
Take_once ==         (* mutant: a trip is ignored while one is latched *)
  /\ boot # "start" /\ pc = "take"
  /\ trip_flag' = FALSE
  /\ IF trip_flag /\ ~short_latched
     THEN /\ pc' = "report"
          /\ short_latched' = TRUE
          /\ fault_bits' = (fault_bits \cup {SHORT_LATCH}) \ {COMP_ARMED}
     ELSE /\ pc' = "sample"
          /\ UNCHANGED <<short_latched, fault_bits>>
  /\ UNCHANGED <<suit, hardware, families, fam, crit, boot, rearm_requested,
                 accepted, cleared>>
Take ==
  /\ boot # "start" /\ pc = "take"
  /\ trip_flag' = FALSE
  /\ IF trip_flag
     THEN /\ pc' = "report"
          /\ short_latched' = TRUE
          /\ fault_bits' = (fault_bits \cup {SHORT_LATCH}) \ {COMP_ARMED}
     ELSE /\ pc' = "sample"
          /\ UNCHANGED <<short_latched, fault_bits>>
  /\ UNCHANGED <<suit, hardware, families, fam, crit, boot, rearm_requested,
                 accepted, cleared>>

(* bms_raise_estop: its frames are sent, then hub_gateway_local_estop.  After
   a short the loop goes on with the samples, after a family with the next. *)
Raise ==
  /\ pc \in {"report", "raise"}
  /\ Report
  /\ cleared' = FALSE
  /\ pc' = IF pc = "report" THEN "sample" ELSE "check"
  /\ fam' = IF pc = "report" THEN fam ELSE fam + 1
  /\ UNCHANGED <<hardware, families, crit, boot, trip_flag, rearm_requested,
                 short_latched, fault_bits, accepted>>

(* bms_sample_fast, bms_slow_slot and the minima and maxima over the cells.
   Nothing is critical before the first two scans are done. *)
Sample ==
  /\ pc = "sample"
  /\ crit' \in SUBSET Families
  /\ pc' = "check"
  /\ fam' = 1
  /\ UNCHANGED <<suit, hardware, families, boot, trip_flag, rearm_requested,
                 short_latched, fault_bits, accepted, cleared>>

(* bms_check for one family; the counter stops at the threshold here, where
   the code's stops at 0xFFFF *)
debounced == IF fam \notin crit THEN 0
             ELSE IF deb[fam] < DEBOUNCE THEN deb[fam] + 1 ELSE DEBOUNCE

Check ==
  LET trips == ~tripped[fam] /\ debounced >= DEBOUNCE
  IN  /\ pc = "check" /\ fam \in Families
      /\ deb' = [deb EXCEPT ![fam] = debounced]
      /\ tripped' = [tripped EXCEPT ![fam] = @ \/ trips]
      /\ fault_bits' = IF trips THEN fault_bits \cup {fam} ELSE fault_bits
      /\ pc' = IF trips THEN "raise" ELSE "check"
      /\ fam' = IF trips THEN fam ELSE fam + 1
      /\ UNCHANGED <<suit, hardware, crit, boot, trip_flag, rearm_requested,
                     short_latched, accepted, cleared>>

Checked ==
  /\ pc = "check" /\ fam \notin Families
  /\ pc' = "rearm"
  /\ fam' = 1
  /\ crit' = {}
  /\ UNCHANGED <<suit, hardware, families, boot, trip_flag, rearm_requested,
                 short_latched, fault_bits, accepted, cleared>>

-----------------------------------------------------------------------------
(* bms_try_rearm up to the strobe: only with a request, and from STANDBY.  The
   request is consumed also when the comparator refuses. *)
MayRearm_any_state == rearm_requested            (* mutant *)
MayRearm == rearm_requested /\ state = STANDBY

Rearm_eager ==       (* mutant: a request does not wait for STANDBY *)
  /\ pc = "rearm"
  /\ rearm_requested' = FALSE
  /\ pc' = IF MayRearm /\ short_latched /\ ~comparator
           THEN "strobe_on" ELSE "take"
  /\ IF MayRearm /\ ~short_latched
     THEN /\ deb' = [f \in Families |-> 0]
          /\ tripped' = [f \in Families |-> FALSE]
          /\ fault_bits' = fault_bits \ Families
     ELSE UNCHANGED <<families, fault_bits>>
  /\ UNCHANGED <<suit, hardware, fam, crit, boot, trip_flag, short_latched,
                 accepted, cleared>>
Rearm ==
  /\ pc = "rearm"
  /\ rearm_requested' = (rearm_requested /\ ~MayRearm)
  /\ pc' = IF MayRearm /\ short_latched /\ ~comparator
           THEN "strobe_on" ELSE "take"
  /\ IF MayRearm /\ ~short_latched
     THEN /\ deb' = [f \in Families |-> 0]
          /\ tripped' = [f \in Families |-> FALSE]
          /\ fault_bits' = fault_bits \ Families
     ELSE UNCHANGED <<families, fault_bits>>
  /\ UNCHANGED <<suit, hardware, fam, crit, boot, trip_flag, short_latched,
                 accepted, cleared>>

StrobeOn ==
  /\ pc = "strobe_on"
  /\ strobe' = TRUE
  /\ latch' = (latch /\ comparator)
  /\ unseen' = (unseen /\ latch')
  /\ pc' = "strobe_off"
  /\ UNCHANGED <<suit, comparator, strikes, families, fam, crit, boot,
                 trip_flag, rearm_requested, short_latched, fault_bits,
                 accepted, cleared>>

(* 10 ms later *)
StrobeOff ==
  /\ pc = "strobe_off"
  /\ strobe' = FALSE
  /\ pc' = "feedback"
  /\ UNCHANGED <<suit, latch, comparator, strikes, unseen, families, fam, crit, boot,
                 trip_flag, rearm_requested, short_latched, fault_bits,
                 accepted, cleared>>

(* A tick later KILL_FB says whether the gate has closed again. *)
Feedback_blind ==    (* mutant: the strobe is taken to have worked *)
  /\ pc = "feedback"
  /\ pc' = "take"
  /\ short_latched' = FALSE
  /\ fault_bits' = (fault_bits \ {SHORT_LATCH}) \cup {COMP_ARMED}
  /\ deb' = [f \in Families |-> 0]
  /\ tripped' = [f \in Families |-> FALSE]
  /\ UNCHANGED <<suit, hardware, fam, crit, boot, trip_flag, rearm_requested,
                 accepted, cleared>>
Feedback ==
  /\ pc = "feedback"
  /\ pc' = "take"
  /\ IF latch
     THEN UNCHANGED <<short_latched, fault_bits, families>>
     ELSE /\ short_latched' = FALSE
          /\ fault_bits' = (fault_bits \ {SHORT_LATCH}) \cup {COMP_ARMED}
          /\ deb' = [f \in Families |-> 0]
          /\ tripped' = [f \in Families |-> FALSE]
  /\ UNCHANGED <<suit, hardware, fam, crit, boot, trip_flag, rearm_requested,
                 accepted, cleared>>

Loop ==
  \/ Take \/ Raise \/ Sample \/ Check \/ Checked
  \/ Rearm \/ StrobeOn \/ StrobeOff \/ Feedback

-----------------------------------------------------------------------------
bms == <<hardware, families, loop, boot, trip_flag, short_latched, fault_bits>>

(* gw_local_safety with a CLEAR_ESTOP: the core accepts it ... *)
AcceptClear ==
  /\ ~accepted
  /\ Clear
  /\ accepted' = TRUE
  /\ cleared' = TRUE
  /\ UNCHANGED <<bms, rearm_requested>>

(* ... and outside the lock hub_bms_notify_clear_accepted is called. *)
Notify ==
  /\ accepted
  /\ accepted' = FALSE
  /\ rearm_requested' = TRUE
  /\ UNCHANGED <<suit, bms, cleared>>

(* hub_gateway_safety_tick, and the suit's ESTOPs and MODE_SETs *)
Mirror ==
  /\ \/ LinkGood
     \/ LinkBad
     \/ Report
     \/ \E target \in {STANDBY, OPERATIONAL, PASSIVE} : ModeSet(target)
  /\ UNCHANGED <<bms, rearm_requested, accepted, cleared>>

Next ==
  \/ Short \/ Below
  \/ Start \/ InstallIsr \/ Loop
  \/ AcceptClear \/ Notify \/ Mirror

Spec == Init /\ [][Next]_vars

(* The task's loop has no exit and every wait in it is bounded. *)
FairSpec == Spec /\ WF_vars(Loop)

-----------------------------------------------------------------------------
(* hub_bms_start, bms_handle_short_trip and bms_try_rearm: whenever the latch
   holds the gate open, the firmware knows it and reports it (SHORT_LATCH set,
   COMP_ARMED not), or the ISR has just flagged it.  The strobe, the feedback
   and a new short during the strobe may interleave in any order.  The one
   exception is a short after hub_bms_start has read the latch and before it
   has installed the ISR, which causes no interrupt. *)
GateTold ==
  boot = "up" /\ latch /\ ~unseen =>
    \/ trip_flag
    \/ short_latched /\ SHORT_LATCH \in fault_bits /\ COMP_ARMED \notin fault_bits

(* bms_try_rearm with the gateway: the strobe goes out only if a CLEAR_ESTOP
   was accepted after the last e-stop the BMS itself has reported, however
   long ago the request that is being consumed was made. *)
RearmNeedsClear == strobe => cleared

(* bms_check: a tripped family, which no longer looks at its reading, is
   "latched until CLEAR_ESTOP + STANDBY re-entry" (bms_task.c:233): the e-stop
   waits to be cleared, or the clear's request is still to be consumed, or it
   is being consumed. *)
FamiliesRecover ==
  \A f \in Families :
    tripped[f] => \/ latched \/ accepted \/ rearm_requested
                  \/ pc \in {"raise", "strobe_on", "strobe_off", "feedback"}

(* bms_check, bms_try_rearm and the gateway: no request is lost between the
   gateway and the re-arm, so that unless a short is latched every tripped
   family is on its way back to monitoring. *)
TrippedRecovers == short_latched \/ FamiliesRecover

(* bms_sc_latch_isr and bms_handle_short_trip: every edge the ISR has flagged
   ends in a reported short and a latched mirror, also one during a strobe. *)
TripReported == trip_flag ~> (latched /\ SHORT_LATCH \in fault_bits)
==============================================================================
