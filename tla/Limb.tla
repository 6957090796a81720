-------------------------------- MODULE Limb --------------------------------
(***************************************************************************)
(* A limb node (firmware/apps/node_limb/main): the 1 kHz control task on    *)
(* core 1, the command handlers, the transition callback and the telemetry  *)
(* task on core 0, and the safety core they share.                          *)
(*                                                                          *)
(* The safety core writes its new state and then calls back, holding its    *)
(* mutex; the control task reads the state without it.  Everything between  *)
(* those two steps, and between the steps of one control tick, interleaves. *)
(* Numbers are abstracted: a set-point is none or a command, an integrator  *)
(* holds something from before the present period of operation or not.      *)
(***************************************************************************)
EXTENDS SafetyStates, FiniteSets

CONSTANTS
  JOINTS,     (* PS_LIMB_JOINT_COUNT; the loop runs 1 .. JOINTS             *)
  OC_TICKS    (* OVERCURRENT_TRIP_TICKS                                     *)

ASSUME LimbConstants == JOINTS \in Nat \ {0} /\ OC_TICKS \in Nat

Joints == 1 .. JOINTS

(* A set-point: "none" (PS_JMODE_PASSIVE), or a command, "fresh" while the suit
   has not tripped since it came. *)
SetPoints   == {"none", "fresh", "stale"}

VARIABLES
  cb,         (* the state a callback is due for, FAULT for none            *)
  sp,         (* s_setpoints                                                *)
  snap,       (* control_task's copy                                        *)
  can_act,    (* can_act_global                                             *)
  pc, j,      (* step of the control task and the joint it is at            *)
  pid,        (* whether s_pos_pid and s_vel_pid of a joint, and its s_foc, *)
  foc,        (* hold more than this period of operation put in             *)
  taint,      (* the duty in hand draws on an old integrator                *)
  out,        (* the gate driver of the joint was last given a duty         *)
  oc,         (* s_oc_ticks                                                 *)
  passive,    (* the flag in s_states                                       *)
  (* observers *)
  hot,        (* ticks over the limit in a row, since the last e-stop for it *)
  woke,       (* a control tick began since the last trip and its callback  *)
  late,       (* duties written since the suit left OPERATIONAL             *)
  overlap,    (* a tick ran between the state change and the callback       *)
  kicked,     (* the last duty drew on an old integrator, in OPERATIONAL    *)
  resumed     (* a stale command did, in a tick that began after the trip   *)

task  == <<snap, can_act, pc, j, taint>>
loops == <<pid, foc, oc, hot>>
seen  == <<woke, late, overlap, kicked, resumed>>
vars  == <<suit, cb, sp, task, loops, out, passive, seen>>

(* app_main: limb_safety_glue_init, ps_safety_start, limb_control_start *)
Init ==
  /\ SuitInit /\ cb = FAULT
  /\ sp = [k \in Joints |-> "none"] /\ snap = sp
  /\ can_act = FALSE /\ pc = "sleep" /\ j = 1 /\ taint = FALSE
  /\ pid = [k \in Joints |-> FALSE] /\ foc = pid
  /\ out = [k \in Joints |-> FALSE]
  /\ oc = [k \in Joints |-> 0] /\ hot = oc
  /\ passive = [k \in Joints |-> TRUE]
  /\ woke = TRUE /\ late = 0
  /\ overlap = FALSE /\ kicked = FALSE /\ resumed = FALSE

-----------------------------------------------------------------------------
(* What a change of state means to the observers: leaving OPERATIONAL makes
   the integrators old, a trip makes every command stale. *)
Trip == state # state' /\ state' \in {PASSIVE, ESTOP}
Stale(f) == [k \in Joints |-> IF f[k] = "fresh" THEN "stale" ELSE f[k]]

Observe ==
  /\ IF Trip THEN sp' = Stale(sp) /\ snap' = Stale(snap) /\ woke' = FALSE
             ELSE UNCHANGED <<sp, snap, woke>>
  /\ IF state = OPERATIONAL /\ state' # OPERATIONAL
     THEN pid' = [k \in Joints |-> TRUE] /\ foc' = pid'
     ELSE UNCHANGED <<pid, foc>>
  /\ late' = IF state = OPERATIONAL \/ state' = OPERATIONAL THEN 0 ELSE late
  /\ overlap' = ((IF state = OPERATIONAL THEN overlap ELSE pc # "sleep") /\ state' = OPERATIONAL)
  /\ kicked' = (kicked /\ state' = OPERATIONAL)

(* go() of ps_safety_core.c under the mutex: the state first ... *)
Change(how) ==
  /\ cb = FAULT
  /\ how
  /\ cb' = IF state' # state THEN state' ELSE FAULT
  /\ Observe

(* SAFETY frames, MODE_SET frames (handle_mode_set) and the safety tick *)
SafetyStep ==
  /\ \/ Change(Report) \/ Change(Clear) \/ Change(LinkBad) \/ Change(LinkGood)
     \/ Change(\E t \in {STANDBY, OPERATIONAL, PASSIVE} : ModeSet(t))
  /\ UNCHANGED <<can_act, pc, j, taint, oc, hot, out, passive, resumed>>

(* ... then limb_safety_on_transition: the set-points dropped on a trip, the
   integrators reset as actuation begins *)
DropSetPoints_estop == (* mutant: the set-points survive PASSIVE *)
  sp' = IF cb = ESTOP THEN [k \in Joints |-> "none"] ELSE sp
DropSetPoints ==
  sp' = IF cb \in {PASSIVE, ESTOP} THEN [k \in Joints |-> "none"] ELSE sp

ResetPids_not ==       (* mutant: the integrators are left alone *)
  UNCHANGED <<pid, foc>>
ResetPids ==
  IF cb = OPERATIONAL
  THEN pid' = [k \in Joints |-> FALSE] /\ foc' = pid'
  ELSE UNCHANGED <<pid, foc>>

Callback ==
  /\ cb # FAULT /\ cb' = FAULT
  /\ DropSetPoints /\ ResetPids
  /\ pc' = IF pc = "called" THEN "raised" ELSE pc
  /\ overlap' = (overlap \/ (cb = OPERATIONAL /\ pc # "sleep"))
  /\ UNCHANGED <<suit, snap, can_act, j, taint, oc, hot, out, passive, woke, late,
                 kicked, resumed>>

(* handle_joint_cmd: accepted in every state; mode PASSIVE among the modes *)
JointCmd(k) ==
  /\ sp' = [sp EXCEPT ![k] = "fresh"] \/ sp' = [sp EXCEPT ![k] = "none"]
  /\ UNCHANGED <<suit, cb, task, loops, out, passive, seen>>

-----------------------------------------------------------------------------
(* The control task: snapshot the set-points and the gate, ... *)
Wake ==
  /\ pc = "sleep"
  /\ snap' = sp /\ can_act' = (state = OPERATIONAL)
  /\ pc' = "cascade" /\ j' = 1 /\ taint' = FALSE
  /\ woke' = (woke \/ cb = FAULT)
  /\ overlap' = (overlap \/ cb = OPERATIONAL) /\ kicked' = FALSE
  /\ UNCHANGED <<suit, cb, sp, loops, out, passive, late, resumed>>

(* What a loop holds once it has run: what it held, and this tick's error *)
Fed(old) == old \/ state # OPERATIONAL

(* ... and per joint: the position and velocity loops under s_param_lock.  A
   joint that is let go resets them, TORQUE and IMPEDANCE pass them by.  The
   current loop follows outside the lock and reads its integrators: a reset in
   between does what one before or after both does, so it is one step ... *)
Cascade ==
  /\ pc = "cascade"
  /\ \/ /\ snap[j] = "none"
        /\ pid' = [pid EXCEPT ![j] = FALSE] /\ taint' = foc[j]
     \/ /\ snap[j] # "none"
        /\ \/ pid' = [pid EXCEPT ![j] = Fed(@)] /\ taint' = (pid[j] \/ foc[j])
           \/ UNCHANGED pid /\ taint' = foc[j]
  /\ pc' = "foc" /\ kicked' = FALSE
  /\ UNCHANGED <<suit, cb, sp, snap, can_act, j, foc, oc, hot, out, passive,
                 woke, late, overlap, resumed>>

(* ... and a write that a reset may have come before, ... *)
FocWrite ==
  /\ pc = "foc"
  /\ \E old \in {foc[j], taint \/ foc[j]} : foc' = [foc EXCEPT ![j] = Fed(old)]
  /\ pc' = "gate"
  /\ UNCHANGED <<suit, cb, sp, snap, can_act, j, taint, pid, oc, hot,
                 out, passive, seen>>

(* ... joint_state_publish, the last thing for a joint (what the tick held is
   of no more use and forgotten), ... *)
Publish ==
  /\ passive' = [passive EXCEPT ![j] = snap[j] = "none" \/ ~can_act]
  /\ snap' = [snap EXCEPT ![j] = "none"]
  /\ IF j < JOINTS THEN j' = j + 1 /\ pc' = "cascade" /\ UNCHANGED can_act
                   ELSE j' = 1 /\ pc' = "sleep" /\ can_act' = FALSE

(* ... and before it the measured current, over the limit or not: one tick
   too many calls for an e-stop.  Nobody else sees any of this but the flag. *)
Cool == oc' = [oc EXCEPT ![j] = 0]

Trips == oc[j] + 1 > OC_TICKS

Current ==
  /\ taint' = FALSE
  /\ \/ /\ hot' = [hot EXCEPT ![j] = IF @ > OC_TICKS THEN @ ELSE @ + 1]
        /\ IF Trips THEN pc' = "raise" /\ UNCHANGED <<oc, snap, j, can_act, passive>>
                    ELSE Publish /\ oc' = [oc EXCEPT ![j] = @ + 1]
     \/ Cool /\ hot' = [hot EXCEPT ![j] = 0] /\ Publish

(* joint_write: the gate is read, ... *)
MayDrive == snap[j] # "none" /\ state = OPERATIONAL

Gate ==
  /\ pc = "gate" /\ MayDrive
  /\ pc' = "duty"
  /\ UNCHANGED <<suit, cb, sp, snap, can_act, j, taint, loops, out, passive, seen>>

(* ... and the duty written; ... *)
Duty ==
  /\ pc = "duty"
  /\ out' = [out EXCEPT ![j] = TRUE]
  /\ late' = IF state # OPERATIONAL THEN late + 1 ELSE late
  /\ kicked' = (taint /\ state = OPERATIONAL)
  /\ resumed' = (resumed \/ (snap[j] = "stale" /\ state = OPERATIONAL /\ woke))
  /\ Current
  /\ UNCHANGED <<suit, cb, sp, pid, foc, woke, overlap>>

(* ... or a fast joint is braked and a slow one freed, which comes to the same
   whatever the state has become meanwhile. *)
LetGo_hold == UNCHANGED out      (* mutant: the last duty is left on the driver *)
LetGo == out' = [out EXCEPT ![j] = FALSE]

Limp ==
  /\ pc = "gate" /\ ~MayDrive
  /\ LetGo /\ Current
  /\ UNCHANGED <<suit, cb, sp, pid, foc, seen>>

(* ps_safety_raise_estop: the frames first, then the own core and its callback *)
Raise ==
  /\ pc = "raise" /\ Change(Report)
  /\ pc' = IF state' # state THEN "called" ELSE "raised"
  /\ oc' = [oc EXCEPT ![j] = 0] /\ hot' = [hot EXCEPT ![j] = 0]
  /\ UNCHANGED <<can_act, j, taint, out, passive, resumed>>

Raised ==
  /\ pc = "raised" /\ Publish
  /\ UNCHANGED <<suit, cb, sp, taint, loops, out, seen>>

Control ==
  \/ Wake \/ Cascade \/ FocWrite \/ Gate \/ Duty \/ Limp
  \/ Raise \/ Raised

Next ==
  \/ SafetyStep \/ Callback \/ Control
  \/ \E k \in Joints : JointCmd(k)

(* The gptimer wakes the control task every millisecond, the callback is the
   next thing its caller does, and the mutex, free between the steps of tasks
   that run every few milliseconds, goes to the waiter of the highest priority. *)
Spec ==
  /\ Init /\ [][Next]_vars
  /\ WF_vars(Control) /\ WF_vars(Callback) /\ SF_vars(Raise)

-----------------------------------------------------------------------------
TypeOK ==
  /\ state \in States /\ latched \in BOOLEAN /\ wants \in BOOLEAN
  /\ cb \in {STANDBY, OPERATIONAL, PASSIVE, ESTOP, FAULT}
  /\ sp \in [Joints -> SetPoints] /\ snap \in [Joints -> SetPoints]
  /\ pid \in [Joints -> BOOLEAN] /\ foc \in [Joints -> BOOLEAN]
  /\ out \in [Joints -> BOOLEAN]
  /\ oc \in [Joints -> 0 .. OC_TICKS]
  /\ passive \in [Joints -> BOOLEAN]
  /\ j \in Joints

(* The gate is read and the duty written in two steps, so a trip can fall in
   between; but then it does so for the one joint in hand: after the suit has
   left OPERATIONAL, at most one duty is written in all. *)
OneLateDuty == late <= 1

(* safety_glue.c resets the integrators so that "a stale term accumulated
   during PASSIVE cannot kick the joint the instant actuation is re-armed".
   It can, since the state is live before the callback runs and the current
   loop steps outside the lock; but only if a tick ran across the callback. *)
KickNeedsOverlap == kicked => overlap

(* What moved the joint before a trip does not move it after, whatever tick, trip
   and callback the command came between, with one exception: control_task
   works from a copy, and a tick that had made it before the trip's callback was
   through goes on with it.  MODE_SET(STANDBY), MODE_SET(OPERATIONAL) and a safety
   tick with the link good bring the suit back without a re-arm window; when they
   all fall into that tick, its remaining joints are driven by the old command.
   The next tick drives none. *)
NeverResumes == ~resumed

(* An overcurrent of more than OVERCURRENT_TRIP_TICKS ticks has raised an
   e-stop by the end of its tick, whatever the other joint measures. *)
OvercurrentTrips ==
  pc = "sleep" => \A k \in Joints : hot[k] <= OC_TICKS

(* A suit out of OPERATIONAL for good lets go of every joint and says so. *)
GoesLimp ==
  <>[](state # OPERATIONAL) =>
    <>[](\A k \in Joints : ~out[k] /\ passive[k])

(* A trip ends force: an overcurrent causes one, at most one duty is late after it,
   and no tick that begins after it drives a joint by a command from before. *)
TripsHold == TypeOK /\ OvercurrentTrips /\ OneLateDuty /\ NeverResumes
=============================================================================
