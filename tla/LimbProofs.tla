----------------------------- MODULE LimbProofs -----------------------------
(***************************************************************************)
(* A limb node's trips and its integrators, for every number of joints and  *)
(* every overcurrent limit.                                                 *)
(***************************************************************************)
EXTENDS Limb, TLAPS

Steps == {"sleep", "cascade", "foc", "gate", "duty", "raise", "called", "raised"}

(* TypeOK, and what it leaves out: the task's own variables and the observers *)
Types ==
  /\ TypeOK
  /\ pc \in Steps /\ can_act \in BOOLEAN /\ taint \in BOOLEAN
  /\ hot \in [Joints -> Nat] /\ late \in Nat
  /\ woke \in BOOLEAN /\ overlap \in BOOLEAN /\ kicked \in BOOLEAN

(* One duty may be late: the gate it passed was open *)
LateOnce == late <= 1 /\ (state = OPERATIONAL \/ pc = "duty" => late = 0)

(* The counter in s_oc_ticks is the true one, but for the joint an e-stop is being
   raised for *)
Counted == \A k \in Joints : hot[k] = oc[k] \/ (pc = "raise" /\ k = j)

(* A command from before a trip lives in the set-points until the callback, and in
   the task's copy until a tick has begun after it *)
Old(f) == \E k \in Joints : f[k] = "stale"
Forgotten ==
  /\ cb \in {PASSIVE, ESTOP} \/ ~Old(sp)
  /\ woke => cb \notin {PASSIVE, ESTOP} /\ ~Old(snap)
  /\ ~resumed

(* Where no tick ran across the callback, the integrators hold nothing old once it
   is through, and no tick is under way before; what a tick draws on it forgets with
   the joint *)
Clean ==
  /\ state = OPERATIONAL /\ ~overlap =>
       /\ ~taint
       /\ IF cb = OPERATIONAL THEN pc = "sleep" ELSE \A k \in Joints : ~pid[k] /\ ~foc[k]
  /\ taint => pc \in {"foc", "gate", "duty"}
  /\ kicked => state = OPERATIONAL /\ overlap

Inv == Types /\ LateOnce /\ Counted /\ Forgotten /\ Clean

(* limb_control_start: nothing commanded, nothing counted *)
LEMMA InvInit == Init => Inv
<1> SUFFICES ASSUME Init PROVE Inv
  OBVIOUS
<1>0. /\ state \in States /\ latched \in BOOLEAN /\ wants \in BOOLEAN
      /\ cb \in {STANDBY, OPERATIONAL, PASSIVE, ESTOP, FAULT}
  <2>1. state \in States /\ cb = FAULT
    BY DEF Init, SuitInit, States, BOOT, FAULT
  <2>2. latched \in BOOLEAN /\ wants \in BOOLEAN
    BY Zenon DEF Init, SuitInit
  <2> QED BY <2>1, <2>2, Zenon
<1>1. Types
  <2>1. 1 \in Joints /\ OC_TICKS \in Nat
    BY LimbConstants DEF LimbConstants, Joints
  <2>2. sp \in [Joints -> SetPoints] /\ snap \in [Joints -> SetPoints]
    BY DEF Init, SetPoints
  <2>3. /\ pid \in [Joints -> BOOLEAN] /\ foc \in [Joints -> BOOLEAN]
        /\ out \in [Joints -> BOOLEAN] /\ passive \in [Joints -> BOOLEAN]
    BY Zenon DEF Init
  <2>4. oc \in [Joints -> 0 .. OC_TICKS] /\ hot \in [Joints -> Nat]
    BY <2>1 DEF Init
  <2>5. /\ pc \in Steps /\ can_act \in BOOLEAN /\ taint \in BOOLEAN /\ late \in Nat
        /\ woke \in BOOLEAN /\ overlap \in BOOLEAN /\ kicked \in BOOLEAN /\ j = 1
    BY Zenon DEF Init, Steps
  <2> QED BY <1>0, <2>1, <2>2, <2>3, <2>4, <2>5 DEF Types, TypeOK
<1>2. LateOnce /\ Counted
  BY DEF Init, LateOnce, Counted
<1>3. Forgotten /\ Clean
  BY DEF Init, SuitInit, Forgotten, Old, Clean, BOOT, OPERATIONAL, PASSIVE, ESTOP, FAULT
<1> QED BY <1>1, <1>2, <1>3 DEF Inv

-----------------------------------------------------------------------------
(* A move of the safety core as the node sees it: only when no callback is pending,
   and never into BOOT or FAULT *)
Moved ==
  /\ cb = FAULT /\ cb' = (IF state' # state THEN state' ELSE FAULT)
  /\ state' \in States /\ latched' \in BOOLEAN /\ wants' \in BOOLEAN
  /\ state' # state => state' \in {STANDBY, OPERATIONAL, PASSIVE, ESTOP}
  /\ Observe

(* Every frame and every safety tick is such a move, ... *)
LEMMA SafetyMoves == ASSUME Types, SafetyStep PROVE Moved
<1>0. state \in States /\ latched \in BOOLEAN /\ wants \in BOOLEAN
  BY DEF Types, TypeOK
<1> USE <1>0 DEF Change, Moved, States, BOOT, STANDBY, OPERATIONAL, PASSIVE, ESTOP, FAULT
<1>1. CASE Change(Report)
  <2>1. state' = ESTOP /\ latched' = TRUE /\ wants' = (IF latched THEN wants ELSE FALSE)
    BY <1>1 DEF Report
  <2>2. latched' \in BOOLEAN /\ wants' \in BOOLEAN
    BY <2>1, Zenon
  <2>3. state' = ESTOP
    BY <2>1
  <2>4. cb = FAULT /\ cb' = (IF state' # state THEN state' ELSE FAULT) /\ Observe
    BY <1>1
  <2> QED BY <2>2, <2>3, <2>4
<1>2. CASE Change(Clear)
  BY Zenon, <1>2 DEF Clear
<1>3. CASE Change(LinkBad)
  BY <1>3 DEF LinkBad
<1>4. CASE Change(\E t \in {STANDBY, OPERATIONAL, PASSIVE} : ModeSet(t))
  BY <1>4 DEF ModeSet
<1>5. CASE Change(LinkGood)
  BY <1>5 DEF LinkGood
<1> QED BY <1>1, <1>2, <1>3, <1>4, <1>5 DEF SafetyStep

(* ... and so is the e-stop that the control task raises *)
LEMMA RaiseMoves == ASSUME Types, Raise PROVE Moved /\ state' = ESTOP
<1>1. /\ cb = FAULT /\ cb' = (IF state' # state THEN state' ELSE FAULT) /\ Observe
      /\ state' = ESTOP
  BY DEF Raise, Change, Report
<1>2. latched' \in BOOLEAN /\ wants' \in BOOLEAN
  BY Zenon DEF Types, TypeOK, Raise, Change, Report
<1> QED BY <1>1, <1>2 DEF Moved, States, BOOT, STANDBY, OPERATIONAL, PASSIVE, ESTOP, FAULT

(* What the observers make of a move keeps the types *)
LEMMA ObserveTypes ==
  ASSUME Types, Moved
  PROVE  /\ state' \in States /\ latched' \in BOOLEAN /\ wants' \in BOOLEAN
         /\ cb' \in {STANDBY, OPERATIONAL, PASSIVE, ESTOP, FAULT}
         /\ sp' \in [Joints -> SetPoints] /\ snap' \in [Joints -> SetPoints]
         /\ pid' \in [Joints -> BOOLEAN] /\ foc' \in [Joints -> BOOLEAN]
         /\ late' \in Nat /\ woke' \in BOOLEAN /\ overlap' \in BOOLEAN
         /\ kicked' \in BOOLEAN
<1>1. /\ state' \in States /\ latched' \in BOOLEAN /\ wants' \in BOOLEAN
      /\ cb' \in {STANDBY, OPERATIONAL, PASSIVE, ESTOP, FAULT}
  BY DEF Moved
<1>2. sp' \in [Joints -> SetPoints] /\ snap' \in [Joints -> SetPoints]
  BY DEF Types, TypeOK, Moved, Observe, Stale, SetPoints
<1>3. pid' \in [Joints -> BOOLEAN] /\ foc' \in [Joints -> BOOLEAN]
  BY Zenon DEF Types, TypeOK, Moved, Observe
<1>4. late' \in Nat /\ woke' \in BOOLEAN
  BY Zenon DEF Types, Moved, Observe
<1>5. overlap' \in BOOLEAN /\ kicked' \in BOOLEAN
  BY DEF Moved, Observe
<1> QED BY <1>1, <1>2, <1>3, <1>4, <1>5

(* ... and the rest of the invariant, whether the move comes from a frame or from
   the control task itself *)
LEMMA ObserveKeeps ==
  ASSUME Inv, Moved, UNCHANGED <<taint, resumed>>,
         pc' = pc \/ (pc = "raise" /\ pc' \in {"called", "raised"} /\ state' = ESTOP)
  PROVE  LateOnce' /\ Forgotten' /\ Clean'
<1> USE DEF States, BOOT, STANDBY, OPERATIONAL, PASSIVE, ESTOP, FAULT
<1>1. LateOnce'
  BY DEF Inv, Types, LateOnce, Moved, Observe
<1>2. Forgotten'
  <2>1. CASE Trip
    BY <2>1 DEF Inv, Forgotten, Moved, Observe, Trip
  <2>2. CASE ~Trip
    BY <2>2 DEF Inv, Forgotten, Old, Moved, Observe, Trip
  <2> QED BY <2>1, <2>2
<1>3. Clean'
  <2>1. CASE state = OPERATIONAL /\ state' = OPERATIONAL
    BY Zenon, <2>1 DEF Inv, Clean, Moved, Observe
  <2>2. CASE state # OPERATIONAL /\ state' = OPERATIONAL
    BY Zenon, <2>2 DEF Inv, Clean, Moved, Observe
  <2>3. CASE state' # OPERATIONAL
    BY Zenon, <2>3 DEF Inv, Clean, Moved, Observe
  <2> QED BY <2>1, <2>2, <2>3
<1> QED BY <1>1, <1>2, <1>3

-----------------------------------------------------------------------------
(* One step per action *)

(* Frames and the safety tick *)
LEMMA SafetyKeeps == ASSUME Inv, SafetyStep PROVE Inv'
<1>1. Types /\ Moved
  BY SafetyMoves DEF Inv
<1>2. UNCHANGED <<can_act, pc, j, taint, oc, hot, out, passive, resumed>>
  BY DEF SafetyStep
<1>3. Types'
  BY <1>1, <1>2, ObserveTypes DEF Types, TypeOK
<1>4. Counted'
  BY <1>2 DEF Inv, Counted
<1> QED BY <1>1, <1>2, <1>3, <1>4, ObserveKeeps DEF Inv

(* The e-stop of the overcurrent limit *)
LEMMA RaiseKeeps == ASSUME Inv, Raise PROVE Inv'
<1>1. Types /\ Moved /\ state' = ESTOP
  BY RaiseMoves DEF Inv
<1>2. /\ pc = "raise" /\ pc' \in {"called", "raised"}
      /\ oc' = [oc EXCEPT ![j] = 0] /\ hot' = [hot EXCEPT ![j] = 0]
      /\ UNCHANGED <<can_act, j, taint, out, passive, resumed>>
  BY DEF Raise
<1>3. Types'
  BY <1>1, <1>2, ObserveTypes, LimbConstants DEF Types, TypeOK, Steps, LimbConstants
<1>4. Counted'
  BY <1>2 DEF Inv, Types, TypeOK, Counted
<1> QED BY <1>1, <1>2, <1>3, <1>4, ObserveKeeps DEF Inv

(* limb_safety_on_transition *)
LEMMA CallbackKeeps == ASSUME Inv, Callback PROVE Inv'
<1>0. /\ cb # FAULT /\ cb' = FAULT /\ DropSetPoints /\ ResetPids
      /\ pc' = (IF pc = "called" THEN "raised" ELSE pc)
      /\ overlap' = (overlap \/ (cb = OPERATIONAL /\ pc # "sleep"))
      /\ UNCHANGED <<state, latched, wants, snap, can_act, j, taint, oc, hot, out, passive,
                     woke, late, kicked, resumed>>
  BY DEF Callback, suit
<1>1. Types'
  <2>1. sp' \in [Joints -> SetPoints]
    BY <1>0 DEF Inv, Types, TypeOK, DropSetPoints, SetPoints
  <2>2. pid' \in [Joints -> BOOLEAN] /\ foc' \in [Joints -> BOOLEAN]
    BY <1>0, Zenon DEF Inv, Types, TypeOK, ResetPids
  <2>3. overlap' \in BOOLEAN
    BY <1>0, Zenon
  <2> QED BY <1>0, <2>1, <2>2, <2>3 DEF Inv, Types, TypeOK, Steps
<1>2. LateOnce' /\ Counted'
  BY <1>0 DEF Inv, LateOnce, Counted
<1>3. Forgotten'
  BY <1>0 DEF Inv, Forgotten, Old, DropSetPoints, PASSIVE, ESTOP, FAULT
<1>4. Clean'
  <2>1. ASSUME state = OPERATIONAL, ~overlap'
        PROVE  ~taint /\ \A k \in Joints : ~pid'[k] /\ ~foc'[k]
    <3>1. ~overlap /\ ~taint
      BY Zenon, <1>0, <2>1 DEF Inv, Clean
    <3>2. CASE cb = OPERATIONAL
      BY <1>0, <3>1, <3>2 DEF ResetPids
    <3>3. CASE cb # OPERATIONAL
      BY <1>0, <2>1, <3>1, <3>3 DEF Inv, Clean, ResetPids
    <3> QED BY <3>1, <3>2, <3>3
  <2>2. kicked' => state' = OPERATIONAL /\ overlap'
    BY <1>0 DEF Inv, Clean
  <2>3. taint' => pc' \in {"foc", "gate", "duty"}
    BY <1>0 DEF Inv, Clean
  <2>4. cb' # OPERATIONAL /\ state' = state /\ taint' = taint
    BY <1>0 DEF OPERATIONAL, FAULT
  <2> QED BY <2>1, <2>2, <2>3, <2>4 DEF Clean
<1> QED BY <1>1, <1>2, <1>3, <1>4 DEF Inv

(* handle_joint_cmd *)
LEMMA CmdKeeps == ASSUME Inv, NEW k \in Joints, JointCmd(k) PROVE Inv'
<1> USE DEF JointCmd, task, loops, seen, suit
<1>1. Types'
  BY DEF Inv, Types, TypeOK, SetPoints
<1>2. LateOnce' /\ Counted' /\ Clean'
  BY DEF Inv, LateOnce, Counted, Clean
<1>3. Forgotten'
  BY DEF Inv, Types, TypeOK, Forgotten, Old
<1> QED BY <1>1, <1>2, <1>3 DEF Inv

(* The tick begins *)
LEMMA WakeKeeps == ASSUME Inv, Wake PROVE Inv'
<1>0. /\ pc = "sleep" /\ snap' = sp /\ pc' = "cascade" /\ j' = 1 /\ taint' = FALSE
      /\ can_act' = (state = OPERATIONAL) /\ woke' = (woke \/ cb = FAULT)
      /\ overlap' = (overlap \/ cb = OPERATIONAL) /\ kicked' = FALSE
      /\ UNCHANGED <<state, latched, wants, cb, sp, pid, foc, oc, hot, out, passive, late,
                     resumed>>
  BY DEF Wake, loops, suit
<1>1. Types'
  <2>1. 1 \in Joints
    BY LimbConstants DEF LimbConstants, Joints
  <2>2. can_act' \in BOOLEAN /\ woke' \in BOOLEAN /\ overlap' \in BOOLEAN
    BY <1>0, Zenon
  <2> QED BY Zenon, <1>0, <2>1, <2>2 DEF Inv, Types, TypeOK, Steps
<1>2. LateOnce' /\ Counted'
  BY <1>0 DEF Inv, LateOnce, Counted
<1>3. Forgotten'
  <2>1. CASE woke
    BY Zenon, <1>0, <2>1 DEF Inv, Forgotten, Old
  <2>2. CASE cb = FAULT
    <3>1. cb \notin {PASSIVE, ESTOP}
      BY <2>2 DEF PASSIVE, ESTOP, FAULT
    <3>2. ~Old(sp) /\ ~resumed /\ woke'
      BY <1>0, <2>2, <3>1, Zenon DEF Inv, Forgotten
    <3> QED BY <1>0, <3>1, <3>2 DEF Forgotten, Old
  <2>3. CASE ~woke /\ cb # FAULT
    <3>1. ~woke'
      BY Zenon, <1>0, <2>3 DEF Inv, Forgotten
    <3> QED BY <1>0, <3>1 DEF Inv, Forgotten, Old
  <2> QED BY <2>1, <2>2, <2>3
<1>4. Clean'
  BY Zenon, <1>0 DEF Inv, Clean
<1> QED BY <1>1, <1>2, <1>3, <1>4 DEF Inv

(* The position and velocity loops *)
LEMMA CascadeKeeps == ASSUME Inv, Cascade PROVE Inv'
<1> USE DEF Cascade, suit
<1>0. Types
  BY DEF Inv
<1>1. pid' \in [Joints -> BOOLEAN] /\ taint' \in BOOLEAN
  BY Zenon, <1>0 DEF Types, TypeOK, Fed
<1>2. Types'
  BY Zenon, <1>0, <1>1 DEF Types, TypeOK, Steps
<1>3. LateOnce' /\ Counted' /\ Forgotten'
  BY DEF Inv, LateOnce, Counted, Forgotten, Old
<1>4. Clean'
  <2>1. ASSUME state = OPERATIONAL, ~overlap
        PROVE  ~taint' /\ cb # OPERATIONAL /\ \A k \in Joints : ~pid'[k] /\ ~foc[k]
    BY <1>0, <2>1 DEF Inv, Clean, Types, TypeOK, Fed
  <2> QED BY <2>1 DEF Clean
<1> QED BY <1>2, <1>3, <1>4 DEF Inv

(* The current loop *)
LEMMA FocKeeps == ASSUME Inv, FocWrite PROVE Inv'
<1> USE DEF FocWrite, suit, seen
<1>0. Types
  BY DEF Inv
<1>1. foc' \in [Joints -> BOOLEAN]
  BY <1>0 DEF Types, TypeOK, Fed
<1>2. Types'
  BY <1>0, <1>1 DEF Types, TypeOK, Steps
<1>3. LateOnce' /\ Counted' /\ Forgotten'
  BY DEF Inv, LateOnce, Counted, Forgotten, Old
<1>4. Clean'
  <2>1. ASSUME state = OPERATIONAL, ~overlap
        PROVE  ~taint /\ cb # OPERATIONAL /\ \A k \in Joints : ~pid[k] /\ ~foc'[k]
    BY <1>0, <2>1 DEF Inv, Clean, Types, TypeOK, Fed
  <2> QED BY <2>1 DEF Inv, Clean
<1> QED BY <1>2, <1>3, <1>4 DEF Inv

(* The gate *)
LEMMA GateKeeps == ASSUME Inv, Gate PROVE Inv'
<1> USE DEF Gate, suit, seen, loops
<1>1. Types'
  BY DEF Inv, Types, TypeOK, Steps
<1>2. LateOnce'
  BY DEF Inv, LateOnce, MayDrive
<1>3. Counted' /\ Forgotten' /\ Clean'
  BY DEF Inv, Counted, Forgotten, Old, Clean
<1> QED BY <1>1, <1>2, <1>3 DEF Inv

(* joint_state_publish leaves the task at its next joint or asleep *)
LEMMA PublishTypes ==
  ASSUME Types, Publish
  PROVE  /\ passive' \in [Joints -> BOOLEAN] /\ snap' \in [Joints -> SetPoints]
         /\ (\A k \in Joints : snap'[k] \in {snap[k], "none"})
         /\ j' \in Joints /\ pc' \in {"cascade", "sleep"} /\ can_act' \in BOOLEAN
<1>0. JOINTS \in Nat \ {0}
  BY LimbConstants DEF LimbConstants
<1>1. j' \in Joints /\ pc' \in {"cascade", "sleep"} /\ can_act' \in BOOLEAN
  <2>1. CASE j < JOINTS
    BY <1>0, <2>1 DEF Types, TypeOK, Publish, Joints
  <2>2. CASE ~(j < JOINTS)
    <3>1. can_act' \in BOOLEAN
      BY <2>2, Zenon DEF Publish
    <3>2. j' = 1 /\ pc' = "sleep"
      BY <2>2 DEF Publish
    <3> QED BY <1>0, <3>1, <3>2 DEF Joints
  <2> QED BY <2>1, <2>2
<1>2. snap' \in [Joints -> SetPoints] /\ \A k \in Joints : snap'[k] \in {snap[k], "none"}
  BY DEF Types, TypeOK, Publish, SetPoints
<1>3. passive' \in [Joints -> BOOLEAN]
  BY DEF Types, TypeOK, Publish
<1> QED BY <1>1, <1>2, <1>3

(* The measured current: counted as it is, and an e-stop due in time *)
LEMMA CurrentCounts ==
  ASSUME Types, Counted, pc \in {"gate", "duty"}, Current
  PROVE  /\ oc' \in [Joints -> 0 .. OC_TICKS] /\ hot' \in [Joints -> Nat]
         /\ passive' \in [Joints -> BOOLEAN] /\ snap' \in [Joints -> SetPoints]
         /\ (\A k \in Joints : snap'[k] \in {snap[k], "none"})
         /\ j' \in Joints /\ pc' \in {"cascade", "sleep", "raise"}
         /\ can_act' \in BOOLEAN /\ ~taint' /\ Counted'
<1>0. OC_TICKS \in Nat
  BY LimbConstants DEF LimbConstants
<1>1. \A k \in Joints : hot[k] = oc[k]
  BY DEF Counted
<1>2. ~taint'
  BY DEF Current
<1>3. CASE Trips /\ hot' = [hot EXCEPT ![j] = IF @ > OC_TICKS THEN @ ELSE @ + 1]
           /\ pc' = "raise" /\ UNCHANGED <<oc, snap, j, can_act, passive>>
  <2>1. hot' \in [Joints -> Nat] /\ \A k \in Joints \ {j} : hot'[k] = hot[k]
    BY <1>3 DEF Types, TypeOK
  <2>2. Counted'
    BY <1>1, <1>3, <2>1 DEF Counted
  <2> QED BY <1>2, <1>3, <2>1, <2>2 DEF Types, TypeOK
<1>4. CASE ~Trips /\ hot' = [hot EXCEPT ![j] = IF @ > OC_TICKS THEN @ ELSE @ + 1]
           /\ oc' = [oc EXCEPT ![j] = @ + 1] /\ Publish
  <2>1. oc[j] \in Nat /\ oc[j] + 1 <= OC_TICKS /\ hot[j] = oc[j]
    BY <1>0, <1>1, <1>4 DEF Types, TypeOK, Trips
  <2>2. hot' \in [Joints -> Nat] /\ oc' \in [Joints -> 0 .. OC_TICKS]
    BY <1>0, <1>4, <2>1 DEF Types, TypeOK
  <2>3. \A k \in Joints : hot'[k] = oc'[k]
    BY <1>0, <1>1, <1>4, <2>1 DEF Types, TypeOK
  <2> QED BY <1>2, <1>4, <2>2, <2>3, PublishTypes DEF Counted
<1>5. CASE Cool /\ hot' = [hot EXCEPT ![j] = 0] /\ Publish
  <2>1. hot' \in [Joints -> Nat] /\ oc' \in [Joints -> 0 .. OC_TICKS]
    BY <1>0, <1>5 DEF Types, TypeOK, Cool
  <2>2. \A k \in Joints : hot'[k] = oc'[k]
    BY <1>1, <1>5 DEF Types, TypeOK, Cool
  <2> QED BY <1>2, <1>5, <2>1, <2>2, PublishTypes DEF Counted
<1> QED BY <1>3, <1>4, <1>5 DEF Current

(* A joint driven *)
LEMMA DutyKeeps == ASSUME Inv, Duty PROVE Inv'
<1> USE DEF Duty, suit
<1>0. Types /\ Counted
  BY DEF Inv
<1>1. /\ oc' \in [Joints -> 0 .. OC_TICKS] /\ hot' \in [Joints -> Nat]
      /\ passive' \in [Joints -> BOOLEAN] /\ snap' \in [Joints -> SetPoints]
      /\ (\A k \in Joints : snap'[k] \in {snap[k], "none"})
      /\ j' \in Joints /\ pc' \in {"cascade", "sleep", "raise"}
      /\ can_act' \in BOOLEAN /\ ~taint' /\ Counted'
  BY <1>0, CurrentCounts
<1>2. /\ late' = (IF state # OPERATIONAL THEN late + 1 ELSE late)
      /\ kicked' = (taint /\ state = OPERATIONAL)
      /\ resumed' = (resumed \/ (snap[j] = "stale" /\ state = OPERATIONAL /\ woke))
      /\ out' = [out EXCEPT ![j] = TRUE]
      /\ UNCHANGED <<state, latched, wants, cb, sp, pid, foc, woke, overlap>>
  OBVIOUS
<1>3. taint' \in BOOLEAN
  BY Zenon DEF Current
<1>4. Types'
  <2>1. out' \in [Joints -> BOOLEAN] /\ late' \in Nat /\ kicked' \in BOOLEAN
    BY <1>0, <1>2 DEF Types, TypeOK
  <2> QED BY <1>0, <1>1, <1>2, <1>3, <2>1 DEF Types, TypeOK, Steps
<1>5. LateOnce'
  BY <1>1, <1>2 DEF Inv, LateOnce
<1>6. Forgotten'
  <2>1. ~(snap[j] = "stale" /\ state = OPERATIONAL /\ woke)
    BY <1>0 DEF Inv, Forgotten, Old, Types, TypeOK
  <2>2. ~resumed'
    BY Zenon, <1>2, <2>1 DEF Inv, Forgotten
  <2>3. Old(snap') => Old(snap)
    BY <1>1 DEF Old
  <2> QED BY <1>2, <2>2, <2>3 DEF Inv, Forgotten, Old
<1>7. Clean'
  <2>1. state = OPERATIONAL /\ ~overlap => cb # OPERATIONAL /\ ~taint
    BY DEF Inv, Clean
  <2>2. kicked' => state' = OPERATIONAL /\ overlap'
    <3>1. kicked' => taint /\ state = OPERATIONAL
      BY <1>2, Zenon
    <3>2. state = OPERATIONAL /\ taint => overlap
      BY DEF Inv, Clean
    <3>3. UNCHANGED <<state, overlap>>
      BY <1>2
    <3> QED BY <3>1, <3>2, <3>3
  <2>3. state = OPERATIONAL /\ ~overlap => \A k \in Joints : ~pid[k] /\ ~foc[k]
    BY <2>1 DEF Inv, Clean
  <2> QED BY <1>1, <1>2, <2>1, <2>2, <2>3 DEF Clean
<1> QED BY <1>1, <1>4, <1>5, <1>6, <1>7 DEF Inv

(* A joint let go *)
LEMMA LimpKeeps == ASSUME Inv, Limp PROVE Inv'
<1> USE DEF Limp, suit, seen
<1>0. Types /\ Counted
  BY DEF Inv
<1>1. /\ oc' \in [Joints -> 0 .. OC_TICKS] /\ hot' \in [Joints -> Nat]
      /\ passive' \in [Joints -> BOOLEAN] /\ snap' \in [Joints -> SetPoints]
      /\ (\A k \in Joints : snap'[k] \in {snap[k], "none"})
      /\ j' \in Joints /\ pc' \in {"cascade", "sleep", "raise"}
      /\ can_act' \in BOOLEAN /\ ~taint' /\ Counted'
  BY <1>0, CurrentCounts
<1>2. /\ out' = [out EXCEPT ![j] = FALSE]
      /\ UNCHANGED <<state, latched, wants, cb, sp, pid, foc, woke, late, overlap,
                     kicked, resumed>>
  BY DEF LetGo
<1>3. taint' \in BOOLEAN
  BY Zenon DEF Current
<1>4. Types'
  <2>1. out' \in [Joints -> BOOLEAN]
    BY <1>0, <1>2 DEF Types, TypeOK
  <2> QED BY <1>0, <1>1, <1>2, <1>3, <2>1 DEF Types, TypeOK, Steps
<1>5. LateOnce'
  BY <1>1, <1>2 DEF Inv, LateOnce
<1>6. Forgotten'
  <2>1. Old(snap') => Old(snap)
    BY <1>1 DEF Old
  <2> QED BY <1>2, <2>1 DEF Inv, Forgotten, Old
<1>7. Clean'
  <2>1. state = OPERATIONAL /\ ~overlap => \A k \in Joints : ~pid[k] /\ ~foc[k]
    BY DEF Inv, Clean
  <2>2. state = OPERATIONAL /\ ~overlap => cb # OPERATIONAL
    BY DEF Inv, Clean
  <2>3. kicked => state = OPERATIONAL /\ overlap
    BY DEF Inv, Clean
  <2>4. /\ state' = state /\ cb' = cb /\ pid' = pid /\ foc' = foc
        /\ overlap' = overlap /\ kicked' = kicked
    BY <1>2
  <2>5. ~taint'
    BY <1>1
  <2> HIDE DEF Limp
  <2> QED BY Zenon, <2>1, <2>2, <2>3, <2>4, <2>5 DEF Clean
<1> QED BY <1>1, <1>4, <1>5, <1>6, <1>7 DEF Inv

(* The tick goes on after its e-stop *)
LEMMA RaisedKeeps == ASSUME Inv, Raised PROVE Inv'
<1> USE DEF Raised, suit, seen, loops
<1>0. Types /\ Publish
  BY DEF Inv
<1>1. /\ passive' \in [Joints -> BOOLEAN] /\ snap' \in [Joints -> SetPoints]
      /\ (\A k \in Joints : snap'[k] \in {snap[k], "none"})
      /\ j' \in Joints /\ pc' \in {"cascade", "sleep"} /\ can_act' \in BOOLEAN
  BY <1>0, PublishTypes
<1>2. Types'
  BY <1>0, <1>1 DEF Types, TypeOK, Steps
<1>3. LateOnce' /\ Counted'
  BY <1>1 DEF Inv, LateOnce, Counted
<1>4. Forgotten'
  <2>1. Old(snap') => Old(snap)
    BY <1>1 DEF Old
  <2> QED BY <2>1 DEF Inv, Forgotten, Old
<1>5. Clean'
  BY <1>0, <1>1 DEF Inv, Clean
<1> QED BY <1>2, <1>3, <1>4, <1>5 DEF Inv

-----------------------------------------------------------------------------
(* The invariant holds throughout, for every interleaving of the control task, the
   callback, the commands and the safety core *)
THEOREM Invariance == Spec => []Inv
<1>1. Inv /\ [Next]_vars => Inv'
  <2> SUFFICES ASSUME Inv, [Next]_vars PROVE Inv'
    OBVIOUS
  <2>1. CASE Control
    BY <2>1, WakeKeeps, CascadeKeeps, FocKeeps, GateKeeps, DutyKeeps, LimpKeeps, RaiseKeeps,
       RaisedKeeps DEF Control
  <2>2. CASE UNCHANGED vars
    BY <2>2 DEF vars, suit, task, loops, seen, Inv, Types, TypeOK, LateOnce, Counted,
                Forgotten, Old, Clean
  <2> QED BY <2>1, <2>2, SafetyKeeps, CallbackKeeps, CmdKeeps DEF Next
<1> QED BY <1>1, InvInit, PTL DEF Spec

(* joint_write: after the suit has left OPERATIONAL, at most one duty is written *)
THEOREM OneLateDutyHolds == Spec => []OneLateDuty
<1>1. Inv => OneLateDuty
  BY DEF Inv, LateOnce, OneLateDuty
<1> QED BY <1>1, Invariance, PTL

(* The overcurrent limit of control_task has raised an e-stop by the end of the tick
   that exceeded it *)
THEOREM OvercurrentTripsHolds == Spec => []OvercurrentTrips
<1>1. Inv => OvercurrentTrips
  <2> SUFFICES ASSUME Inv, pc = "sleep", NEW k \in Joints PROVE hot[k] <= OC_TICKS
    BY DEF OvercurrentTrips
  <2> QED BY LimbConstants DEF Inv, Counted, Types, TypeOK, LimbConstants
<1> QED BY <1>1, Invariance, PTL

(* A trip ends force: nothing commanded before it drives a joint in a tick that began
   after its callback *)
THEOREM TripsHoldHolds == Spec => []TripsHold
<1>1. Inv => TypeOK /\ NeverResumes
  BY DEF Inv, Types, Forgotten, NeverResumes
<1> QED BY <1>1, Invariance, OneLateDutyHolds, OvercurrentTripsHolds, PTL DEF TripsHold

(* An integrator from before a period of operation kicks a joint only where a tick
   ran across limb_safety_on_transition *)
THEOREM KickNeedsOverlapHolds == Spec => []KickNeedsOverlap
<1>1. Inv => KickNeedsOverlap
  BY DEF Inv, Clean, KickNeedsOverlap
<1> QED BY <1>1, Invariance, PTL
=============================================================================
