-------------------------- MODULE SafetyCoreProofs --------------------------
(***************************************************************************)
(* Proofs about SafetyCore for every value of its constants that meets the *)
(* assumptions: in particular for the firmware's 50, 250, 200, 1000 and    *)
(* 5 ms and a 32-bit counter.                                              *)
(*                                                                         *)
(* The dead-man bound is not inductive: a step needs to know that the      *)
(* stamps agree with what really happened (StampsTellTruth) and, between   *)
(* two ticks, how much of the extra TICK_MS has been used (Watched).       *)
(***************************************************************************)
EXTENDS SafetyCore, TLAPS

(* While actuation is allowed the silence exceeds the watchdog window by no
   more than the time since the last tick. *)
Watched ==
  state = OPERATIONAL =>
    have_hb /\ (beyond \/ silence <= HEARTBEAT_TIMEOUT_MS + since_tick)

(* want_operational is the operator's word, and force that a bad link took is
   settled before the node is ready to start up again. *)
WordKept == (want_operational => asked) /\ (owed => state \in {PASSIVE, ESTOP})

IInv == TypeOK /\ StampsTellTruth /\ Watched /\ LatestReportRules /\ WordKept

USE DEF BOOT, STANDBY, OPERATIONAL, PASSIVE, ESTOP, FAULT, States,
        ESTOP_OPERATOR, ESTOP_SOFTWARE, WORD, Ages

-----------------------------------------------------------------------------
(* TypeOK in two halves: the Boolean fields, and the rest. *)
Flags ==
  /\ have_hb \in BOOLEAN /\ want_operational \in BOOLEAN /\ beyond \in BOOLEAN
  /\ asked \in BOOLEAN /\ owed \in BOOLEAN

Fields ==
  /\ state \in BOOT .. ESTOP
  /\ estop_cause \in Nat
  /\ last_hb_seq \in Seqs
  /\ hb_age \in Ages
  /\ streak_age \in Ages
  /\ cmd_age \in Ages
  /\ clear_counter \in Nat
  /\ since_tick \in 0 .. TICK_MS
  /\ silence \in 0 .. HALF
  /\ clean \in 0 .. HALF
  /\ quiet \in 0 .. HALF
  /\ report \in {"none", "estop", "clear"}

(* The two halves make up TypeOK, before and after a step. *)
LEMMA TypeHalves ==
  (TypeOK <=> Flags /\ Fields) /\ (TypeOK' <=> Flags' /\ Fields')
  BY Zenon DEF TypeOK, Flags, Fields

(* The boot values of ps_safety_core_init satisfy the invariant. *)
LEMMA InitIInv == Init => IInv
<1> SUFFICES ASSUME Init
             PROVE  IInv
  OBVIOUS
<1> USE TimingAssumption, InputAssumption
    DEF Init, TimingAssumption, InputAssumption
<1>1. Flags
  BY Zenon DEF Flags
<1>2. Fields
  BY DEF Fields
<1>3. StampsTellTruth
  BY DEF StampsTellTruth
<1>4. Watched /\ LatestReportRules /\ WordKept
  BY DEF Watched, LatestReportRules, WordKept
<1> QED
  BY <1>1, <1>2, <1>3, <1>4, TypeHalves DEF IInv

(* Every field stays in its range, whatever handler runs. *)
LEMMA TypeStep == TypeOK /\ [Next]_vars => TypeOK'
<1> SUFFICES ASSUME Flags, Fields, [Next]_vars
             PROVE  Flags' /\ Fields'
  BY TypeHalves
<1> USE TimingAssumption, InputAssumption
    DEF TimingAssumption, InputAssumption
<1>1. ASSUME NEW seq \in Seqs, NEW flag \in BOOLEAN, NEW lag \in 0 .. LOCK_MS,
             OnHeartbeat(seq, flag, lag)
      PROVE  Flags' /\ Fields'
  <2>1. Flags'
    BY <1>1, Zenon DEF Flags, OnHeartbeat, Latch
  <2>2. Fields'
    BY <1>1 DEF Fields, OnHeartbeat, Latch
  <2> QED
    BY <2>1, <2>2
<1>2. ASSUME NEW cause \in Nat, OnEstop(cause)
      PROVE  Flags' /\ Fields'
  <2>1. Flags'
    BY <1>2, Zenon DEF Flags, OnEstop, Latch
  <2>2. Fields'
    BY <1>2 DEF Fields, OnEstop, Latch
  <2> QED
    BY <2>1, <2>2
<1>3. ASSUME NEW ok \in BOOLEAN, NEW n \in Counters, OnClear(ok, n)
      PROVE  Flags' /\ Fields'
  BY <1>3 DEF Flags, Fields, OnClear
<1>4. CASE OnCmd
  BY <1>4 DEF Flags, Fields, OnCmd
<1>5. ASSUME NEW target \in States, OnModeSet(target), ~OnEstop(ESTOP_OPERATOR)
      PROVE  Flags' /\ Fields'
  <2>1. Flags'
    BY <1>5, Zenon DEF Flags, OnModeSet
  <2>2. Fields'
    BY <1>5 DEF Fields, OnModeSet
  <2> QED
    BY <2>1, <2>2
<1>6. CASE OnBusDown
  <2>1. Flags'
    BY <1>6, Zenon DEF Flags, OnBusDown
  <2>2. Fields'
    BY <1>6 DEF Fields, OnBusDown
  <2> QED
    BY <2>1, <2>2
<1>7. CASE Tick
  <2>1. Flags'
    BY <1>7, Zenon DEF Flags, Tick
  <2>2. Fields'
    BY <1>7 DEF Fields, Tick, TickState
  <2> QED
    BY <2>1, <2>2
<1>8. CASE Advance
  <2>1. Flags'
    BY <1>8, Zenon DEF Flags, Advance
  <2>2. Fields'
    BY <1>8 DEF Fields, Advance, Older, Count
  <2> QED
    BY <2>1, <2>2
<1>9. CASE Reboot
  <2>1. Flags'
    BY <1>9, Zenon DEF Flags, Reboot
  <2>2. Fields'
    BY <1>9 DEF Fields, Reboot
  <2> QED
    BY <2>1, <2>2
<1>10. CASE UNCHANGED vars
  BY <1>10 DEF Flags, Fields, vars, core, observers
<1> QED
  BY <1>1, <1>2, <1>3, <1>4, <1>5, <1>6, <1>7, <1>8, <1>9, <1>10
  DEF Next, Handlers

(* elapsed and between are plain subtraction as long as the ages are below
   HALF: the wrap-safe arithmetic of the code does not wrap there. *)
LEMMA PlainAges ==
  ASSUME NEW a \in 0 .. HALF - 1, NEW b \in 0 .. HALF - 1
  PROVE  elapsed(a) = a /\ between(a, b) = b - a
  BY TimingAssumption DEF TimingAssumption, elapsed, between

(* No step makes a stamp lie. *)
LEMMA StampsStep ==
  TypeOK /\ StampsTellTruth /\ [Next]_vars => StampsTellTruth'
<1> SUFFICES ASSUME Flags, Fields, StampsTellTruth, [Next]_vars, ~beyond'
             PROVE  StampsTellTruth'
  BY TypeHalves DEF StampsTellTruth
<1> USE TimingAssumption DEF TimingAssumption
<1>1. ASSUME NEW seq \in Seqs, NEW flag \in BOOLEAN, NEW lag \in 0 .. LOCK_MS,
             OnHeartbeat(seq, flag, lag)
      PROVE  StampsTellTruth'
  <2>1. ~beyond /\ have_hb' /\ lag <= hb_age
        /\ UNCHANGED <<cmd_age, quiet, beyond>>
    BY <1>1, Zenon DEF OnHeartbeat, Received
  <2>2. /\ hb_age' = lag /\ silence' = lag
        /\ clean' = IF silence - lag > HEARTBEAT_TIMEOUT_MS THEN lag ELSE clean
        /\ streak_age' =
             IF ~have_hb \/ between(lag, hb_age) > HEARTBEAT_TIMEOUT_MS
             THEN lag ELSE streak_age
    BY <1>1 DEF OnHeartbeat
  <2>3. CASE have_hb
    <3>1. hb_age = silence /\ hb_age < HALF
      BY <2>1, <2>3 DEF StampsTellTruth
    <3>2. between(lag, hb_age) = hb_age - lag
      BY <2>1, <3>1, PlainAges DEF Fields
    <3> QED
      BY <2>1, <2>2, <2>3, <3>1, <3>2 DEF StampsTellTruth, Fields
  <2>4. CASE ~have_hb
    BY <2>1, <2>2, <2>4 DEF StampsTellTruth, Fields
  <2> QED
    BY <2>3, <2>4
<1>2. ASSUME UNCHANGED <<hb_age, streak_age, cmd_age, have_hb, silence, clean,
                         quiet, beyond>>
      PROVE  StampsTellTruth'
  BY <1>2 DEF StampsTellTruth
<1>3. CASE OnCmd
  BY <1>3 DEF StampsTellTruth, OnCmd, Fields
<1>4. CASE OnBusDown
  BY <1>4 DEF StampsTellTruth, OnBusDown, Fields
<1>5. CASE Advance
  <2>1. ~beyond /\ cmd_age' # HALF /\ (have_hb => hb_age' # HALF)
    BY <1>5 DEF Advance, Flags
  <2>2. /\ have_hb' = have_hb
        /\ hb_age' = Older(hb_age) /\ silence' = Count(silence)
        /\ streak_age' = Older(streak_age) /\ clean' = Count(clean)
        /\ cmd_age' = Older(cmd_age) /\ quiet' = Count(quiet)
    BY <1>5 DEF Advance
  <2>3. IF have_hb THEN hb_age' = silence' /\ silence' < HALF
                   ELSE silence' = HALF
    BY <2>1, <2>2 DEF StampsTellTruth, Fields, Older, Count
  <2>4. have_hb /\ clean' < HALF => streak_age' = clean'
    BY <2>1, <2>2 DEF StampsTellTruth, Fields, Older, Count
  <2>5. /\ cmd_age' < HALF
        /\ IF quiet' = HALF THEN cmd_age' > CMD_STALE_MS ELSE cmd_age' = quiet'
    BY <2>1, <2>2 DEF StampsTellTruth, Fields, Older, Count
  <2> QED
    BY <2>2, <2>3, <2>4, <2>5, Zenon DEF StampsTellTruth
<1>6. CASE Reboot
  BY <1>6 DEF StampsTellTruth, Reboot
<1>7. ASSUME NEW cause, OnEstop(cause)
      PROVE  StampsTellTruth'
  BY <1>7, <1>2 DEF OnEstop
<1>8. ASSUME NEW ok \in BOOLEAN, NEW n \in Counters, OnClear(ok, n)
      PROVE  StampsTellTruth'
  BY <1>8, <1>2 DEF OnClear
<1>9. ASSUME NEW target \in States, OnModeSet(target)
      PROVE  StampsTellTruth'
  BY <1>9, <1>7, <1>2 DEF OnModeSet
<1>10. CASE Tick
  BY <1>10, <1>2 DEF Tick
<1>11. CASE UNCHANGED vars
  BY <1>11, <1>2 DEF vars, core, observers
<1> QED
  BY <1>1, <1>3, <1>4, <1>5, <1>6, <1>7, <1>8, <1>9, <1>10, <1>11
  DEF Next, Handlers

(* No step lets the silence outgrow the watchdog window while actuation is
   allowed: time passing is paid for by since_tick, and the tick checks. *)
LEMMA WatchedStep ==
  TypeOK /\ StampsTellTruth /\ Watched /\ [Next]_vars => Watched'
<1> SUFFICES ASSUME Flags, Fields, StampsTellTruth, Watched, [Next]_vars,
                    state' = OPERATIONAL
             PROVE  Watched'
  BY TypeHalves DEF Watched
<1> USE TimingAssumption DEF TimingAssumption
<1>1. ASSUME NEW seq \in Seqs, NEW flag \in BOOLEAN, NEW lag \in 0 .. LOCK_MS,
             OnHeartbeat(seq, flag, lag)
      PROVE  Watched'
  <2>1. /\ state = OPERATIONAL /\ have_hb' /\ lag <= hb_age
        /\ UNCHANGED <<since_tick, beyond>>
    BY <1>1 DEF OnHeartbeat, Latch, Received
  <2>2. silence' = lag
    BY <1>1 DEF OnHeartbeat
  <2> QED
    BY <2>1, <2>2 DEF Watched, StampsTellTruth, Fields
<1>2. ASSUME state = OPERATIONAL,
             UNCHANGED <<have_hb, silence, since_tick, beyond>>
      PROVE  Watched'
  BY <1>2 DEF Watched
<1>3. CASE Tick
  <2>1. /\ heartbeat_ok /\ since_tick' = 0
        /\ UNCHANGED <<have_hb, silence, beyond>>
    BY <1>3 DEF Tick, TickState, PassiveRearmed, Fields
  <2>2. CASE ~beyond
    <3>1. hb_age = silence /\ hb_age < HALF
      BY <2>1, <2>2 DEF heartbeat_ok, StampsTellTruth
    <3>2. silence <= HEARTBEAT_TIMEOUT_MS
      BY <2>1, <3>1, PlainAges DEF heartbeat_ok, Fields
    <3> QED
      BY <2>1, <3>2 DEF Watched, heartbeat_ok
  <2> QED
    BY <2>1, <2>2 DEF Watched, heartbeat_ok
<1>4. CASE Advance
  <2>1. /\ state = OPERATIONAL /\ since_tick' = since_tick + 1
        /\ silence' = Count(silence) /\ have_hb' = have_hb
        /\ beyond => beyond'
    BY <1>4 DEF Advance, Flags
  <2> QED
    BY <2>1 DEF Watched, Count, Fields
<1>5. CASE OnBusDown \/ Reboot
  BY <1>5 DEF OnBusDown, Reboot
<1>6. ASSUME NEW cause, OnEstop(cause)
      PROVE  Watched'
  BY <1>6 DEF OnEstop, Latch
<1>7. ASSUME NEW ok \in BOOLEAN, NEW n \in Counters, OnClear(ok, n)
      PROVE  Watched'
  BY <1>7, <1>2 DEF OnClear
<1>8. CASE OnCmd
  BY <1>8, <1>2 DEF OnCmd
<1>9. ASSUME NEW target \in States, OnModeSet(target)
      PROVE  Watched'
  BY <1>9, <1>6, <1>2 DEF OnModeSet, Fields
<1>10. CASE UNCHANGED vars
  BY <1>10, <1>2 DEF vars, core, observers
<1> QED
  BY <1>1, <1>3, <1>4, <1>5, <1>6, <1>7, <1>8, <1>9, <1>10 DEF Next, Handlers

(* The cause field of a latched node and the latest report stay in step: a
   report while latched is an echo exactly when no clear came before it. *)
LEMMA ReportStep ==
  TypeOK /\ LatestReportRules /\ [Next]_vars => LatestReportRules'
<1> SUFFICES ASSUME Flags, Fields, LatestReportRules, [Next]_vars,
                    state' = ESTOP
             PROVE  estop_cause' = 0 <=> report' = "clear"
  BY TypeHalves DEF LatestReportRules
<1>1. ASSUME NEW cause \in Nat, Latch(cause)
      PROVE  estop_cause' # 0 /\ report' = "estop"
  BY <1>1 DEF Latch, Echo
<1>2. ASSUME NEW cause \in Nat, OnEstop(cause)
      PROVE  estop_cause' = 0 <=> report' = "clear"
  BY <1>1, <1>2 DEF OnEstop
<1>3. ASSUME state = ESTOP, UNCHANGED <<estop_cause, report>>
      PROVE  estop_cause' = 0 <=> report' = "clear"
  BY <1>3 DEF LatestReportRules
<1>4. ASSUME NEW seq \in Seqs, NEW flag \in BOOLEAN, NEW lag \in 0 .. LOCK_MS,
             OnHeartbeat(seq, flag, lag)
      PROVE  estop_cause' = 0 <=> report' = "clear"
  BY <1>1, <1>3, <1>4 DEF OnHeartbeat
<1>5. ASSUME NEW ok \in BOOLEAN, NEW n \in Counters, OnClear(ok, n)
      PROVE  estop_cause' = 0 <=> report' = "clear"
  BY <1>5 DEF OnClear
<1>6. ASSUME NEW target \in States, OnModeSet(target)
      PROVE  estop_cause' = 0 <=> report' = "clear"
  BY <1>2, <1>3, <1>6 DEF OnModeSet, Fields
<1>7. CASE OnCmd \/ OnBusDown \/ Reboot
  BY <1>3, <1>7 DEF OnCmd, OnBusDown, Reboot, Fields
<1>8. CASE Tick
  BY <1>3, <1>8 DEF Tick, TickState, Fields
<1>9. CASE Advance
  BY <1>3, <1>9 DEF Advance
<1>10. CASE UNCHANGED vars
  BY <1>3, <1>10 DEF vars, core, observers
<1> QED
  BY <1>2, <1>4, <1>5, <1>6, <1>7, <1>8, <1>9, <1>10, InputAssumption
  DEF Next, Handlers, InputAssumption

(* The wish to be operational does not outlive the operator's word, which an
   e-stop takes back, and no step makes a node with a loss to settle ready. *)
LEMMA WordStep ==
  TypeOK /\ LatestReportRules /\ WordKept /\ [Next]_vars => WordKept'
<1> SUFFICES ASSUME Flags, Fields, LatestReportRules, WordKept, [Next]_vars
             PROVE  WordKept'
  BY TypeHalves
<1> DEFINE Word == want_operational => asked
           Loss == owed => state \in {PASSIVE, ESTOP}
<1>0. Word /\ Loss
  BY DEF WordKept
<1> SUFFICES Word' /\ Loss'
  BY DEF WordKept
<1> HIDE DEF Word, Loss
<1>1. ASSUME NEW cause, Latch(cause), owed' = owed
      PROVE  Word' /\ Loss'
  <2>1. Echo => state = ESTOP /\ report # "clear"
    BY DEF Echo, LatestReportRules
  <2>2. Word'
    BY <1>0, <1>1, <2>1, Zenon DEF Latch, Word
  <2> QED
    BY <1>1, <2>2 DEF Latch, Loss
<1>2. ASSUME UNCHANGED <<want_operational, asked, owed, state>>
      PROVE  Word' /\ Loss'
  BY <1>0, <1>2, Zenon DEF Word, Loss
<1>3. ASSUME NEW seq \in Seqs, NEW flag \in BOOLEAN, NEW lag \in 0 .. LOCK_MS,
             OnHeartbeat(seq, flag, lag)
      PROVE  Word' /\ Loss'
  BY <1>1, <1>2, <1>3 DEF OnHeartbeat
<1>4. ASSUME NEW cause, OnEstop(cause)
      PROVE  Word' /\ Loss'
  BY <1>1, <1>4 DEF OnEstop
<1>5. ASSUME NEW ok \in BOOLEAN, NEW n \in Counters, OnClear(ok, n)
      PROVE  Word' /\ Loss'
  BY <1>2, <1>5 DEF OnClear
<1>6. ASSUME NEW target \in States, OnModeSet(target), ~OnEstop(ESTOP_OPERATOR)
      PROVE  Word' /\ Loss'
  <2>1. Word'
    BY <1>6, Zenon DEF OnModeSet, Word
  <2>2. Loss'
    BY <1>0, <1>6, Zenon DEF OnModeSet, Loss
  <2> QED
    BY <2>1, <2>2
<1>7. CASE OnBusDown
  <2>1. Word'
    BY <1>0, <1>7, Zenon DEF OnBusDown, Word
  <2>2. Loss'
    BY <1>0, <1>7, Zenon DEF OnBusDown, Loss
  <2> QED
    BY <2>1, <2>2
<1>8. CASE Tick
  <2>1. Word'
    BY <1>0, <1>8, Zenon DEF Tick, Word
  <2>2. Loss'
    <3>1. CASE state' = state
      BY <1>0, <1>8, <3>1, Zenon DEF Tick, Loss
    <3>2. CASE state' # state /\ state # OPERATIONAL
      BY <1>8, <3>2, Zenon DEF Tick, Loss
    <3>3. CASE state' # state /\ state = OPERATIONAL
      BY <1>8, <3>3 DEF Tick, TickState, Loss
    <3> QED
      BY <3>1, <3>2, <3>3
  <2> QED
    BY <2>1, <2>2
<1>9. CASE OnCmd \/ Advance \/ UNCHANGED vars
  BY <1>2, <1>9, Zenon DEF OnCmd, Advance, vars, core, observers
<1>10. CASE Reboot
  BY <1>10, Zenon DEF Reboot, Word, Loss
<1> QED
  BY <1>3, <1>4, <1>5, <1>6, <1>7, <1>8, <1>9, <1>10 DEF Next, Handlers

-----------------------------------------------------------------------------
(* The inductive invariant holds in every reachable state. *)
THEOREM Invariance == Spec => []IInv
<1>1. IInv /\ [Next]_vars => IInv'
  BY TypeStep, StampsStep, WatchedStep, ReportStep, WordStep DEF IInv
<1> QED
  BY InitIInv, <1>1, PTL DEF Spec

(* Type correctness: FAULT is never entered and no stamp leaves the range of
   the millisecond counter. *)
THEOREM TypeCorrect == Spec => []TypeOK
<1>1. IInv => TypeOK
  BY DEF IInv
<1> QED
  BY Invariance, <1>1, PTL

(* The dead-man switch of ps_safety_core_tick and can_actuate: no force
   without a heartbeat in the last 50 + 5 ms. *)
THEOREM DeadManHolds == Spec => []DeadMan
<1>1. IInv => DeadMan
  BY TimingAssumption
  DEF IInv, TypeOK, Watched, DeadMan, TimingAssumption
<1> QED
  BY Invariance, <1>1, PTL

(* ps_safety_core_on_heartbeat and _on_cmd: the stamps agree with what happened,
   as long as no gap has left the range of elapsed. *)
THEOREM StampsHold == Spec => []StampsTellTruth
<1>1. IInv => StampsTellTruth
  BY DEF IInv
<1> QED
  BY Invariance, <1>1, PTL

(* ps_safety_core_on_estop and _on_clear: the latch follows the latest report,
   whatever the order of reports, echoes and clears. *)
THEOREM LatestReportHolds == Spec => []LatestReportRules
<1>1. IInv => LatestReportRules
  BY DEF IInv
<1> QED
  BY Invariance, <1>1, PTL

(* No handler, and no passing of time, leaves ESTOP or enters OPERATIONAL:
   of the steps that are not a reset, only the tick does. *)
LEMMA OnlyTickGrants ==
  ASSUME [Next]_vars, state' # state, state' # BOOT,
         state = ESTOP \/ state' = OPERATIONAL
  PROVE  Tick
<1>1. ASSUME NEW seq \in Seqs, NEW flag \in BOOLEAN, NEW lag \in 0 .. LOCK_MS,
             OnHeartbeat(seq, flag, lag)
      PROVE  FALSE
  BY <1>1 DEF OnHeartbeat, Latch
<1>2. ASSUME NEW cause, OnEstop(cause)
      PROVE  FALSE
  BY <1>2 DEF OnEstop, Latch
<1>3. ASSUME NEW target \in States, OnModeSet(target)
      PROVE  FALSE
  BY <1>2, <1>3 DEF OnModeSet
<1>4. ASSUME NEW ok \in BOOLEAN, NEW n \in Counters, OnClear(ok, n)
      PROVE  FALSE
  BY <1>4 DEF OnClear
<1>5. ~OnCmd /\ ~OnBusDown
  BY DEF OnCmd, OnBusDown
<1>6. ~Advance
  BY Zenon DEF Advance
<1>7. ~Reboot /\ ~UNCHANGED vars
  BY DEF Reboot, vars, core
<1> QED
  BY <1>1, <1>2, <1>3, <1>4, <1>5, <1>6, <1>7 DEF Next, Handlers

(* The only way out of an e-stop, short of a reset, is a tick that finds a
   clear as the latest report and a link that was really up for
   PS_ESTOP_REARM_MS. *)
THEOREM EstopExitHolds == Spec => EstopExit
<1> DEFINE Exit == (state = ESTOP /\ state' # ESTOP) =>
              \/ state' = BOOT
              \/ /\ state' = STANDBY
                 /\ report = "clear"
                 /\ beyond \/ clean >= ESTOP_REARM_MS
<1>1. ASSUME IInv, [Next]_vars
      PROVE  [Exit]_vars
  <2> SUFFICES ASSUME state = ESTOP, state' # ESTOP, state' # BOOT
               PROVE  /\ state' = STANDBY
                      /\ report = "clear"
                      /\ beyond \/ clean >= ESTOP_REARM_MS
    OBVIOUS
  <2> USE TimingAssumption DEF TimingAssumption
  <2>1. Tick
    BY <1>1, OnlyTickGrants
  <2>2. EstopRearmed /\ state' = STANDBY
    BY <2>1 DEF Tick, TickState
  <2>3. report = "clear"
    BY <1>1, <2>2 DEF IInv, LatestReportRules, EstopRearmed
  <2>4. CASE ~beyond /\ clean < HALF
    <3>1. streak_age = clean /\ have_hb
      BY <1>1, <2>2, <2>4
      DEF IInv, StampsTellTruth, EstopRearmed, heartbeat_ok
    <3>2. elapsed(clean) = clean
      BY <1>1, <2>4, PlainAges DEF IInv, TypeOK
    <3> QED
      BY <2>2, <2>3, <3>1, <3>2 DEF EstopRearmed, streak_ms
  <2>5. CASE beyond \/ clean >= HALF
    BY <1>1, <2>2, <2>3, <2>5 DEF IInv, TypeOK
  <2> QED
    BY <2>4, <2>5, <1>1 DEF IInv, TypeOK
<1> QED
  BY Invariance, <1>1, PTL DEF Spec, EstopExit

(* A tick that gives force finds the link up, and a tick that gives it to a passive
   node the re-arm window kept, by what really happened and not only by the stamps. *)
LEMMA TickGrants ==
  ASSUME IInv, Tick, state # OPERATIONAL, state' = OPERATIONAL
  PROVE  /\ asked /\ (owed => state = PASSIVE)
         /\ ~beyond => silence <= HEARTBEAT_TIMEOUT_MS
         /\ state = PASSIVE /\ ~beyond => WindowKept
<1> USE TimingAssumption DEF TimingAssumption
<1>1. /\ want_operational /\ heartbeat_ok /\ state \in {STANDBY, PASSIVE}
      /\ state = PASSIVE => PassiveRearmed
  BY DEF Tick, TickState, PassiveRearmed, IInv, TypeOK
<1>2. TypeOK /\ StampsTellTruth /\ WordKept
  BY DEF IInv
<1>3. asked /\ (owed => state = PASSIVE)
  BY <1>1, <1>2 DEF WordKept
<1>4. ASSUME ~beyond
      PROVE  hb_age = silence /\ silence < HALF /\ silence <= HEARTBEAT_TIMEOUT_MS
  <2>1. hb_age = silence /\ silence < HALF
    BY <1>1, <1>2, <1>4 DEF StampsTellTruth, heartbeat_ok
  <2> QED
    BY <1>1, <1>2, <2>1, PlainAges DEF TypeOK, heartbeat_ok
<1>5. ASSUME ~beyond, state = PASSIVE
      PROVE  WindowKept
  <2>1. /\ have_hb /\ elapsed(streak_age) >= REARM_WINDOW_MS
        /\ between(cmd_age, streak_age) >= 0
        /\ elapsed(cmd_age) < CMD_STALE_MS
    BY <1>1, <1>5 DEF PassiveRearmed, heartbeat_ok, streak_ms, cmd_fresh
  <2>2. cmd_age < HALF
    BY <1>2, <1>5 DEF StampsTellTruth
  <2>3. elapsed(cmd_age) = cmd_age
    BY <1>2, <2>2, PlainAges DEF TypeOK
  <2>4. cmd_age = quiet
    BY <1>2, <1>5, <2>1, <2>3 DEF StampsTellTruth, TypeOK
  <2>5. CASE clean < HALF
    <3>1. streak_age = clean
      BY <1>2, <1>5, <2>1, <2>5 DEF StampsTellTruth
    <3>2. elapsed(streak_age) = clean /\ between(cmd_age, streak_age) = clean - quiet
      BY <1>2, <2>2, <2>4, <2>5, <3>1, PlainAges DEF TypeOK
    <3> QED
      BY <1>2, <2>1, <2>3, <2>4, <3>2 DEF TypeOK, WindowKept
  <2>6. CASE clean >= HALF
    BY <1>2, <2>1, <2>2, <2>3, <2>4, <2>6 DEF TypeOK, WindowKept
  <2> QED
    BY <2>5, <2>6, <1>2 DEF TypeOK
<1> QED
  BY <1>3, <1>4, <1>5

(* ps_safety_core_tick and _on_mode_set: force begins only at the operator's word,
   given since the last e-stop, over a link that is up; and a node that a bad link
   took it from gets it back through the re-arm window, unless the operator stood
   the node down or an e-stop was left in between. *)
THEOREM ForceEarnedHolds == Spec => ForceEarned
<1> DEFINE Grant == (state # OPERATIONAL /\ state' = OPERATIONAL) =>
              /\ asked
              /\ ~beyond => silence <= HEARTBEAT_TIMEOUT_MS
              /\ (owed \/ state = PASSIVE) /\ ~beyond => WindowKept
<1>1. ASSUME IInv, [Next]_vars
      PROVE  [Grant]_vars
  <2> SUFFICES ASSUME state # OPERATIONAL, state' = OPERATIONAL
               PROVE  /\ asked
                      /\ ~beyond => silence <= HEARTBEAT_TIMEOUT_MS
                      /\ (owed \/ state = PASSIVE) /\ ~beyond => WindowKept
    OBVIOUS
  <2>1. Tick
    BY <1>1, OnlyTickGrants
  <2> QED
    BY <1>1, <2>1, TickGrants
<1> QED
  BY Invariance, <1>1, PTL DEF Spec, ForceEarned

-----------------------------------------------------------------------------
(* A cause is kept only while latched: clearing a node that is not in ESTOP
   has no cause to forget. *)
CauseMeansEstop == estop_cause # 0 => state = ESTOP

(* Every handler keeps CauseMeansEstop. *)
LEMMA CauseStep == TypeOK /\ CauseMeansEstop /\ [Next]_vars => CauseMeansEstop'
<1> SUFFICES ASSUME TypeOK, CauseMeansEstop, [Next]_vars
             PROVE  CauseMeansEstop'
  OBVIOUS
<1> USE DEF TypeOK, CauseMeansEstop
<1>1. ASSUME NEW seq \in Seqs, NEW flag \in BOOLEAN, NEW lag \in 0 .. LOCK_MS,
             OnHeartbeat(seq, flag, lag)
      PROVE  CauseMeansEstop'
  BY <1>1 DEF OnHeartbeat, Latch
<1>2. ASSUME NEW cause \in Nat, OnEstop(cause)
      PROVE  CauseMeansEstop'
  BY <1>2 DEF OnEstop, Latch
<1>3. ASSUME NEW ok \in BOOLEAN, NEW n \in Counters, OnClear(ok, n)
      PROVE  CauseMeansEstop'
  BY <1>3 DEF OnClear
<1>4. ASSUME NEW target \in States, OnModeSet(target), ~OnEstop(ESTOP_OPERATOR)
      PROVE  CauseMeansEstop'
  BY <1>4 DEF OnModeSet
<1>5. CASE OnCmd
  BY <1>5 DEF OnCmd
<1>6. CASE OnBusDown
  BY <1>6 DEF OnBusDown
<1>7. CASE Tick
  BY <1>7 DEF Tick, TickState, EstopRearmed
<1>8. CASE Advance
  BY <1>8 DEF Advance
<1>9. CASE Reboot
  BY <1>9 DEF Reboot
<1>10. CASE UNCHANGED vars
  BY <1>10 DEF vars, core
<1> QED
  BY <1>1, <1>2, <1>3, <1>4, <1>5, <1>6, <1>7, <1>8, <1>9, <1>10,
     InputAssumption
  DEF Next, Handlers, InputAssumption

(* A step of the core is a move of SafetyStates or leaves what that module
   sees unchanged. *)
LEMMA StepImplements ==
  TypeOK /\ CauseMeansEstop /\ [Next]_vars =>
    [Abstract!SuitNext]_(Abstract!suit)
<1> SUFFICES ASSUME TypeOK, CauseMeansEstop, [Next]_vars
             PROVE  [Abstract!SuitNext]_(Abstract!suit)
  OBVIOUS
<1> DEFINE Latches == /\ state' = ESTOP
                      /\ estop_cause' # 0
                      /\ want_operational' = (Echo /\ want_operational)
           Same == /\ state' = state
                   /\ (estop_cause' # 0) = (estop_cause # 0)
                   /\ want_operational' = want_operational
<1> USE DEF TypeOK, CauseMeansEstop
<1>1. Latches => Abstract!Report
  BY Zenon DEF Abstract!Report, Abstract!ESTOP, Echo
<1>2. Same => UNCHANGED Abstract!suit
  BY Zenon DEF Abstract!suit
<1> HIDE DEF Latches, Same
<1>3. ASSUME NEW cause \in Nat, Latch(cause)
      PROVE  Latches
  <2>1. state' = ESTOP /\ estop_cause' # 0
    BY <1>3 DEF Latch, Echo
  <2> QED
    BY <1>3, <2>1, Zenon DEF Latch, Latches
<1>4. ASSUME NEW seq \in Seqs, NEW flag \in BOOLEAN, NEW lag \in 0 .. LOCK_MS,
             OnHeartbeat(seq, flag, lag)
      PROVE  Latches \/ Same
  <2>1. CASE flag
    BY <1>3, <1>4, <2>1 DEF OnHeartbeat
  <2>2. CASE ~flag
    BY <1>4, <2>2, Zenon DEF OnHeartbeat, Same
  <2> QED
    BY <2>1, <2>2
<1>5. ASSUME NEW cause \in Nat, OnEstop(cause)
      PROVE  Latches
  BY <1>3, <1>5 DEF OnEstop
<1>6. ASSUME NEW ok \in BOOLEAN, NEW n \in Counters, OnClear(ok, n)
      PROVE  Abstract!Clear
  <2>1. estop_cause' = 0 /\ state' = state /\ want_operational' = want_operational
    BY <1>6 DEF OnClear
  <2> QED
    BY <2>1, Zenon DEF Abstract!Clear
<1>7. ASSUME NEW target \in States, OnModeSet(target), ~OnEstop(ESTOP_OPERATOR)
      PROVE  \E t \in {STANDBY, OPERATIONAL, PASSIVE} : Abstract!ModeSet(t)
  <2>1. target \in {STANDBY, OPERATIONAL, PASSIVE}
    BY <1>7 DEF OnModeSet
  <2>2. Abstract!ModeSet(target)
    BY <1>7, Zenon DEF OnModeSet, Abstract!ModeSet, Abstract!OPERATIONAL,
       Abstract!STANDBY, Abstract!PASSIVE
  <2> QED
    BY <2>1, <2>2
<1>8. OnBusDown => Same \/ Abstract!LinkBad
  BY DEF OnBusDown, Same, Abstract!LinkBad, Abstract!BOOT, Abstract!STANDBY,
     Abstract!OPERATIONAL, Abstract!PASSIVE
<1>9. Tick => Same \/ Abstract!LinkBad \/ Abstract!LinkGood
  BY DEF Tick, TickState, EstopRearmed, PassiveRearmed, Same,
     Abstract!LinkBad, Abstract!LinkGood, Abstract!BOOT, Abstract!STANDBY,
     Abstract!OPERATIONAL, Abstract!PASSIVE, Abstract!ESTOP
<1>10. OnCmd \/ Advance \/ UNCHANGED vars => Same
  BY Zenon DEF OnCmd, Advance, vars, core, Same
<1>11. Reboot => Abstract!Reset
  BY Zenon DEF Reboot, Abstract!Reset, Abstract!BOOT
<1> QED
  BY <1>1, <1>2, <1>4, <1>5, <1>6, <1>7, <1>8, <1>9, <1>10, <1>11,
     InputAssumption
  DEF Next, Handlers, InputAssumption, Abstract!SuitNext,
      Abstract!STANDBY, Abstract!OPERATIONAL, Abstract!PASSIVE

(* The firmware's core implements the abstract machine its users build on,
   for every value of its timing constants. *)
THEOREM CoreImplementsStates == Spec => ImplementsStates
<1>1. Init => Abstract!SuitInit
  BY Zenon DEF Init, Abstract!SuitInit, Abstract!BOOT
<1>2. Init => CauseMeansEstop
  BY DEF Init, CauseMeansEstop
<1> QED
  BY TypeCorrect, CauseStep, StepImplements, <1>1, <1>2, PTL
  DEF Spec, ImplementsStates, Abstract!SuitSpec

(* An e-stop ends after a clear and the re-arm time, and force begins when
   ForceEarned says: only a tick of ps_safety_core_tick does either. *)
THEOREM ExitsEarnedHolds == Spec => ExitsEarned
BY EstopExitHolds, ForceEarnedHolds DEF ExitsEarned
=============================================================================
