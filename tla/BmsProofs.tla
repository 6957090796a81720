----------------------------- MODULE BmsProofs -----------------------------
(***************************************************************************)
(* The hub's battery management for every number of families, debounce time  *)
(* and number of short circuits: what it knows of the gate, when it strobes, *)
(* and that no request for a re-arm is lost.                                 *)
(***************************************************************************)
EXTENDS Bms, TLAPS

(* While the mirror is latched it is in ESTOP *)
LatchedInEstop == latched => state = ESTOP

(* A request, or a clear on its way to become one, is about the latest e-stop
   the BMS has reported, or the mirror is latched and no re-arm may start *)
RequestIsCleared == accepted \/ rearm_requested => cleared \/ latched

(* The strobe belongs to a re-arm of a latched short that was cleared *)
Strobing ==
  /\ strobe => pc = "strobe_off"
  /\ pc \in {"strobe_on", "strobe_off"} => cleared
  /\ pc \in {"strobe_on", "strobe_off", "feedback"} => short_latched

(* GateTold, from the moment hub_bms_start has read the latch *)
GateKnown ==
  boot # "start" /\ latch /\ ~unseen =>
    \/ trip_flag
    \/ short_latched /\ SHORT_LATCH \in fault_bits /\ COMP_ARMED \notin fault_bits

(* A family that trips is reported before the loop goes on to the next *)
RaisesOne == pc = "raise" => fam \in Families

(* Before hub_bms_start has read the latch the task has not run *)
NotBefore == boot = "start" => pc = "take" /\ \A f \in Families : ~tripped[f]

(* What a step may read of the families, with FAMILIES \in Nat *)
FamilyBits == SHORT_LATCH \notin Families /\ COMP_ARMED \notin Families
              /\ SHORT_LATCH # COMP_ARMED

Inv ==
  /\ TypeOK /\ RaisesOne /\ NotBefore /\ LatchedInEstop /\ RequestIsCleared
  /\ Strobing /\ GateKnown /\ TrippedRecovers

(* The bits of s_fault_bits are different ones *)
LEMMA BitsDiffer == FamilyBits
BY BmsAssumption DEF BmsAssumption, FamilyBits, SHORT_LATCH, COMP_ARMED, Families

(* The moves of the mirror: one that is latched and in ESTOP stays there, and
   only Report and Clear change the latch *)
LEMMA MirrorMoves ==
  ASSUME state \in States, latched \in BOOLEAN, wants \in BOOLEAN,
         LinkGood \/ LinkBad \/ \E t \in {STANDBY, OPERATIONAL, PASSIVE} : ModeSet(t)
  PROVE  /\ state' \in States /\ latched' = latched /\ wants' \in BOOLEAN
         /\ latched /\ state = ESTOP => state' = ESTOP
<1> USE DEF BOOT, STANDBY, OPERATIONAL, PASSIVE, ESTOP, FAULT, States
<1>1. CASE LinkGood
  BY <1>1 DEF LinkGood
<1>2. CASE LinkBad
  BY <1>2 DEF LinkBad
<1>3. ASSUME NEW t \in {STANDBY, OPERATIONAL, PASSIVE}, ModeSet(t)
      PROVE  /\ state' \in States /\ latched' = latched /\ wants' \in BOOLEAN
             /\ latched /\ state = ESTOP => state' = ESTOP
  BY <1>3 DEF ModeSet
<1> QED BY <1>1, <1>2, <1>3

(* ps_safety_core_on_estop latches whatever the state *)
LEMMA MirrorReports ==
  ASSUME wants \in BOOLEAN, Report
  PROVE  state' \in States /\ state' = ESTOP /\ latched' = TRUE /\ wants' \in BOOLEAN
<1>1. state' \in States /\ state' = ESTOP
  BY DEF Report, States, BOOT, FAULT, ESTOP
<1>2. latched' = TRUE /\ wants' \in BOOLEAN
  BY Zenon DEF Report
<1> QED BY <1>1, <1>2

(* What bms_handle_short_trip and bms_try_rearm make of the bits are bits, and
   a debounce counter of 0 is in range *)
LEMMA BitsInRange ==
  ASSUME fault_bits \subseteq SHORT_LATCH .. COMP_ARMED
  PROVE  /\ (fault_bits \cup {SHORT_LATCH}) \ {COMP_ARMED} \subseteq SHORT_LATCH .. COMP_ARMED
         /\ (fault_bits \ {SHORT_LATCH}) \cup {COMP_ARMED} \subseteq SHORT_LATCH .. COMP_ARMED
         /\ 0 \in 0 .. DEBOUNCE
BY BmsAssumption DEF BmsAssumption, SHORT_LATCH, COMP_ARMED

-----------------------------------------------------------------------------
(* hub_bms_start begins with nothing latched, requested or tripped *)
LEMMA InvInit == Init => Inv
<1> SUFFICES ASSUME Init PROVE Inv
  OBVIOUS
<1> USE BmsAssumption DEF BmsAssumption, Init, SuitInit
<1>1. deb \in [Families -> 0 .. DEBOUNCE] /\ tripped \in [Families -> BOOLEAN]
  OBVIOUS
<1>2. state \in States /\ strikes \in 0 .. STRIKES /\ fam \in 1 .. FAMILIES + 1
  BY DEF BOOT, FAULT, States
<1>3. TypeOK
  BY <1>1, <1>2, Zenon DEF TypeOK
<1>4. TrippedRecovers
  BY DEF TrippedRecovers, FamiliesRecover
<1> QED BY <1>3, <1>4, Zenon DEF Inv, RaisesOne, NotBefore, LatchedInEstop, RequestIsCleared, Strobing,
                                GateKnown

(* Every action keeps the types: the debounce counters saturate, and a loop over
   the families ends one past the last *)
LEMMA TypeStep == TypeOK /\ RaisesOne /\ [Next]_vars => TypeOK'
<1> SUFFICES ASSUME TypeOK, RaisesOne, [Next]_vars PROVE TypeOK'
  OBVIOUS
<1>1. CASE Short
  <2>1. UNCHANGED <<state, latched, wants, strobe, deb, tripped, pc, fam, crit,
                    boot, rearm_requested, short_latched, fault_bits, accepted,
                    cleared>>
    BY <1>1 DEF Short, suit, families, loop
  <2>2. strikes' \in 0 .. STRIKES
    BY <1>1, BmsAssumption DEF Short, BmsAssumption, TypeOK
  <2>3. comparator' \in BOOLEAN /\ latch' \in BOOLEAN /\ trip_flag' \in BOOLEAN /\ unseen' \in BOOLEAN
    BY <1>1, Zenon DEF Short
  <2> QED BY <2>1, <2>2, <2>3 DEF TypeOK
<1>2. CASE Below
  <2>1. UNCHANGED <<state, latched, wants, strobe, strikes, deb, tripped, pc,
                    fam, crit, boot, trip_flag, rearm_requested, short_latched,
                    fault_bits, accepted, cleared>>
    BY <1>2 DEF Below, suit, families, loop
  <2>2. comparator' \in BOOLEAN /\ latch' \in BOOLEAN /\ unseen' \in BOOLEAN
    BY <1>2, Zenon DEF Below
  <2> QED BY <2>1, <2>2 DEF TypeOK
<1>3. CASE Start
  <2>1. UNCHANGED <<state, latched, wants, latch, comparator, strobe, strikes,
                    unseen, deb, tripped, pc, fam, crit, trip_flag,
                    rearm_requested, accepted, cleared>>
    BY <1>3 DEF Start, suit, hardware, families, loop
  <2>2. fault_bits' \subseteq SHORT_LATCH .. COMP_ARMED
    BY <1>3, BmsAssumption DEF Start, BmsAssumption, SHORT_LATCH, COMP_ARMED
  <2>3. boot' = "no_isr" /\ short_latched' \in BOOLEAN
    BY <1>3 DEF Start, TypeOK
  <2> QED BY <2>1, <2>2, <2>3 DEF TypeOK
<1>4. CASE InstallIsr
  <2>1. UNCHANGED <<state, latched, wants, latch, comparator, strobe, strikes,
                    unseen, deb, tripped, pc, fam, crit, trip_flag,
                    rearm_requested, short_latched, fault_bits, accepted,
                    cleared>>
    BY <1>4 DEF InstallIsr, suit, hardware, families, loop
  <2>2. boot' = "up"
    BY <1>4 DEF InstallIsr
  <2> QED BY <2>1, <2>2 DEF TypeOK
<1>5. CASE Take
  <2>1. UNCHANGED <<state, latched, wants, latch, comparator, strobe, strikes,
                    unseen, deb, tripped, fam, crit, boot, rearm_requested,
                    accepted, cleared>>
    BY <1>5 DEF Take, suit, hardware, families
  <2>2. fault_bits' \subseteq SHORT_LATCH .. COMP_ARMED
    BY <1>5, BitsInRange, Zenon DEF Take, TypeOK
  <2>3. trip_flag' \in BOOLEAN /\ short_latched' \in BOOLEAN
    BY Zenon, <1>5 DEF Take, TypeOK
  <2>4. pc' \in {"report", "sample"}
    BY <1>5 DEF Take
  <2> QED BY <2>1, <2>2, <2>3, <2>4 DEF TypeOK
<1>6. CASE Raise
  <2>1. UNCHANGED <<latch, comparator, strobe, strikes, unseen, deb, tripped,
                    crit, boot, trip_flag, rearm_requested, short_latched,
                    fault_bits, accepted>>
    BY <1>6 DEF Raise, hardware, families
  <2>2. state' \in States /\ latched' \in BOOLEAN /\ wants' \in BOOLEAN
    BY <1>6, MirrorReports, Zenon DEF Raise, TypeOK
  <2>3. cleared' \in BOOLEAN /\ pc' \in {"sample", "check"}
    BY Zenon, <1>6 DEF Raise
  <2>4. fam' \in 1 .. FAMILIES + 1
    BY <1>6, BmsAssumption DEF Raise, BmsAssumption, TypeOK, RaisesOne, Families
  <2> QED BY <2>1, <2>2, <2>3, <2>4 DEF TypeOK
<1>7. CASE Sample
  <2>1. UNCHANGED <<state, latched, wants, latch, comparator, strobe, strikes,
                    unseen, deb, tripped, boot, trip_flag, rearm_requested,
                    short_latched, fault_bits, accepted, cleared>>
    BY <1>7 DEF Sample, suit, hardware, families
  <2>2. crit' \subseteq Families /\ pc' = "check" /\ fam' \in 1 .. FAMILIES + 1
    BY <1>7, BmsAssumption DEF Sample, BmsAssumption
  <2> QED BY <2>1, <2>2 DEF TypeOK
<1>8. CASE Check
  <2>1. UNCHANGED <<state, latched, wants, latch, comparator, strobe, strikes,
                    unseen, crit, boot, trip_flag, rearm_requested,
                    short_latched, accepted, cleared>>
    BY <1>8 DEF Check, suit, hardware
  <2>2. deb' \in [Families -> 0 .. DEBOUNCE]
    BY <1>8, BmsAssumption DEF Check, BmsAssumption, TypeOK, debounced
  <2>3. tripped' \in [Families -> BOOLEAN]
    BY <1>8, Zenon DEF Check, TypeOK
  <2>4. fault_bits' \subseteq SHORT_LATCH .. COMP_ARMED
    BY <1>8, BmsAssumption DEF Check, BmsAssumption, TypeOK, Families, SHORT_LATCH, COMP_ARMED
  <2>5. fam' \in 1 .. FAMILIES + 1 /\ pc' \in {"raise", "check"}
    BY <1>8, BmsAssumption DEF Check, BmsAssumption, TypeOK, Families
  <2> QED BY <2>1, <2>2, <2>3, <2>4, <2>5 DEF TypeOK
<1>9. CASE Checked
  <2>1. UNCHANGED <<state, latched, wants, latch, comparator, strobe, strikes,
                    unseen, deb, tripped, boot, trip_flag, rearm_requested,
                    short_latched, fault_bits, accepted, cleared>>
    BY <1>9 DEF Checked, suit, hardware, families
  <2>2. pc' = "rearm" /\ fam' \in 1 .. FAMILIES + 1 /\ crit' \subseteq Families
    BY <1>9, BmsAssumption DEF Checked, BmsAssumption
  <2> QED BY <2>1, <2>2 DEF TypeOK
<1>10. CASE Rearm
  <2>1. UNCHANGED <<state, latched, wants, latch, comparator, strobe, strikes,
                    unseen, fam, crit, boot, trip_flag, short_latched,
                    accepted, cleared>>
    BY <1>10 DEF Rearm, suit, hardware
  <2>2. deb' \in [Families -> 0 .. DEBOUNCE] /\ tripped' \in [Families -> BOOLEAN]
    BY <1>10, BitsInRange, Zenon DEF Rearm, TypeOK, families
  <2>3. fault_bits' \subseteq SHORT_LATCH .. COMP_ARMED /\ pc' \in {"strobe_on", "take"}
    BY Zenon, <1>10 DEF Rearm, TypeOK
  <2>4. rearm_requested' \in BOOLEAN
    BY <1>10, Zenon DEF Rearm
  <2> QED BY <2>1, <2>2, <2>3, <2>4 DEF TypeOK
<1>11. CASE StrobeOn
  <2>1. UNCHANGED <<state, latched, wants, comparator, strikes, deb, tripped,
                    fam, crit, boot, trip_flag, rearm_requested, short_latched,
                    fault_bits, accepted, cleared>>
    BY <1>11 DEF StrobeOn, suit, families
  <2>2. strobe' \in BOOLEAN /\ latch' \in BOOLEAN /\ unseen' \in BOOLEAN
    BY <1>11, Zenon DEF StrobeOn
  <2>3. pc' = "strobe_off"
    BY <1>11 DEF StrobeOn
  <2> QED BY <2>1, <2>2, <2>3 DEF TypeOK
<1>12. CASE StrobeOff
  <2>1. UNCHANGED <<state, latched, wants, latch, comparator, strikes, unseen,
                    deb, tripped, fam, crit, boot, trip_flag, rearm_requested,
                    short_latched, fault_bits, accepted, cleared>>
    BY <1>12 DEF StrobeOff, suit, families
  <2>2. strobe' \in BOOLEAN /\ pc' = "feedback"
    BY Zenon, <1>12 DEF StrobeOff
  <2> QED BY <2>1, <2>2 DEF TypeOK
<1>13. CASE Feedback
  <2>1. UNCHANGED <<state, latched, wants, latch, comparator, strobe, strikes,
                    unseen, fam, crit, boot, trip_flag, rearm_requested,
                    accepted, cleared>>
    BY <1>13 DEF Feedback, suit, hardware
  <2>2. deb' \in [Families -> 0 .. DEBOUNCE] /\ tripped' \in [Families -> BOOLEAN]
    BY <1>13, BitsInRange, Zenon DEF Feedback, TypeOK, families
  <2>3. fault_bits' \subseteq SHORT_LATCH .. COMP_ARMED
    BY <1>13, BitsInRange, Zenon DEF Feedback, TypeOK
  <2>4. short_latched' \in BOOLEAN /\ pc' = "take"
    BY Zenon, <1>13 DEF Feedback, TypeOK
  <2> QED BY <2>1, <2>2, <2>3, <2>4 DEF TypeOK
<1>14. CASE AcceptClear
  <2>1. UNCHANGED <<state, wants, latch, comparator, strobe, strikes, unseen,
                    deb, tripped, pc, fam, crit, boot, trip_flag,
                    rearm_requested, short_latched, fault_bits>>
    BY <1>14 DEF AcceptClear, Clear, bms, hardware, families, loop
  <2>2. latched' \in BOOLEAN /\ accepted' \in BOOLEAN /\ cleared' \in BOOLEAN
    BY Zenon, <1>14 DEF AcceptClear, Clear
  <2> QED BY <2>1, <2>2 DEF TypeOK
<1>15. CASE Notify
  <2>1. UNCHANGED <<state, latched, wants, latch, comparator, strobe, strikes,
                    unseen, deb, tripped, pc, fam, crit, boot, trip_flag,
                    short_latched, fault_bits, cleared>>
    BY <1>15 DEF Notify, bms, suit, hardware, families, loop
  <2>2. accepted' \in BOOLEAN /\ rearm_requested' \in BOOLEAN
    BY Zenon, <1>15 DEF Notify
  <2> QED BY <2>1, <2>2 DEF TypeOK
<1>16. CASE Mirror
  <2>1. UNCHANGED <<latch, comparator, strobe, strikes, unseen, deb, tripped,
                    pc, fam, crit, boot, trip_flag, rearm_requested,
                    short_latched, fault_bits, accepted, cleared>>
    BY <1>16 DEF Mirror, bms, hardware, families, loop
  <2>2. state' \in States /\ latched' \in BOOLEAN /\ wants' \in BOOLEAN
    BY Zenon, <1>16, MirrorMoves, MirrorReports DEF Mirror, TypeOK
  <2> QED BY <2>1, <2>2 DEF TypeOK
<1>17. CASE UNCHANGED vars
  BY <1>17 DEF TypeOK, vars, suit, hardware, families, loop
<1> QED BY <1>1, <1>2, <1>3, <1>4, <1>5, <1>6, <1>7, <1>8, <1>9, <1>10, <1>11, <1>12, <1>13,
           <1>14, <1>15, <1>16, <1>17 DEF Next, Loop

(* The requests: a report takes the clear back and latches, a clear gives both *)
LEMMA RequestStep == Inv /\ [Next]_vars => LatchedInEstop' /\ RequestIsCleared' /\ RaisesOne' /\ NotBefore'
<1> SUFFICES ASSUME Inv, [Next]_vars PROVE LatchedInEstop' /\ RequestIsCleared' /\ RaisesOne' /\ NotBefore'
  OBVIOUS
<1> USE DEF Inv, LatchedInEstop, RequestIsCleared, RaisesOne, NotBefore, suit, hardware, families, loop, bms
<1>1. CASE Short
  BY <1>1 DEF Short
<1>2. CASE Below
  BY <1>2 DEF Below
<1>3. CASE Start
  BY <1>3 DEF Start
<1>4. CASE InstallIsr
  BY <1>4 DEF InstallIsr
<1>5. CASE Take
  BY <1>5 DEF Take
<1>6. CASE Raise
  BY <1>6 DEF Raise, Report
<1>7. CASE Sample
  BY <1>7 DEF Sample
<1>8. CASE Check
  BY <1>8 DEF Check
<1>9. CASE Checked
  BY <1>9 DEF Checked
<1>10. CASE Rearm
  BY Zenon, <1>10 DEF Rearm, MayRearm
<1>11. CASE StrobeOn
  BY <1>11 DEF StrobeOn
<1>12. CASE StrobeOff
  BY <1>12 DEF StrobeOff
<1>13. CASE Feedback
  BY <1>13 DEF Feedback
<1>14. CASE AcceptClear
  BY <1>14 DEF AcceptClear, Clear
<1>15. CASE Notify
  BY <1>15 DEF Notify
<1>16. CASE Mirror
  <2>1. CASE Report
    BY <1>16, <2>1, MirrorReports DEF Mirror, TypeOK
  <2>2. CASE ~Report
    BY <1>16, <2>2, MirrorMoves DEF Mirror, TypeOK
  <2> QED BY <2>1, <2>2
<1>17. CASE UNCHANGED vars
  BY <1>17 DEF vars
<1> QED BY <1>1, <1>2, <1>3, <1>4, <1>5, <1>6, <1>7, <1>8, <1>9, <1>10, <1>11, <1>12, <1>13, <1>14, <1>15, <1>16, <1>17 DEF Next, Loop

(* The strobe: a re-arm starts in STANDBY, where the mirror is not latched *)
LEMMA StrobeStep == Inv /\ [Next]_vars => Strobing'
<1> SUFFICES ASSUME Inv, [Next]_vars PROVE Strobing'
  OBVIOUS
<1> USE DEF Inv, Strobing, NotBefore, LatchedInEstop, RequestIsCleared, suit, hardware, families, loop, bms
<1>1. CASE Short
  BY <1>1 DEF Short
<1>2. CASE Below
  BY <1>2 DEF Below
<1>3. CASE Start
  BY <1>3 DEF Start
<1>4. CASE InstallIsr
  BY <1>4 DEF InstallIsr
<1>5. CASE Take
  BY <1>5 DEF Take
<1>6. CASE Raise
  BY <1>6 DEF Raise, Report
<1>7. CASE Sample
  BY <1>7 DEF Sample
<1>8. CASE Check
  BY <1>8 DEF Check
<1>9. CASE Checked
  BY <1>9 DEF Checked
<1>10. CASE Rearm
  BY <1>10 DEF Rearm, MayRearm, STANDBY, ESTOP
<1>11. CASE StrobeOn
  BY <1>11 DEF StrobeOn
<1>12. CASE StrobeOff
  BY <1>12 DEF StrobeOff
<1>13. CASE Feedback
  BY <1>13 DEF Feedback
<1>14. CASE AcceptClear
  BY <1>14 DEF AcceptClear, Clear
<1>15. CASE Notify
  BY <1>15 DEF Notify
<1>16. CASE Mirror
  BY <1>16 DEF Mirror
<1>17. CASE UNCHANGED vars
  BY <1>17 DEF vars
<1> QED BY <1>1, <1>2, <1>3, <1>4, <1>5, <1>6, <1>7, <1>8, <1>9, <1>10, <1>11, <1>12, <1>13, <1>14, <1>15, <1>16, <1>17 DEF Next, Loop

(* The gate: what sets the latch flags it, and what resets the flags has seen the latch open *)
LEMMA GateStep == Inv /\ [Next]_vars => GateKnown'
<1> SUFFICES ASSUME Inv, [Next]_vars PROVE GateKnown'
  OBVIOUS
<1> USE DEF Inv, GateKnown, suit, hardware, families, loop, bms
<1>1. CASE Short
  <2>1. CASE latch
    BY <1>1, <2>1 DEF Short, TypeOK
  <2>2. CASE ~latch /\ boot = "up"
    BY Zenon, <1>1, <2>2 DEF Short, TypeOK
  <2>3. CASE ~latch /\ boot # "up"
    BY Zenon, <1>1, <2>3 DEF Short, TypeOK
  <2> QED BY <2>1, <2>2, <2>3
<1>2. CASE Below
  BY Zenon, <1>2 DEF Below
<1>3. CASE Start
  BY <1>3, BitsDiffer DEF Start, FamilyBits, TypeOK
<1>4. CASE InstallIsr
  BY <1>4 DEF InstallIsr
<1>5. CASE Take
  BY <1>5, BitsDiffer DEF Take, FamilyBits
<1>6. CASE Raise
  BY <1>6 DEF Raise, Report
<1>7. CASE Sample
  BY <1>7 DEF Sample
<1>8. CASE Check
  BY <1>8, BitsDiffer DEF Check, FamilyBits
<1>9. CASE Checked
  BY <1>9 DEF Checked
<1>10. CASE Rearm
  BY <1>10 DEF Rearm, MayRearm
<1>11. CASE StrobeOn
  BY Zenon, <1>11 DEF StrobeOn
<1>12. CASE StrobeOff
  BY <1>12 DEF StrobeOff
<1>13. CASE Feedback
  BY <1>13 DEF Feedback
<1>14. CASE AcceptClear
  BY <1>14 DEF AcceptClear, Clear
<1>15. CASE Notify
  BY <1>15 DEF Notify
<1>16. CASE Mirror
  BY <1>16 DEF Mirror
<1>17. CASE UNCHANGED vars
  BY <1>17 DEF vars
<1> QED BY <1>1, <1>2, <1>3, <1>4, <1>5, <1>6, <1>7, <1>8, <1>9, <1>10, <1>11, <1>12, <1>13, <1>14, <1>15, <1>16, <1>17 DEF Next, Loop

(* The families: their trips are reset together with the request or the short *)
LEMMA TrippedStep == Inv /\ [Next]_vars => TrippedRecovers'
<1> SUFFICES ASSUME Inv, [Next]_vars PROVE TrippedRecovers'
  OBVIOUS
<1> USE DEF Inv, TrippedRecovers, NotBefore, FamiliesRecover, Strobing, suit, hardware, families, loop, bms
<1>1. CASE Short
  BY <1>1 DEF Short
<1>2. CASE Below
  BY <1>2 DEF Below
<1>3. CASE Start
  BY <1>3 DEF Start
<1>4. CASE InstallIsr
  BY <1>4 DEF InstallIsr
<1>5. CASE Take
  BY <1>5 DEF Take
<1>6. CASE Raise
  BY <1>6 DEF Raise, Report
<1>7. CASE Sample
  BY <1>7 DEF Sample
<1>8. CASE Check
  <2> DEFINE trips == ~tripped[fam] /\ debounced >= DEBOUNCE
  <2>1. CASE trips
    BY <1>8, <2>1 DEF Check
  <2>2. CASE ~trips
    BY <1>8, <2>2 DEF Check, TypeOK
  <2> QED BY <2>1, <2>2
<1>9. CASE Checked
  BY <1>9 DEF Checked
<1>10. CASE Rearm
  BY Zenon, <1>10 DEF Rearm, MayRearm
<1>11. CASE StrobeOn
  BY <1>11 DEF StrobeOn
<1>12. CASE StrobeOff
  BY <1>12 DEF StrobeOff
<1>13. CASE Feedback
  BY Zenon, <1>13 DEF Feedback
<1>14. CASE AcceptClear
  BY <1>14 DEF AcceptClear, Clear
<1>15. CASE Notify
  BY <1>15 DEF Notify
<1>16. CASE Mirror
  BY Zenon, <1>16, MirrorMoves, MirrorReports DEF Mirror, TypeOK
<1>17. CASE UNCHANGED vars
  BY <1>17 DEF vars
<1> QED BY <1>1, <1>2, <1>3, <1>4, <1>5, <1>6, <1>7, <1>8, <1>9, <1>10, <1>11, <1>12, <1>13, <1>14, <1>15, <1>16, <1>17 DEF Next, Loop

-----------------------------------------------------------------------------
(* The invariant holds always, for every number of families and debounce time *)
THEOREM Invariance == Spec => []Inv
<1>1. Inv /\ [Next]_vars => Inv'
  BY TypeStep, RequestStep, StrobeStep, GateStep, TrippedStep, Zenon DEF Inv
<1> QED BY InvInit, <1>1, PTL DEF Spec

(* The fields of bms_task.c keep their types; the debounce counters saturate. *)
THEOREM TypeCorrect == Spec => []TypeOK
<1>1. Inv => TypeOK
  BY DEF Inv
<1> QED BY Invariance, <1>1, PTL

(* bms_handle_short_trip and bms_try_rearm: the firmware knows whenever the latch
   holds the gate open, whatever shorts, strobes and feedback interleave. *)
THEOREM GateToldHolds == Spec => []GateTold
<1>1. Inv => GateTold
  BY DEF Inv, GateKnown, GateTold
<1> QED BY Invariance, <1>1, PTL

(* bms_try_rearm strobes only if a clear was accepted after the last e-stop the
   BMS has reported. *)
THEOREM RearmNeedsClearHolds == Spec => []RearmNeedsClear
<1>1. Inv => RearmNeedsClear
  BY DEF Inv, Strobing, RearmNeedsClear
<1> QED BY Invariance, <1>1, PTL

(* bms_check and bms_try_rearm: unless a short is latched, a tripped family waits
   for its clear or is being re-armed; no request gets lost in between. *)
THEOREM TrippedRecoversHolds == Spec => []TrippedRecovers
<1>1. Inv => TrippedRecovers
  BY DEF Inv
<1> QED BY Invariance, <1>1, PTL
=============================================================================
