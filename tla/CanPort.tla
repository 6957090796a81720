------------------------------- MODULE CanPort -------------------------------
(***************************************************************************)
(* The sending side and the link supervision of one CAN port: ps_can.c and  *)
(* ps_can_txq.c (firmware/components/ps_can/src).  Senders put frames into  *)
(* slots of a pool and the slots into a queue ordered by class; tx_task     *)
(* hands the driver one at a time; the driver's ISRs report a frame done    *)
(* and the changes of the error state; rx_task reports these and recovers   *)
(* from bus-off.                                                            *)
(*                                                                          *)
(* tx_task and rx_task share a core and tx_task has the higher priority, so *)
(* rx_task moves only while tx_task is blocked.  The port is opened from    *)
(* app_main, on the same core, so an ISR is one step that may come between  *)
(* any two steps of the tasks.  Senders run on either core.  The driver is  *)
(* external; receiving is left out.                                         *)
(***************************************************************************)
EXTENDS Integers, Sequences, FiniteSets

CONSTANTS
  SLOTS,      (* PS_CAN_TX_SLOTS                                            *)
  Senders,    (* tasks that call ps_can_send                                *)
  CLASSES,    (* classes 0 .. CLASSES - 1, 0 is SAFETY                      *)
  FRAMES,     (* bound: frames accepted                                     *)
  BUS_OFFS    (* bound: times the controller goes bus-off                   *)

ASSUME PortAssumption ==
  /\ SLOTS \in Nat \ {0} /\ IsFiniteSet(Senders)
  /\ CLASSES \in Nat \ {0} /\ FRAMES \in Nat /\ BUS_OFFS \in Nat

Slots   == 0 .. SLOTS - 1
NO_SLOT == -1
Classes == 0 .. CLASSES - 1
RUNNING == "running"
ERR_PASSIVE == "err_passive"
BUS_OFF == "bus_off"
RECOVERING == "recovering"
LinkStates == {RUNNING, ERR_PASSIVE, BUS_OFF, RECOVERING}
NONE == "none"

VARIABLES
  free,          (* free_slots                                              *)
  slots,         (* what is in each slot                                    *)
  txq,           (* slot indices waiting, a sequence per class              *)
  tx_busy, tx_slot,
  link_state, pending_state,
  notified,      (* tx_task's notification                                  *)
  tx_pc,         (* tx_task: "wait", "flush", "pop", "submit", "refused"    *)
  rx_pc, seen,   (* service_link: "start", "clear", "link"; its `pending`   *)
  send_pc,       (* ps_can_send: "idle", "slot", "push"                     *)
  held,          (* the slot a sender is filling                            *)
  hw, err,       (* external: the slot on the wire, the error state         *)
  offs,          (* bus-offs so far                                         *)
  accepted,      (* frames accepted so far                                  *)
  last_sent,     (* observer: number of the last frame sent, per class      *)
  overtaken,     (* observer: lower-class frames put on the wire since a
                    slot was queued                                         *)
  late,          (* observer: a frame was sent that a bus-off had caught    *)
  told           (* observer, of a bus-off: "no", "told" to state_cb, or
                    "lost" between the reading of pending_state and its reset *)

pool  == <<free, slots, txq, tx_busy, tx_slot>>
link  == <<link_state, pending_state, err, offs>>
tasks == <<tx_pc, rx_pc, seen, send_pc, held>>
seers == <<last_sent, overtaken, late>>
vars  == <<pool, link, tasks, seers, notified, hw, accepted, told>>

Init ==
  /\ free = Slots
  /\ slots = [s \in Slots |-> [n |-> 0, cls |-> 0, era |-> 0]]
  /\ txq = [c \in Classes |-> <<>>]
  /\ tx_busy = FALSE
  /\ tx_slot = 0
  /\ link_state = RUNNING
  /\ pending_state = NONE
  /\ notified = FALSE
  /\ tx_pc = "wait"
  /\ rx_pc = "start"
  /\ seen = NONE
  /\ send_pc = [p \in Senders |-> "idle"]
  /\ held = [p \in Senders |-> NO_SLOT]
  /\ hw = NO_SLOT
  /\ err = RUNNING
  /\ offs = 0
  /\ accepted = 0
  /\ last_sent = [c \in Classes |-> 0]
  /\ overtaken = [s \in Slots |-> 0]
  /\ late = FALSE
  /\ told = "no"

-----------------------------------------------------------------------------
(* ps_can_txq_pop: the head of the first class that has one.  ps_can_txq_push
   cannot fail, since a class's ring holds the whole pool. *)
Waiting == {c \in Classes : txq[c] # <<>>}
Queued == UNION {{txq[c][i] : i \in DOMAIN txq[c]} : c \in Classes}
First_reversed ==      (* mutant: the loop runs down the classes *)
  CHOOSE c \in Waiting : \A d \in Waiting : c >= d
First == CHOOSE c \in Waiting : \A d \in Waiting : c <= d
Popped == [txq EXCEPT ![First] = Tail(@)]

(* ps_can_send: refused during bus-off, ... *)
Send(p) ==
  /\ accepted + Cardinality({q \in Senders : send_pc[q] # "idle"}) < FRAMES
  /\ send_pc[p] = "idle"
  /\ link_state # BUS_OFF
  /\ send_pc' = [send_pc EXCEPT ![p] = "slot"]
  /\ UNCHANGED <<pool, link, tx_pc, rx_pc, seen, held, seers, notified, hw,
                 accepted, told>>

(* ... then a slot, ... *)
GetSlot(p) ==
  /\ send_pc[p] = "slot"
  /\ \E s \in free :
       /\ free' = free \ {s}
       /\ held' = [held EXCEPT ![p] = s]
  /\ send_pc' = [send_pc EXCEPT ![p] = "push"]
  /\ UNCHANGED <<slots, txq, tx_busy, tx_slot, link, tx_pc, rx_pc, seen, seers,
                 notified, hw, accepted, told>>

(* ... or a timeout without one, ... *)
SendTimeout(p) ==
  /\ send_pc[p] = "slot"
  /\ free = {}
  /\ send_pc' = [send_pc EXCEPT ![p] = "idle"]
  /\ UNCHANGED <<pool, link, tx_pc, rx_pc, seen, held, seers, notified, hw,
                 accepted, told>>

(* ... and the frame is queued under the lock, and tx_task notified. *)
Push(p) ==
  /\ send_pc[p] = "push"
  /\ \E c \in Classes :
       /\ slots' = [slots EXCEPT ![held[p]] =
                      [n |-> accepted + 1, cls |-> c, era |-> offs]]
       /\ txq' = [txq EXCEPT ![c] = Append(@, held[p])]
  /\ accepted' = accepted + 1
  /\ overtaken' = [overtaken EXCEPT ![held[p]] = 0]
  /\ send_pc' = [send_pc EXCEPT ![p] = "idle"]
  /\ held' = [held EXCEPT ![p] = NO_SLOT]
  /\ notified' = TRUE
  /\ UNCHANGED <<free, tx_busy, tx_slot, link, tx_pc, rx_pc, seen, last_sent,
                 late, hw, told>>

-----------------------------------------------------------------------------
(* tx_task wakes from ulTaskNotifyTake, notified or after 20 ms. *)
TxWake ==
  /\ tx_pc = "wait"
  /\ notified' = FALSE
  /\ tx_pc' = IF link_state = BUS_OFF THEN "flush" ELSE "pop"
  /\ UNCHANGED <<pool, link, rx_pc, seen, send_pc, held, seers, hw, accepted,
                 told>>

(* tx_flush: one round of its loop *)
TxFlush_busy ==        (* mutant: tx_busy survives the flush *)
  /\ tx_pc = "flush"
  /\ IF Waiting # {}
     THEN /\ txq' = Popped
          /\ free' = free \cup {Head(txq[First])}
          /\ UNCHANGED <<tx_busy, tx_pc>>
     ELSE IF tx_busy
     THEN /\ tx_pc' = "wait"
          /\ free' = free \cup {tx_slot}
          /\ UNCHANGED <<txq, tx_busy>>
     ELSE tx_pc' = "wait" /\ UNCHANGED <<txq, free, tx_busy>>
  /\ UNCHANGED <<slots, tx_slot, link, rx_pc, seen, send_pc, held, seers,
                 notified, hw, accepted, told>>
TxFlush ==
  /\ tx_pc = "flush"
  /\ IF Waiting # {}
     THEN /\ txq' = Popped
          /\ free' = free \cup {Head(txq[First])}
          /\ UNCHANGED <<tx_busy, tx_pc>>
     ELSE IF tx_busy
     THEN /\ tx_busy' = FALSE
          /\ free' = free \cup {tx_slot}
          /\ UNCHANGED <<txq, tx_pc>>
     ELSE tx_pc' = "wait" /\ UNCHANGED <<txq, free, tx_busy>>
  /\ UNCHANGED <<slots, tx_slot, link, rx_pc, seen, send_pc, held, seers,
                 notified, hw, accepted, told>>

(* The sending loop of tx_task: take the next slot if none is in flight, ... *)
TxPop ==
  /\ tx_pc = "pop"
  /\ IF ~tx_busy /\ Waiting # {}
     THEN /\ txq' = Popped
          /\ tx_busy' = TRUE
          /\ tx_slot' = Head(txq[First])
          /\ tx_pc' = "submit"
     ELSE tx_pc' = "wait" /\ UNCHANGED <<txq, tx_busy, tx_slot>>
  /\ UNCHANGED <<free, slots, link, rx_pc, seen, send_pc, held, seers,
                 notified, hw, accepted, told>>

(* ... hand it to the driver, which refuses it while the controller is
   bus-off or recovering ... *)
TxSubmit ==
  /\ tx_pc = "submit"
  /\ IF err \in {BUS_OFF, RECOVERING}
     THEN tx_pc' = "refused" /\ UNCHANGED <<hw, overtaken>>
     ELSE /\ tx_pc' = "wait"
          /\ hw' = tx_slot
          /\ overtaken' = [s \in Slots |->
               IF s \notin Queued THEN 0
               ELSE IF slots[s].cls < slots[tx_slot].cls THEN overtaken[s] + 1
               ELSE overtaken[s]]
  /\ UNCHANGED <<pool, link, rx_pc, seen, send_pc, held, last_sent, late,
                 notified, accepted, told>>

(* ... and drop what was refused. *)
TxRefused ==
  /\ tx_pc = "refused"
  /\ tx_busy' = FALSE
  /\ free' = free \cup {tx_slot}
  /\ tx_pc' = "pop"
  /\ UNCHANGED <<slots, txq, tx_slot, link, rx_pc, seen, send_pc, held, seers,
                 notified, hw, accepted, told>>

TxTask == TxWake \/ TxFlush \/ TxPop \/ TxSubmit \/ TxRefused
TxBlocked == tx_pc = "wait" /\ ~notified

-----------------------------------------------------------------------------
(* rx_task in service_link: read pending_state, ... *)
ReadPending ==
  /\ TxBlocked /\ rx_pc = "start"
  /\ seen' = pending_state
  /\ rx_pc' = IF pending_state # NONE THEN "clear" ELSE "link"
  /\ UNCHANGED <<pool, link, tx_pc, send_pc, held, seers, notified, hw,
                 accepted, told>>

(* ... reset it and report what was read, ... *)
ReportState ==
  /\ TxBlocked /\ rx_pc = "clear"
  /\ pending_state' = NONE
  /\ told' = IF seen = BUS_OFF THEN "told"
             ELSE IF pending_state = BUS_OFF THEN "lost" ELSE told
  /\ rx_pc' = "link"
  /\ UNCHANGED <<pool, link_state, err, offs, tx_pc, seen, send_pc, held, seers,
                 notified, hw, accepted>>

(* ... and start the recovery from bus-off when its backoff has passed.  It
   takes the controller 128 idle sequences, so link_state is set before the
   driver is back. *)
ServiceRecovery ==
  /\ TxBlocked /\ rx_pc = "link"
  /\ rx_pc' = "start"
  /\ seen' = NONE
  /\ \/ /\ link_state = BUS_OFF
        /\ link_state' = RECOVERING
        /\ err' = RECOVERING
     \/ UNCHANGED <<link_state, err>>
  /\ UNCHANGED <<pool, pending_state, offs, tx_pc, send_pc, held, seers,
                 notified, hw, accepted, told>>

RxTask == ReadPending \/ ReportState \/ ServiceRecovery

-----------------------------------------------------------------------------
(* External: the controller has sent the frame, or given up on it; it calls
   on_tx_done. *)
on_tx_done ==
  /\ hw # NO_SLOT
  /\ hw' = NO_SLOT
  /\ IF tx_busy /\ tx_slot = hw
     THEN /\ tx_busy' = FALSE
          /\ free' = free \cup {hw}
          /\ notified' = TRUE
     ELSE UNCHANGED <<tx_busy, free, notified>>
  /\ \/ /\ last_sent' = [last_sent EXCEPT ![slots[hw].cls] = slots[hw].n]
        /\ late' = (late \/ slots[hw].era < offs)
     \/ UNCHANGED <<last_sent, late>>
  /\ UNCHANGED <<slots, txq, tx_slot, link, tasks, overtaken, accepted, told>>

(* External: the error state changes and on_state_change is called.  A frame on
   the wire at bus-off is aborted and never reported. *)
on_state_change_quiet(new) ==     (* mutant: tx_task is not notified *)
  /\ err' = new
  /\ link_state' = new
  /\ pending_state' = new
  /\ UNCHANGED notified
on_state_change_first(new) ==     (* mutant: a report that waits is kept *)
  /\ err' = new
  /\ link_state' = new
  /\ pending_state' = IF pending_state = NONE THEN new ELSE pending_state
  /\ notified' = (notified \/ new = BUS_OFF)
on_state_change(new) ==
  /\ err' = new
  /\ link_state' = new
  /\ pending_state' = new
  /\ notified' = (notified \/ new = BUS_OFF)

ErrorState ==
  \/ /\ \/ err = RUNNING /\ on_state_change(ERR_PASSIVE)
        \/ err \in {ERR_PASSIVE, RECOVERING} /\ on_state_change(RUNNING)
     /\ told' = IF err = RECOVERING THEN "no" ELSE told
     /\ UNCHANGED <<pool, tasks, seers, hw, offs, accepted>>
  \/ /\ offs < BUS_OFFS
     /\ err = ERR_PASSIVE /\ on_state_change(BUS_OFF)
     /\ hw' = NO_SLOT
     /\ offs' = offs + 1
     /\ UNCHANGED <<pool, tasks, seers, accepted, told>>

Next ==
  \/ \E p \in Senders : Send(p) \/ GetSlot(p) \/ SendTimeout(p) \/ Push(p)
  \/ TxTask \/ RxTask
  \/ on_tx_done \/ ErrorState

Spec == Init /\ [][Next]_vars

(* tx_task wakes at least every 20 ms, senders go on, and a frame on the wire
   is sent, given up after three retries or aborted. *)
FairSpec ==
  /\ Spec
  /\ WF_vars(TxTask)
  /\ WF_vars(on_tx_done)
  /\ \A p \in Senders : WF_vars(GetSlot(p) \/ SendTimeout(p) \/ Push(p))

-----------------------------------------------------------------------------
(* tx_slot names a slot also while tx_busy is off, the rings of ps_can_txq hold
   slot indices only, and every other field of struct ps_can_ctx keeps its
   range. *)
TypeOK ==
  /\ free \subseteq Slots
  /\ slots \in [Slots -> [n : Nat, cls : Classes, era : Nat]]
  /\ txq \in [Classes -> Seq(Slots)]
  /\ tx_busy \in BOOLEAN /\ tx_slot \in Slots
  /\ link_state \in LinkStates /\ notified \in BOOLEAN
  /\ tx_pc \in {"wait", "flush", "pop", "submit", "refused"}
  /\ send_pc \in [Senders -> {"idle", "slot", "push"}]
  /\ held \in [Senders -> Slots \cup {NO_SLOT}]
  /\ hw \in Slots \cup {NO_SLOT} /\ offs \in Nat /\ accepted \in Nat

(* ps_can.c, slot pool: a slot is always in exactly one place, the free list,
   one position of one class's queue, a sender's hands or tx_task's, whatever
   the order of sends, completions, refusals and flushes.  So none is freed
   twice and none is lost. *)
Places(s) ==
  {<<"free">> : x \in free \cap {s}}
    \cup (UNION {{<<"queue", c, i>> : i \in {k \in DOMAIN txq[c] : txq[c][k] = s}}
                  : c \in Classes})
    \cup {<<"sender", p>> : p \in {q \in Senders : held[q] = s}}
    \cup {<<"tx">> : x \in {t \in {tx_slot} : tx_busy /\ t = s}}
SlotsConserved == \A s \in Slots : Cardinality(Places(s)) = 1

(* ps_can.h:58-59, "SAFETY first, FIFO within a class": once a frame is queued at most
   one frame of a lower class goes on the wire before it, the one tx_task had
   already taken; and the frames of a class that are sent are sent in the order in
   which they were accepted, through drops and refusals. *)
SendOrder ==
  [][/\ \A s \in Queued' : overtaken'[s] <= 1
     /\ \A c \in Classes : last_sent'[c] >= last_sent[c]]_vars

(* tx_flush and the refusals: a frame that was queued when the port went
   bus-off is not sent after the recovery, since tx_task is notified and runs
   before rx_task starts the recovery. *)
NothingLate == ~late

(* tx_task, on_tx_done and tx_flush: when no more is sent all slots are free
   again, also one that was in flight when the port went bus-off. *)
SlotsReturn == <>[](free = Slots)

(* ps_can.c:298, at the recovery: the safety layer "has already treated bus-off
   as heartbeat loss".  It has been told, or will be in the next pass if the
   bus-off came within this one, unless the report was reset unread. *)
OffTold == link_state = RECOVERING => told # "no" \/ pending_state = BUS_OFF

(* A bus-off is the end of what was queued, and the safety layer hears of it. *)
BusOffHandled == NothingLate /\ OffTold
=============================================================================
