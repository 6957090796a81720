---------------------------- MODULE CanPortProofs ----------------------------
(***************************************************************************)
(* The CAN port for every number of slots, senders, classes, frames and      *)
(* bus-offs: its slots are conserved, a frame a bus-off has caught is not    *)
(* sent after the recovery, and the safety layer is told.                    *)
(***************************************************************************)
EXTENDS CanPort, FiniteSetTheorems, WellFoundedInduction, TLAPS

-----------------------------------------------------------------------------
(* The queue *)

(* A class that has a frame and is the first that has one: the loop of
   ps_can_txq_pop stops *)
LEMMA FirstWaits ==
  ASSUME Waiting # {}
  PROVE  First \in Waiting /\ \A d \in Waiting : First <= d
<1>1. Waiting \subseteq Nat
  BY PortAssumption DEF PortAssumption, Waiting, Classes
<1>2. PICK c \in Waiting : \A d \in Waiting : ~ (<<d, c>> \in OpToRel(<, Nat))
  BY <1>1, NatLessThanWellFounded, WFMin, Zenon
<1>3. ASSUME NEW d \in Waiting PROVE c <= d
  <2>1. <<d, c>> \in Nat \X Nat /\ <<d, c>>[1] = d /\ <<d, c>>[2] = c
    BY <1>1
  <2>2. ~(d < c)
    BY <1>2, <2>1 DEF OpToRel
  <2> QED BY <1>1, <2>2
<1>4. c \in Waiting /\ \A d \in Waiting : c <= d
  BY <1>3
<1> QED BY <1>4, Zenon DEF First

(* ps_can_send: a sender holds a slot exactly while it is to push *)
Holding == \A p \in Senders : send_pc[p] = "push" <=> held[p] # NO_SLOT

(* NO_SLOT is no slot *)
LEMMA NoSlot == NO_SLOT \notin Slots
BY PortAssumption DEF PortAssumption, NO_SLOT, Slots

(* ps_can_txq_pop takes the first of a class and moves up the others *)
LEMMA PopQueue ==
  ASSUME txq \in [Classes -> Seq(Slots)], Waiting # {}
  PROVE  /\ First \in Classes /\ Head(txq[First]) \in Slots
         /\ 1 \in DOMAIN txq[First] /\ Head(txq[First]) = txq[First][1]
         /\ Popped \in [Classes -> Seq(Slots)]
         /\ \A c \in Classes \ {First} : Popped[c] = txq[c]
         /\ \A i \in DOMAIN Popped[First] :
              i \in Nat /\ i + 1 \in DOMAIN txq[First] /\ Popped[First][i] = txq[First][i + 1]
         /\ \A i \in DOMAIN txq[First] \ {1} :
              i \in Nat /\ i - 1 \in DOMAIN Popped[First] /\ Popped[First][i - 1] = txq[First][i]
<1>1. First \in Classes /\ txq[First] # <<>>
  BY FirstWaits, Zenon DEF Waiting
<1> DEFINE f == First
<1>2. f \in Classes /\ txq[f] \in Seq(Slots) /\ txq[f] # <<>>
  BY <1>1
<1>3. Popped = [txq EXCEPT ![f] = Tail(txq[f])]
  BY DEF Popped
<1> HIDE DEF f
<1>4. Tail(txq[f]) \in Seq(Slots) /\ Len(Tail(txq[f])) = Len(txq[f]) - 1
      /\ \A i \in 1 .. Len(txq[f]) - 1 : Tail(txq[f])[i] = txq[f][i + 1]
  BY <1>2
<1>5. Popped \in [Classes -> Seq(Slots)] /\ Popped[f] = Tail(txq[f])
      /\ \A c \in Classes \ {f} : Popped[c] = txq[c]
  BY <1>2, <1>3, <1>4
<1>6. Head(txq[f]) \in Slots /\ 1 \in DOMAIN txq[f] /\ Head(txq[f]) = txq[f][1]
  BY <1>2
<1>7. \A i \in DOMAIN Popped[f] :
        i \in Nat /\ i + 1 \in DOMAIN txq[f] /\ Popped[f][i] = txq[f][i + 1]
  BY <1>2, <1>4, <1>5
<1>8. \A i \in DOMAIN txq[f] \ {1} :
        i \in Nat /\ i - 1 \in DOMAIN Popped[f] /\ Popped[f][i - 1] = txq[f][i]
  BY <1>2, <1>4, <1>5
<1> QED BY <1>2, <1>5, <1>6, <1>7, <1>8 DEF f

(* ps_can_txq_push puts a slot behind the others of its class *)
LEMMA PushQueue ==
  ASSUME txq \in [Classes -> Seq(Slots)], NEW c \in Classes, NEW s \in Slots, NEW q,
         q = [txq EXCEPT ![c] = Append(@, s)]
  PROVE  /\ q \in [Classes -> Seq(Slots)]
         /\ \A d \in Classes \ {c} : q[d] = txq[d]
         /\ DOMAIN q[c] = DOMAIN txq[c] \cup {Len(txq[c]) + 1}
         /\ Len(txq[c]) + 1 \notin DOMAIN txq[c]
         /\ \A i \in DOMAIN txq[c] : q[c][i] = txq[c][i]
         /\ q[c][Len(txq[c]) + 1] = s
<1>1. txq[c] \in Seq(Slots) /\ q[c] = Append(txq[c], s)
  OBVIOUS
<1>2. q \in [Classes -> Seq(Slots)] /\ \A d \in Classes \ {c} : q[d] = txq[d]
  BY <1>1
<1> QED BY <1>1, <1>2

-----------------------------------------------------------------------------
(* Init and every action keep the types, and a sender's slot its own *)
LEMMA TypesInit == Init => TypeOK /\ Holding
<1> SUFFICES ASSUME Init PROVE TypeOK /\ Holding
  OBVIOUS
<1> USE PortAssumption DEF PortAssumption, Init
<1>1. slots \in [Slots -> [n : Nat, cls : Classes, era : Nat]]
  BY DEF Classes
<1>2. txq \in [Classes -> Seq(Slots)] /\ tx_slot \in Slots
  BY DEF Slots
<1> QED BY Zenon, <1>1, <1>2 DEF TypeOK, Holding, LinkStates

(* Every action of the senders, tx_task, rx_task and the controller does *)
LEMMA TypesStep == TypeOK /\ Holding /\ [Next]_vars => TypeOK' /\ Holding'
<1> SUFFICES ASSUME TypeOK, Holding, [Next]_vars PROVE TypeOK' /\ Holding'
  OBVIOUS
<1> USE DEF pool, link, tasks, seers
<1>1. ASSUME NEW p \in Senders, Send(p) PROVE TypeOK' /\ Holding'
  BY <1>1 DEF Send, TypeOK, Holding
<1>2. ASSUME NEW p \in Senders, GetSlot(p) PROVE TypeOK' /\ Holding'
  BY <1>2, NoSlot DEF GetSlot, TypeOK, Holding
<1>3. ASSUME NEW p \in Senders, SendTimeout(p) PROVE TypeOK' /\ Holding'
  BY <1>3 DEF SendTimeout, TypeOK, Holding
<1>4. ASSUME NEW p \in Senders, Push(p) PROVE TypeOK' /\ Holding'
  <2>1. PICK c \in Classes :
          /\ slots' = [slots EXCEPT ![held[p]] = [n |-> accepted + 1, cls |-> c, era |-> offs]]
          /\ txq' = [txq EXCEPT ![c] = Append(@, held[p])]
    BY Zenon, <1>4 DEF Push
  <2>2. held[p] \in Slots
    BY <1>4 DEF Push, TypeOK, Holding
  <2>3. txq' \in [Classes -> Seq(Slots)]
    BY <2>1, <2>2, PushQueue DEF TypeOK
  <2>4. slots' \in [Slots -> [n : Nat, cls : Classes, era : Nat]]
    BY <2>1, <2>2 DEF TypeOK
  <2>5. send_pc' \in [Senders -> {"idle", "slot", "push"}]
        /\ held' \in [Senders -> Slots \cup {NO_SLOT}] /\ Holding'
    BY <1>4 DEF Push, TypeOK, Holding
  <2>6. UNCHANGED <<free, tx_busy, tx_slot, link_state, offs, tx_pc, hw>>
        /\ notified' \in BOOLEAN /\ accepted' \in Nat
    BY <1>4 DEF Push, TypeOK
  <2> QED BY Zenon, <2>3, <2>4, <2>5, <2>6 DEF TypeOK
<1>5. CASE TxWake
  BY Zenon, <1>5 DEF TxWake, TypeOK, Holding
<1>6. CASE TxFlush
  <2>1. UNCHANGED <<slots, tx_slot, link_state, offs, send_pc, held, notified, hw, accepted>>
    BY <1>6 DEF TxFlush
  <2>2. free' \subseteq Slots /\ txq' \in [Classes -> Seq(Slots)]
    <3>1. CASE Waiting # {}
      <4>1. txq' = Popped /\ free' = free \cup {Head(txq[First])}
        BY <1>6, <3>1 DEF TxFlush
      <4>2. Popped \in [Classes -> Seq(Slots)] /\ Head(txq[First]) \in Slots
        BY <3>1, PopQueue DEF TypeOK
      <4> QED BY Zenon, <4>1, <4>2 DEF TypeOK
    <3>2. CASE Waiting = {} /\ tx_busy
      BY <1>6, <3>2 DEF TxFlush, TypeOK
    <3>3. CASE Waiting = {} /\ ~tx_busy
      BY <1>6, <3>3 DEF TxFlush, TypeOK
    <3> QED BY <3>1, <3>2, <3>3
  <2>3. tx_busy' \in BOOLEAN /\ tx_pc' \in {"flush", "wait"}
    BY Zenon, <1>6 DEF TxFlush, TypeOK
  <2> QED BY <2>1, <2>2, <2>3 DEF TypeOK, Holding
<1>7. CASE TxPop
  BY Zenon, <1>7, PopQueue DEF TxPop, TypeOK, Holding
<1>8. CASE TxSubmit
  BY <1>8 DEF TxSubmit, TypeOK, Holding
<1>9. CASE TxRefused
  BY Zenon, <1>9 DEF TxRefused, TypeOK, Holding
<1>10. CASE ReadPending
  BY <1>10 DEF ReadPending, TypeOK, Holding
<1>11. CASE ReportState
  BY <1>11 DEF ReportState, TypeOK, Holding
<1>12. CASE ServiceRecovery
  BY <1>12 DEF ServiceRecovery, TypeOK, Holding, LinkStates
<1>13. CASE on_tx_done
  BY Zenon, <1>13 DEF on_tx_done, TypeOK, Holding
<1>14. CASE ErrorState
  <2>1. UNCHANGED <<pool, tasks, accepted>> /\ hw' \in {hw, NO_SLOT} /\ offs' \in {offs, offs + 1}
    BY <1>14 DEF ErrorState
  <2>2. link_state' \in LinkStates
    BY <1>14 DEF ErrorState, on_state_change, LinkStates
  <2>3. notified' \in BOOLEAN
    BY <1>14, Zenon DEF ErrorState, on_state_change
  <2> QED BY <2>1, <2>2, <2>3 DEF TypeOK, Holding
<1>15. CASE UNCHANGED vars
  BY <1>15 DEF vars, TypeOK, Holding
<1> QED BY <1>1, <1>2, <1>3, <1>4, <1>5, <1>6, <1>7, <1>8, <1>9, <1>10, <1>11, <1>12, <1>13,
           <1>14, <1>15 DEF Next, TxTask, RxTask

-----------------------------------------------------------------------------
(* Slots are conserved: a slot is free, queued, held by a sender or in flight,
   and in one place only *)
InQueue(s) == \E c \in Classes : \E i \in DOMAIN txq[c] : txq[c][i] = s
InHand(s)  == \E p \in Senders : held[p] = s
InFlight(s) == tx_busy /\ tx_slot = s

Somewhere == \A s \in Slots : s \in free \/ InQueue(s) \/ InHand(s) \/ InFlight(s)
QueuedOnce ==
  \A c, d \in Classes : \A i \in DOMAIN txq[c], j \in DOMAIN txq[d] :
    txq[c][i] = txq[d][j] => c = d /\ i = j
HeldOnce == \A p, q \in Senders : held[p] = held[q] /\ held[p] # NO_SLOT => p = q
Apart ==
  \A s \in Slots :
    /\ s \in free => ~InQueue(s) /\ ~InHand(s) /\ ~InFlight(s)
    /\ InQueue(s) => ~InHand(s) /\ ~InFlight(s)
    /\ InHand(s) => ~InFlight(s)

Conserved == Somewhere /\ QueuedOnce /\ HeldOnce /\ Apart

(* init_pool: all the slots are free *)
LEMMA ConservedInit == Init => Conserved
BY NoSlot DEF Init, Conserved, Somewhere, QueuedOnce, HeldOnce, Apart, InQueue, InHand, InFlight

(* A pop moves the head of the queue to where nothing else is *)
LEMMA PopPlaces ==
  ASSUME txq \in [Classes -> Seq(Slots)], Waiting # {}, QueuedOnce, txq' = Popped
  PROVE  /\ QueuedOnce'
         /\ InQueue(Head(txq[First]))
         /\ \A s : InQueue(s)' <=> InQueue(s) /\ s # Head(txq[First])
<1> DEFINE f == First
<1> DEFINE h == Head(txq[First])
<1>1. /\ f \in Classes /\ 1 \in DOMAIN txq[f] /\ h = txq[f][1]
      /\ \A c \in Classes \ {f} : txq'[c] = txq[c]
      /\ \A i \in DOMAIN txq'[f] :
           i \in Nat /\ i + 1 \in DOMAIN txq[f] /\ txq'[f][i] = txq[f][i + 1]
      /\ \A i \in DOMAIN txq[f] \ {1} :
           i \in Nat /\ i - 1 \in DOMAIN txq'[f] /\ txq'[f][i - 1] = txq[f][i]
  BY PopQueue
<1>0. \A c \in Classes : DOMAIN txq[c] = 1 .. Len(txq[c]) /\ Len(txq[c]) \in Nat
  OBVIOUS
<1> HIDE DEF f, h
<1>2. QueuedOnce'
  <2> SUFFICES ASSUME NEW c \in Classes, NEW d \in Classes,
                      NEW i \in DOMAIN txq'[c], NEW j \in DOMAIN txq'[d],
                      txq'[c][i] = txq'[d][j]
               PROVE  c = d /\ i = j
    BY DEF QueuedOnce
  <2>1. CASE c = f /\ d = f
    BY <1>1, <2>1 DEF QueuedOnce
  <2>2. CASE c = f /\ d # f
    BY <1>1, <2>2 DEF QueuedOnce
  <2>3. CASE c # f /\ d = f
    BY <1>1, <2>3 DEF QueuedOnce
  <2>4. CASE c # f /\ d # f
    BY <1>1, <2>4 DEF QueuedOnce
  <2> QED BY <2>1, <2>2, <2>3, <2>4
<1>3. InQueue(h)
  BY <1>1 DEF InQueue
<1>4. ASSUME NEW s, InQueue(s)' PROVE InQueue(s) /\ s # h
  <2>1. PICK c \in Classes : \E i \in DOMAIN txq'[c] : txq'[c][i] = s
    BY <1>4 DEF InQueue
  <2>2. PICK i \in DOMAIN txq'[c] : txq'[c][i] = s
    BY <2>1
  <2>3. CASE c = f
    <3>1. i \in Nat /\ i + 1 \in DOMAIN txq[f] /\ txq[f][i + 1] = s
      BY <1>1, <2>2, <2>3
    <3>2. i # 0
      BY <1>0, <1>1, <2>2, <2>3, PopQueue DEF f
    <3> QED BY <1>1, <3>1, <3>2 DEF InQueue, QueuedOnce
  <2>4. CASE c # f
    BY <1>1, <2>2, <2>4 DEF InQueue, QueuedOnce
  <2> QED BY <2>3, <2>4
<1>5. ASSUME NEW s, InQueue(s), s # h PROVE InQueue(s)'
  <2>1. PICK c \in Classes : \E i \in DOMAIN txq[c] : txq[c][i] = s
    BY <1>5 DEF InQueue
  <2>2. PICK i \in DOMAIN txq[c] : txq[c][i] = s
    BY <2>1
  <2>3. CASE c = f
    BY <1>1, <1>5, <2>2, <2>3 DEF InQueue
  <2>4. CASE c # f
    BY <1>1, <2>2, <2>4 DEF InQueue
  <2> QED BY <2>3, <2>4
<1> QED BY <1>2, <1>3, <1>4, <1>5 DEF h

-----------------------------------------------------------------------------
(* What the controller holds is tx_slot, what tx_task submits is in flight and
   not yet on the wire, and a flush ends before the recovery begins *)
Wire ==
  /\ err = link_state
  /\ hw # NO_SLOT => /\ tx_busy /\ tx_slot = hw
                     /\ tx_pc \in {"wait", "pop"}
                     /\ link_state \in {RUNNING, ERR_PASSIVE}
  /\ tx_pc \in {"submit", "refused"} => tx_busy /\ hw = NO_SLOT
  /\ tx_pc = "flush" => link_state = BUS_OFF

(* The port starts with nothing in flight *)
LEMMA WireInit == Init => Wire
BY DEF Init, Wire

(* on_state_change takes a frame off the wire at bus-off, and rx_task begins a
   recovery only while tx_task waits *)
LEMMA WireStep == TypeOK /\ Wire /\ [Next]_vars => Wire'
<1> SUFFICES ASSUME TypeOK, Wire, [Next]_vars PROVE Wire'
  OBVIOUS
<1> USE NoSlot DEF pool, link, tasks, seers, Wire, RUNNING, ERR_PASSIVE, BUS_OFF, RECOVERING
<1>1. ASSUME NEW p \in Senders, Send(p) \/ GetSlot(p) \/ SendTimeout(p) \/ Push(p) PROVE Wire'
  BY <1>1 DEF Send, GetSlot, SendTimeout, Push
<1>2. CASE TxWake
  BY <1>2 DEF TxWake
<1>3. CASE TxFlush
  BY <1>3 DEF TxFlush
<1>4. CASE TxPop
  BY <1>4 DEF TxPop
<1>5. CASE TxSubmit
  BY <1>5 DEF TxSubmit, TypeOK, LinkStates
<1>6. CASE TxRefused
  BY <1>6 DEF TxRefused
<1>7. CASE ReadPending \/ ReportState
  BY <1>7 DEF ReadPending, ReportState
<1>8. CASE ServiceRecovery
  BY <1>8 DEF ServiceRecovery, TxBlocked
<1>9. CASE on_tx_done
  BY <1>9 DEF on_tx_done, TypeOK
<1>10. CASE ErrorState
  BY <1>10 DEF ErrorState, on_state_change
<1>11. CASE UNCHANGED vars
  BY <1>11 DEF vars
<1> QED BY <1>1, <1>2, <1>3, <1>4, <1>5, <1>6, <1>7, <1>8, <1>9, <1>10, <1>11
        DEF Next, TxTask, RxTask

-----------------------------------------------------------------------------
(* A push moves the slot from the sender's hand to the end of a queue *)
LEMMA PushPlaces ==
  ASSUME TypeOK, Holding, Conserved, NEW p \in Senders, Push(p)
  PROVE  /\ QueuedOnce' /\ HeldOnce'
         /\ held[p] \in Slots /\ InHand(held[p])
         /\ \A s \in Slots : InQueue(s)' <=> InQueue(s) \/ s = held[p]
         /\ \A s \in Slots : InHand(s)' <=> InHand(s) /\ s # held[p]
<1>0. held[p] \in Slots
  BY NoSlot DEF Push, TypeOK, Holding
<1> PICK h \in Slots : h = held[p]
  BY <1>0
<1>1. held[p] = h /\ held' = [held EXCEPT ![p] = NO_SLOT] /\ held \in [Senders -> Slots \cup {NO_SLOT}]
  BY DEF Push, TypeOK, Holding
<1>2. PICK c \in Classes : txq' = [txq EXCEPT ![c] = Append(@, h)]
  BY Zenon, <1>1 DEF Push
<1>12. txq \in [Classes -> Seq(Slots)]
  BY DEF TypeOK
<1>3. /\ \A d \in Classes \ {c} : txq'[d] = txq[d]
      /\ DOMAIN txq'[c] = DOMAIN txq[c] \cup {Len(txq[c]) + 1}
      /\ Len(txq[c]) + 1 \notin DOMAIN txq[c]
      /\ \A i \in DOMAIN txq[c] : txq'[c][i] = txq[c][i]
      /\ txq'[c][Len(txq[c]) + 1] = h
  BY <1>2, <1>12, PushQueue
<1> DEFINE e == Len(txq[c]) + 1
<1>4. InHand(h) /\ ~InQueue(h)
  BY <1>1 DEF InHand, Conserved, Apart
<1> HIDE DEF e
<1>5. \A d \in Classes : \A i \in DOMAIN txq'[d] :
        (d = c /\ i = e /\ txq'[d][i] = h)
          \/ (i \in DOMAIN txq[d] /\ txq'[d][i] = txq[d][i] /\ txq[d][i] # h)
  BY <1>3, <1>4 DEF InQueue, e
<1>6. QueuedOnce'
  <2> SUFFICES ASSUME NEW d1 \in Classes, NEW d2 \in Classes,
                      NEW i \in DOMAIN txq'[d1], NEW j \in DOMAIN txq'[d2],
                      txq'[d1][i] = txq'[d2][j]
               PROVE  d1 = d2 /\ i = j
    BY DEF QueuedOnce
  <2> QED BY <1>5 DEF Conserved, QueuedOnce
<1>7. HeldOnce'
  BY <1>1, NoSlot DEF HeldOnce, Conserved
<1>8. \A s \in Slots : InQueue(s)' => InQueue(s) \/ s = h
  BY <1>5 DEF InQueue
<1>9. \A s \in Slots : InQueue(s) => InQueue(s)'
  BY <1>3 DEF InQueue
<1>10. InQueue(h)'
  BY <1>3 DEF InQueue
<1>11. \A s \in Slots : InHand(s)' <=> InHand(s) /\ s # h
  BY <1>1, NoSlot DEF InHand, Conserved, HeldOnce
<1> QED BY <1>1, <1>4, <1>6, <1>7, <1>8, <1>9, <1>10, <1>11

(* Every action moves a slot from one place to another, or none *)
LEMMA ConservedStep == TypeOK /\ Holding /\ Wire /\ Conserved /\ [Next]_vars => Conserved'
<1> SUFFICES ASSUME TypeOK, Holding, Wire, Conserved, [Next]_vars PROVE Conserved'
  OBVIOUS
<1> DEFINE h == Head(txq[First])
<1> USE DEF pool, link, tasks, seers
<1>1. ASSUME NEW p \in Senders, GetSlot(p) PROVE Conserved'
  <2>1. PICK s0 \in free : free' = free \ {s0} /\ held' = [held EXCEPT ![p] = s0]
    BY Zenon, <1>1 DEF GetSlot
  <2>2. s0 \in Slots /\ held \in [Senders -> Slots \cup {NO_SLOT}] /\ held[p] = NO_SLOT
    BY <1>1, <2>1, NoSlot DEF GetSlot, TypeOK, Holding
  <2>3. ~InHand(s0)
    BY <2>1, <2>2 DEF Conserved, Apart
  <2>4. HeldOnce'
    BY <2>1, <2>2, <2>3, NoSlot DEF HeldOnce, InHand, Conserved
  <2>5. \A s \in Slots : InHand(s)' <=> InHand(s) \/ s = s0
    BY <2>1, <2>2, NoSlot DEF InHand
  <2>6. QueuedOnce' /\ \A s \in Slots : (InQueue(s)' <=> InQueue(s)) /\ (InFlight(s)' <=> InFlight(s))
    BY <1>1 DEF GetSlot, Conserved, QueuedOnce, InQueue, InFlight
  <2> QED BY <2>1, <2>2, <2>4, <2>5, <2>6 DEF Conserved, Somewhere, Apart
<1>2. ASSUME NEW p \in Senders, Push(p) PROVE Conserved'
  <2>1. /\ QueuedOnce' /\ HeldOnce'
        /\ held[p] \in Slots /\ InHand(held[p])
        /\ \A s \in Slots : InQueue(s)' <=> InQueue(s) \/ s = held[p]
        /\ \A s \in Slots : InHand(s)' <=> InHand(s) /\ s # held[p]
    BY <1>2, PushPlaces
  <2>2. free' = free /\ \A s \in Slots : InFlight(s)' <=> InFlight(s)
    BY <1>2 DEF Push, InFlight
  <2> QED BY <2>1, <2>2 DEF Conserved, Somewhere, Apart
<1>3. CASE TxFlush /\ Waiting # {}
  <2>1. txq' = Popped /\ free' = free \cup {h} /\ UNCHANGED <<held, tx_busy, tx_slot>>
    BY <1>3 DEF TxFlush
  <2>2. h \in Slots
    BY <1>3, PopQueue DEF TypeOK
  <2>3. QueuedOnce' /\ InQueue(h) /\ \A s : InQueue(s)' <=> InQueue(s) /\ s # h
    BY <1>3, <2>1, PopPlaces DEF TypeOK, Conserved
  <2>4. HeldOnce' /\ \A s \in Slots : (InHand(s)' <=> InHand(s)) /\ (InFlight(s)' <=> InFlight(s))
    BY <2>1 DEF Conserved, HeldOnce, InHand, InFlight
  <2> HIDE DEF h
  <2> QED BY <2>1, <2>2, <2>3, <2>4 DEF Conserved, Somewhere, Apart
<1>4. CASE TxPop /\ ~tx_busy /\ Waiting # {}
  <2>1. txq' = Popped /\ UNCHANGED <<held, free>> /\ tx_busy' = TRUE /\ tx_slot' = h
    BY <1>4 DEF TxPop
  <2>2. h \in Slots
    BY <1>4, PopQueue DEF TypeOK
  <2>3. QueuedOnce' /\ InQueue(h) /\ \A s : InQueue(s)' <=> InQueue(s) /\ s # h
    BY <1>4, <2>1, PopPlaces DEF TypeOK, Conserved
  <2>4. HeldOnce' /\ \A s \in Slots : InHand(s)' <=> InHand(s)
    BY <2>1 DEF Conserved, HeldOnce, InHand
  <2> HIDE DEF h
  <2>5. \A s \in Slots : ~InFlight(s) /\ (InFlight(s)' <=> s = h)
    BY <1>4, <2>1 DEF InFlight
  <2> QED BY <2>1, <2>2, <2>3, <2>4, <2>5 DEF Conserved, Somewhere, Apart
<1>5. ASSUME tx_busy, tx_busy' = FALSE, free' = free \cup {tx_slot}, UNCHANGED <<txq, held>>
      PROVE  Conserved'
  <2>1. QueuedOnce' /\ HeldOnce' /\ \A s \in Slots : (InHand(s)' <=> InHand(s)) /\ (InQueue(s)' <=> InQueue(s))
    BY <1>5 DEF Conserved, HeldOnce, QueuedOnce, InHand, InQueue
  <2>2. tx_slot \in Slots /\ \A s \in Slots : (InFlight(s) <=> s = tx_slot) /\ ~InFlight(s)'
    BY <1>5 DEF InFlight, TypeOK
  <2> QED BY <1>5, <2>1, <2>2 DEF Conserved, Somewhere, Apart
<1>6. ASSUME UNCHANGED <<free, txq, tx_busy, tx_slot, held>> PROVE Conserved'
  BY <1>6 DEF Conserved, Somewhere, QueuedOnce, HeldOnce, Apart, InQueue, InHand, InFlight
<1>7. ASSUME NEW p \in Senders, Send(p) \/ SendTimeout(p) PROVE Conserved'
  BY <1>6, <1>7 DEF Send, SendTimeout
<1>8. CASE TxWake \/ TxSubmit \/ ReadPending \/ ReportState \/ ServiceRecovery \/ UNCHANGED vars
  BY <1>6, <1>8 DEF TxWake, TxSubmit, ReadPending, ReportState, ServiceRecovery, vars
<1>9. CASE TxFlush
  <2>1. CASE Waiting = {} /\ tx_busy
    BY Zenon, <1>5, <1>9, <2>1 DEF TxFlush
  <2>2. CASE Waiting = {} /\ ~tx_busy
    BY <1>6, <1>9, <2>2 DEF TxFlush
  <2> QED BY <1>3, <1>9, <2>1, <2>2
<1>10. CASE TxPop
  <2>1. CASE tx_busy \/ Waiting = {}
    BY <1>6, <1>10, <2>1 DEF TxPop
  <2> QED BY <1>4, <1>10, <2>1
<1>11. CASE TxRefused
  BY Zenon, <1>5, <1>11 DEF TxRefused, Wire
<1>12. CASE on_tx_done
  <2>1. tx_busy /\ tx_slot = hw
    BY <1>12 DEF on_tx_done, Wire
  <2> QED BY Zenon, <1>5, <1>12, <2>1 DEF on_tx_done
<1>13. CASE ErrorState
  BY <1>6, <1>13 DEF ErrorState
<1> QED BY <1>1, <1>2, <1>7, <1>8, <1>9, <1>10, <1>11, <1>12, <1>13 DEF Next, TxTask, RxTask

(* A slot that is in one place only has one place *)
LEMMA OnePlace == TypeOK /\ Conserved => SlotsConserved
<1> SUFFICES ASSUME TypeOK, Conserved, NEW s \in Slots PROVE Cardinality(Places(s)) = 1
  BY DEF SlotsConserved
<1> SUFFICES \E x : Places(s) = {x}
  BY FS_Singleton
<1> DEFINE A == {<<"free">> : x \in free \cap {s}}
           B == UNION {{<<"queue", c, i>> : i \in {k \in DOMAIN txq[c] : txq[c][k] = s}}
                        : c \in Classes}
           C == {<<"sender", p>> : p \in {q \in Senders : held[q] = s}}
           D == {<<"tx">> : x \in {t \in {tx_slot} : tx_busy /\ t = s}}
<1>1. Places(s) = A \cup B \cup C \cup D
  BY DEF Places
<1>2. IF s \in free THEN A = {<<"free">>} ELSE A = {}
  OBVIOUS
<1>3. IF InFlight(s) THEN D = {<<"tx">>} ELSE D = {}
  BY DEF InFlight
<1>4. ~InQueue(s) => B = {}
  BY DEF InQueue
<1>5. ~InHand(s) => C = {}
  BY DEF InHand
<1>6. ASSUME InHand(s) PROVE \E x : C = {x}
  <2>1. PICK p \in Senders : held[p] = s
    BY <1>6 DEF InHand
  <2>2. \A q \in Senders : held[q] = s => q = p
    BY <2>1, NoSlot DEF Conserved, HeldOnce
  <2>3. C = {<<"sender", p>>}
    BY <2>1, <2>2
  <2> QED BY Zenon, <2>3
<1>7. ASSUME InQueue(s) PROVE \E x : B = {x}
  <2>1. PICK c \in Classes : \E i \in DOMAIN txq[c] : txq[c][i] = s
    BY <1>7 DEF InQueue
  <2>2. PICK i \in DOMAIN txq[c] : txq[c][i] = s
    BY <2>1
  <2>3. \A d \in Classes : \A j \in DOMAIN txq[d] : txq[d][j] = s => d = c /\ j = i
    BY <2>2 DEF Conserved, QueuedOnce
  <2>4. B = {<<"queue", c, i>>}
    BY <2>2, <2>3
  <2> QED BY Zenon, <2>4
<1> HIDE DEF A, B, C, D
<1>8. s \in free \/ InQueue(s) \/ InHand(s) \/ InFlight(s)
  BY DEF Conserved, Somewhere
<1>9. /\ s \in free => ~InQueue(s) /\ ~InHand(s) /\ ~InFlight(s)
      /\ InQueue(s) => ~InHand(s) /\ ~InFlight(s)
      /\ InHand(s) => ~InFlight(s)
  BY DEF Conserved, Apart
<1> QED BY Zenon, <1>1, <1>2, <1>3, <1>4, <1>5, <1>6, <1>7, <1>8, <1>9

-----------------------------------------------------------------------------
(* Nothing late: while a frame of an earlier era waits or is in flight the port
   is bus-off and tx_task flushes, or is about to *)
Stale(s) == slots[s].era < offs
Caught ==
  \A s \in Slots :
    Stale(s) /\ (InQueue(s) \/ InFlight(s))
      => link_state = BUS_OFF /\ (notified \/ tx_pc = "flush")
Eras == ~late /\ \A s \in Slots : slots[s].era <= offs

(* The port starts in its first era, with nothing queued *)
LEMMA CaughtInit == Init => Caught /\ Eras
BY DEF Init, Caught, Eras, Stale, InQueue, InFlight

(* tx_task's notification at bus-off is consumed by a wake-up that flushes
   everything, and rx_task starts no recovery before *)
LEMMA CaughtStep ==
  TypeOK /\ Holding /\ Wire /\ Conserved /\ Caught /\ Eras /\ [Next]_vars => Caught' /\ Eras'
<1> SUFFICES ASSUME TypeOK, Holding, Wire, Conserved, Caught, Eras, [Next]_vars
             PROVE  Caught' /\ Eras'
  OBVIOUS
<1> DEFINE h == Head(txq[First])
<1> USE DEF pool, link, tasks, seers, RUNNING, ERR_PASSIVE, BUS_OFF, RECOVERING
<1>1. ASSUME NEW p \in Senders, Push(p) PROVE Caught' /\ Eras'
  <2>1. /\ held[p] \in Slots
        /\ \A s \in Slots : InQueue(s)' <=> InQueue(s) \/ s = held[p]
    BY <1>1, PushPlaces
  <2>2. /\ UNCHANGED <<link_state, offs, tx_pc, late>> /\ notified' = TRUE
        /\ \A s \in Slots : InFlight(s)' <=> InFlight(s)
    BY <1>1 DEF Push, InFlight
  <2>3. /\ slots'[held[p]].era = offs
        /\ \A s \in Slots \ {held[p]} : slots'[s] = slots[s]
    BY <1>1, <2>1 DEF Push, TypeOK
  <2>4. ASSUME NEW s \in Slots, Stale(s)' PROVE Stale(s) /\ s # held[p]
    <3>1. offs \in Nat
      BY DEF TypeOK
    <3>2. slots'[s].era < offs
      BY <2>2, <2>4 DEF Stale
    <3>3. s # held[p]
      BY <2>3, <3>1, <3>2
    <3> QED BY <2>3, <3>2, <3>3 DEF Stale
  <2>5. Caught'
    BY <2>1, <2>2, <2>4 DEF Caught
  <2>6. Eras'
    <3>1. ~late' /\ offs \in Nat
      BY <2>2 DEF Eras, TypeOK
    <3>2. ASSUME NEW s \in Slots PROVE slots'[s].era <= offs'
      BY <2>2, <2>3, <3>1 DEF Eras
    <3> QED BY <3>1, <3>2 DEF Eras
  <2> QED BY <2>5, <2>6
<1>2. CASE (TxFlush \/ TxPop) /\ txq' = Popped /\ Waiting # {}
  <2>1. InQueue(h) /\ \A s : InQueue(s)' <=> InQueue(s) /\ s # h
    BY <1>2, PopPlaces DEF TypeOK, Conserved
  <2>2. UNCHANGED <<slots, link_state, offs, notified, late>>
    BY <1>2 DEF TxFlush, TxPop
  <2>3. \A s \in Slots : (Stale(s)' <=> Stale(s))
    BY <2>2 DEF Stale
  <2>4. Eras'
    BY <2>2 DEF Eras
  <2>5. CASE TxFlush
    <3>1. tx_pc' = tx_pc /\ \A s \in Slots : InFlight(s)' <=> InFlight(s)
      BY <1>2, <2>5 DEF TxFlush, InFlight
    <3> QED BY <2>1, <2>2, <2>3, <2>4, <3>1 DEF Caught
  <2>6. CASE TxPop /\ tx_slot' = h
    <3>1. tx_pc = "pop" /\ \A s \in Slots : InFlight(s)' => s = h
      BY <2>6 DEF TxPop, InFlight
    <3>2. \A s \in Slots : Stale(s) /\ (InQueue(s) \/ s = h) => link_state = BUS_OFF /\ notified
      BY <2>1, <3>1 DEF Caught
    <3> QED BY <2>1, <2>2, <2>3, <2>4, <3>1, <3>2 DEF Caught
  <2>7. CASE TxPop /\ UNCHANGED <<txq, tx_busy, tx_slot>>
    <3>1. tx_pc = "pop" /\ \A s \in Slots : (InFlight(s)' <=> InFlight(s)) /\ (InQueue(s)' <=> InQueue(s))
      BY <2>7 DEF TxPop, InFlight, InQueue
    <3> QED BY <2>2, <2>3, <2>4, <3>1 DEF Caught
  <2>8. TxPop => tx_slot' = h \/ UNCHANGED <<txq, tx_busy, tx_slot>>
    BY DEF TxPop
  <2> QED BY <1>2, <2>5, <2>6, <2>7, <2>8
<1>3. ASSUME tx_busy' = FALSE \/ UNCHANGED <<tx_busy, tx_slot>>,
             UNCHANGED <<txq, slots, link_state, offs, late>>,
             (notified \/ tx_pc = "flush") /\ link_state = BUS_OFF
               /\ (\E s \in Slots : InQueue(s) \/ InFlight(s)') => notified' \/ tx_pc' = "flush"
      PROVE  Caught' /\ Eras'
  <2>1. \A s \in Slots : (Stale(s)' <=> Stale(s)) /\ (InQueue(s)' <=> InQueue(s))
                         /\ (InFlight(s)' => InFlight(s))
    BY <1>3 DEF Stale, InQueue, InFlight
  <2>2. Eras'
    BY <1>3 DEF Eras
  <2>3. Caught'
    BY <1>3, <2>1 DEF Caught
  <2> QED BY <2>2, <2>3
<1>4. ASSUME NEW p \in Senders, Send(p) \/ GetSlot(p) \/ SendTimeout(p) PROVE Caught' /\ Eras'
  BY Zenon, <1>3, <1>4 DEF Send, GetSlot, SendTimeout
<1>5. CASE TxWake
  BY <1>3, <1>5 DEF TxWake
<1>6. CASE TxFlush
  <2>1. CASE Waiting = {}
    <3>1. \A s \in Slots : ~InQueue(s)
      BY <2>1 DEF Waiting, InQueue, TypeOK
    <3>2. CASE tx_busy
      BY Zenon, <1>3, <1>6, <2>1, <3>1, <3>2 DEF TxFlush, InFlight
    <3>3. CASE ~tx_busy
      BY <1>3, <1>6, <2>1, <3>1, <3>3 DEF TxFlush, InFlight
    <3> QED BY <3>2, <3>3
  <2>2. CASE Waiting # {}
    BY <1>2, <1>6, <2>2 DEF TxFlush
  <2> QED BY <2>1, <2>2
<1>7. CASE TxPop
  <2>1. CASE ~tx_busy /\ Waiting # {}
    BY <1>2, <1>7, <2>1 DEF TxPop
  <2>2. CASE tx_busy \/ Waiting = {}
    BY Zenon, <1>3, <1>7, <2>2 DEF TxPop
  <2> QED BY <2>1, <2>2
<1>8. CASE TxSubmit
  BY <1>3, <1>8 DEF TxSubmit
<1>9. CASE TxRefused
  BY Zenon, <1>3, <1>9 DEF TxRefused
<1>10. CASE ReadPending \/ ReportState
  BY Zenon, <1>3, <1>10 DEF ReadPending, ReportState
<1>14. CASE UNCHANGED vars
  <2>1. UNCHANGED <<slots, txq, tx_busy, tx_slot, link_state, offs, notified, tx_pc, late>>
    BY <1>14 DEF vars
  <2> QED BY <1>3, <2>1
<1>11. CASE ServiceRecovery
  <2>1. ~notified /\ tx_pc = "wait" /\ UNCHANGED <<slots, txq, tx_busy, tx_slot, offs, late>>
    BY <1>11 DEF ServiceRecovery, TxBlocked
  <2>2. \A s \in Slots : ~(Stale(s) /\ (InQueue(s) \/ InFlight(s)))
    BY <2>1 DEF Caught
  <2>3. \A s \in Slots : (Stale(s)' <=> Stale(s)) /\ (InQueue(s)' <=> InQueue(s))
                         /\ (InFlight(s)' <=> InFlight(s))
    BY <2>1 DEF Stale, InQueue, InFlight
  <2> QED BY <2>1, <2>2, <2>3 DEF Caught, Eras
<1>12. CASE on_tx_done
  <2>1. /\ hw \in Slots /\ InFlight(hw) /\ link_state # BUS_OFF
        /\ slots \in [Slots -> [n : Nat, cls : Classes, era : Nat]] /\ offs \in Nat
    BY <1>12 DEF on_tx_done, Wire, TypeOK, InFlight
  <2>2. ~(slots[hw].era < offs)
    BY <2>1 DEF Caught, Stale
  <2>3. ~late'
    BY <1>12, <2>2, Zenon DEF on_tx_done, Eras
  <2>4. UNCHANGED <<slots, txq, link_state, offs>>
    BY <1>12 DEF on_tx_done
  <2>5. \A s \in Slots : (Stale(s)' <=> Stale(s)) /\ (InQueue(s)' <=> InQueue(s))
    BY <2>4 DEF Stale, InQueue
  <2>6. \A s \in Slots : InFlight(s)' => InFlight(s)
    BY Zenon, <1>12 DEF on_tx_done, InFlight
  <2>7. Caught'
    BY <2>1, <2>4, <2>5, <2>6 DEF Caught
  <2> QED BY <2>3, <2>4, <2>7 DEF Eras
<1>13. CASE ErrorState
  <2>1. UNCHANGED <<slots, txq, tx_busy, tx_slot, late>>
    BY <1>13 DEF ErrorState
  <2>2. \A s \in Slots : (InQueue(s)' <=> InQueue(s)) /\ (InFlight(s)' <=> InFlight(s))
    BY <2>1 DEF InQueue, InFlight
  <2>3. CASE link_state' = BUS_OFF /\ notified' = TRUE /\ offs' = offs + 1
    BY <2>1, <2>2, <2>3 DEF Caught, Eras, TypeOK
  <2>4. CASE link_state # BUS_OFF /\ offs' = offs
    <3>1. \A s \in Slots : Stale(s)' <=> Stale(s)
      BY <2>1, <2>4 DEF Stale
    <3> QED BY <2>1, <2>2, <2>4, <3>1 DEF Caught, Eras
  <2>5. \/ link_state' = BUS_OFF /\ notified' = TRUE /\ offs' = offs + 1
        \/ link_state # BUS_OFF /\ offs' = offs
    BY <1>13, Zenon DEF ErrorState, on_state_change, Wire
  <2> QED BY Zenon, <2>3, <2>4, <2>5
<1> QED BY <1>1, <1>4, <1>5, <1>6, <1>7, <1>8, <1>9, <1>10, <1>11, <1>12, <1>13, <1>14
        DEF Next, TxTask, RxTask

-----------------------------------------------------------------------------
(* A bus-off has been reported, or its report waits or was overwritten unread *)
Told == link_state \in {BUS_OFF, RECOVERING} => told # "no" \/ pending_state = BUS_OFF

(* The port starts running *)
LEMMA ToldInit == Init => Told
BY DEF Init, Told, RUNNING, BUS_OFF, RECOVERING

(* on_state_change leaves the report in the step that goes bus-off, and only
   service_link resets it *)
LEMMA ToldStep == Wire /\ Told /\ [Next]_vars => Told'
<1> SUFFICES ASSUME Wire, Told, [Next]_vars PROVE Told'
  OBVIOUS
<1> USE DEF pool, link, tasks, seers, Told, RUNNING, ERR_PASSIVE, BUS_OFF, RECOVERING
<1>1. ASSUME NEW p \in Senders, Send(p) \/ GetSlot(p) \/ SendTimeout(p) \/ Push(p) PROVE Told'
  BY <1>1 DEF Send, GetSlot, SendTimeout, Push
<1>2. CASE TxTask
  BY <1>2 DEF TxTask, TxWake, TxFlush, TxPop, TxSubmit, TxRefused
<1>3. CASE RxTask
  BY <1>3 DEF RxTask, ReadPending, ReportState, ServiceRecovery
<1>4. CASE on_tx_done
  BY <1>4 DEF on_tx_done
<1>5. CASE ErrorState
  BY <1>5 DEF ErrorState, on_state_change, Wire
<1>6. CASE UNCHANGED vars
  BY <1>6 DEF vars
<1> QED BY <1>1, <1>2, <1>3, <1>4, <1>5, <1>6 DEF Next

-----------------------------------------------------------------------------
Inv == TypeOK /\ Holding /\ Wire /\ Conserved /\ Caught /\ Eras /\ Told

(* The inductive invariant of the port: every call of the senders, the two tasks
   and the driver's callbacks keeps it *)
THEOREM Invariance == Spec => []Inv
<1>1. Init => Inv
  BY TypesInit, WireInit, ConservedInit, CaughtInit, ToldInit DEF Inv
<1>2. Inv /\ [Next]_vars => Inv'
  BY TypesStep, WireStep, ConservedStep, CaughtStep, ToldStep DEF Inv
<1> QED BY <1>1, <1>2, PTL DEF Spec

(* Every variable the port's tasks share keeps its type, for any number of slots,
   senders and classes. *)
THEOREM TypeCorrect == Spec => []TypeOK
<1>1. Inv => TypeOK
  BY DEF Inv
<1> QED BY <1>1, Invariance, PTL

(* ps_can.c: a slot is in exactly one place: no path of the senders, tx_task and
   the driver's callbacks frees one twice or loses one. *)
THEOREM SlotsConservedHolds == Spec => []SlotsConserved
<1>1. Inv => SlotsConserved
  BY OnePlace DEF Inv
<1> QED BY <1>1, Invariance, PTL

(* ps_can.c, tx_flush: a frame that a bus-off has caught in the queue or in
   flight is never sent after the recovery. *)
THEOREM NothingLateHolds == Spec => []NothingLate
<1>1. Inv => NothingLate
  BY DEF Inv, Eras, NothingLate
<1> QED BY <1>1, Invariance, PTL

(* ps_can.c, service_link: during a recovery the safety layer has been told of
   the bus-off or will be, unless the report was reset unread. *)
THEOREM OffToldHolds == Spec => []OffTold
<1>1. Inv => OffTold
  BY DEF Inv, Told, OffTold
<1> QED BY <1>1, Invariance, PTL

(* tx_flush, the refusals and service_link at a bus-off: nothing queued is sent
   after the recovery, and the safety layer is told *)
THEOREM BusOffHandledHolds == Spec => []BusOffHandled
BY NothingLateHolds, OffToldHolds, PTL DEF BusOffHandled
=============================================================================
