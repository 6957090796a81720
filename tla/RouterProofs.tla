---------------------------- MODULE RouterProofs ----------------------------
(***************************************************************************)
(* Proofs about the CAN identifier and the routing decision of the hub.     *)
(***************************************************************************)
EXTENDS Router, TLAPS

(* What ps_router_route decides is the table of network-map.md section 5,
   for every origin, class and destination an identifier can carry. *)
THEOREM PolicyHolds == RoutingPolicy
<1>1. SUFFICES ASSUME NEW origin \in Ports, NEW cls \in Classes, NEW dst \in Nodes,
                      NEW out, out = Route(origin, cls, dst)
      PROVE  /\ origin \notin out
             /\ cls = SAFETY => out = Ports \ {origin}
             /\ cls \in {CONTROL, TELEM, XRCE} =>
                  /\ origin # "spi" => out \cap Buses = {}
                  /\ \A p \in out \cap Buses : OnBus(dst, p)
             /\ cls = AUDIO => "can2" \notin out /\ (origin = "can2" => out = {})
             /\ cls = CONTROL /\ "local" \in out => origin = "spi" /\ dst = HUB
  BY DEF RoutingPolicy
<1>2. CASE origin = "spi"
  BY <1>1, <1>2 DEF Route, FromSpi, OnBus, Ports, Buses, Classes, Nodes,
     SAFETY, CONTROL, TELEM, XRCE, AUDIO, MGMT, HELMET, HUB
<1>3. CASE origin # "spi"
  BY <1>1, <1>3 DEF Route, FromElsewhere, OnBus, Ports, Buses, Classes, Nodes,
     SAFETY, CONTROL, TELEM, XRCE, AUDIO, MGMT, HELMET, HUB, ORCH, BROADCAST
<1>4. QED
  BY <1>2, <1>3

(* What an identifier can hold *)
Ids == [cls : Classes, src : Nodes, dst : Nodes, type : 0 .. 255, low : 0 .. 255]

(* ps_can_id_pack and ps_can_id_unpack: the identifier loses nothing *)
IdKept == \A f \in Ids : Unpack(Pack(f)) = f

(* ps_can_id_pack puts the class on top: on a bus, where the lower number wins
   arbitration, a frame beats every frame of a higher class (can_id.h: "class
   in the top bits so SAFETY wins arbitration"). *)
ClassArbitrates == \A f, g \in Ids : f.cls < g.cls => Pack(f) < Pack(g)

(* The fields of an identifier, and their place in it *)
Layout(f, c, s, d, t, l) ==
  /\ f = [cls |-> c, src |-> s, dst |-> d, type |-> t, low |-> l]
  /\ f.cls = c
  /\ Pack(f) = (((c * 32 + s) * 32 + d) * 256 + t) * 256 + l

(* Every identifier is laid out as ps_can_id_pack does *)
LEMMA Fields ==
  ASSUME NEW f \in Ids
  PROVE  \E c \in 0 .. 7, s, d \in 0 .. 31, t, l \in 0 .. 255 : Layout(f, c, s, d, t, l)
<1>1. /\ f.cls \in 0 .. 7 /\ f.src \in 0 .. 31 /\ f.dst \in 0 .. 31
      /\ f.type \in 0 .. 255 /\ f.low \in 0 .. 255
  BY DEF Ids, Classes, Nodes
<1>2. Layout(f, f.cls, f.src, f.dst, f.type, f.low)
  BY DEF Layout, Pack, Ids
<1>3. QED
  BY <1>1, <1>2

(* ps_can_id_unpack undoes ps_can_id_pack. *)
THEOREM IdKeptHolds == IdKept
<1>1. SUFFICES ASSUME NEW f \in Ids
      PROVE  Unpack(Pack(f)) = f
  BY DEF IdKept
<1>2. PICK c \in 0 .. 7, s, d \in 0 .. 31, t, l \in 0 .. 255 :
        Layout(f, c, s, d, t, l)
  BY Fields
<1>3. PICK src \in Nat : src = c * 32 + s
  OBVIOUS
<1>4. PICK dst \in Nat : dst = src * 32 + d
  OBVIOUS
<1>5. PICK type \in Nat : type = dst * 256 + t
  OBVIOUS
<1>6. src \div 32 = c /\ src % 32 = s /\ c % 8 = c
  BY <1>3
<1>7. dst \div 32 = src /\ dst % 32 = d
  BY <1>4
<1>8. type \div 256 = dst /\ type % 256 = t
  BY <1>5
<1>9. Pack(f) \div 256 = type /\ Pack(f) % 256 = l
  <2>1. Pack(f) = type * 256 + l
    BY <1>2, <1>3, <1>4, <1>5 DEF Layout
  <2>2. (type * 256 + l) \div 256 = type /\ (type * 256 + l) % 256 = l
    OBVIOUS
  <2>3. QED
    BY <2>1, <2>2
<1>10. Unpack(Pack(f)) = [cls |-> c, src |-> s, dst |-> d, type |-> t, low |-> l]
  BY <1>6, <1>7, <1>8, <1>9, Zenon DEF Unpack
<1>11. QED
  BY <1>2, <1>10 DEF Layout

(* A lower class gives a lower identifier, whatever the other fields hold. *)
THEOREM ClassArbitratesHolds == ClassArbitrates
<1>1. SUFFICES ASSUME NEW f \in Ids, NEW g \in Ids, f.cls < g.cls
      PROVE  Pack(f) < Pack(g)
  BY DEF ClassArbitrates
<1>2. PICK c \in 0 .. 7, s, d \in 0 .. 31, t, l \in 0 .. 255 :
        Layout(f, c, s, d, t, l)
  BY Fields
<1>3. PICK cc \in 0 .. 7, ss, dd \in 0 .. 31, tt, ll \in 0 .. 255 :
        Layout(g, cc, ss, dd, tt, ll)
  BY Fields
<1>4. c < cc
  BY <1>1, <1>2, <1>3 DEF Layout
<1>5. c * 32 + s < cc * 32 + ss
  BY <1>4
<1>6. (c * 32 + s) * 32 + d < (cc * 32 + ss) * 32 + dd
  BY <1>5
<1>7. ((c * 32 + s) * 32 + d) * 256 + t < ((cc * 32 + ss) * 32 + dd) * 256 + tt
  BY <1>6
<1>8. (((c * 32 + s) * 32 + d) * 256 + t) * 256 + l
        < (((cc * 32 + ss) * 32 + dd) * 256 + tt) * 256 + ll
  BY <1>7
<1>9. QED
  BY <1>2, <1>3, <1>8 DEF Layout
=============================================================================
