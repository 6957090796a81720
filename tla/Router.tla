------------------------------- MODULE Router -------------------------------
(***************************************************************************)
(* The CAN identifier (common/c/include/powersuit_proto/can_id.h) and the   *)
(* hub's routing decision over it                                           *)
(* (firmware/components/ps_router/src/ps_router.c).  Pure operators: Hub    *)
(* forwards with them, RouterProofs proves what they promise.               *)
(***************************************************************************)
EXTENDS Integers

(* PS_CLS_*; the identifier has room for two more, 6 and 7 *)
SAFETY  == 0
CONTROL == 1
TELEM   == 2
XRCE    == 3
AUDIO   == 4
MGMT    == 5
Classes == 0 .. 7

(* PS_NODE_*; five bits hold a node *)
BROADCAST == 0
HELMET    == 6
HUB       == 7
ORCH      == 8
Nodes     == 0 .. 31

(* PS_PORT_*; a port mask is a set of these *)
Ports == {"can1", "can2", "spi", "local"}
Buses == {"can1", "can2"}

(* ps_can_id_pack and ps_can_id_unpack, field by field: a shift left by w bits
   is a product with 2^w, a shift right a division, a mask a remainder. *)
Pack(f) ==
  (((f.cls * 32 + f.src) * 32 + f.dst) * 256 + f.type) * 256 + f.low

Unpack(id) ==
  LET type == id \div 256
      dst  == type \div 256
      src  == dst \div 32
  IN  [cls |-> (src \div 32) % 8, src |-> src % 32, dst |-> dst % 32,
       type |-> type % 256, low |-> id % 256]

(* ps_router_bus_of_node with bus_bit_of: ARM_R, ARM_L and HELMET are on the
   first bus, LEG_R, LEG_L and FLIGHT on the second. *)
OnBus(node, p) ==
  \/ p = "can1" /\ node \in {1, 2, HELMET}
  \/ p = "can2" /\ node \in {3, 4, 5}

(* The arms of ps_router_route: whether a frame the Pi sent goes out of port
   p, and whether one from a bus or from the hub itself does. *)
FromSpi(p, cls, dst) ==
  \/ cls = SAFETY
  \/ cls \in {CONTROL, TELEM, XRCE} /\ (IF dst = HUB THEN p = "local" ELSE OnBus(dst, p))
  \/ cls = AUDIO /\ dst = HELMET /\ p = "can1"
  \/ cls = MGMT /\ p # "spi"

FromElsewhere(origin, p, cls, dst) ==
  \/ cls = SAFETY
  \/ cls = CONTROL /\ dst = ORCH /\ p = "spi"
  \/ cls \in {TELEM, XRCE} /\ (p = "spi" \/ (p = "local" /\ dst = HUB))
  \/ cls = AUDIO /\ origin = "can1" /\ dst = ORCH /\ p = "spi"
  \/ cls = MGMT /\ (p \in {"spi", "local"} \/ dst = BROADCAST)

(* The port mask; a frame never leaves through the port it came in on. *)
Route(origin, cls, dst) ==
  {p \in Ports \ {origin} : IF origin = "spi" THEN FromSpi(p, cls, dst)
                            ELSE FromElsewhere(origin, p, cls, dst)}

-----------------------------------------------------------------------------
(* The table of network-map.md section 5, as promises about Route: a SAFETY
   frame reaches every port but the one it came in on; the buses carry
   CONTROL, TELEM and XRCE frames only when the Pi sent them, on the bus of
   the addressee; audio stays off the second bus; nothing is echoed. *)
RoutingPolicy ==
  \A origin \in Ports, cls \in Classes, dst \in Nodes :
    LET out == Route(origin, cls, dst)
    IN  /\ origin \notin out
        /\ cls = SAFETY => out = Ports \ {origin}
        /\ cls \in {CONTROL, TELEM, XRCE} =>
             /\ origin # "spi" => out \cap Buses = {}
             /\ \A p \in out \cap Buses : OnBus(dst, p)
        /\ cls = AUDIO => "can2" \notin out /\ (origin = "can2" => out = {})
        /\ cls = CONTROL /\ "local" \in out => origin = "spi" /\ dst = HUB
=============================================================================
