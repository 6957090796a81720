-------------------------------- MODULE Synth --------------------------------
(***************************************************************************)
(* telem_synth.cpp: the bridge puts ROS messages together from the TELEM     *)
(* frames of the nodes, each of which carries a part of one.  What a frame   *)
(* holds is modelled by the number of times its node has sent that part;     *)
(* units and scaling are left out.  The senders are limb comms_task.c, the   *)
(* flight node's aero_task.c and the hub's bms_task.c.                       *)
(*                                                                           *)
(* Frames reach Node 8 in the order of their sending, and any may be lost.   *)
(* A handler holds mu_ from its first write to the publication, so it is one *)
(* step.  Forces and diagnostics are passed on and nothing is kept of them.  *)
(***************************************************************************)
EXTENDS Integers, Sequences, SequencesExt, FiniteSets

CONSTANTS
  Limbs,        (* the nodes with a limb_index, 4                           *)
  GROUPS,       (* HUB_BMS_CELL_GROUPS, groups of three cells               *)
  FLAPS,        (* flaps, 12                                                *)
  MAX_TICKS,    (* bound: ticks of all nodes                                *)
  MAX_MISSED    (* bound: nodes with a lost frame when a further one is lost *)

VARIABLES
  ticks,        (* ticks so far                                             *)
  tally,        (* how often each node has sent each part                   *)
  unsent,       (* what the node has yet to send in this tick               *)
  cells_group,  (* s_cells_group                                            *)
  wire,         (* the frame on its way to Node 8, if any                   *)
  accums,       (* joints_, limb_imu_, torso_imu_, aero_state_, bms_msg_    *)
  cell_v,       (* bms_msg_.cell_v, by group                                *)
  newest,       (* observer: the last frame handled, by node and part       *)
  missed        (* observer: nodes a frame of which was lost                *)

synth == <<ticks, tally, unsent, cells_group, wire, accums, cell_v, newest, missed>>

Joint(i) == <<"joint", i>>
Flap(i) == <<"flap", i>>
Cells(g) == <<"cells", g>>
Quat == <<"quat">>
Acc == <<"acc">>
Gyr == <<"gyr">>
Aero == <<"aero">>
Summary == <<"summary">>
Imu == {Quat, Acc, Gyr}
Joints == {Joint(0), Joint(1)}
Flaps == {Flap(i) : i \in 0 .. FLAPS - 1}
AllCells == {Cells(g) : g \in 0 .. GROUPS - 1}
Passing == {<<"force">>, <<"stats">>, <<"fault">>, <<"version">>}

Senders == Limbs \cup {"flight", "hub"}
Parts == Joints \cup Flaps \cup AllCells \cup Imu \cup {Aero, Summary}

(* limb_index and what the handlers do with it: the accumulator a part goes to. *)
limb_index_arm(node) == CHOOSE l \in Limbs : TRUE   (* mutant: one slot for all *)
limb_index(node) == node

Target(node, p) ==
  CASE p \in Joints -> <<"joints", limb_index(node)>>
    [] p \in Imu /\ node \in Limbs -> <<"imu", limb_index(node)>>
    [] p \in Imu -> <<"imu", "torso">>
    [] p \in {Aero} \cup Flaps -> <<"aero", "flight">>
    [] OTHER -> <<"bms", "hub">>

Messages == ({"joints", "imu"} \X Limbs)
            \cup {<<"imu", "torso">>, <<"aero", "flight">>, <<"bms", "hub">>}
Fields(m) ==
  CASE m[1] = "joints" -> Joints
    [] m[1] = "imu" -> Imu
    [] m[1] = "aero" -> {Aero} \cup Flaps
    [] m[1] = "bms" -> {Summary}

(* The accumulators start at zero, cell_v empty. *)
SynthInit ==
  /\ ticks = 0
  /\ tally = [n \in Senders |-> [p \in Parts |-> 0]]
  /\ unsent = [n \in Senders |-> <<>>]
  /\ cells_group = 0
  /\ wire = <<>>
  /\ accums = [m \in Messages |-> [p \in Fields(m) |-> 0]]
  /\ cell_v = <<>>
  /\ newest = [n \in Senders |-> [p \in Parts |-> 0]]
  /\ missed = {}

-----------------------------------------------------------------------------
(* What a tick of a node's task sends: a limb's joints, its IMU unless it has
   failed, its force, and once a second the statistics and the version; the flight
   node's IMU, airspeed and the flaps that are due, or, from its other task, the
   statistics and the version; of the hub, what bms_reports has at one tick, or a
   fault. *)
Slow == <<<<"stats">>, <<"version">>>>
LimbBursts == {<<Joint(0), Joint(1)>> \o imu \o <<<<"force">>>> \o slow :
                 imu \in {<<>>, <<Quat, Acc, Gyr>>}, slow \in {<<>>, Slow}}
FlapsDue(due) == SelectSeq([i \in 1 .. FLAPS |-> Flap(i - 1)], LAMBDA f : f \in due)
FlightBursts == {imu \o aero \o FlapsDue(due) :
                   imu \in {<<>>, <<Quat, Acc, Gyr>>}, aero \in {<<>>, <<Aero>>},
                   due \in SUBSET Flaps} \cup {Slow}
HubBursts == {<<Summary>>, <<Cells(cells_group)>>, <<Summary, <<"stats">>>>,
              <<<<"version">>>>, <<<<"fault">>>>}

Sends(n) == CASE n \in Limbs -> LimbBursts
              [] n = "flight" -> FlightBursts
              [] n = "hub" -> HubBursts

Tick(n, burst) ==
  /\ unsent[n] = <<>> /\ ticks < MAX_TICKS
  /\ ticks' = ticks + 1
  /\ unsent' = [unsent EXCEPT ![n] = burst]
  /\ tally' = [tally EXCEPT ![n] = [p \in Parts |->
                 @[p] + Cardinality({i \in DOMAIN burst : burst[i] = p})]]
  /\ cells_group' = IF burst = <<Cells(cells_group)>>
                    THEN (cells_group + 1) % GROUPS ELSE cells_group
  /\ UNCHANGED <<wire, accums, cell_v, newest, missed>>

telem_send(n) ==
  /\ unsent[n] # <<>> /\ wire = <<>>
  /\ LET p == Head(unsent[n])
     IN  wire' = <<[src |-> n, part |-> p,
                    nth |-> IF p \in Passing THEN 0 ELSE tally[n][p]]>>
  /\ unsent' = [unsent EXCEPT ![n] = Tail(@)]
  /\ UNCHANGED <<ticks, tally, cells_group, accums, cell_v, newest, missed>>

FrameLost ==
  /\ wire # <<>> /\ Cardinality(missed) < MAX_MISSED
  /\ missed' = missed \cup {wire[1].src}
  /\ wire' = <<>>
  /\ UNCHANGED <<ticks, tally, unsent, cells_group, accums, cell_v, newest>>

-----------------------------------------------------------------------------
(* on_bms_cells: a group beyond the end makes the vector longer, with zeros. *)
Resized(size) == [g \in 1 .. size |-> IF g <= Len(cell_v) THEN cell_v[g] ELSE 0]

on_bms_cells(f) ==
  LET base == f.part[2]
  IN  /\ f.part \in AllCells
      /\ cell_v' = [Resized(IF Len(cell_v) < base + 1 THEN base + 1 ELSE Len(cell_v))
                      EXCEPT ![base + 1] = f.nth]
      /\ UNCHANGED accums

(* on_joint_state, on_imu_quat, on_imu_acc, on_imu_gyr, on_aero_state,
   on_flap_state and on_bms_summary: a field is written and the message published. *)
on_field(f) ==
  /\ f.part \notin AllCells \cup Passing
  /\ accums' = [accums EXCEPT ![Target(f.src, f.part)][f.part] = f.nth]
  /\ UNCHANGED cell_v

(* on_force, on_node_stats, on_node_fault and on_version publish what they get. *)
on_passing(f) ==
  /\ f.part \in Passing
  /\ UNCHANGED <<accums, cell_v>>

handle ==
  /\ wire # <<>>
  /\ LET f == wire[1]
     IN  /\ on_bms_cells(f) \/ on_field(f) \/ on_passing(f)
         /\ newest' = IF f.part \in Passing THEN newest
                      ELSE [newest EXCEPT ![f.src][f.part] = f.nth]
  /\ wire' = <<>>
  /\ UNCHANGED <<ticks, tally, unsent, cells_group, missed>>

SynthNext ==
  \/ FrameLost \/ handle
  \/ \E n \in Senders : telem_send(n) \/ \E burst \in Sends(n) : Tick(n, burst)

-----------------------------------------------------------------------------
(* Of two values of a sample that is sent as several frames, at most one is from
   the sample before. *)
OneApart(n, p, q) == newest[n][q] <= newest[n][p] /\ newest[n][p] <= newest[n][q] + 1

(* telem_synth.cpp publishes on every frame, so a message holds parts of different
   age.  Each is the last one received of its own node, whatever arrived between.
   Unless a frame was lost, the parts of a joint or IMU message are of the same
   sample or of two successive ones, and no cell shows as 0 V. *)
MessagesTell ==
  /\ \A n \in Limbs : \A p \in Joints \cup Imu : accums[Target(n, p)][p] = newest[n][p]
  /\ \A p \in Imu \cup Flaps \cup {Aero} :
       accums[Target("flight", p)][p] = newest["flight"][p]
  /\ accums[<<"bms", "hub">>][Summary] = newest["hub"][Summary]
  /\ \A g \in DOMAIN cell_v : cell_v[g] = newest["hub"][Cells(g - 1)]
  /\ \A n \in Limbs \ missed : OneApart(n, Joint(0), Joint(1))
  /\ \A n \in (Limbs \cup {"flight"}) \ missed :
       OneApart(n, Quat, Acc) /\ OneApart(n, Acc, Gyr) /\ OneApart(n, Quat, Gyr)
  /\ "hub" \notin missed => \A g \in DOMAIN cell_v : cell_v[g] > 0
=============================================================================
