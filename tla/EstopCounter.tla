---------------------------- MODULE EstopCounter ----------------------------
(***************************************************************************)
(* The CLEAR_ESTOP counter: EstopService::load_and_bump_counter keeps it in *)
(* a file on Node 8, and every node accepts a clear only if its counter     *)
(* exceeds the last one it accepted (ps_safety_core_on_clear).              *)
(*                                                                          *)
(* A file holds a number, 0 when it is absent or empty.  The bridge may be  *)
(* restarted, a node may be reset (its counter starts again at 0), and a    *)
(* clear may miss a node.                                                   *)
(***************************************************************************)
EXTENDS Integers

CONSTANTS
  Nodes,
  MAX_COUNTER       (* bound: clears issued                                 *)

ASSUME CounterAssumption == MAX_COUNTER \in Nat

VARIABLES
  disk,           (* the two files: configured path and /tmp fallback       *)
  writable,       (* whether each can be opened for writing                 *)
  counter_path,   (* counter_path_: which one the service uses              *)
  file,           (* "idle", or "opened": truncated, value not yet written  *)
  next,           (* the local `next'                                       *)
  clear_counter,  (* of each node                                           *)
  issued,         (* observer: number of clears issued                      *)
  stale,          (* observer: a clear was issued some node had to reject   *)
  forgotten       (* observer: a restart or a failed write lost the number  *)

counter == <<disk, writable, counter_path, file, next, clear_counter, issued, stale,
             forgotten>>

Files == {"configured", "fallback"}

CounterInit ==
  /\ disk = [f \in Files |-> 0]
  /\ writable = [f \in Files |-> TRUE]
  /\ counter_path = "configured"
  /\ file = "idle"
  /\ next = 0
  /\ clear_counter = [n \in Nodes |-> 0]
  /\ issued = 0
  /\ stale = FALSE
  /\ forgotten = FALSE

(* The clear goes out; the nodes in `reached' get it. *)
Issue(value, reached) ==
  /\ clear_counter' = [n \in Nodes |->
       IF n \in reached /\ value > clear_counter[n]
       THEN value ELSE clear_counter[n]]
  /\ issued' = issued + 1
  /\ stale' = (stale \/ \E n \in Nodes : value <= clear_counter[n])

(* Read, add one, open for writing: opening truncates.  If that fails the
   fallback is used from now on. *)
load_and_bump_forgetful ==   (* mutant: the fallback is not sticky *)
  /\ next' = disk[counter_path] + 1
  /\ counter_path' = counter_path
  /\ disk' = IF writable[counter_path] THEN [disk EXCEPT ![counter_path] = 0]
             ELSE disk

load_and_bump_counter ==
  /\ next' = disk[counter_path] + 1
  /\ counter_path' = IF writable[counter_path] THEN counter_path ELSE "fallback"
  /\ disk' = IF writable[counter_path'] THEN [disk EXCEPT ![counter_path'] = 0]
             ELSE disk

Open ==
  /\ file = "idle" /\ issued < MAX_COUNTER
  /\ load_and_bump_counter
  /\ file' = "opened"
  /\ UNCHANGED <<writable, clear_counter, issued, stale, forgotten>>

(* The value is written, if there is a file to write to, and the clear is
   emitted. *)
Write(reached) ==
  /\ file = "opened"
  /\ disk' = IF writable[counter_path] THEN [disk EXCEPT ![counter_path] = next]
             ELSE disk
  /\ Issue(next, reached)
  /\ file' = "idle"
  /\ UNCHANGED <<writable, counter_path, next, forgotten>>

(* The write fails, on a full medium.  The stream's state is not looked at: the
   truncated file stays empty and the clear goes out all the same. *)
WriteFails(reached) ==
  /\ file = "opened"
  /\ Issue(next, reached)
  /\ forgotten' = TRUE
  /\ file' = "idle"
  /\ UNCHANGED <<disk, writable, counter_path, next>>

(* The bridge process is restarted, at any point, with its parameter as
   configured.  The fallback and a value not yet written are forgotten. *)
Restart ==
  /\ counter_path' = "configured"
  /\ file' = "idle"
  /\ next' = 0
  /\ forgotten' = (forgotten \/ file = "opened" \/ counter_path = "fallback")
  /\ UNCHANGED <<disk, writable, clear_counter, issued, stale>>

NodeReset(n) ==
  /\ clear_counter' = [clear_counter EXCEPT ![n] = 0]
  /\ UNCHANGED <<disk, writable, counter_path, file, next, issued, stale,
                 forgotten>>

(* The configured path can no longer be opened for writing. *)
LoseMedium ==
  /\ file = "idle"
  /\ writable' = [writable EXCEPT !["configured"] = FALSE]
  /\ UNCHANGED <<disk, counter_path, file, next, clear_counter, issued, stale,
                 forgotten>>

CounterNext ==
  \/ Open
  \/ \E reached \in SUBSET Nodes : Write(reached) \/ WriteFails(reached)
  \/ Restart
  \/ \E n \in Nodes : NodeReset(n)
  \/ LoseMedium

CounterSpec == CounterInit /\ [][CounterNext]_counter

(* estop_service.hpp: the clear carries "a strictly monotonic counter
   persisted to disk".  So no node has to reject a clear the operator asked
   for, whatever clears it missed, whoever was restarted and also after the
   file became unwritable; unless the process died between truncating and
   writing the file, was restarted after it had turned to the fallback, or did
   not notice that the write had failed. *)
ClearsCount == stale => forgotten
=============================================================================
