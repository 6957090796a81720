------------------------------- MODULE BlackBox -------------------------------
(***************************************************************************)
(* The black box of Node 8, suit_blackbox: a ring of fixed-size records in a  *)
(* memory-mapped file, filled by a 10 Hz timer from the latest message of     *)
(* each topic, and copied to a file of its own at the rising edge of an       *)
(* e-stop.  The process may die between any two writes; what is in the mapped *)
(* file then stays.  (A loss of power, which the mapping does not survive     *)
(* unflushed, and a death within one copy of 64 bytes are left out.)  One     *)
(* thread runs the callbacks, so that none starts while another is at work.   *)
(*                                                                         *)
(* A record is its index: the value of _write_index when it was put.         *)
(***************************************************************************)
EXTENDS Integers, Sequences

CONSTANTS CAPACITY,   \* records the ring holds
          TOPICS,     \* the topics whose latest message is kept, CODE_SAFETY among them
          MAX_INDEX,  \* bound on _write_index
          MAX_SECOND  \* bound on the clock that names the snapshots

ASSUME RingAssumption == CAPACITY \in Nat \ {0} /\ MAX_SECOND \in Nat

CODE_SAFETY == "safety"
NEVER == -1
NO_FILE == [n |-> 0, recs |-> <<>>]

VARIABLES
  slots,          \* the records in the file
  header,         \* write_index in the file's header, NEVER before there is one
  write_index,    \* _write_index of the running process
  node,           \* what the process is at, or "down"
  latest,         \* _latest
  estop_latched,  \* _estop_latched
  tmp,            \* the snapshot being written: name, length in its header, records
  files,          \* the snapshots, by the second in their name
  second,
  cut             \* (observer) the last append died between record and header

box == <<slots, header, write_index, node, latest, estop_latched, tmp, files, second, cut>>

NoTmp == [at |-> 0, n |-> 0, recs |-> <<>>]

BoxInit ==
  /\ slots = [i \in 0 .. CAPACITY - 1 |-> NEVER] /\ header = NEVER
  /\ node = "down" /\ write_index = 0 /\ latest = {} /\ estop_latched = FALSE
  /\ tmp = NoTmp /\ files = [s \in 0 .. MAX_SECOND |-> NO_FILE] /\ second = 0 /\ cut = FALSE

(* RingLog opens the file and goes on where its header says. *)
Reopen ==
  /\ node = "down"
  /\ header' = IF header = NEVER THEN 0 ELSE header
  /\ write_index' = header' /\ node' = "idle" /\ latest' = {} /\ estop_latched' = FALSE
  /\ UNCHANGED <<slots, tmp, files, second, cut>>

(* RingLog.records of a ring at index h. *)
Records(h) ==
  LET n == IF h < CAPACITY THEN h ELSE CAPACITY
  IN  [k \in 1 .. n |-> slots[(h - n + k - 1) % CAPACITY]]

(* A message on one of the topics; one on /suit/safety/state that reports a new
   e-stop starts a snapshot, of the ring as it is before this message is in it. *)
Message(code) ==
  /\ node = "idle" /\ code # CODE_SAFETY /\ latest' = latest \cup {code}
  /\ UNCHANGED <<slots, header, write_index, node, estop_latched, tmp, files, second, cut>>

Safety(latched) ==
  /\ node = "idle" /\ latest' = latest \cup {CODE_SAFETY} /\ estop_latched' = latched
  /\ IF latched /\ ~estop_latched
     THEN /\ node' = "snapshot"
          /\ tmp' = [at |-> second, n |-> Len(Records(write_index)), recs |-> <<>>]
     ELSE UNCHANGED <<node, tmp>>
  /\ UNCHANGED <<slots, header, write_index, files, second, cut>>

WriteSnapshot ==
  /\ node = "snapshot" /\ Len(tmp.recs) < tmp.n
  /\ tmp' = [tmp EXCEPT !.recs = Append(@, Records(write_index)[Len(@) + 1])]
  /\ UNCHANGED <<slots, header, write_index, node, latest, estop_latched, files, second, cut>>

(* os.replace: the whole snapshot gets its name; one of the same second is gone. *)
Replace ==
  /\ node = "snapshot" /\ Len(tmp.recs) = tmp.n
  /\ files' = [files EXCEPT ![tmp.at] = [n |-> tmp.n, recs |-> tmp.recs]]
  /\ tmp' = NoTmp /\ node' = "idle"
  /\ UNCHANGED <<slots, header, write_index, latest, estop_latched, second, cut>>

(* _snapshot's except: an OSError on the way leaves the temporary file behind. *)
Fail ==
  /\ node = "snapshot" /\ tmp' = NoTmp /\ node' = "idle"
  /\ UNCHANGED <<slots, header, write_index, latest, estop_latched, files, second, cut>>

Tick ==
  /\ node = "idle" /\ latest # {} /\ node' = "tick"
  /\ UNCHANGED <<slots, header, write_index, latest, estop_latched, tmp, files, second, cut>>

(* append for one of the topics: the record, then the index and the header. *)
Put(code) ==
  /\ node = "tick" /\ code \in latest /\ write_index < MAX_INDEX
  /\ slots' = [slots EXCEPT ![write_index % CAPACITY] = write_index]
  /\ latest' = latest \ {code} /\ node' = "put" /\ cut' = FALSE
  /\ UNCHANGED <<header, write_index, estop_latched, tmp, files, second>>

Flush_last ==
  /\ node = "put" /\ write_index' = write_index + 1
  /\ header' = IF latest = {} THEN write_index' ELSE header
  /\ node' = IF latest = {} THEN "idle" ELSE "tick"
  /\ UNCHANGED <<slots, latest, estop_latched, tmp, files, second, cut>>

Flush ==
  /\ node = "put" /\ write_index' = write_index + 1 /\ header' = write_index'
  /\ node' = IF latest = {} THEN "idle" ELSE "tick"
  /\ UNCHANGED <<slots, latest, estop_latched, tmp, files, second, cut>>

(* The process ends, by destroy_node or by dying, and what it held is gone. *)
Die ==
  /\ node # "down" /\ node' = "down" /\ cut' = (cut \/ node = "put")
  /\ write_index' = 0 /\ latest' = {} /\ estop_latched' = FALSE /\ tmp' = NoTmp
  /\ UNCHANGED <<slots, header, files, second>>

Second ==
  /\ second < MAX_SECOND /\ second' = second + 1
  /\ UNCHANGED <<slots, header, write_index, node, latest, estop_latched, tmp, files, cut>>

BoxNext ==
  \/ Reopen \/ WriteSnapshot \/ Replace \/ Fail \/ Tick \/ Flush \/ Die \/ Second
  \/ \E code \in TOPICS : Message(code) \/ Put(code)
  \/ \E latched \in BOOLEAN : Safety(latched)

BoxSpec == BoxInit /\ [][BoxNext]_box

-----------------------------------------------------------------------------
(* ringlog.py: "Chronological (oldest -> newest) iteration of the live ring".
   Whenever the process dies, what a restart reads from the file is the latest
   records in the order they were put.  One may be wrong, the oldest of a full
   ring: when the process died, or is, between a record and its header, that
   slot already holds the record after the newest. *)
RingReads ==
  header # NEVER =>
    \A k \in DOMAIN Records(header) :
      \/ Records(header)[k] = header - Len(Records(header)) + k - 1
      \/ k = 1 /\ Records(header)[k] = header /\ (cut \/ node = "put")

(* A snapshot under its final name is whole, whenever the process dies while it
   writes one: it has as many records as its header says, and they follow each
   other, but for the first, which may be one that RingReads excepts. *)
SnapshotsWhole ==
  \A s \in DOMAIN files :
    LET recs == files[s].recs
    IN  /\ Len(recs) = files[s].n
        /\ \A k \in 1 .. Len(recs) - 1 :
             \/ recs[k + 1] = recs[k] + 1
             \/ k = 1 /\ Len(recs) = CAPACITY /\ recs[1] = recs[Len(recs)] + 1

(* ringlog.py: whenever the recorder dies, a restart reads the latest records in
   order, but perhaps for the oldest of a full ring, and a snapshot under its final
   name is whole. *)
BoxReads == RingReads /\ SnapshotsWhole
=============================================================================
