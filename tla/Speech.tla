-------------------------------- MODULE Speech --------------------------------
(***************************************************************************)
(* Speech from the cloud: handle_voice_query (strategy.py) streams a reply in *)
(* chunks against the credits of its stream (session.py); LinkClient grants   *)
(* more as chunks arrive (ws_client.py).  The session is one of Resume's, with *)
(* the same handler: a tts_meta lost with a connection is sent again on the    *)
(* next, among others sent live, and a replay that raises does not detach.     *)
(* Chunks are not sent again.                                                *)
(***************************************************************************)
EXTENDS Integers, Sequences, SequencesExt

CONSTANTS
  INITIAL,    (* initial_credits                                            *)
  CREDITS,    (* CREDIT_BLOCK                                               *)
  LOW_WATER,  (* CREDIT_LOW_WATER                                           *)
  CHUNKS,     (* chunks of a reply                                          *)
  STREAMS,    (* bound: replies                                             *)
  CUTS        (* bound: connections lost                                    *)

ASSUME SpeechConstants ==
  /\ {INITIAL, CREDITS, LOW_WATER, CHUNKS, STREAMS} \subseteq Nat \ {0}
  /\ CUTS \in Nat /\ LOW_WATER <= INITIAL

Streams == 1 .. STREAMS
NO_STREAM == 0

VARIABLES
  task,       (* of a stream: "none", "synth", "send", "wait", "ended", "died" *)
  chunks,     (* it has yet to send                                         *)
  credits,    (* _credits, while the stream is open                         *)
  event,      (* _credit_events, set                                        *)
  pending,    (* _pending_grants                                            *)
  handler_s,  (* "none" detached, "ack", "replay", "loop", or "failed"      *)
  joined,     (* the client has a connection                                *)
  down, upward, (* what is on the way                                       *)
  owed,       (* tts_metas beyond the last_rx_seq of the client             *)
  todo_s,     (* what replay_after has yet to send                          *)
  active_stream, outstanding,  (* _active_stream, _credits_outstanding             *)
  cuts,       (* connections lost                                           *)
  (* observers *)
  astray      (* streams whose count was mixed up with others' or lost      *)

stream == <<task, chunks, credits, event, pending>>
link_s == <<handler_s, joined, cuts>>
grantor == <<active_stream, outstanding>>
spVars == <<stream, link_s, down, upward, owed, todo_s, grantor, astray>>

SpeechInit ==
  /\ task = [s \in Streams |-> "none"] /\ chunks = [s \in Streams |-> CHUNKS]
  /\ credits = [s \in Streams |-> 0] /\ event = [s \in Streams |-> FALSE]
  /\ pending = [s \in Streams |-> 0]
  /\ handler_s = "loop" /\ joined = TRUE
  /\ down = <<>> /\ upward = <<>> /\ owed = <<>> /\ todo_s = <<>>
  /\ active_stream = NO_STREAM /\ outstanding = INITIAL /\ cuts = 0
  /\ astray = {}

Open(s) == task[s] \in {"synth", "send", "wait"}
Attached == handler_s # "none"      \* Session.ws, also when that is gone

(* Session.send of tts_meta, after d: sent if the connection is there, and kept for
   a replay; one whose list is not taken yet includes it *)
Meta(kind, s, d) ==
  LET m == [kind |-> kind, of |-> s, live |-> TRUE]
  IN  /\ IF Attached /\ joined THEN down' = Append(d, m) /\ UNCHANGED owed
         ELSE down' = d /\ owed' = Append(owed, m)
      /\ todo_s' = IF handler_s = "ack" THEN Append(todo_s, m) ELSE todo_s

-----------------------------------------------------------------------------
(* handle_voice_query: alloc_stream and "start", ... *)
Start(s) ==
  /\ task[s] = "none" /\ \A r \in Streams : r < s => task[r] # "none"
  /\ task' = [task EXCEPT ![s] = "synth"]
  /\ credits' = [credits EXCEPT ![s] = INITIAL + pending[s]]
  /\ pending' = [pending EXCEPT ![s] = 0]
  /\ Meta("start", s, down)
  /\ UNCHANGED <<chunks, event, link_s, upward, grantor, astray>>

(* ... close_stream and "end" or "abort" at last, ... *)
End(s, d) ==
  /\ task' = [task EXCEPT ![s] = "ended"]
  /\ credits' = [credits EXCEPT ![s] = 0]
  /\ Meta("end", s, d)

(* ... between them a credit for every chunk: consume_credit takes one, or waits
   for one, or finds the connection gone ... *)
Consume(s, left, d) ==
  \/ /\ Attached /\ left > 0
     /\ IF credits[s] > 0
        THEN /\ task' = [task EXCEPT ![s] = "send"]
             /\ credits' = [credits EXCEPT ![s] = @ - 1]
        ELSE task' = [task EXCEPT ![s] = "wait"] /\ UNCHANGED credits
     /\ down' = d /\ UNCHANGED <<owed, todo_s>>
  \/ (~Attached \/ left = 0) /\ End(s, d)

(* ... when there is a voice, or TtsUnavailable, ... *)
Synth(s) ==
  /\ task[s] = "synth"
  /\ Consume(s, chunks[s], down) \/ End(s, down)
  /\ UNCHANGED <<chunks, event, pending, link_s, upward, grantor, astray>>

(* A send on a connection known to be gone raises what handle_voice_query does not
   catch: the stream is closed, and no "abort" is sent *)
Died ==
  /\ task' = [s \in Streams |-> IF task[s] = "send" THEN "died" ELSE task[s]]
  /\ credits' = [s \in Streams |-> IF task[s] = "send" THEN 0 ELSE credits[s]]

(* ... when a chunk is sent, into the void if the loss is not noticed yet, ... *)
Send(s) ==
  /\ task[s] = "send" /\ handler_s # "failed"
  /\ chunks' = [chunks EXCEPT ![s] = @ - 1]
  /\ Consume(s, chunks[s] - 1,
             IF joined THEN Append(down, [kind |-> "chunk", of |-> s, live |-> TRUE])
             ELSE down)
  /\ UNCHANGED <<event, pending, link_s, upward, grantor, astray>>

SendFails(s) ==
  /\ task[s] = "send" /\ handler_s = "failed" /\ Died
  /\ UNCHANGED <<chunks, event, pending, link_s, down, upward, owed, todo_s, grantor, astray>>

(* ... and when a grant or a detach wakes the waiter *)
Woken(s) ==
  /\ task[s] = "wait" /\ event[s]
  /\ event' = [event EXCEPT ![s] = FALSE]
  /\ Consume(s, chunks[s], down)
  /\ astray' = IF Attached /\ credits[s] = 0 THEN astray \cup {s} ELSE astray
  /\ UNCHANGED <<chunks, pending, link_s, upward, grantor>>

(* _dispatch_loop on audio_credit: grant.  One for a stream that is closed is
   kept for a stream of that number, and none comes. *)
Grant ==
  /\ upward # <<>> /\ handler_s = "loop" /\ upward' = Tail(upward)
  /\ LET s == Head(upward)
     IN  IF Open(s)
         THEN /\ credits' = [credits EXCEPT ![s] = @ + CREDITS]
              /\ event' = [event EXCEPT ![s] = (task[s] = "wait")]
              /\ UNCHANGED pending
         ELSE pending' = [pending EXCEPT ![s] = @ + CREDITS] /\ UNCHANGED <<credits, event>>
  /\ UNCHANGED <<task, chunks, link_s, down, owed, todo_s, grantor, astray>>

-----------------------------------------------------------------------------
(* _maybe_grant_credits, after a chunk has left n outstanding (GatewayNode passes no
   downlink_buffer_fill, and the fill is 0) *)
Grants(n) == active_stream # NO_STREAM /\ n < LOW_WATER

Added_not(n) == n         (* mutant: a grant is not counted *)
Added(n) == n + CREDITS

(* The client has one count and one active stream: another that a message of s finds
   there is mixed up with s *)
Others(s) == {active_stream} \ {NO_STREAM, s}

(* LinkClient.run_once, _dispatch and _handle_binary.  hello_ack's number is larger
   than those of what is replayed: none of that is owed from then on. *)
Meet ==
  /\ down # <<>> /\ joined /\ down' = Tail(down)
  /\ LET e == Head(down)
         n == IF outstanding > 0 THEN outstanding - 1 ELSE 0
     IN  \/ /\ e.kind = "ack" /\ outstanding' = INITIAL /\ owed' = <<>>
            /\ UNCHANGED <<active_stream, upward, astray>>
         \/ /\ e.kind = "start" /\ active_stream' = e.of
            /\ astray' = astray \cup Others(e.of) /\ UNCHANGED <<outstanding, upward, owed>>
         \/ /\ e.kind = "end" /\ active_stream' = NO_STREAM /\ outstanding' = 0
            /\ astray' = astray \cup Others(e.of)
            /\ UNCHANGED <<upward, owed>>
         \/ /\ e.kind = "chunk" /\ UNCHANGED <<active_stream, owed>>
            /\ outstanding' = IF Grants(n) THEN Added(n) ELSE n
            /\ upward' = IF Grants(n) THEN Append(upward, active_stream) ELSE upward
            /\ astray' = IF e.of = active_stream THEN astray ELSE astray \cup Others(e.of) \cup {e.of}
  /\ UNCHANGED <<stream, link_s, todo_s>>

-----------------------------------------------------------------------------
(* The connection is lost, with the chunks and grants on the way, ... *)
LoseLink ==
  /\ joined /\ cuts < CUTS
  /\ joined' = FALSE /\ cuts' = cuts + 1
  /\ owed' = owed \o SelectSeq(down, LAMBDA e : e.kind \in {"start", "end"} /\ e.live)
  /\ down' = <<>> /\ upward' = <<>>
  /\ UNCHANGED <<stream, handler_s, todo_s, grantor, astray>>

(* ... _dispatch_loop notices, and _handler's finally detaches, which wakes all who
   wait; ... *)
Unblock_not == UNCHANGED event     (* mutant: the waiters are left waiting *)
Unblock == event' = [s \in Streams |-> task[s] = "wait"]

Detached ==
  /\ ~joined /\ handler_s = "loop" /\ handler_s' = "none"
  /\ Died /\ Unblock
  /\ UNCHANGED <<chunks, pending, joined, cuts, down, upward, owed, todo_s, grantor, astray>>

(* ... or replay_after does, and nothing is detached; ... *)
ReplayFails ==
  /\ ~joined /\ handler_s = "replay" /\ handler_s' = "failed"
  /\ Died /\ todo_s' = <<>>
  /\ UNCHANGED <<chunks, event, pending, joined, cuts, down, upward, owed, grantor, astray>>

(* ... and the client resumes, or a later one, which knows no stream, with its copy *)
Rejoin ==
  /\ ~joined /\ joined' = TRUE
  /\ handler_s = "none" /\ handler_s' = "ack" /\ todo_s' = owed
  /\ down' = <<[kind |-> "ack", of |-> NO_STREAM, live |-> FALSE]>>
  /\ active_stream' \in {active_stream, NO_STREAM}
  /\ UNCHANGED <<stream, cuts, upward, owed, outstanding, astray>>

(* replay_after: the list is taken, and sent one by one, into the void if the loss is
   not noticed yet, as others send *)
Replay ==
  /\ \/ /\ handler_s = "ack" /\ UNCHANGED <<down, todo_s>>
     \/ /\ handler_s = "replay" /\ todo_s' = Tail(todo_s)
        /\ down' = IF joined THEN Append(down, [Head(todo_s) EXCEPT !.live = FALSE]) ELSE down
  /\ handler_s' = IF todo_s' = <<>> THEN "loop" ELSE "replay"
  /\ UNCHANGED <<stream, joined, cuts, upward, owed, grantor, astray>>

Reply(s) == Synth(s) \/ Send(s) \/ SendFails(s) \/ Woken(s)
Serve == Replay \/ ReplayFails \/ Detached

SpeechNext ==
  \/ \E s \in Streams : Start(s) \/ Reply(s)
  \/ Grant \/ Meet \/ LoseLink \/ Serve \/ Rejoin

-----------------------------------------------------------------------------
(* session.py:115 "a stalled TTS sender must abort rather than wait out a TTL":
   a reply ends, however grants, chunks, replays and lost connections fall.  Three
   cases are excepted, in which nothing is granted any more and the sender waits.
   The client counted its chunks as another's or among another's: two replies at
   once, a replayed "end" that came after the next live "start", or a client started
   since.  The sender was woken by a detach and looked only when the next connection
   was there.  Or a replay raised, and the session is never detached. *)
RepliesEnd ==
  <>[](\A s \in Streams : Open(s) => s \in astray \/ handler_s = "failed")

(* Flow control, link-protocol.md:113 "Client grants in blocks as its downlink
   buffer drains": what a stream may still send and what it has on the way stays
   below a bound, though the client's count starts anew with a connection and at
   nothing after each reply, with INITIAL credits on the server each time.  There
   is no such bound for replies that the client mixes up: chunks of one bring
   grants to another, and the "end" of one forgets what the other was granted. *)
BacklogBounded ==
  \A s \in Streams \ astray :
    credits[s] + Len(SelectSeq(down, LAMBDA e : e.kind = "chunk" /\ e.of = s))
               + CREDITS * Len(SelectSeq(upward, LAMBDA g : g = s /\ Open(s)))
      <= INITIAL + CREDITS + LOW_WATER - 2
=============================================================================
