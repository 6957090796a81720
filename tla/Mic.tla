--------------------------------- MODULE Mic ---------------------------------
(***************************************************************************)
(* Voice from the helmet: audio_in_task with its energy gate                *)
(* (energy_gate.c) and packetizer (ps_audio_tx_t), a way that keeps the      *)
(* order but loses records, and AudioRelay::handle_uplink_record, which      *)
(* decodes.  Time is in blocks of the microphone; a block that could not be   *)
(* read passes unseen.  The codec's state is the number of frames coded.     *)
(***************************************************************************)
EXTENDS Integers, Sequences, SequencesExt

CONSTANTS
  HANG,       (* HELMET_VOX_HANG_MS                                         *)
  CAP,        (* HELMET_VOX_MAX_UTTER_MS                                    *)
  FRAMES,     (* frames a block makes, 8 in the code                        *)
  INTERVAL,   (* PS_AUDIO_SYNC_INTERVAL                                     *)
  TALK,       (* bound: frames coded in all                                 *)
  UPWAY       (* bound: records on the way                                  *)

ASSUME MicConstants ==
  /\ {HANG, CAP, FRAMES, INTERVAL, TALK, UPWAY} \subseteq Nat \ {0}
  /\ FRAMES <= INTERVAL

ASTRAY == -1             \* a decoder that ran on a frame it had no state for

VARIABLES
  gate,       (* ps_egate_t: "closed", "open", "spent" (EGATE_NEEDS_QUIET)  *)
  age, quiet, (* now_ms less opened_ms, less last_voiced_ms, while open     *)
  streaming,  (* of audio_in_task                                           *)
  coded,      (* the encoder's state                                        *)
  since,      (* frames_since_sync                                          *)
  up,         (* records on the way                                         *)
  dec,        (* decode_state_                                              *)
  (* observers *)
  sent,       (* frames of the utterance                                    *)
  noise,      (* frames sent since the last quiet block                     *)
  wrong,      (* frames decoded wrong in a row                              *)
  hole, shut  (* a record, a SYNC was lost since the relay took a SYNC      *)

mouth  == <<gate, age, quiet, streaming, coded, since, sent, noise>>
ear    == <<dec, wrong, hole, shut>>
micVars == <<mouth, up, ear>>

MicInit ==
  /\ gate = "closed" /\ age = 0 /\ quiet = 0 /\ streaming = FALSE
  /\ coded = 0 /\ since = 0 /\ up = <<>> /\ dec = 0
  /\ sent = 0 /\ noise = 0 /\ wrong = 0 /\ hole = FALSE /\ shut = FALSE

-----------------------------------------------------------------------------
Age(voiced, t) == age + t

Stopped_armed(voiced) == (* mutant: no quiet block is asked for *)
  "closed"
Stopped(voiced) == "spent"

(* ps_egate_process on a block, t after the last one seen *)
Process(voiced, t) ==
  LET a == Age(voiced, t)
      q == IF voiced THEN 0 ELSE quiet + t
      over == a >= CAP
      hung == ~voiced /\ q >= HANG
  IN  \/ /\ gate = "open" /\ (over \/ hung)
         /\ gate' = IF over THEN Stopped(voiced) ELSE "closed"
         /\ age' = 0 /\ quiet' = 0
      \/ /\ gate = "open" /\ ~over /\ ~hung
         /\ gate' = "open" /\ age' = a /\ quiet' = q
      \/ /\ gate = "spent"
         /\ gate' = IF voiced THEN "spent" ELSE "closed"
         /\ UNCHANGED <<age, quiet>>
      \/ /\ gate = "closed"
         /\ gate' = IF voiced THEN "open" ELSE "closed"
         /\ UNCHANGED <<age, quiet>>

(* frames_since_sync after a block *)
Since(n) == IF n + FRAMES > INTERVAL THEN n + FRAMES - INTERVAL ELSE n + FRAMES
(* ps_audio_tx_push of one frame, n frames after a SYNC: another one before it
   when it is due, with the codec's state before the frame *)
Framed_after(n, at) ==   (* mutant: the SYNC is made after the frame is coded *)
  (IF n = INTERVAL THEN <<[sync |-> TRUE, at |-> at + 1]>> ELSE <<>>)
    \o <<[sync |-> FALSE, at |-> at]>>
Framed(n, at) ==
  (IF n = INTERVAL THEN <<[sync |-> TRUE, at |-> at]>> ELSE <<>>)
    \o <<[sync |-> FALSE, at |-> at]>>

(* A turn of audio_in_task: ps_audio_tx_sync as the gate opens, the frames, the
   block that closes the gate included *)
Block(voiced, t) ==
  /\ Process(voiced, t)
  /\ LET opens == gate' = "open" /\ ~streaming
         on    == opens \/ streaming
         n     == IF opens THEN 0 ELSE since
     IN  /\ up' = up \o (IF opens THEN <<[sync |-> TRUE, at |-> coded]>> ELSE <<>>)
                  \o (IF on THEN FlattenSeq([i \in 1 .. FRAMES |->
                                               Framed(n + i - 1, coded + i - 1)])
                            ELSE <<>>)
         /\ coded' = coded + IF on THEN FRAMES ELSE 0
         /\ since' = IF gate' = "open" THEN Since(n) ELSE 0
         /\ sent' = IF ~on THEN 0 ELSE IF opens THEN FRAMES ELSE sent + FRAMES
         /\ noise' = IF ~voiced THEN 0 ELSE noise + IF on THEN FRAMES ELSE 0
  /\ Len(up') <= UPWAY /\ coded' <= TALK
  /\ streaming' = (gate' = "open")
  /\ UNCHANGED ear

(* emit_frame found the queue full, or a record was dropped further on *)
UpLose ==
  /\ up # <<>> /\ up' = Tail(up)
  /\ hole' = TRUE /\ shut' = (shut \/ Head(up).sync)
  /\ UNCHANGED <<mouth, dec, wrong>>

(* AudioRelay::handle_uplink_record: a SYNC is adopted, a frame is decoded with
   whatever state there is *)
UpRecord ==
  /\ up # <<>> /\ up' = Tail(up)
  /\ LET r == Head(up)
     IN  IF r.sync
         THEN dec' = r.at /\ wrong' = 0 /\ hole' = FALSE /\ shut' = FALSE
         ELSE /\ dec' = IF dec = r.at THEN dec + 1 ELSE ASTRAY
              /\ wrong' = IF dec = r.at THEN 0 ELSE wrong + 1
              /\ UNCHANGED <<hole, shut>>
  /\ UNCHANGED mouth

MicNext ==
  \/ \E voiced \in BOOLEAN, t \in {1, 2} : Block(voiced, t)
  \/ UpLose \/ UpRecord

-----------------------------------------------------------------------------
(* docs/safety.md 6: an utterance is hard-capped.  However the blocks come,
   no more frames go out between two closings of the gate than fit into the
   cap and the block that closes it (ps_egate_process). *)
CapHolds == sent <= (CAP + 1) * FRAMES

(* A noise that does not stop is not sent in utterance after utterance: until a
   block is quiet it gets no more than one cap's worth of the bus. *)
NoiseBounded == noise <= (CAP + 1) * FRAMES

(* The relay decodes a frame wrong only after a record was lost: the gate, the
   SYNC at its opening and those in between leave the two codecs in step
   (tx_emit_sync "state snapshot BEFORE this frame"). *)
UplinkInStep == wrong > 0 => hole

(* It has no sequence check to mute it, but a loss spoils fewer than INTERVAL
   frames unless the next SYNC is lost as well. *)
SpoiltEnds == wrong >= INTERVAL => shut

(* energy_gate.c: neither one utterance nor a noise that does not end gets more of
   the bus than one cap's worth. *)
TalkBounded == CapHolds /\ NoiseBounded
=============================================================================
