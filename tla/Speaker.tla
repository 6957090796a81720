------------------------------- MODULE Speaker -------------------------------
(***************************************************************************)
(* Voice to the helmet: AudioRelay (suit_canspi_bridge) frames speech as    *)
(* ADPCM, the transport thread hands it over as frames have room, SPI link,  *)
(* hub and bus lose records, ps_audio_rx_t decodes them into a ring, and     *)
(* audio_out_task plays the ring.                                           *)
(*                                                                          *)
(* A frame is its number.  The codec's state is a matter of how far the      *)
(* decoder is from where the encoder was when it made the frame: 0 is in     *)
(* step.  A frame counts as one sample of the ring.                          *)
(***************************************************************************)
EXTENDS Integers, Sequences, SequencesExt

CONSTANTS
  LOW,        (* values of the id's low byte, 256 in the code               *)
  SYNC_EVERY, (* kAudioSyncEveryFrames                                      *)
  RING,       (* PS_AUDIO_RX_RING_SAMPLES                                   *)
  BLOCK,      (* HELMET_SPK_BLOCK_SAMPLES                                   *)
  MESSAGE,    (* frames of an AudioChunk, at most                           *)
  Foreign,    (* whether messages come as CODEC_ADPCM8K                     *)
  SPEECH,     (* bound: frames said in all                                  *)
  SPI_MAX_RECORDS, (* records of an SPI frame                               *)
  WAY         (* bound: records under way                                   *)

ASSUME SpeakerConstants ==
  /\ {LOW, SYNC_EVERY, BLOCK, MESSAGE, SPEECH, SPI_MAX_RECORDS, WAY} \subseteq Nat \ {0}
  /\ RING \in Nat /\ RING > 1 /\ Foreign \subseteq BOOLEAN

SILENCE == 0
FOREIGN == MESSAGE + 1   \* a decoder run on frames another encoder made

VARIABLES
  said,       (* frames put so far: down_frame_seq_, and frames_since_sync_
                 is its remainder                                           *)
  left,       (* frames of the message in hand still to put                 *)
  foreign,    (* the message came as CODEC_ADPCM8K                          *)
  outbound,   (* AudioRelay::outbound_                                      *)
  queue,      (* audio put back into main's OutboundQueue                   *)
  way,        (* records from the SPI frame to the helmet's CAN controller  *)
  locked, off, (* ps_audio_rx_t: locked, and the codec                      *)
  expect,     (* expect_seq, whole: the code keeps its low byte             *)
  ring, head, tail,
  pushing,    (* rx_ring_push has moved head and not yet looked at tail     *)
  (* observers *)
  last,       (* the last frame played                                      *)
  replayed,   (* the last pull played a frame that is no newer              *)
  raced,      (* a pull emptied the ring in the middle of a push            *)
  mixed,      (* the transport thread sent newer audio ahead of older       *)
  garbled,    (* a frame was decoded out of step                            *)
  hurt,       (* a record lost, cut or out of its place since the last SYNC  *)
  alarm,      (* a gap was seen that was none, or one was not seen          *)
  muted, syncs (* frames ignored in a row; a SYNC was lost, or its place     *)

relay  == <<said, left, foreign>>
link   == <<outbound, queue, way>>
store  == <<ring, head, tail, pushing>>
player == <<store, last, replayed>>
codec  == <<locked, expect, off>>
ears   == <<garbled, alarm, muted>>
harm   == <<hurt, syncs>>
spkVars == <<relay, link, codec, player, raced, mixed, ears, harm>>

SpkInit ==
  /\ said = 0 /\ left = 0 /\ foreign = FALSE
  /\ outbound = <<>> /\ queue = <<>> /\ way = <<>>
  /\ locked = FALSE /\ expect = 0 /\ off = 0
  /\ ring = [i \in 0 .. RING - 1 |-> SILENCE] /\ head = 0 /\ tail = 0 /\ pushing = FALSE
  /\ last = 0 /\ replayed = FALSE /\ raced = FALSE /\ mixed = FALSE
  /\ garbled = FALSE /\ hurt = FALSE /\ alarm = FALSE
  /\ muted = 0 /\ syncs = FALSE

-----------------------------------------------------------------------------
(* AudioRelay::on_downlink: PCM16 is encoded, all of the message at once *)
OnDownlink ==
  /\ left = 0
  /\ left' \in {n \in 1 .. MESSAGE : said + n <= SPEECH} /\ foreign' \in Foreign
  /\ UNCHANGED <<said, link, codec, player, raced, mixed, ears, harm>>

(* maybe_enqueue_sync: the codec's state goes out as it is now, at the end of
   the message, with the number of the frame that follows *)
Sync ==
  [sync |-> TRUE, n |-> said, off |-> IF foreign THEN FOREIGN ELSE left, cut |-> FALSE]

SyncDue == said % SYNC_EVERY = 0

NextIndex(i) == (i + 1) % RING

(* ps_audio_rx_available *)
Available_one_more == ((head + RING - tail) % RING) + 1   (* mutant: off by one *)
Available == (head + RING - tail) % RING

(* Everything said has been played or lost *)
Through == outbound \o queue \o way = <<>> /\ Available = 0 /\ ~pushing

(* One turn of process_adpcm_down: the SYNC when it is due, and the frame, cut
   short if the message ends in the middle of it *)
Put ==
  /\ left > 0
  /\ \E cut \in IF left = 1 THEN BOOLEAN ELSE {FALSE} :
       LET frame == [sync |-> FALSE, n |-> said, off |-> 0, cut |-> cut]
       IN  outbound' = outbound \o (IF SyncDue THEN <<Sync, frame>> ELSE <<frame>>)
  /\ Len(outbound' \o queue \o way) <= WAY
  /\ said' = said + 1 /\ left' = left - 1
  /\ foreign' = (foreign /\ left > 1)
  /\ raced' = (raced /\ ~Through) /\ mixed' = (mixed /\ ~Through)
  /\ replayed' = (replayed /\ ~Through)
  /\ UNCHANGED <<queue, way, codec, store, last, ears, harm>>

(* A cycle of the transport thread: audio is gathered ahead of the queue, of which a
   frame's worth is drained, k records of it audio.  XRCE and other records leave
   room in the frame; the rest goes to the back of the queue. *)
Cycle(k, room) ==
  LET batch    == outbound \o SubSeq(queue, 1, k)
      rest     == SubSeq(queue, k + 1, Len(queue))
      overflow == SubSeq(batch, room + 1, Len(batch))
      passed   == queue # <<>> /\ (outbound # <<>> \/ (rest # <<>> /\ overflow # <<>>))
  IN  /\ batch # <<>>
      /\ outbound' = <<>>
      /\ queue' = rest \o overflow
      /\ way' = way \o SubSeq(batch, 1, IF room < Len(batch) THEN room ELSE Len(batch))
      /\ mixed' = (mixed \/ passed)
      /\ hurt' = (hurt \/ passed) /\ syncs' = (syncs \/ passed)
      /\ UNCHANGED <<relay, codec, player, raced, ears>>

(* An exchange fails, the hub's downlink queue is full, or a bus takes nothing *)
Lose ==
  /\ way # <<>>
  /\ way' = Tail(way) /\ hurt' = TRUE
  /\ syncs' = (syncs \/ Head(way).sync)
  /\ UNCHANGED <<relay, outbound, queue, codec, player, raced, mixed, ears>>

-----------------------------------------------------------------------------
(* rx_ring_push: the sample and head, which the player sees, ... *)
Push(frame) ==
  /\ ring' = [ring EXCEPT ![head] = frame]
  /\ head' = NextIndex(head)
  /\ pushing' = TRUE
  /\ UNCHANGED <<tail, last, replayed>>

(* ... and the oldest dropped if it ran into tail *)
DropOldest ==
  /\ pushing /\ pushing' = FALSE
  /\ tail' = IF head = tail THEN NextIndex(tail) ELSE tail
  /\ UNCHANGED <<relay, link, codec, ears, harm, ring, head,
                 last, replayed, raced, mixed>>

(* ps_audio_rx_on_frame: a SYNC reseeds, ... *)
RxSync(r) ==
  /\ r.sync
  /\ locked' = TRUE /\ expect' = r.n /\ off' = r.off
  /\ hurt' = mixed /\ syncs' = mixed /\ muted' = 0
  /\ UNCHANGED <<player, garbled, alarm>>

(* ... a short frame, or any while unlocked, is nothing, ... *)
RxNothing(r) ==
  /\ ~r.sync /\ (r.cut \/ ~locked)
  /\ hurt' = (hurt \/ r.cut)
  /\ muted' = IF locked THEN muted ELSE muted + 1
  /\ UNCHANGED <<codec, player, syncs, garbled, alarm>>

(* ... the expected one, as far as the low byte tells, is decoded, ... *)
RxFrame(r) ==
  /\ ~r.sync /\ ~r.cut /\ locked /\ r.n % LOW = expect % LOW
  /\ Push(r.n + 1)
  /\ expect' = expect + 1
  /\ garbled' = (garbled \/ off # 0 \/ r.n # expect)
  /\ alarm' = (alarm \/ (r.n # expect /\ ~hurt))
  /\ UNCHANGED <<locked, off, harm, muted>>

(* ... and another makes a gap: a frame of silence, and wait for a SYNC *)
RxGap(r) ==
  /\ ~r.sync /\ ~r.cut /\ locked /\ r.n % LOW # expect % LOW
  /\ Push(SILENCE)
  /\ locked' = FALSE
  /\ alarm' = (alarm \/ ~hurt) /\ muted' = 1
  /\ UNCHANGED <<expect, off, harm, garbled>>

(* audio_rx_cb, in the task that reads the bus *)
Receive ==
  /\ way # <<>> /\ ~pushing
  /\ way' = Tail(way)
  /\ LET r == Head(way) IN RxSync(r) \/ RxNothing(r) \/ RxFrame(r) \/ RxGap(r)
  /\ UNCHANGED <<relay, outbound, queue, raced, mixed>>

-----------------------------------------------------------------------------
(* audio_out_task: one ps_audio_rx_pull, the rest of the block silence.  It runs
   at priority 11 on the core where ps_can_rx runs at 10, so it is not
   interrupted by it, but interrupts it anywhere. *)
Pull ==
  /\ Available > 0
  /\ LET n     == IF Available < BLOCK THEN Available ELSE BLOCK
         block == [i \in 1 .. n |-> ring[(tail + i - 1) % RING]]
         heard == SelectSeq(<<last>> \o block, LAMBDA f : f # SILENCE)
     IN  /\ tail' = (tail + n) % RING
         /\ replayed' = (\E i \in 2 .. Len(heard) : heard[i] <= heard[i - 1])
         /\ raced' = (raced \/ (pushing /\ tail' = head))
         /\ last' = IF heard = <<>> THEN 0 ELSE Last(heard)
  /\ UNCHANGED <<relay, link, codec, ears, harm, mixed, ring, head, pushing>>

SpkNext ==
  \/ OnDownlink \/ Put \/ Lose \/ Receive \/ DropOldest \/ Pull
  \/ \E k \in 0 .. SPI_MAX_RECORDS : \E room \in 0 .. SPI_MAX_RECORDS :
       k <= Len(queue) /\ Cycle(k, room)

-----------------------------------------------------------------------------
(* The ring drops the oldest samples from the producer's side, moving the
   consumer's index.  Nothing is played twice or out of order, however the player
   interrupts a push and whatever is lost, but in two cases, until what they spoilt
   has been played: if the player empties the ring after head moved and before head
   is compared with tail, empty is taken for full and the whole ring is played once
   more; and audio that overflowed a frame is overtaken by newer audio, whose SYNC
   and frames the helmet accepts in either order. *)
PlaysInOrder == replayed => raced \/ mixed

(* The helmet sees a gap only where, since its last SYNC, a record was lost, or put
   behind newer ones, or a message ended in the middle of a frame: that frame takes a
   number and is ignored.  A frame is taken for one with the same low byte only there
   too. *)
GapsAreReal == ~alarm

(* After a gap the helmet ignores fewer than SYNC_EVERY frames, the one that showed
   the gap included, unless a SYNC is lost as well or is put behind newer audio. *)
MuteEnds == muted >= SYNC_EVERY => syncs

(* docs/network-map.md 3.5: the receiver of a SYNC adopts the predictor and the
   step index for the frame that follows.  A frame is decoded with the codec
   state it was encoded with. *)
DecodesInStep == ~garbled
=============================================================================
