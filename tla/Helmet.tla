------------------------------- MODULE Helmet -------------------------------
(***************************************************************************)
(* Node 6, node_helmet: its speaker, its microphone and its display.  They   *)
(* share no data and no lock, so that a behaviour of the node is one of each *)
(* side by side; the first state picks the part that a behaviour is about    *)
(* and the others rest.                                                     *)
(***************************************************************************)
EXTENDS Speaker, Mic, Hud

VARIABLE part

vars == <<part, spkVars, micVars, hudVars>>

Parts == {"speaker", "mic", "hud"}

Init == part \in Parts /\ SpkInit /\ MicInit /\ HudInit

Next ==
  /\ \/ part = "speaker" /\ SpkNext /\ UNCHANGED <<micVars, hudVars>>
     \/ part = "mic" /\ MicNext /\ UNCHANGED <<spkVars, hudVars>>
     \/ part = "hud" /\ HudNext /\ UNCHANGED <<spkVars, micVars>>
  /\ UNCHANGED part

Spec == Init /\ [][Next]_vars /\ (part = "hud" => HudFair)

-----------------------------------------------------------------------------
(* Every variable keeps its type.  In particular the indices of the playback ring
   (audio_pkt.c) stay within it whatever receiver and player do, and the list of
   warnings (hud_model.c) within its array. *)
TypeOK ==
  /\ said \in 0 .. SPEECH /\ left \in 0 .. MESSAGE /\ foreign \in BOOLEAN
  /\ outbound \o queue \o way \in
       Seq([sync : BOOLEAN, n : 0 .. SPEECH, off : 0 .. FOREIGN, cut : BOOLEAN])
  /\ locked \in BOOLEAN /\ expect \in 0 .. 2 * SPEECH /\ off \in 0 .. FOREIGN
  /\ ring \in [0 .. RING - 1 -> 0 .. SPEECH]
  /\ head \in 0 .. RING - 1 /\ tail \in 0 .. RING - 1 /\ pushing \in BOOLEAN
  /\ gate \in {"closed", "open", "spent"} /\ age \in 0 .. CAP /\ quiet \in 0 .. HANG
  /\ streaming = (gate = "open") /\ since \in 0 .. INTERVAL /\ coded \in 0 .. TALK
  /\ s_lock \in Callers \cup {"null", "free"}
  /\ warnings \in Seq({ADVICE} \cup States) /\ Len(warnings) <= MAX_WARNINGS
  /\ shown_state \in States /\ banner \in States

(* Voice both ways: a frame is muted (down) or decoded wrong (up) only after a record
   was lost, cut short or overtaken, and for no longer than to the next SYNC that
   arrives; the indices of the ring and the gate keep their ranges meanwhile. *)
LossesHeal == TypeOK /\ GapsAreReal /\ MuteEnds /\ UplinkInStep /\ SpoiltEnds
=============================================================================
