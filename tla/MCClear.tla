------------------------------- MODULE MCClear -------------------------------
(***************************************************************************)
(* The bridge (Bridge) with one more observer, for the way out of an e-stop  *)
(* that the suit raised: whether an operator's clear came after it.          *)
(***************************************************************************)
EXTENDS Bridge

VARIABLE unanswered   (* an ESTOP came in, and no clear has been asked for since *)

ClearNext ==
  \/ \E r \in Inbound : Exchange(r) /\ unanswered' = (unanswered \/ r = "estop")
  \/ ClearEmit /\ unanswered' = FALSE
  \/ /\ (\E n \in Bursts : Gather(n)) \/ Gate
     /\ UNCHANGED unanswered
  \/ /\ EngageLatch \/ EngageEmit \/ ClearUnlatch \/ Command \/ Shutdown
     /\ UNCHANGED unanswered

ClearSpec ==
  /\ Init /\ unanswered = FALSE
  /\ [][ClearNext]_<<vars, unanswered>>
  /\ WF_vars(Transport) /\ WF_vars(EngageEmit) /\ WF_vars(ClearUnlatch)

(* docs/safety.md gives the way out of an e-stop as the operator's clear and
   then heartbeats: with the service latch cleared for good, every ESTOP from the
   suit followed by an operator's clear, a healthy transport and a thread that
   catches up, beats keep going out, whoever raised the e-stop. *)
ClearBringsBeats ==
  /\ <>[](~latched /\ ~unanswered /\ transport_healthy /\ ros_ok)
  /\ []<>CaughtUp
  => BeatsGoOn
=============================================================================
