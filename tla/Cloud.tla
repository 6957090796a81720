-------------------------------- MODULE Cloud --------------------------------
(***************************************************************************)
(* The cloud link: sessions and their resumption (Resume), a reply's speech   *)
(* within one session (Speech) and the choice of the bearer (Bearers).  What  *)
(* each does to the next, a connection made or lost at any time, is a free    *)
(* choice of that part, so that the parts are checked one by one: the bearers *)
(* without queries, and the queries when one bearer works at first.          *)
(***************************************************************************)
EXTENDS Resume, Speech, Bearers

VARIABLE part

vars == <<part, resVars, spVars, beVars>>

Parts == {"resume", "speech", "bearers", "queries"}

Init ==
  /\ ResInit /\ SpeechInit
  /\ part \in Parts
  /\ BearersInit /\ asked_n = IF part = "queries" THEN 0 ELSE QUERIES
  /\ part = "bearers" => quality[BEARERS] = "good"
  /\ part # "bearers" =>
       quality = [b \in Names |-> IF part = "queries" /\ b = 1 THEN "good" ELSE "dead"]

(* Without queries a drain is the same at any time, and runs at once *)
Next ==
  \/ part = "resume" /\ ResNext /\ UNCHANGED <<part, spVars, beVars>>
  \/ part = "speech" /\ SpeechNext /\ UNCHANGED <<part, resVars, beVars>>
  \/ /\ part \in {"bearers", "queries"} /\ BearersNext
     /\ part = "bearers" /\ drain # "no" => drain' # drain
     /\ UNCHANGED <<part, resVars, spVars>>

Spec == Init /\ [][Next]_vars

(* Bound: the first bearer may be anything, the second is not slow, the third is good
   or dead *)
CloudReach == <<Quality, Quality \ {"slow"}, {"dead", "good"}>>

(* The event loops of both sides and the timers run, and a live connection
   delivers.  A client that keeps being replaced is not sure to connect; with
   clients always trying a bearer that works, one does. *)
Speaks(A) == part = "speech" /\ A
Carries(A) == part \in {"bearers", "queries"} /\ A

FairSpec ==
  /\ Spec
  /\ \A s \in Streams : WF_spVars(Speaks(Reply(s)))
  /\ WF_spVars(Speaks(Grant)) /\ WF_spVars(Speaks(Meet)) /\ WF_spVars(Speaks(Serve))
  /\ WF_beVars(Carries(Evaluate)) /\ WF_beVars(Carries(DrainList \/ DrainClear))
  /\ \A b \in Names : WF_beVars(Carries(Probe(b)))
  /\ WF_beVars(Carries(\E i \in DOMAIN clients : Connect(i)))
  /\ WF_beVars(Carries(\E i \in DOMAIN clients : Lose(i)))
  /\ WF_beVars(Carries(\E i \in DOMAIN clients : Retire(i)))

-----------------------------------------------------------------------------
(* Every variable keeps its type.  In particular a session keeps no more than
   BUFFER messages, in order, and a stream's credits never fall below zero. *)
TypeOK ==
  /\ store \subseteq Conns /\ current \in Clients
  /\ \A s \in Conns : /\ seq[s] \in Nat /\ ws[s] \in Conns \cup {NOBODY}
                      /\ Len(buffer[s]) <= BUFFER
                      /\ \A i, j \in DOMAIN buffer[s] : i < j => buffer[s][i] < buffer[s][j]
  /\ task \in [Streams -> {"none", "synth", "send", "wait", "ended", "died"}]
  /\ handler_s \in {"none", "ack", "replay", "loop", "failed"}
  /\ credits \in [Streams -> Nat] /\ pending \in [Streams -> Nat]
  /\ chunks \in [Streams -> 0 .. CHUNKS]
  /\ active_stream \in Streams \cup {NO_STREAM} /\ outstanding \in Nat
  /\ healthy \in [Names -> BOOLEAN] /\ since \in [Names -> NEVER .. OLD]
  /\ active \in Names \cup {NONE} /\ queue \in 0 .. MAXLEN

(* What each side keeps for the other stays bounded: the replay buffer, the credits
   and chunks of a reply, and the clients that wait to connect or to retire. *)
Bounded == TypeOK /\ BacklogBounded /\ ClientsBounded
=============================================================================
