------------------------------- MODULE Bearers -------------------------------
(***************************************************************************)
(* The bearers of the cloud link: LinkMonitor's policy (link_monitor.py), the *)
(* clients GatewayNode starts and retires (gateway_node.py) and the queries   *)
(* that wait for one (offline_queue.py).  Callbacks of the ROS executor and  *)
(* of the asyncio loop each run to their end, but where they share the queue. *)
(* Time is in seconds, the period of _evaluate_bearers.                      *)
(***************************************************************************)
EXTENDS Integers, Sequences, SequencesExt

CONSTANTS
  BEARERS,    (* their number, in order of priority                         *)
  UNHEALTHY_SWITCH_S, PREEMPT_SWITCH_S,
  LINGER,     (* seconds after which _retire runs                           *)
  MAXLEN,     (* of the offline queue                                       *)
  Reach,      (* bound: what each bearer may be                             *)
  QUERIES,    (* bound: queries asked                                       *)
  FLIPS       (* bound: times a bearer changes or the server closes         *)

ASSUME BearerConstants ==
  /\ {BEARERS, UNHEALTHY_SWITCH_S, PREEMPT_SWITCH_S, LINGER, MAXLEN} \subseteq Nat \ {0}
  /\ {FLIPS, QUERIES} \subseteq Nat

Names == 1 .. BEARERS

(* A bearer over which nothing answers; one that takes a TCP connection and no hello;
   one that takes both, beyond its RTT budget; and a good one *)
Quality == {"dead", "tcp", "slow", "good"}

ASSUME ReachBound == Reach \in [Names -> SUBSET Quality]

NONE  == 0
NEVER == -1                \* no time noted; for a client, not to be retired
OLD   == Max({UNHEALTHY_SWITCH_S, PREEMPT_SWITCH_S})

VARIABLES
  quality,    (* of a bearer                                                *)
  healthy, since,  (* per bearer: healthy, and for how long so, or not so   *)
  active,     (* LinkMonitor._active                                        *)
  clients,    (* LinkClients running, the last one is GatewayNode._client:
                 their bearer, whether connected, seconds left              *)
  queue,      (* queries in OfflineQueue                                    *)
  asking,     (* _on_query has found no connection and not yet queued       *)
  drain,      (* _drain_queue: "no", "posted", "listed" and not yet cleared *)
  asked_n, flips,  (* bounds                                                *)
  late        (* observer: a query was queued when a client was connected   *)

monitor == <<healthy, since, active>>
queries == <<queue, asking, drain, asked_n, late>>
beVars  == <<quality, monitor, clients, queries, flips>>

Answers(b) == quality[b] \in {"tcp", "good"}    \* a probe, within the budget
Works(b)   == quality[b] \in {"slow", "good"}

BearersInit ==
  /\ quality \in [Names -> Quality] /\ \A b \in Names : quality[b] \in Reach[b]
  /\ healthy = [b \in Names |-> FALSE] /\ since = [b \in Names |-> NEVER]
  /\ active = NONE /\ clients = <<>>
  /\ queue = 0 /\ asking = FALSE /\ drain = "no" /\ asked_n \in {0, QUERIES}
  /\ flips = 0 /\ late = FALSE

-----------------------------------------------------------------------------
(* LinkMonitor.update: the health, and when it last changed, from the times t *)
Noted_again(b, h, t) ==   (* mutant: unhealthy since the last observation *)
  IF ~h \/ h # healthy[b] THEN [t EXCEPT ![b] = 0] ELSE t
Noted(b, h, t) ==
  IF h # healthy[b] \/ (~h /\ t[b] = NEVER) THEN [t EXCEPT ![b] = 0] ELSE t

Update(b, h, t) ==
  /\ healthy' = [healthy EXCEPT ![b] = h]
  /\ since' = Noted(b, h, t)

(* _best_healthy, of the new observations *)
Best(exclude) ==
  LET h == {b \in Names \ {exclude} : healthy'[b]} IN IF h = {} THEN NONE ELSE Min(h)

(* LinkMonitor.evaluate: the bearer to switch to *)
Preempting == {b \in Names : b < active /\ healthy'[b] /\ since'[b] >= PREEMPT_SWITCH_S}

Decision ==
  IF active = NONE THEN Best(NONE)
  ELSE IF ~healthy'[active]
  THEN IF since'[active] >= UNHEALTHY_SWITCH_S THEN Best(active) ELSE NONE
  ELSE IF Preempting = {} THEN NONE ELSE Min(Preempting)

Current == IF clients = <<>> THEN NONE ELSE Len(clients)
Online  == Current # NONE /\ clients[Current].up

(* _start_client: the one before has LINGER seconds left *)
Started(b, cs) ==
  Append(IF cs = <<>> THEN cs ELSE [cs EXCEPT ![Len(cs)].left = LINGER],
         [bearer |-> b, up |-> FALSE, left |-> NEVER])

(* Whether the latest client's RTT is within the budget: it counts as such until
   one is measured.  Every caller gives a loss of 0. *)
InBudget ==
  IF quality[clients[Current].bearer] = "slow" THEN BOOLEAN ELSE {TRUE}

(* A second passes, and _evaluate_bearers runs: the active bearer is judged by
   the latest client, whatever bearer that one uses *)
Older(t) == [b \in Names |-> IF t[b] \in {NEVER, OLD} THEN t[b] ELSE t[b] + 1]

Evaluate ==
  /\ \A i \in DOMAIN clients : clients[i].left # 0
  /\ IF clients # <<>> /\ active # NONE
     THEN \E ok \in InBudget : Update(active, Online /\ ok, Older(since))
     ELSE since' = Older(since) /\ UNCHANGED healthy
  /\ LET cs == [i \in DOMAIN clients |->
                  [clients[i] EXCEPT !.left = IF @ = NEVER THEN NEVER ELSE @ - 1]]
     IN  clients' = IF Decision = NONE THEN cs ELSE Started(Decision, cs)
  /\ UNCHANGED <<quality, active, queries, flips>>

(* _probe_loop: a bearer that is not active is tried.  (An answer that comes when it
   has become active meanwhile is left out: _evaluate_bearers writes over it.) *)
Probe(b) ==
  /\ b # active /\ Update(b, Answers(b), since)
  /\ UNCHANGED <<quality, active, clients, queries, flips>>

(* _on_session: "connected", commit ... *)
Connected(i) ==
  /\ ~clients[i].up /\ Works(clients[i].bearer)
  /\ clients' = [clients EXCEPT ![i].up = TRUE]
  /\ active' = clients[i].bearer
  /\ \E ok \in InBudget : Update(active', ok, since)

Post_first ==             (* mutant: at the first attach only *)
  drain' = IF active = NONE THEN "posted" ELSE drain
Post == drain' = "posted"

Connect(i) ==
  /\ drain # "listed" /\ Connected(i) /\ Post
  /\ UNCHANGED <<quality, queue, asking, asked_n, late, flips>>

(* ... and "disconnected": the bearer fails, ... *)
Disconnected(i) ==
  /\ clients[i].up
  /\ clients' = [clients EXCEPT ![i].up = FALSE]
  /\ Update(clients[i].bearer, FALSE, since)
  /\ UNCHANGED <<quality, active, queries>>

Lose(i) == ~Works(clients[i].bearer) /\ Disconnected(i) /\ UNCHANGED flips

(* ... or the server closes, or restarts *)
Close(i) == flips < FLIPS /\ flips' = flips + 1 /\ Disconnected(i)

(* _retire: the client is cancelled, whether or not a later one is connected *)
Cancelled(i) == RemoveAt(clients, i)

Retire(i) ==
  /\ clients[i].left = 0
  /\ clients' = Cancelled(i)
  /\ IF clients[i].up THEN Update(clients[i].bearer, FALSE, since)
     ELSE UNCHANGED <<healthy, since>>
  /\ UNCHANGED <<quality, active, queries, flips>>

-----------------------------------------------------------------------------
(* _on_query: to the latest client if it is connected, or ... *)
Ask ==
  /\ ~asking /\ asked_n < QUERIES /\ asked_n' = asked_n + 1
  /\ asking' = ~Online
  /\ UNCHANGED <<quality, monitor, clients, queue, drain, flips, late>>

(* ... OfflineQueue.put, which drops the oldest of a full queue *)
Put ==
  /\ asking /\ asking' = FALSE
  /\ queue' = Min({queue + 1, MAXLEN})
  /\ late' = (late \/ (Online /\ drain = "no"))
  /\ UNCHANGED <<quality, monitor, clients, drain, asked_n, flips>>

(* _drain_queue: nothing if the latest client is not connected, or all of the queue
   is listed, ... *)
DrainList ==
  /\ drain = "posted"
  /\ drain' = IF Online THEN "listed" ELSE "no"
  /\ UNCHANGED <<quality, monitor, clients, queue, asking, asked_n, late, flips>>

(* ... and the queue cleared, with what was put meanwhile.  What it fails to send is
   lost. *)
DrainClear ==
  /\ drain = "listed" /\ drain' = "no"
  /\ queue' = 0 /\ late' = FALSE
  /\ UNCHANGED <<quality, monitor, clients, asking, asked_n, flips>>

(* A bearer changes *)
Flip(b) ==
  /\ flips < FLIPS /\ flips' = flips + 1
  /\ \E q \in Reach[b] \ {quality[b]} : quality' = [quality EXCEPT ![b] = q]
  /\ UNCHANGED <<monitor, clients, queries>>

BearersNext ==
  \/ Evaluate \/ Ask \/ Put \/ DrainList \/ DrainClear
  \/ \E b \in Names : Probe(b) \/ Flip(b)
  \/ \E i \in DOMAIN clients : Connect(i) \/ Lose(i) \/ Close(i) \/ Retire(i)

-----------------------------------------------------------------------------
(* _evaluate_bearers starts another client every second for as long as none is
   connected.  They do not pile up. *)
ClientsBounded == Len(clients) <= LINGER + 2

(* A queued query waits for a connection or a drain that is posted, unless the
   connection was made while _on_query went from its check to put: that query
   waits for the next one.  (One put between a drain's listing and its clearing does
   not wait: it is gone.) *)
QueriesGoOut == queue > 0 /\ Online => drain # "no" \/ late

AnyOnline == \E i \in DOMAIN clients : clients[i].up

(* The bearer that _best_healthy picks when the active one has failed, once all
   others are probed *)
Candidates == {b \in Names \ {active} : Answers(b)}

(* The suit is connected again and again for as long as the bearer that is picked
   works.  It is not in two cases.  The active bearer is not probed and not returned
   to: it stays given up when the client started in its place finds its own bearer
   gone.  And a probe is a TCP connection: a bearer that answers it, and no hello, is
   picked every second, and one behind it that works is not tried. *)
RecoversElsewhere ==
  \/ <>[](Candidates = {} \/ ~Works(Min(Candidates)))
  \/ []<>AnyOnline
=============================================================================
