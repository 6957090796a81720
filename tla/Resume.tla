-------------------------------- MODULE Resume --------------------------------
(***************************************************************************)
(* Sessions over the cloud link: LinkClient (ws_client.py) and the gateway   *)
(* that starts one per bearer on the suit, CloudServer and Session           *)
(* (gateway/server.py, session.py) in the cloud.  A control message is a      *)
(* number of its session's codec; the numbers that hello_acks took are gaps.  *)
(* A coroutine runs from one await that may wait to the next; the send lock   *)
(* is fair, so messages leave in the order of their numbers, replays aside.   *)
(***************************************************************************)
EXTENDS Integers, Sequences, SequencesExt

CONSTANTS
  BUFFER,     (* RESUME_BUFFER_LEN                                          *)
  CONNS,      (* bound: connections made                                    *)
  CLIENTS,    (* bound: LinkClients started                                 *)
  SAID        (* bound: control messages                                    *)

ASSUME ResumeConstants == {BUFFER, CONNS, CLIENTS, SAID} \subseteq Nat \ {0}

Conns    == 1 .. CONNS     \* also the sessions: a handshake makes one at most
Clients  == 1 .. CLIENTS
NOBODY   == 0
NOTHING  == [sid |-> NOBODY, rx |-> 0]
ALL      == SAID + CONNS   \* no number is larger

VARIABLES
  (* per session *)
  seq,        (* of its codec                                               *)
  buffer,     (* numbers kept for replay                                    *)
  ws,         (* the connection attached, or NOBODY                         *)
  store,      (* the sessions of SessionStore                               *)
  (* per connection *)
  handler,    (* "none", "hello", "ack", "replay", "loop", "ended" detached,
                 or "failed" without                                        *)
  of,         (* its session                                                *)
  asked,      (* hello.resume: [sid, rx], until it is used                  *)
  todo,       (* what replay_after has yet to send                          *)
  way,        (* envelopes to the client                                    *)
  whole,      (* not cut                                                    *)
  (* per client *)
  link,       (* "off", "idle", "hello", "up", "gone"                       *)
  conn, sid, rx, (* _ws, session_id, last_rx_seq                            *)
  current,    (* GatewayNode._client                                        *)
  said,       (* bound: control messages sent                               *)
  (* observers *)
  unheard,    (* those that no client has received, [sid, n, later]: the last
                 BUFFER of each session, with how many were sent since      *)
  told,       (* sessions that a client had a hello_ack of                  *)
  window      (* of a session: messages up to this number may be lost       *)

session  == <<seq, buffer, ws, store>>
server   == <<handler, of, todo>>
client   == <<link, conn, sid, rx, current>>
seen     == <<said, unheard, told, window>>
resVars  == <<session, server, asked, way, whole, client, seen>>

ResInit ==
  /\ seq = [s \in Conns |-> 0] /\ buffer = [s \in Conns |-> <<>>]
  /\ ws = [s \in Conns |-> NOBODY] /\ store = {}
  /\ handler = [c \in Conns |-> "none"] /\ of = [c \in Conns |-> NOBODY]
  /\ asked = [c \in Conns |-> NOTHING]
  /\ todo = [c \in Conns |-> <<>>] /\ way = [c \in Conns |-> <<>>]
  /\ whole = [c \in Conns |-> TRUE]
  /\ link = [k \in Clients |-> IF k = 1 THEN "idle" ELSE "off"]
  /\ conn = [k \in Clients |-> NOBODY] /\ sid = [k \in Clients |-> NOBODY]
  /\ rx = [k \in Clients |-> 0] /\ current = 1
  /\ said = 0 /\ unheard = {} /\ told = {} /\ window = [s \in Conns |-> 0]

-----------------------------------------------------------------------------
(* Session.send: numbered, kept, and sent if there is a connection.  A send on
   a connection that is cut fails, and is no more than kept. *)
Keep(s, n) ==
  LET b == Append(buffer[s], n) IN IF Len(b) > BUFFER THEN Tail(b) ELSE b

Sent(c, kind, n) ==
  IF c # NOBODY /\ whole[c]
  THEN [way EXCEPT ![c] = Append(@, [kind |-> kind, n |-> n])] ELSE way

Later(s) ==
  {IF m.sid = s THEN [m EXCEPT !.later = @ + 1] ELSE m : m \in unheard}

(* Rules, voice replies, errors and push_advisory; bound: none in the session of the
   last connection, after which none could be resumed *)
Say(s) ==
  /\ s \in store /\ s < CONNS /\ said < SAID /\ said' = said + 1
  /\ LET n == seq[s] + 1
     IN  /\ seq' = [seq EXCEPT ![s] = n]
         /\ buffer' = [buffer EXCEPT ![s] = Keep(s, n)]
         /\ way' = Sent(ws[s], "live", n)
         /\ unheard' = {m \in Later(s) : m.later < BUFFER}
                       \cup {[sid |-> s, n |-> n, later |-> 0]}
  /\ UNCHANGED <<ws, store, server, asked, whole, client, told, window>>

-----------------------------------------------------------------------------
(* LinkClient.run_once: connect and hello.  Connections are made in order. *)
Hello(k, c) ==
  /\ link[k] = "idle" /\ handler[c] = "none"
  /\ \A d \in Conns : d < c => handler[d] # "none"
  /\ link' = [link EXCEPT ![k] = "hello"] /\ conn' = [conn EXCEPT ![k] = c]
  /\ asked' = [asked EXCEPT ![c] = [sid |-> sid[k], rx |-> rx[k]]]
  /\ handler' = [handler EXCEPT ![c] = "hello"]
  /\ UNCHANGED <<session, of, todo, way, whole, sid, rx, current, seen>>

(* CloudServer._handshake up to the hello_ack, which takes a number and is not
   kept: the session asked for if it has no connection, or a new one *)
Resumable_any(c) ==       (* mutant: whether it is attached or not *)
  asked[c].sid \in store
Resumable(c) ==
  asked[c].sid \in store /\ ws[asked[c].sid] = NOBODY

Handshake(c) ==
  /\ handler[c] = "hello"
  /\ LET s == IF Resumable(c) THEN asked[c].sid ELSE c
         n == seq[s] + 1
     IN  /\ store' = store \cup {s}
         /\ ws' = [ws EXCEPT ![s] = c] /\ of' = [of EXCEPT ![c] = s]
         /\ seq' = [seq EXCEPT ![s] = n]
         /\ way' = Sent(c, "ack", n)
         /\ handler' = [handler EXCEPT ![c] = IF Resumable(c) THEN "ack" ELSE "loop"]
         /\ asked' = [asked EXCEPT ![c] = IF Resumable(c) THEN @ ELSE NOTHING]
  /\ UNCHANGED <<buffer, todo, whole, client, seen>>

(* replay_after: the list is taken, ... *)
After_one(c, n) ==        (* mutant: one past the number asked for *)
  n > asked[c].rx + 1
After(c, n) == n > asked[c].rx

(* The handler goes on to _dispatch_loop when the list is through *)
Remaining(c, list) ==
  /\ todo' = [todo EXCEPT ![c] = list]
  /\ handler' = [handler EXCEPT ![c] = IF list = <<>> THEN "loop" ELSE "replay"]

ReplayList(c) ==
  /\ handler[c] = "ack"
  /\ Remaining(c, SelectSeq(buffer[of[c]], LAMBDA n : After(c, n)))
  /\ asked' = [asked EXCEPT ![c] = NOTHING]
  /\ UNCHANGED <<session, of, way, whole, client, seen>>

(* ... and one message sent after the other, while others may send as well; the loss
   of the connection may go unnoticed *)
ReplayOne(c) ==
  /\ handler[c] = "replay"
  /\ Remaining(c, Tail(todo[c]))
  /\ way' = Sent(c, "again", Head(todo[c]))
  /\ UNCHANGED <<session, of, asked, whole, client, seen>>

(* _handler's finally, once the loop or the first recv sees the end *)
Detach(c) ==
  ws' = IF handler[c] = "loop" /\ ws[of[c]] = c THEN [ws EXCEPT ![of[c]] = NOBODY] ELSE ws

Ended(c) ==
  /\ ~whole[c] /\ handler[c] \in {"hello", "loop"}
  /\ Detach(c)
  /\ handler' = [handler EXCEPT ![c] = "ended"]
  /\ asked' = [asked EXCEPT ![c] = NOTHING] /\ of' = [of EXCEPT ![c] = NOBODY]
  /\ UNCHANGED <<seq, buffer, store, todo, way, whole, client, seen>>

(* A replay on a connection that is known to be gone raises out of _handshake, and
   _handler has no session to detach: resume is refused from now on *)
Failed(c) ==
  /\ ~whole[c] /\ handler[c] = "replay"
  /\ handler' = [handler EXCEPT ![c] = "failed"]
  /\ todo' = [todo EXCEPT ![c] = <<>>]
  /\ window' = [window EXCEPT ![of[c]] = ALL]
  /\ UNCHANGED <<session, of, asked, way, whole, client, said, unheard, told>>

(* SessionStore.purge, 120 s after a session lost its connection; what was observed of
   it is of no account any more *)
Purge(s) ==
  /\ s \in store /\ ws[s] = NOBODY /\ store' = store \ {s}
  /\ seq' = [seq EXCEPT ![s] = 0] /\ buffer' = [buffer EXCEPT ![s] = <<>>]
  /\ unheard' = {m \in unheard : m.sid # s} /\ window' = [window EXCEPT ![s] = 0]
  /\ told' = told \ {s}
  /\ UNCHANGED <<ws, server, asked, way, whole, client, said>>

-----------------------------------------------------------------------------
(* run_once: the hello_ack.  last_rx_seq stays what it was in the session before if
   that is larger ... *)
Ack(k) ==
  /\ link[k] = "hello" /\ way[conn[k]] # <<>>
  /\ LET c == conn[k]
     IN  /\ link' = [link EXCEPT ![k] = "up"]
         /\ rx' = [rx EXCEPT ![k] = Max({@, Head(way[c]).n})]
         /\ sid' = [sid EXCEPT ![k] = of[c]]
         /\ way' = [way EXCEPT ![c] = Tail(@)]
         /\ told' = told \cup {of[c]}
         /\ window' = IF sid[k] \in {NOBODY, of[c]} THEN window
                      ELSE [window EXCEPT ![sid[k]] = ALL, ![of[c]] = Max({@, rx[k]})]
  /\ UNCHANGED <<session, server, asked, whole, conn, current, said, unheard>>

(* ... and what comes after it: last_rx_seq, and dispatched *)
Receive(k) ==
  /\ link[k] = "up" /\ way[conn[k]] # <<>>
  /\ LET c == conn[k]
         e == Head(way[c])
     IN  /\ rx' = [rx EXCEPT ![k] = Max({@, e.n})]
         /\ unheard' = {m \in unheard : m.sid # of[c] \/ m.n # e.n}
         /\ way' = [way EXCEPT ![c] = Tail(@)]
  /\ UNCHANGED <<session, server, asked, whole, link, conn, sid, current, said, told, window>>

(* Client k has its hello_ack and not yet all of the replay *)
Replaying(k) ==
  /\ link[k] = "up"
  /\ \/ handler[conn[k]] \in {"ack", "replay"}
     \/ \E i \in DOMAIN way[conn[k]] : way[conn[k]][i].kind = "again"

(* What client k was to be sent again is not asked for once more *)
Torn(k) ==
  IF Replaying(k) THEN [window EXCEPT ![sid[k]] = Max({@, rx[k]})] ELSE window

(* The connection is lost for client k, with what is on the way *)
Cut(k) ==
  /\ whole' = [whole EXCEPT ![conn[k]] = FALSE]
  /\ way' = [way EXCEPT ![conn[k]] = <<>>]
  /\ conn' = [conn EXCEPT ![k] = NOBODY]

Drop(k) ==
  /\ link[k] \in {"hello", "up"} /\ Cut(k)
  /\ window' = Torn(k)
  /\ link' = [link EXCEPT ![k] = "idle"]
  /\ UNCHANGED <<session, server, asked, sid, rx, current, said, unheard, told>>

(* GatewayNode._start_client: a new one with a copy of what the old one knows *)
Switch(k) ==
  /\ link[k] = "off" /\ k = current + 1
  /\ link' = [link EXCEPT ![k] = "idle"] /\ current' = k
  /\ sid' = [sid EXCEPT ![k] = sid[current]] /\ rx' = [rx EXCEPT ![k] = rx[current]]
  /\ window' = Torn(current)
  /\ UNCHANGED <<session, server, asked, way, whole, conn, said, unheard, told>>

(* _retire, 5 s later; a session whose hello_ack came after the copy was made goes
   with the client *)
Sole(k, s) == sid[k] = s /\ \A j \in Clients \ {k} : sid[j] # s

Retired(k) ==
  /\ k < current /\ link[k] # "gone"
  /\ link' = [link EXCEPT ![k] = "gone"]
  /\ sid' = [sid EXCEPT ![k] = NOBODY] /\ rx' = [rx EXCEPT ![k] = 0]
  /\ IF conn[k] = NOBODY THEN UNCHANGED <<way, whole, conn>> ELSE Cut(k)
  /\ window' = [s \in Conns |-> IF Sole(k, s) THEN ALL ELSE Torn(k)[s]]
  /\ UNCHANGED <<session, server, asked, current, said, unheard, told>>

ResNext ==
  \/ \E s \in Conns : Say(s) \/ Purge(s)
  \/ \E c \in Conns : \/ Handshake(c) \/ ReplayList(c) \/ ReplayOne(c)
                      \/ Ended(c) \/ Failed(c)
  \/ \E k \in Clients : \/ Ack(k) \/ Receive(k) \/ Drop(k) \/ Switch(k) \/ Retired(k)
                        \/ \E c \in Conns : Hello(k, c)

-----------------------------------------------------------------------------
(* Message m is on its way to client k, or about to be sent again *)
Coming(k, m) ==
  LET c == conn[k]
  IN  /\ c # NOBODY /\ of[c] = m.sid
      /\ \/ \E i \in DOMAIN way[c] : way[c][i].n = m.n
         \/ m.n \in ToSet(todo[c])
         \/ handler[c] = "ack" /\ After(c, m.n)

(* The message is coming, or a client will ask for it when it connects again and the
   session is given to it: it has no connection, or one whose end is to be noticed *)
Resumes(m) ==
  \E k \in Clients :
    \/ Coming(k, m)
    \/ /\ link[k] \notin {"off", "gone"} /\ sid[k] = m.sid
       /\ rx[k] < m.n /\ m.n \in ToSet(buffer[m.sid])
       /\ ws[m.sid] = NOBODY \/ handler[ws[m.sid]] # "failed"

(* docs/link-protocol.md 1: "bearer failover (5G->Wi-Fi->Sat) is lossless for
   control messages": what the suit has not heard, of the last BUFFER messages of a
   session that it knows, is coming, or will be replayed when it connects again. *)
Lossless == \A m \in unheard : m.sid \in told => Resumes(m)

(* It is, but in five windows.  hello_ack's number is larger than those of all
   messages replayed after it: a client cut off during the replay, or copied for the
   next bearer, asks for none of the rest.  A replay that raises leaves the session
   attached, and it is not resumed again.  A client whose resume is refused, the old
   connection being attached, goes over to a new session and asks for nothing more of
   the old one; and it keeps the last_rx_seq of the old one, so that messages of the
   new one up to that number are not replayed.  And a client that is retired takes a
   session with it that its successor, copied before the hello_ack, does not know. *)
LossWindows ==
  \A m \in unheard : m.sid \in told => Resumes(m) \/ m.n <= window[m.sid]

(* A connection that is served is its session's: two never share one, and a
   handler that ends late detaches no one else. *)
SoleOwner ==
  \A c \in Conns : handler[c] \in {"ack", "replay", "loop"} => ws[of[c]] = c

(* A session whose handler has ended can be resumed and purged, unless the
   connection was lost during a replay: that handler ends without detaching,
   and resume is refused for good. *)
SessionFreed == \A s \in store : ws[s] # NOBODY => handler[ws[s]] # "ended"

(* session.py: a session has the one connection that serves it, and none for good
   once that has ended. *)
SessionsOwned == SoleOwner /\ SessionFreed
=============================================================================
