----------------------------- MODULE SensorWeb -----------------------------
(***************************************************************************)
(* The sensor's HTTP server (web.c): one thread accepts, reads and answers *)
(* requests; GET /events turns a connection into an event stream that is   *)
(* first sent the history ring and then every line any thread publishes.   *)
(*                                                                         *)
(* A line is the number of its publication and a connection's request is   *)
(* one of a given set.  g_lock is a step unless something blocks while *)
(* it is held, which the replay of the history does: its sends wait for    *)
(* the browser to read.                                                    *)
(***************************************************************************)
EXTENDS Integers, Sequences, FiniteSets

CONSTANTS
  Conns,      \* connections clients open
  Ask,        \* [Conns -> set of requests it may make]: kind, auth, and for "keys" what to add
  MaxSse,     \* MAX_SSE_CLIENTS
  HistSize,   \* HISTORY_RING_SIZE
  SockCap     \* lines a connection's socket buffer takes

ASSUME WebAssumption ==
  /\ MaxSse \in Nat /\ HistSize \in Nat \ {0} /\ SockCap \in Nat \ {0}

VARIABLES
  conn,       \* connection -> its state, socket buffer and what the client read
  lines,      \* lines published
  history,    \* g_history, oldest first
  gLock,      \* g_lock: "free" or held by the replay
  sse,        \* g_sse_fds
  web,        \* the web thread
  listening   \* g_listen_fd accepts, and g_thread_running

webVars == <<conn, lines, history, gLock, sse, web, listening>>

Accepting == [pc |-> "accept"]
NoReq == [kind |-> "none"]
Fresh == [st |-> "none", req |-> NoReq, gone |-> FALSE, sock |-> <<>>, got |-> <<>>]
Closed(c) == [conn EXCEPT ![c].st = "closed"]

\* The peer has not hung up.
Peer(c) == conn[c].st \in {"queued", "open", "sse"} /\ ~conn[c].gone

Newest(s, n) == SubSeq(s, IF Len(s) > n THEN Len(s) - n + 1 ELSE 1, Len(s))

-----------------------------------------------------------------------------
(* web_publish_line *)

\* A client stays listed after a short write.
TakesAny(c) == TRUE

\* The single non-blocking send takes the whole frame.
Takes(c) == Peer(c) /\ Len(conn[c].sock) < SockCap

\* Under g_lock: one send per client, a client that cannot take the frame is
\* closed, then the line goes into the ring.
PublishLine ==
  /\ gLock = "free"
  /\ lines' = lines + 1
  /\ history' = Newest(Append(history, lines'), HistSize)
  /\ sse' = {c \in sse : Takes(c)}
  /\ conn' = [c \in Conns |->
       CASE c \in sse' /\ Len(conn[c].sock) < SockCap ->
              [conn[c] EXCEPT !.sock = Append(@, lines')]
         [] c \in sse \ sse' -> [conn[c] EXCEPT !.st = "closed"]
         [] OTHER -> conn[c]]
  /\ UNCHANGED <<gLock, web, listening>>

-----------------------------------------------------------------------------
(* The clients *)

Connect(c) ==
  /\ conn[c].st = "none" /\ listening
  /\ conn' = [conn EXCEPT ![c].st = "queued"]
  /\ UNCHANGED <<lines, history, gLock, sse, web, listening>>

SendRequest(c) ==
  /\ Peer(c) /\ conn[c].req = NoReq
  /\ \E r \in Ask[c] : conn' = [conn EXCEPT ![c].req = r]
  /\ UNCHANGED <<lines, history, gLock, sse, web, listening>>

\* The client goes away; the server notices at its next send or receive.
HangUp(c) ==
  /\ Peer(c)
  /\ conn' = [conn EXCEPT ![c].gone = TRUE]
  /\ UNCHANGED <<lines, history, gLock, sse, web, listening>>

ReadLine(c) ==
  /\ Peer(c) /\ conn[c].sock # <<>>
  /\ conn' = [conn EXCEPT ![c].got = Append(@, Head(conn[c].sock)), ![c].sock = Tail(@)]
  /\ UNCHANGED <<lines, history, gLock, sse, web, listening>>

-----------------------------------------------------------------------------
(* web_thread *)

\* accept(), or the loop ends because the listening socket was shut down.
Accept ==
  /\ web = Accepting
  /\ \/ /\ ~listening /\ web' = [pc |-> "down"] /\ UNCHANGED conn
     \/ \E c \in Conns :
          /\ listening /\ conn[c].st = "queued"
          /\ web' = [pc |-> "recv", c |-> c]
          /\ conn' = [conn EXCEPT ![c].st = "open"]
  /\ UNCHANGED <<lines, history, gLock, sse, listening>>

\* recv_full_request: waits for the request for as long as the client takes.
RecvRequest ==
  /\ web.pc = "recv"
  /\ \/ /\ conn[web.c].req # NoReq
        /\ web' = [web EXCEPT !.pc = "route"] /\ UNCHANGED conn
     \/ /\ conn[web.c].gone /\ conn[web.c].req = NoReq
        /\ web' = Accepting /\ conn' = Closed(web.c)
  /\ UNCHANGED <<lines, history, gLock, sse, listening>>

\* api_auth_ok
Authorised(c) == conn[c].req.auth

\* send_response, serve_index, serve_404: answer and close.
Respond ==
  /\ web' = Accepting
  /\ conn' = Closed(web.c)

\* Requests that read, are unknown or lack the token: answered at once.
RouteRead ==
  /\ web.pc = "route"
  /\ conn[web.c].req.kind = "read" \/ (conn[web.c].req.kind = "keys" /\ ~Authorised(web.c))
  /\ Respond
  /\ UNCHANGED <<lines, history, gLock, sse, listening>>

\* promote_to_sse takes g_lock.
Promote ==
  /\ web.pc = "route" /\ conn[web.c].req.kind = "events" /\ gLock = "free"
  /\ gLock' = "replay"
  /\ web' = [pc |-> "replay", c |-> web.c, k |-> 1]
  /\ UNCHANGED <<conn, lines, history, sse, listening>>

\* One line of the history: a blocking send under g_lock.
ReplayLine ==
  /\ web.pc = "replay" /\ web.k <= Len(history)
  /\ Peer(web.c) /\ Len(conn[web.c].sock) < SockCap
  /\ conn' = [conn EXCEPT ![web.c].sock = Append(@, history[web.k])]
  /\ web' = [web EXCEPT !.k = @ + 1]
  /\ UNCHANGED <<lines, history, gLock, sse, listening>>

\* The replay is over, or a send failed: the client joins the list if there
\* is room, and g_lock is released.
JoinSse ==
  /\ web.pc = "replay" /\ (web.k > Len(history) \/ ~Peer(web.c))
  /\ IF Cardinality(sse) < MaxSse
     THEN /\ sse' = sse \cup {web.c}
          /\ conn' = [conn EXCEPT ![web.c].st = "sse"]
     ELSE /\ UNCHANGED sse
          /\ conn' = Closed(web.c)
  /\ gLock' = "free" /\ web' = Accepting
  /\ UNCHANGED <<lines, history, listening>>

-----------------------------------------------------------------------------
(* web_shutdown *)

StopListening ==
  /\ listening' = FALSE
  /\ UNCHANGED <<conn, lines, history, gLock, sse, web>>

\* After the join: every stream is closed and the ring emptied.
CloseStreams ==
  /\ web.pc = "down" /\ gLock = "free"
  /\ conn' = [c \in Conns |-> IF c \in sse THEN [conn[c] EXCEPT !.st = "closed"] ELSE conn[c]]
  /\ sse' = {} /\ history' = <<>>
  /\ UNCHANGED <<lines, gLock, web, listening>>

WebInit ==
  /\ conn = [c \in Conns |-> Fresh] /\ lines = 0 /\ history = <<>>
  /\ gLock = "free" /\ sse = {} /\ web = Accepting /\ listening = TRUE

ClientNext == \E c \in Conns : Connect(c) \/ SendRequest(c) \/ HangUp(c) \/ ReadLine(c)
WebThread == Accept \/ RecvRequest \/ RouteRead \/ Promote \/ ReplayLine \/ JoinSse

-----------------------------------------------------------------------------
(* Properties *)

\* A listed stream holds exactly the newest lines, none missing, repeated or
\* out of order, from the first line of its replay to the last published: a
\* client that cannot keep up is closed rather than left with a gap
\* (promote_to_sse, web_publish_line).
StreamGapless ==
  \A c \in sse : Peer(c) =>
    LET q == conn[c].got \o conn[c].sock IN
    q = [i \in 1..Len(q) |-> lines - Len(q) + i]
=============================================================================
