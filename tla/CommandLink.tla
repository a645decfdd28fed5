---------------------------- MODULE CommandLink ----------------------------
(***************************************************************************)
(* Commands from the fusion server to its sensors: the fan-out             *)
(* (fusion/c2.go), the ROUTER hub that pairs replies with commands         *)
(* (fusion/c2_router.go), the sensor's DEALER thread (c2_dealer.c) and     *)
(* the dispatcher it shares with the sensor's HTTP server (c2.c).  Composed *)
(* with FusionFeed: a fan-out goes to the sensors registered when it       *)
(* starts, heartbeats are published through the hub, and a restart of the  *)
(* fusion server takes both sides down.                                    *)
(*                                                                         *)
(* A call is one command to one sensor.  The network keeps the order of a  *)
(* connection, and a sensor that restarts loses both its queues.           *)
(***************************************************************************)
EXTENDS FusionFeed

CONSTANTS
  Api,       \* sensors registered with an HTTP endpoint
  Refused,   \* fan-outs (by number) whose body the sensors refuse with a 4xx
  FaultKinds \* "sensor", "fusion", "stale", "drop": the faults that may happen

ASSUME LinkAssumption == Api \subseteq Names

VARIABLES
  calls,    \* the calls made so far, in order
  fanouts,  \* fan-outs made so far
  nextID,   \* DealerHub.nextID
  session,  \* name -> "none", "fresh" or "stale": LastSeen against 90 s
  inbox,    \* name -> commands queued for the sensor's DEALER socket
  outbox,   \* name -> frames from the sensor queued for the ROUTER
  epoch,    \* how often the fusion server was started
  done      \* sensor side, per call: how often its command was carried out

linkVars == <<calls, fanouts, nextID, session, inbox, outbox, epoch, done>>
vars == <<feedVars, linkVars, ops>>

NoReply == [status |-> "none", call |-> 0]

\* DealerHub.pending: the calls of this process that wait for a reply.
Pending(i) == calls[i].st = "sent" /\ calls[i].epoch = epoch

Fault(kind) == kind \in FaultKinds /\ Stimulus

-----------------------------------------------------------------------------
(* fanoutCommand *)

NewCall(n, h) ==
  [to |-> n, by |-> h, fan |-> fanouts + 1, id |-> 0, epoch |-> epoch,
   st |-> "listed", ch |-> NoReply, result |-> NoReply]

\* POST /api/fanout/<path>: one call for every sensor of registry.List().
FanoutStart(h) ==
  /\ Free(h) /\ Registered # {}
  /\ Stimulus
  /\ LET order == SetToSeq(Registered) IN
     calls' = calls \o [k \in 1..Len(order) |-> NewCall(order[k], h)]
  /\ done' = done \o [k \in 1..Cardinality(Registered) |-> 0]
  /\ fanouts' = fanouts + 1
  /\ handler' = [handler EXCEPT ![h] = [pc |-> "fanout"]]
  /\ UNCHANGED <<byName, file, cancels, subs, nextSub, published, hist, browser,
                 bucket, unsaved, nextID, session, inbox, outbox, epoch>>

Finish(i, r) == [calls EXCEPT ![i].st = "done", ![i].result = r]

Failed(what) == [status |-> what, call |-> 0]

\* The transport of one call: DEALER with a live session, else HTTP, else none.
ChooseTransport(i) ==
  /\ calls[i].st = "listed" /\ calls[i].epoch = epoch
  /\ calls' = CASE session[calls[i].to] = "fresh" -> [calls EXCEPT ![i].st = "dealer"]
                [] session[calls[i].to] # "fresh" /\ calls[i].to \in Api ->
                     [calls EXCEPT ![i].st = "http"]
                [] OTHER -> Finish(i, Failed("no transport"))
  /\ UNCHANGED <<feedVars, ops, fanouts, nextID, session, inbox, outbox, epoch, done>>

\* wg.Wait(): every call of the fan-out has its result.
FanoutDone(h) ==
  /\ handler[h].pc = "fanout"
  /\ \A i \in DOMAIN calls :
       calls[i].by = h /\ calls[i].epoch = epoch => calls[i].st = "done"
  /\ handler' = [handler EXCEPT ![h] = Idle]
  /\ UNCHANGED <<byName, file, cancels, subs, nextSub, published, hist, browser,
                 bucket, unsaved, ops, linkVars>>

-----------------------------------------------------------------------------
(* The sensor's dispatcher *)

\* c2_dispatch: the status of the command's handler.
DispatchStatus(i) == IF calls[i].fan \in Refused THEN "4xx" ELSE "200"

\* A refused command changes nothing on the sensor.
Dispatched(i) == IF DispatchStatus(i) = "200" THEN [done EXCEPT ![i] = @ + 1] ELSE done

-----------------------------------------------------------------------------
(* DealerHub.SendCommand *)

\* Takes an id, enters pending and sends; HasSession is asked again, and the
\* send may fail.
SendCommand(i) ==
  LET n == calls[i].to IN
  /\ calls[i].st = "dealer" /\ calls[i].epoch = epoch
  /\ \/ /\ session[n] # "fresh"
        /\ calls' = Finish(i, Failed("no session"))
        /\ UNCHANGED <<nextID, inbox>>
     \/ /\ session[n] = "fresh"
        /\ nextID' = nextID + 1
        /\ calls' = [calls EXCEPT ![i].st = "sent", ![i].id = nextID']
        /\ inbox' = [inbox EXCEPT ![n] = Append(@, [id |-> nextID', call |-> i])]
     \/ /\ session[n] = "fresh"
        /\ nextID' = nextID + 1
        /\ calls' = Finish(i, Failed("send"))
        /\ UNCHANGED inbox
  /\ UNCHANGED <<feedVars, ops, fanouts, session, outbox, epoch, done>>

\* select: the reply is in the channel.
TakeReply(i) ==
  /\ Pending(i) /\ calls[i].ch # NoReply
  /\ calls' = Finish(i, calls[i].ch)
  /\ UNCHANGED <<feedVars, ops, fanouts, nextID, session, inbox, outbox, epoch, done>>

\* A timeout that sends the command again over HTTP.
TimeOutRetry(i) ==
  /\ Pending(i)
  /\ calls' = IF calls[i].to \in Api THEN [calls EXCEPT ![i].st = "http"]
              ELSE Finish(i, Failed("timeout"))
  /\ UNCHANGED <<feedVars, ops, fanouts, nextID, session, inbox, outbox, epoch, done>>

\* A timeout that never fires for a sensor with a live session.
TimeOutStaleOnly(i) ==
  /\ Pending(i) /\ session[calls[i].to] = "stale"
  /\ calls' = Finish(i, Failed("timeout"))
  /\ UNCHANGED <<feedVars, ops, fanouts, nextID, session, inbox, outbox, epoch, done>>

\* select: 5 s have passed, whether or not the reply has come as well.
TimeOut(i) ==
  /\ Pending(i)
  /\ calls' = Finish(i, Failed("timeout"))
  /\ UNCHANGED <<feedVars, ops, fanouts, nextID, session, inbox, outbox, epoch, done>>

\* The HTTP fallback: the sensor carries the command out and answers, or the
\* request fails before or after it was carried out.
HttpPost(i) ==
  /\ calls[i].st = "http" /\ calls[i].epoch = epoch
  /\ \/ /\ done' = Dispatched(i)
        /\ \/ calls' = Finish(i, [status |-> DispatchStatus(i), call |-> i])
           \/ calls' = Finish(i, Failed("http"))
     \/ calls' = Finish(i, Failed("http")) /\ UNCHANGED done
  /\ UNCHANGED <<feedVars, ops, fanouts, nextID, session, inbox, outbox, epoch>>

-----------------------------------------------------------------------------
(* The sensor's DEALER thread *)

\* handle_command: one frame, dispatched, answered with its id.  The reply
\* is sent without waiting and is lost when the socket will not take it.
HandleCommand(n) ==
  /\ inbox[n] # <<>>
  /\ LET m == Head(inbox[n])
         r == [kind |-> "reply", id |-> m.id, status |-> DispatchStatus(m.call), call |-> m.call]
     IN /\ done' = Dispatched(m.call)
        /\ \/ outbox' = [outbox EXCEPT ![n] = Append(@, r)] /\ UNCHANGED ops
           \/ Fault("drop") /\ UNCHANGED outbox
  /\ inbox' = [inbox EXCEPT ![n] = Tail(@)]
  /\ UNCHANGED <<feedVars, calls, fanouts, nextID, session, epoch>>

\* send_heartbeat, every 30 s.
SendHeartbeat(n) ==
  /\ Stimulus
  /\ outbox' = [outbox EXCEPT ![n] = Append(@, [kind |-> "event", id |-> 0, status |-> "none", call |-> 0])]
  /\ UNCHANGED <<feedVars, calls, fanouts, nextID, session, inbox, epoch, done>>

\* One turn of the thread's poll loop.
dealer_thread(n) == HandleCommand(n) \/ SendHeartbeat(n)

-----------------------------------------------------------------------------
(* DealerHub.readLoop *)

\* The calls whose channel a reply goes to, taken from the oldest call of
\* the sensor instead of the id.
AnsweredByOldest(n, m) ==
  {i \in DOMAIN calls : /\ Pending(i) /\ calls[i].to = n
                        /\ \A j \in DOMAIN calls : Pending(j) /\ calls[j].to = n => i <= j}

\* pending[id]: the calls whose channel a reply goes to.
AnsweredBy(n, m) == {i \in DOMAIN calls : Pending(i) /\ calls[i].id = m.id}

\* A reply enters the call's channel unless one is already there; it is the
\* id that pairs them, not who answered.
Delivered(n, m) ==
  [i \in DOMAIN calls |->
     IF i \in AnsweredBy(n, m) /\ calls[i].ch = NoReply
     THEN [calls[i] EXCEPT !.ch = [status |-> m.status, call |-> m.call]]
     ELSE calls[i]]

\* Any frame opens the sensor's session or makes it fresh again.
touchSession(n) == session' = [session EXCEPT ![n] = "fresh"]

\* One frame: touchSession, then a heartbeat is published or a reply paired.
ReadLoop(n) ==
  /\ outbox[n] # <<>>
  /\ touchSession(n)
  /\ LET m == Head(outbox[n]) IN
     \/ m.kind = "event" /\ Publish /\ UNCHANGED calls
     \/ m.kind = "reply" /\ calls' = Delivered(n, m)
        /\ UNCHANGED <<published, browser, hist, unsaved>>
  /\ outbox' = [outbox EXCEPT ![n] = Tail(@)]
  /\ UNCHANGED <<byName, file, cancels, subs, nextSub, handler, bucket, ops,
                 fanouts, nextID, inbox, epoch, done>>

-----------------------------------------------------------------------------
(* Faults *)

\* 90 s without a frame from the sensor.
SessionStale(n) ==
  /\ session[n] = "fresh" /\ Fault("stale")
  /\ session' = [session EXCEPT ![n] = "stale"]
  /\ UNCHANGED <<feedVars, calls, fanouts, nextID, inbox, outbox, epoch, done>>

\* The sensor's process is restarted: what it had queued is gone.
SensorRestart(n) ==
  /\ inbox[n] # <<>> \/ outbox[n] # <<>>
  /\ Fault("sensor")
  /\ inbox' = [inbox EXCEPT ![n] = <<>>]
  /\ outbox' = [outbox EXCEPT ![n] = <<>>]
  /\ UNCHANGED <<feedVars, calls, fanouts, nextID, session, epoch, done>>

\* The fusion server dies and starts again; its ids start over, while what
\* the sensors have queued is still there.
FusionRestart ==
  /\ Fault("fusion")
  /\ Restarted
  /\ epoch' = epoch + 1
  /\ nextID' = 0
  /\ session' = [n \in Names |-> "none"]
  /\ UNCHANGED <<calls, fanouts, inbox, outbox, done>>

-----------------------------------------------------------------------------
Init ==
  /\ FeedInit
  /\ calls = <<>> /\ fanouts = 0 /\ nextID = 0 /\ epoch = 1 /\ done = <<>>
  /\ session = [n \in Names |-> "none"]
  /\ inbox = [n \in Names |-> <<>>] /\ outbox = [n \in Names |-> <<>>]

Next ==
  \/ FeedNext /\ UNCHANGED linkVars
  \/ \E h \in Handlers : FanoutStart(h)
  \/ \E h \in Handlers : FanoutDone(h)
  \/ \E i \in DOMAIN calls : ChooseTransport(i)
  \/ \E i \in DOMAIN calls : SendCommand(i)
  \/ \E i \in DOMAIN calls : TakeReply(i)
  \/ \E i \in DOMAIN calls : TimeOut(i)
  \/ \E i \in DOMAIN calls : HttpPost(i)
  \/ \E n \in Names : dealer_thread(n)
  \/ \E n \in Names : ReadLoop(n)
  \/ \E n \in Names : SessionStale(n)
  \/ \E n \in Names : SensorRestart(n)
  \/ FusionRestart

\* One step of a goroutine of a fan-out or of the handler that waits for them.
FanoutStep ==
  \/ \E i \in DOMAIN calls : \/ ChooseTransport(i) \/ SendCommand(i)
                             \/ TakeReply(i) \/ TimeOut(i) \/ HttpPost(i)
  \/ \E h \in Handlers : FanoutDone(h)

\* The goroutines of a fan-out are scheduled and their timers fire; nothing
\* is assumed of sensors or of the network.
Fairness == WF_vars(FanoutStep)

Spec == Init /\ [][Next]_vars
FairSpec == Spec /\ Fairness

-----------------------------------------------------------------------------
(* Properties *)

\* A call that reports a sensor's status was answered by a reply to that very
\* command, however replies are delayed past a timeout, reordered between
\* sensors or left over from an expired session, as long as the reply answers a
\* command of the running server (c2_router.go SendCommand, readLoop;
\* c2_dealer.c handle_command).
ReplyAnswersCall ==
  \A i \in DOMAIN calls :
    LET k == calls[i].result.call IN
    k # 0 /\ calls[k].epoch = calls[i].epoch => k = i

\* No command is carried out twice, and a call that reports success was
\* carried out: a timeout is not followed by a second attempt over HTTP
\* (c2.go fanoutCommand).
CarriedOutOnce ==
  /\ \A i \in DOMAIN calls : done[i] <= 1
  /\ \A i \in DOMAIN calls :
       calls[i].result.status = "200" /\ calls[i].result.call = i => done[i] = 1

\* Every fan-out request is answered, whatever the sensors do: no handler
\* waits for ever on a lost reply, a restarted sensor or a stale session
\* (c2.go wg.Wait, c2_router.go time.After).
FanoutReturns == \A h \in Handlers : handler[h].pc = "fanout" ~> handler[h].pc # "fanout"
=============================================================================
