----------------------------- MODULE FusionFeed -----------------------------
(***************************************************************************)
(* The fusion server's event side: the sensor registry and the pool of    *)
(* subscriber goroutines it drives (fusion/sensors.go), the hub that       *)
(* replays and fans events out to browsers (fusion/web.go) and the         *)
(* "events" bucket that survives a restart (fusion/store.go).              *)
(*                                                                         *)
(* An event is the number of its publication.  A sensor is a name and the  *)
(* endpoint it publishes on.  The registry's lock, the pool's lock, the    *)
(* hub's lock and a bbolt transaction are each one step; what the code     *)
(* does between two of them is where the handlers interleave.              *)
(***************************************************************************)
EXTENDS Integers, Sequences, FiniteSets, SequencesExt

CONSTANTS
  Names,        \* sensor names
  Endpoints,    \* zmq endpoints
  NoEp,         \* "not registered"
  Offered,      \* the <<name, endpoint>> pairs operators register
  Handlers,     \* HTTP handlers that can run at the same time, numbered
  Browsers,     \* clients of /events
  Files,        \* the sensors files the first start may find
  HistorySize,  \* sseHistorySize
  MaxEntries,   \* EventStore.maxEntries
  ChanCap,      \* capacity of a client's channel
  MaxOps        \* bound: requests, events, commands and faults in a behaviour

ASSUME FeedAssumption ==
  /\ NoEp \notin Endpoints /\ Handlers \subseteq Nat
  /\ Offered \subseteq Names \X Endpoints
  /\ Files \subseteq [Names -> Endpoints \cup {NoEp}]
  /\ HistorySize \in Nat \ {0} /\ MaxEntries \in Nat \ {0}
  /\ ChanCap \in Nat \ {0} /\ MaxOps \in Nat

VARIABLES
  byName,     \* Registry.byName: name -> endpoint or NoEp
  file,       \* the sensors file as last renamed into place
  cancels,    \* SubscriberPool.cancels: name -> subscriber id, 0 when absent
  subs,       \* subscriber goroutines that have not returned
  nextSub,    \* ids handed to subscriber goroutines
  handler,    \* what each HTTP handler is doing
  published,  \* events published so far
  hist,       \* SSEHub.history, oldest first
  browser,    \* Browser -> its channel and what its connection was sent
  bucket,     \* the events bucket, in key order
  unsaved,    \* published events whose Append has not committed
  ops         \* stimuli used up

feedVars == <<byName, file, cancels, subs, nextSub, handler, published, hist,
              browser, bucket, unsaved>>

Registered == {n \in Names : byName[n] # NoEp}

Idle == [pc |-> "idle"]

\* net/http gives every request a goroutine of its own; the free slot of
\* least number stands for the new one.
Free(h) == handler[h] = Idle /\ \A g \in Handlers : g < h => handler[g] # Idle

\* A stimulus from outside: an HTTP request, a frame, a fault.
Stimulus == ops < MaxOps /\ ops' = ops + 1

-----------------------------------------------------------------------------
(* SubscriberPool *)

Cancelled(S, id) == {IF s.id = id THEN [s EXCEPT !.stop = TRUE] ELSE s : s \in S}

\* Pool.Add without cancelling the subscriber it replaces.
PoolAddKeep(n, ep) ==
  /\ subs' = subs \cup {[id |-> nextSub, name |-> n, ep |-> ep, stop |-> FALSE]}
  /\ cancels' = [cancels EXCEPT ![n] = nextSub]
  /\ nextSub' = nextSub + 1

\* Cancels the previous subscriber of the name, then starts one.
PoolAdd(n, ep) ==
  /\ subs' = Cancelled(subs, cancels[n])
             \cup {[id |-> nextSub, name |-> n, ep |-> ep, stop |-> FALSE]}
  /\ cancels' = [cancels EXCEPT ![n] = nextSub]
  /\ nextSub' = nextSub + 1

PoolRemove(n) ==
  /\ subs' = Cancelled(subs, cancels[n])
  /\ cancels' = [cancels EXCEPT ![n] = 0]
  /\ UNCHANGED nextSub

\* The goroutine returns: its context was cancelled, or Dial or Recv failed.
\* A failure leaves its entry in cancels, and nothing starts it again.
SubscriberEnds(s) ==
  /\ s \in subs
  /\ IF s.stop THEN UNCHANGED ops ELSE Stimulus
  /\ subs' = subs \ {s}
  /\ UNCHANGED <<byName, file, cancels, nextSub, handler, published, hist,
                 browser, bucket, unsaved>>

-----------------------------------------------------------------------------
(* Registry *)

\* saveLocked: the new map goes to a temporary file that is renamed into
\* place, so a save that fails leaves the old file whole.
saveLocked(saved) == file' = IF saved THEN byName' ELSE file

\* POST /api/sensors, under Registry.mu: the map is set before saveLocked,
\* and stays set when the save fails.
RegistryAdd(h, n, ep) ==
  /\ Free(h)
  /\ Stimulus
  /\ byName' = [byName EXCEPT ![n] = ep]
  /\ \/ /\ saveLocked(TRUE)
        /\ handler' = [handler EXCEPT ![h] =
             IF byName[n] = ep THEN Idle
             ELSE [pc |-> IF byName[n] = NoEp THEN "subscribe" ELSE "replace",
                   name |-> n, ep |-> ep]]
     \/ saveLocked(FALSE) /\ UNCHANGED handler
  /\ UNCHANGED <<cancels, subs, nextSub, published, hist, browser, bucket, unsaved>>

\* DELETE /api/sensors/<name>, under Registry.mu.
RegistryRemove(h, n) ==
  /\ Free(h) /\ byName[n] # NoEp
  /\ Stimulus
  /\ byName' = [byName EXCEPT ![n] = NoEp]
  /\ \/ /\ saveLocked(TRUE)
        /\ handler' = [handler EXCEPT ![h] = [pc |-> "unsubscribe", name |-> n, ep |-> NoEp]]
     \/ saveLocked(FALSE) /\ UNCHANGED handler
  /\ UNCHANGED <<cancels, subs, nextSub, published, hist, browser, bucket, unsaved>>

\* The rest of Registry.Add and Registry.Remove, after Registry.mu is
\* released: each pool call takes SubscriberPool.mu on its own.
RegistryPool(h) ==
  LET r == handler[h] IN
  /\ \/ /\ r.pc = "replace" /\ PoolRemove(r.name)
        /\ handler' = [handler EXCEPT ![h].pc = "subscribe"]
     \/ /\ r.pc = "subscribe" /\ PoolAdd(r.name, r.ep)
        /\ handler' = [handler EXCEPT ![h] = Idle]
     \/ /\ r.pc = "unsubscribe" /\ PoolRemove(r.name)
        /\ handler' = [handler EXCEPT ![h] = Idle]
  /\ UNCHANGED <<byName, file, published, hist, browser, bucket, unsaved, ops>>

-----------------------------------------------------------------------------
(* SSEHub and EventStore *)

LastOf(s, n) == SubSeq(s, IF Len(s) > n THEN Len(s) - n + 1 ELSE 1, Len(s))

\* Append followed by the trim of the same transaction.
EventAppend(b, e) == LastOf(Append(b, e), MaxEntries)

\* The non-blocking send of one event to one client's channel.
Offer(c, e) ==
  CASE ~c.on                -> c
    [] c.on /\ Len(c.chan) < ChanCap -> [c EXCEPT !.chan = Append(@, e)]
    [] OTHER                -> [c EXCEPT !.missed = @ \cup {e}]

\* SSEHub.Publish up to the release of its lock.
Publish ==
  /\ published' = published + 1
  /\ browser' = [b \in Browsers |-> Offer(browser[b], published')]
  /\ hist' = LastOf(Append(hist, published'), HistorySize)
  /\ unsaved' = unsaved \cup {published'}

\* store.Append, after the hub's lock is released: publishers race for it.
SaveEvent(e) ==
  /\ e \in unsaved
  /\ unsaved' = unsaved \ {e}
  /\ bucket' = EventAppend(bucket, e)
  /\ UNCHANGED <<byName, file, cancels, subs, nextSub, handler, published, hist,
                 browser, ops>>

\* A subscriber receives a message and publishes it; a cancelled one notices
\* afterwards.  (Its copy for the cluster loop goes over the raw channel, which
\* FusionEvidence starts from.)
Deliver(s) ==
  /\ s \in subs
  /\ Stimulus
  /\ Publish
  /\ subs' = IF s.stop THEN subs \ {s} ELSE subs
  /\ UNCHANGED <<byName, file, cancels, nextSub, handler, bucket>>

\* register() that joins the clients first and copies the history without
\* the lock: an event published in between is in both.
RegisterEarly(b) ==
  /\ ~browser[b].on
  /\ Stimulus
  /\ browser' = [browser EXCEPT ![b] =
       [on |-> TRUE, chan |-> LastOf(hist, 1), sent |-> hist, missed |-> {},
        since |-> published]]
  /\ UNCHANGED <<byName, file, cancels, subs, nextSub, handler, published, hist,
                 bucket, unsaved>>

\* GET /events: register() copies the history and adds the client under
\* the hub's lock; the handler writes the history out first.
Register(b) ==
  /\ ~browser[b].on
  /\ Stimulus
  /\ browser' = [browser EXCEPT ![b] =
       [on |-> TRUE, chan |-> <<>>, sent |-> hist, missed |-> {}, since |-> published]]
  /\ UNCHANGED <<byName, file, cancels, subs, nextSub, handler, published, hist,
                 bucket, unsaved>>

\* The /events handler takes one event from its channel and writes it.
SendToBrowser(b) ==
  /\ browser[b].on /\ browser[b].chan # <<>>
  /\ browser' = [browser EXCEPT ![b].sent = Append(@, Head(browser[b].chan)),
                                ![b].chan = Tail(@)]
  /\ UNCHANGED <<byName, file, cancels, subs, nextSub, handler, published, hist,
                 bucket, unsaved, ops>>

Gone == [on |-> FALSE, chan |-> <<>>, sent |-> <<>>, missed |-> {}, since |-> 0]

\* The connection closes: unregister().
Unregister(b) ==
  /\ browser[b].on
  /\ Stimulus
  /\ browser' = [browser EXCEPT ![b] = Gone]
  /\ UNCHANGED <<byName, file, cancels, subs, nextSub, handler, published, hist,
                 bucket, unsaved>>

-----------------------------------------------------------------------------
(* Start-up *)

\* HydrateFromStore: the history is what the bucket's newest entries are.
Hydrate == LastOf(bucket, HistorySize)

\* NewRegistry subscribes to every sensor of the file.
Loaded(f, id) == {[id |-> id[n], name |-> n, ep |-> f[n], stop |-> FALSE] :
                    n \in {m \in Names : f[m] # NoEp}}

\* Subscriber ids for the sensors NewRegistry loads.
LoadIds(from) == LET order == SetToSeq(Names) IN
  [n \in Names |-> from - 1 + CHOOSE k \in DOMAIN order : order[k] = n]

LoadedCancels(f, id) == [n \in Names |-> IF f[n] = NoEp THEN 0 ELSE id[n]]

\* The process dies and starts again on the same files.
Restarted ==
  /\ byName' = file
  /\ subs' = Loaded(file, LoadIds(nextSub))
  /\ cancels' = LoadedCancels(file, LoadIds(nextSub))
  /\ nextSub' = nextSub + Cardinality(Names)
  /\ handler' = [h \in Handlers |-> Idle]
  /\ browser' = [b \in Browsers |-> Gone]
  /\ hist' = Hydrate
  /\ unsaved' = {}
  /\ UNCHANGED <<file, published, bucket>>

FeedInit ==
  /\ file \in Files /\ byName = file
  /\ subs = Loaded(file, LoadIds(1)) /\ cancels = LoadedCancels(file, LoadIds(1))
  /\ nextSub = 1 + Cardinality(Names)
  /\ handler = [h \in Handlers |-> Idle]
  /\ published = 0 /\ hist = <<>> /\ bucket = <<>> /\ unsaved = {}
  /\ browser = [b \in Browsers |-> Gone]
  /\ ops = 0

FeedNext ==
  \/ \E h \in Handlers, o \in Offered : RegistryAdd(h, o[1], o[2])
  \/ \E h \in Handlers, n \in Names : RegistryRemove(h, n)
  \/ \E h \in Handlers : RegistryPool(h)
  \/ \E s \in subs : SubscriberEnds(s)
  \/ \E s \in subs : Deliver(s)
  \/ \E e \in unsaved : SaveEvent(e)
  \/ \E b \in Browsers : Register(b)
  \/ \E b \in Browsers : SendToBrowser(b)
  \/ \E b \in Browsers : Unregister(b)

-----------------------------------------------------------------------------
(* Properties *)

\* However requests interleave between the registry's lock and the pool's,
\* a subscriber goroutine that has not been told to stop is the one the pool
\* can still stop: none is orphaned by a replacement (sensors.go Pool.Add,
\* Pool.Remove).
NoOrphanSubscriber == \A s \in subs : s.stop \/ cancels[s.name] = s.id

\* A browser is sent no event twice and, from the moment it registered,
\* every event published is sent, queued or was dropped at a full channel:
\* nothing falls between the history it is replayed and the live events, also
\* when the history was hydrated after a restart (web.go register, Publish).
BrowserGapless ==
  \A b \in Browsers :
    LET c == browser[b]
        q == c.sent \o c.chan
    IN c.on => /\ IsInjective(q)
               /\ Range(q) \cap c.missed = {}
               /\ (c.since + 1)..published \subseteq Range(q) \cup c.missed
=============================================================================
