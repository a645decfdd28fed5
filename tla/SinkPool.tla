------------------------------ MODULE SinkPool ------------------------------
(***************************************************************************)
(* The channelizer's PFB groups and the asynchronous sink worker pool      *)
(* (pfb.c, channelizer.c), and the runtime addition of a channel           *)
(* (instantiate_channel in main.c).                                        *)
(*                                                                         *)
(* One OpenMP thread per group runs pfb_process(): each output cycle       *)
(* appends one sample to every sink of the group, and a full buffer is     *)
(* swapped for a free one and queued for the worker that owns the channel. *)
(* The worker feeds the channel's decoder, returns the buffer and counts   *)
(* the group's work in flight down.  run_live() flushes all groups when    *)
(* the input has ended, and later destroys them and with the last one the  *)
(* pool.  A condition variable is a pc value "sleep_*", left on a signal   *)
(* or spuriously.                                                          *)
(***************************************************************************)
EXTENDS Integers, Sequences, FiniteSets

CONSTANTS
    Groups,         \* PFB groups, one per (BW, oversampling)
    Sinks,          \* channel ids
    Owner,          \* the group of each channel
    InitialSinks,   \* channels built before the input starts
    NWorkers,       \* g_pool.n_workers
    RingN,          \* SINK_RING_N
    QueueCap,       \* sink_worker_t.cap
    OutN,           \* PFB_OUTBUF_SAMPLES
    Warmup,         \* output cycles dropped for the filter's group delay
    MaxCalls,       \* bound: calls of channelizer_process_*()
    MaxAdded        \* bound: channels added while running

Workers == 0..(NWorkers - 1)
Bufs    == 1..RingN

ASSUME SinksAssumption ==
    /\ Sinks \subseteq Nat /\ NWorkers \in Nat \ {0}
    /\ RingN \in Nat \ {0, 1} /\ QueueCap \in Nat \ {0} /\ OutN \in Nat \ {0}
    /\ Warmup \in Nat /\ MaxCalls \in Nat /\ MaxAdded \in Nat
    /\ Owner \in [Sinks -> Groups]
    /\ InitialSinks \subseteq Sinks /\ InitialSinks # {}

VARIABLES
    phase,      \* run_live(): "process", "flush", "stop", "destroy", "join"...
    turn,       \* groups already flushed (or destroyed) in this phase
    calls,      \* calls of channelizer_process_*() so far
    live,       \* groups published in c->groups[0 .. n_groups)
    refcount,   \* g_pool.refcount
    shutdown,   \* g_pool.shutdown
    warm,       \* pfb_t.warmup_remaining
    sinks,      \* sinks published in some p->bins[] list
    demod,      \* g_demods[]: "none", "bare" (no callback yet), "ready"
    addPc, addSink,             \* the web or C2 thread adding a channel
    prodPc, todo, cur, sub,     \* per group, the thread that runs it
    active, count, buf, free,   \* bin_sink_t
    inflight,                   \* pfb_t.in_flight
    queue, workPc, work,        \* sink_worker_t
    emitted, fed                \* samples sent to a sink, fed to its decoder

addVars  == <<addPc, addSink>>
prodVars == <<prodPc, todo, cur, sub>>
sinkVars == <<active, count, buf, free>>
workVars == <<queue, workPc, work>>
mainVars == <<phase, turn, calls, live, refcount, shutdown, warm>>
vars == <<mainVars, sinks, demod, addVars, prodVars, sinkVars, inflight,
          workVars, emitted, fed>>

NoSink == -1
NoWork == [s |-> NoSink, b |-> 0, n |-> 0]

\* Fault: the shortest queue instead of the channel's own worker.
WorkerIdlest(s) ==
    CHOOSE w \in Workers : \A v \in Workers : Len(queue[w]) <= Len(queue[v])
WorkerOf(s) == s % NWorkers
SinksOf(p)  == {s \in sinks : Owner[s] = p}

Init ==
    /\ phase = "process" /\ turn = {} /\ calls = 0
    /\ live = {Owner[s] : s \in InitialSinks}
    /\ refcount = Cardinality(live)
    /\ shutdown = FALSE
    /\ warm = [p \in Groups |-> Warmup]
    /\ sinks = InitialSinks
    /\ demod = [s \in Sinks |-> IF s \in InitialSinks THEN "ready" ELSE "none"]
    /\ addPc = "idle" /\ addSink = NoSink
    /\ prodPc = [p \in Groups |-> "idle"]
    /\ todo = [p \in Groups |-> {}]
    /\ cur = [p \in Groups |-> NoSink]
    /\ sub = [p \in Groups |-> NoWork]
    /\ active = [s \in Sinks |-> 1]
    /\ count = [s \in Sinks |-> 0]
    /\ buf = [s \in Sinks |-> [b \in Bufs |-> <<>>]]
    /\ free = [s \in Sinks |-> [i \in 1..(RingN - 1) |-> i + 1]]
    /\ inflight = [p \in Groups |-> 0]
    /\ queue = [w \in Workers |-> <<>>]
    /\ workPc = [w \in Workers |-> "loop"]
    /\ work = [w \in Workers |-> NoWork]
    /\ emitted = [s \in Sinks |-> <<>>]
    /\ fed = [s \in Sinks |-> <<>>]

\* The sinks are visited in the order of their bins.
NextSink(p) == {s \in todo[p] : \A t \in todo[p] : s <= t}

Quiet == \A p \in Groups : prodPc[p] = "idle"

-----------------------------------------------------------------------------
(* channelizer_process_*(): one output cycle of every published group.     *)

StartCall ==
    /\ phase = "process" /\ Quiet
    /\ calls < MaxCalls
    /\ calls' = calls + 1
    /\ warm' = [p \in Groups |-> IF p \in live /\ warm[p] > 0
                                 THEN warm[p] - 1 ELSE warm[p]]
    /\ prodPc' = [p \in Groups |-> IF p \in live /\ warm[p] = 0
                                   THEN "emit" ELSE "idle"]
    /\ todo' = [p \in Groups |-> IF p \in live /\ warm[p] = 0
                                 THEN SinksOf(p) ELSE {}]
    /\ UNCHANGED <<phase, turn, live, refcount, shutdown, sinks, demod,
                   addVars, cur, sub, sinkVars, inflight, workVars, emitted,
                   fed>>

\* emit_to_bin(): one sample (the number of the call) to one sink.
Emit(p) ==
    /\ phase = "process" /\ prodPc[p] = "emit"
    /\ \E s \in NextSink(p) :
         LET b == active[s] IN
         /\ buf' = [buf EXCEPT ![s][b] =
                      Append(SubSeq(@, 1, count[s]), calls)]
         /\ count' = [count EXCEPT ![s] = @ + 1]
         /\ emitted' = [emitted EXCEPT ![s] = Append(@, calls)]
         /\ todo' = [todo EXCEPT ![p] = @ \ {s}]
         /\ IF count[s] + 1 = OutN
            THEN /\ cur' = [cur EXCEPT ![p] = s]
                 /\ prodPc' = [prodPc EXCEPT ![p] = "take"]
            ELSE UNCHANGED <<cur, prodPc>>
    /\ UNCHANGED <<mainVars, sinks, demod, addVars, sub, active, free,
                   inflight, workVars, fed>>

\* pfb_flush(): flush_sink() on one sink; an empty buffer is left alone.
FlushSink(p) ==
    /\ phase \in {"flush", "destroy"} /\ prodPc[p] = "emit"
    /\ \E s \in NextSink(p) :
         /\ todo' = [todo EXCEPT ![p] = @ \ {s}]
         /\ IF count[s] > 0
            THEN /\ cur' = [cur EXCEPT ![p] = s]
                 /\ prodPc' = [prodPc EXCEPT ![p] = "take"]
            ELSE UNCHANGED <<cur, prodPc>>
    /\ UNCHANGED <<mainVars, sinks, demod, addVars, sub, sinkVars, inflight,
                   workVars, emitted, fed>>

AllEmitted(p) ==
    /\ prodPc[p] = "emit" /\ todo[p] = {}
    /\ prodPc' = [prodPc EXCEPT ![p] = IF phase = "process" THEN "idle"
                                       ELSE "drain"]
    /\ UNCHANGED <<mainVars, sinks, demod, addVars, todo, cur, sub, sinkVars,
                   inflight, workVars, emitted, fed>>

\* Fault: the full buffer is submitted and stays the active one.
TakeKeepsActive(p) ==
    LET s == cur[p] IN
    /\ prodPc[p] = "take"
    /\ count' = [count EXCEPT ![s] = 0]
    /\ sub' = [sub EXCEPT ![p] = [s |-> s, b |-> active[s], n |-> count[s]]]
    /\ prodPc' = [prodPc EXCEPT ![p] = "bump"]
    /\ UNCHANGED <<mainVars, sinks, demod, addVars, todo, cur, active, free,
                   buf, inflight, workVars, emitted, fed>>

\* flush_sink(): swap the full buffer for a free one, or sleep on free_cv.
Take(p) ==
    LET s == cur[p]
        f == free[s]
    IN  /\ prodPc[p] = "take"
        /\ IF f = <<>>
           THEN /\ prodPc' = [prodPc EXCEPT ![p] = "sleep_free"]
                /\ UNCHANGED <<active, free, count, sub>>
           ELSE /\ active' = [active EXCEPT ![s] = f[Len(f)]]
                /\ free' = [free EXCEPT ![s] = SubSeq(f, 1, Len(f) - 1)]
                /\ count' = [count EXCEPT ![s] = 0]
                /\ sub' = [sub EXCEPT ![p] =
                             [s |-> s, b |-> active[s], n |-> count[s]]]
                /\ prodPc' = [prodPc EXCEPT ![p] = "bump"]
        /\ UNCHANGED <<mainVars, sinks, demod, addVars, todo, cur, buf,
                       inflight, workVars, emitted, fed>>

\* sink_submit(): in_flight goes up before the work is queued.
Bump(p) ==
    /\ prodPc[p] = "bump"
    /\ inflight' = [inflight EXCEPT ![p] = @ + 1]
    /\ prodPc' = [prodPc EXCEPT ![p] = "put"]
    /\ UNCHANGED <<mainVars, sinks, demod, addVars, todo, cur, sub, sinkVars,
                   workVars, emitted, fed>>

\* Enqueue and signal not_empty, or sleep on not_full.
Put(p) ==
    LET w == WorkerOf(cur[p]) IN
    /\ prodPc[p] = "put"
    /\ IF Len(queue[w]) = QueueCap
       THEN /\ prodPc' = [prodPc EXCEPT ![p] = "sleep_full"]
            /\ UNCHANGED <<cur, sub, queue, workPc>>
       ELSE /\ queue' = [queue EXCEPT ![w] = Append(@, sub[p])]
            /\ workPc' = [workPc EXCEPT ![w] = IF @ = "sleep" THEN "loop" ELSE @]
            /\ prodPc' = [prodPc EXCEPT ![p] = "emit"]
            /\ cur' = [cur EXCEPT ![p] = NoSink]
            /\ sub' = [sub EXCEPT ![p] = NoWork]
    /\ UNCHANGED <<mainVars, sinks, demod, addVars, todo, sinkVars, inflight,
                   work, emitted, fed>>

\* Fault: the flush does not wait for the work in flight.
DrainAtOnce(p) ==
    /\ prodPc[p] = "drain"
    /\ prodPc' = [prodPc EXCEPT ![p] = "idle"]
    /\ UNCHANGED <<mainVars, sinks, demod, addVars, todo, cur, sub, sinkVars,
                   inflight, workVars, emitted, fed>>

\* pfb_flush(): wait until nothing of this group is in flight.
Drain(p) ==
    /\ prodPc[p] = "drain"
    /\ prodPc' = [prodPc EXCEPT ![p] = IF inflight[p] > 0 THEN "sleep_flush"
                                       ELSE "idle"]
    /\ UNCHANGED <<mainVars, sinks, demod, addVars, todo, cur, sub, sinkVars,
                   inflight, workVars, emitted, fed>>

Producer(p) ==
    Emit(p) \/ FlushSink(p) \/ AllEmitted(p) \/ Take(p) \/ Bump(p) \/ Put(p)
    \/ Drain(p)

-----------------------------------------------------------------------------
(* sink_worker_main().                                                     *)

WorkerIdle(w) ==
    /\ workPc[w] = "loop" /\ queue[w] = <<>>
    /\ workPc' = [workPc EXCEPT ![w] = IF shutdown THEN "exited" ELSE "sleep"]
    /\ UNCHANGED <<mainVars, sinks, demod, addVars, prodVars, sinkVars,
                   inflight, queue, work, emitted, fed>>

\* The producers asleep on w's not_full.
SleepOnFull(w) ==
    {p \in Groups : prodPc[p] = "sleep_full" /\ WorkerOf(cur[p]) = w}

\* Fault: no signal of not_full.
WorkerGetSilent(w) ==
    /\ workPc[w] = "loop" /\ queue[w] # <<>>
    /\ work' = [work EXCEPT ![w] = Head(queue[w])]
    /\ queue' = [queue EXCEPT ![w] = Tail(@)]
    /\ workPc' = [workPc EXCEPT ![w] = "feed"]
    /\ UNCHANGED <<mainVars, sinks, demod, addVars, prodVars, sinkVars,
                   inflight, emitted, fed>>

\* Dequeue, and signal one of them.
WorkerGet(w) ==
    /\ workPc[w] = "loop" /\ queue[w] # <<>>
    /\ work' = [work EXCEPT ![w] = Head(queue[w])]
    /\ queue' = [queue EXCEPT ![w] = Tail(@)]
    /\ workPc' = [workPc EXCEPT ![w] = "feed"]
    /\ IF SleepOnFull(w) = {} THEN UNCHANGED prodPc
       ELSE \E p \in SleepOnFull(w) : prodPc' = [prodPc EXCEPT ![p] = "put"]
    /\ UNCHANGED <<mainVars, sinks, demod, addVars, todo, cur, sub, sinkVars,
                   inflight, emitted, fed>>

\* on_channel_baseband(): feed the decoder if the channel has one.
WorkerFeed(w) ==
    LET s == work[w].s IN
    /\ workPc[w] = "feed"
    /\ fed' = IF demod[s] = "none" THEN fed
              ELSE [fed EXCEPT ![s] =
                      @ \o SubSeq(buf[s][work[w].b], 1, work[w].n)]
    /\ workPc' = [workPc EXCEPT ![w] = "return"]
    /\ UNCHANGED <<mainVars, sinks, demod, addVars, prodVars, sinkVars,
                   inflight, queue, work, emitted>>

\* Return the buffer and signal the producer asleep on the sink's free_cv.
WorkerReturn(w) ==
    LET s == work[w].s
        p == Owner[s]
    IN  /\ workPc[w] = "return"
        /\ free' = [free EXCEPT ![s] = Append(@, work[w].b)]
        /\ prodPc' = [prodPc EXCEPT ![p] =
                        IF @ = "sleep_free" /\ cur[p] = s THEN "take" ELSE @]
        /\ workPc' = [workPc EXCEPT ![w] = "dec"]
        /\ UNCHANGED <<mainVars, sinks, demod, addVars, todo, cur, sub, active,
                       count, buf, inflight, queue, work, emitted, fed>>

\* Count in_flight down; the last one goes on to signal the flush.
WorkerDec(w) ==
    LET p == Owner[work[w].s] IN
    /\ workPc[w] = "dec"
    /\ inflight' = [inflight EXCEPT ![p] = @ - 1]
    /\ workPc' = [workPc EXCEPT ![w] = IF inflight[p] = 1 THEN "signal"
                                       ELSE "loop"]
    /\ UNCHANGED <<mainVars, sinks, demod, addVars, prodVars, sinkVars, queue,
                   work, emitted, fed>>

WorkerSignal(w) ==
    LET p == Owner[work[w].s] IN
    /\ workPc[w] = "signal"
    /\ prodPc' = [prodPc EXCEPT ![p] = IF @ = "sleep_flush" THEN "drain" ELSE @]
    /\ workPc' = [workPc EXCEPT ![w] = "loop"]
    /\ UNCHANGED <<mainVars, sinks, demod, addVars, todo, cur, sub, sinkVars,
                   inflight, queue, work, emitted, fed>>

Worker(w) ==
    WorkerIdle(w) \/ WorkerGet(w) \/ WorkerFeed(w) \/ WorkerReturn(w)
    \/ WorkerDec(w) \/ WorkerSignal(w)

-----------------------------------------------------------------------------
(* app_add_runtime_extra_freq(), while the web server and C2 are up.       *)

AddChannel(s) ==
    /\ addPc = "idle" /\ s \notin sinks
    /\ Cardinality(sinks \ InitialSinks) < MaxAdded
    /\ phase \in {"process", "flush", "stop"}
    /\ addPc' = IF Owner[s] \in live THEN "register" ELSE "create"
    /\ addSink' = s
    /\ UNCHANGED <<mainVars, sinks, demod, prodVars, sinkVars, inflight,
                   workVars, emitted, fed>>

\* Fault: the new group takes no reference on the pool.
CreateGroupUncounted ==
    /\ addPc = "create"
    /\ live' = live \cup {Owner[addSink]}
    /\ addPc' = "register"
    /\ UNCHANGED <<phase, turn, calls, refcount, shutdown, warm, sinks, demod,
                   addSink, prodVars, sinkVars, inflight, workVars, emitted,
                   fed>>

\* find_or_create_group(): the group is published when it is complete.
CreateGroup ==
    /\ addPc = "create"
    /\ refcount' = refcount + 1
    /\ live' = live \cup {Owner[addSink]}
    /\ addPc' = "register"
    /\ UNCHANGED <<phase, turn, calls, shutdown, warm, sinks, demod, addSink,
                   prodVars, sinkVars, inflight, workVars, emitted, fed>>

\* pfb_register_bin(): a cycle or flush under way may or may not have passed
\* the bin already.
Register ==
    LET p == Owner[addSink] IN
    /\ addPc = "register"
    /\ sinks' = sinks \cup {addSink}
    /\ addPc' = "decoder"
    /\ \/ UNCHANGED todo
       \/ /\ prodPc[p] = "emit" /\ todo[p] # {}
          /\ todo' = [todo EXCEPT ![p] = @ \cup {addSink}]
    /\ UNCHANGED <<mainVars, demod, addSink, prodPc, cur, sub, sinkVars,
                   inflight, workVars, emitted, fed>>

\* instantiate_channel(): the decoder is created, then given its callback.
CreateDecoder ==
    /\ addPc = "decoder"
    /\ demod' = [demod EXCEPT ![addSink] = "bare"]
    /\ addPc' = "configure"
    /\ UNCHANGED <<mainVars, sinks, addSink, prodVars, sinkVars, inflight,
                   workVars, emitted, fed>>

Configure ==
    /\ addPc = "configure"
    /\ demod' = [demod EXCEPT ![addSink] = "ready"]
    /\ addPc' = "idle" /\ addSink' = NoSink
    /\ UNCHANGED <<mainVars, sinks, prodVars, sinkVars, inflight, workVars,
                   emitted, fed>>

Adder == CreateGroup \/ Register \/ CreateDecoder \/ Configure

-----------------------------------------------------------------------------
(* run_live() after the input has ended.                                   *)

EndInput ==
    /\ phase = "process" /\ Quiet
    /\ phase' = "flush"
    /\ UNCHANGED <<turn, calls, live, refcount, shutdown, warm, sinks, demod,
                   addVars, prodVars, sinkVars, inflight, workVars, emitted,
                   fed>>

\* pfb_flush() on the next group, for channelizer_flush() or pfb_destroy().
FlushGroup(p) ==
    /\ phase \in {"flush", "destroy"} /\ Quiet
    /\ p \in live \ turn
    /\ phase = "destroy" => turn \cap live = {}
    /\ turn' = turn \cup {p}
    /\ todo' = [todo EXCEPT ![p] = SinksOf(p)]
    /\ prodPc' = [prodPc EXCEPT ![p] = "emit"]
    /\ UNCHANGED <<phase, calls, live, refcount, shutdown, warm, sinks, demod,
                   addVars, cur, sub, sinkVars, inflight, workVars, emitted,
                   fed>>

FlushDone ==
    /\ phase = "flush" /\ Quiet
    /\ live \subseteq turn
    /\ phase' = "stop"
    /\ UNCHANGED <<turn, calls, live, refcount, shutdown, warm, sinks, demod,
                   addVars, prodVars, sinkVars, inflight, workVars, emitted,
                   fed>>

\* web_shutdown() and c2_dealer_shutdown() have returned.
StartDestroy ==
    /\ phase = "stop" /\ addPc = "idle"
    /\ phase' = "destroy" /\ turn' = {}
    /\ UNCHANGED <<calls, live, refcount, shutdown, warm, sinks, demod,
                   addVars, prodVars, sinkVars, inflight, workVars, emitted,
                   fed>>

\* pfb_destroy() after its flush: the last group shuts the pool down.
DestroyGroup(p) ==
    /\ phase = "destroy" /\ Quiet
    /\ p \in live \cap turn
    /\ live' = live \ {p}
    /\ refcount' = refcount - 1
    /\ IF refcount = 1
       THEN /\ shutdown' = TRUE
            /\ phase' = "join"
            /\ workPc' = [w \in Workers |-> IF workPc[w] = "sleep" THEN "loop"
                                            ELSE workPc[w]]
       ELSE UNCHANGED <<shutdown, phase, workPc>>
    /\ UNCHANGED <<turn, calls, warm, sinks, demod, addVars, prodVars,
                   sinkVars, inflight, queue, work, emitted, fed>>

JoinPool ==
    /\ phase = "join"
    /\ \A w \in Workers : workPc[w] = "exited"
    /\ phase' = "done"
    /\ UNCHANGED <<turn, calls, live, refcount, shutdown, warm, sinks, demod,
                   addVars, prodVars, sinkVars, inflight, workVars, emitted,
                   fed>>

Main ==
    \/ FlushDone \/ StartDestroy \/ JoinPool
    \/ \E p \in Groups : FlushGroup(p) \/ DestroyGroup(p)

\* POSIX condition variables may wake without a signal; every wait of the
\* code is a loop that looks again.  Nothing may depend on it: not fair.
SpuriousWakeup ==
    /\ \/ \E p \in Groups :
            \E w \in {<<"sleep_free", "take">>, <<"sleep_full", "put">>,
                      <<"sleep_flush", "drain">>} :
              /\ prodPc[p] = w[1]
              /\ prodPc' = [prodPc EXCEPT ![p] = w[2]]
              /\ UNCHANGED workPc
       \/ \E w \in Workers :
            /\ workPc[w] = "sleep"
            /\ workPc' = [workPc EXCEPT ![w] = "loop"]
            /\ UNCHANGED prodPc
    /\ UNCHANGED <<mainVars, sinks, demod, addVars, todo, cur, sub, sinkVars,
                   inflight, queue, work, emitted, fed>>

Terminated == phase = "done" /\ UNCHANGED vars

Next ==
    \/ StartCall \/ EndInput \/ Adder \/ Main
    \/ SpuriousWakeup \/ Terminated
    \/ \E p \in Groups : Producer(p)
    \/ \E w \in Workers : Worker(w)
    \/ \E s \in Sinks : AddChannel(s)

Spec == Init /\ [][Next]_vars

\* Every thread runs when it can; no new call, channel or end of input is
\* promised.
FairSpec ==
    /\ Spec
    /\ \A p \in Groups : WF_vars(Producer(p))
    /\ \A w \in Workers : WF_vars(Worker(w))
    /\ WF_vars(Adder) /\ WF_vars(Main)

-----------------------------------------------------------------------------
(* Properties.                                                             *)

\* Work of sink s somewhere between flush_sink() and the buffer's return.
Holding(w)  == workPc[w] \in {"feed", "return"}
Submitting  == {p \in Groups : prodPc[p] \in {"bump", "put", "sleep_full"}}
QueuedBufs(s) ==
    [i \in {<<w, k>> \in Workers \X (1..QueueCap) :
              k <= Len(queue[w]) /\ queue[w][k].s = s} |-> queue[i[1]][i[2]].b]
HeldBufs(s) == [w \in {v \in Workers : Holding(v) /\ work[v].s = s} |-> work[w].b]
SentBufs(s) == [p \in {q \in Submitting : cur[q] = s} |-> sub[p].b]

Image(f) == {f[x] : x \in DOMAIN f}

\* Every buffer of a sink is in one place: active, on the free stack, being
\* submitted, queued, or with a worker.  In particular the producer never
\* writes into a buffer a worker may still read.
OneHolder ==
    \A s \in Sinks :
        /\ Cardinality(DOMAIN free[s]) + Cardinality(DOMAIN QueuedBufs(s))
           + Cardinality(DOMAIN HeldBufs(s)) + Cardinality(DOMAIN SentBufs(s))
           + 1 = RingN
        /\ Image(free[s]) \cup Image(QueuedBufs(s)) \cup Image(HeldBufs(s))
           \cup Image(SentBufs(s)) \cup {active[s]} = Bufs

IsPrefixOf(a, b) == Len(a) <= Len(b) /\ SubSeq(b, 1, Len(a)) = a

\* "preserving per-channel sample order", "no sample drops": a channel built
\* before the input starts is fed its samples in order, without a gap; one
\* added later misses a beginning and then has no gap either.  And no buffer
\* on the way has two holders.
InOrder ==
    /\ OneHolder
    /\ \A s \in Sinks :
          IF s \in InitialSinks THEN IsPrefixOf(fed[s], emitted[s])
          ELSE \E k \in 0..Len(emitted[s]) :
                 IsPrefixOf(fed[s], SubSeq(emitted[s], k + 1, Len(emitted[s])))

\* The pool is shut down only when no work is left, so no worker exits with
\* a buffer in its queue and no group is left with work in flight.
PoolOutlivesWork ==
    /\ refcount = Cardinality(live)
    /\ shutdown => /\ live = {}
                   /\ \A p \in Groups : inflight[p] = 0
                   /\ \A w \in Workers : queue[w] = <<>>

\* When channelizer_flush() has returned, every sample the channelizer put
\* out has been through its decoder, partial buffers included, and no sink,
\* not even one added during the flush, holds a sample: run_live() destroys
\* the decoders before pfb_destroy() flushes again.  The pool outlives its
\* work in every phase.
FlushComplete ==
    /\ PoolOutlivesWork
    /\ phase \in {"stop", "destroy", "join", "done"} =>
          /\ \A s \in InitialSinks : fed[s] = emitted[s]
          /\ \A s \in Sinks : count[s] = 0
          /\ \A p \in Groups : inflight[p] = 0

\* No lost wakeup: however small the queue and the free stack are, a call of
\* channelizer_process_*() or pfb_flush() returns, and a shutdown that has
\* begun completes: all groups flushed and destroyed, every worker joined.
CallsReturn == []<>(Quiet /\ phase \in {"process", "done"})
=============================================================================
