----------------------------- MODULE SamplePump -----------------------------
(***************************************************************************)
(* The sample pump of main.c: push_samples() called by the input thread,   *)
(* the sample-pump thread that owns process_sample_buf(), the drain that   *)
(* file_src.c calls at end of file, and the start/stop calls of            *)
(* run_live().                                                             *)
(*                                                                         *)
(* One action per critical section of g_sample_pump.mu, plus one per       *)
(* unlocked call of process_sample_buf().  A thread asleep on a condition  *)
(* variable is at a "wait_*" label; a signal moves it to the label at      *)
(* which it re-evaluates its loop condition.  Buffers are numbered in the  *)
(* order the input thread reads them.                                      *)
(***************************************************************************)
EXTENDS Naturals

CONSTANTS
    Cap,        \* ring capacity (MESHTASTIC_SAMPLE_QUEUE, 64 or 256)
    NBuf        \* bound: buffers the input thread reads in one run

ASSUME CapAssumption  == Cap \in Nat \ {0}
ASSUME NBufAssumption == NBuf \in Nat

NoBuf    == 0
Bufs     == 1..NBuf
Backends == {"sdr", "file", "vita49"}

VARIABLES
    backend,    \* which input backend run_live() drives
    running,    \* the global run flag, cleared by SIGINT or at end of file
    mainPc,     \* run_live()
    inPc,       \* the input thread
    inBuf,      \* number of the last buffer the input thread read
    pumpPc,     \* sample_pump_thread
    pumpBuf,    \* the buffer sample_pump_thread popped, NoBuf if none
    ring, cap, head, tail, size,            \* the queue of sample_pump_t
    active, started, closing,               \* its flags
    submitted, processed,                   \* its counters
    sent,       \* buffers handed to push_samples()
    done,       \* the last buffer process_sample_buf() finished
    freed       \* buffers push_samples() freed without processing

queueVars == <<ring, cap, head, tail, size>>
pumpVars  == <<pumpPc, pumpBuf>>
inVars    == <<inPc, inBuf, sent>>
vars == <<backend, running, mainPc, inVars, pumpVars, queueVars,
          active, started, closing, submitted, processed, done, freed>>

EmptyRing == [i \in 0..(Cap - 1) |-> NoBuf]

\* A VITA-49 listener is spawned before the pipeline exists (it delivers the
\* context packets run_live() waits for); the other backends after it.
Init ==
    /\ backend \in Backends
    /\ running = TRUE
    /\ mainPc = "setup"
    /\ inPc = IF backend = "vita49" THEN "read" ELSE "unborn"
    /\ inBuf = 0
    /\ pumpPc = "unborn" /\ pumpBuf = NoBuf
    /\ ring = EmptyRing /\ cap = 0 /\ head = 0 /\ tail = 0 /\ size = 0
    /\ active = FALSE /\ started = FALSE /\ closing = FALSE
    /\ submitted = 0 /\ processed = 0
    /\ sent = 0 /\ done = 0 /\ freed = {}

-----------------------------------------------------------------------------
(* Condition variables.                                                    *)

SignalNotFull  == IF inPc = "wait_not_full" THEN "recheck" ELSE inPc
SignalNotEmpty == IF pumpPc = "wait_not_empty" THEN "loop" ELSE pumpPc
SignalDrained  == IF inPc = "wait_drained" THEN "drain" ELSE inPc

\* POSIX lets pthread_cond_wait() return without a signal.
SpuriousWakeup ==
    /\ \/ /\ inPc = "wait_not_full" /\ inPc' = "recheck" /\ UNCHANGED pumpPc
       \/ /\ inPc = "wait_drained"  /\ inPc' = "drain"   /\ UNCHANGED pumpPc
       \/ /\ pumpPc = "wait_not_empty" /\ pumpPc' = "loop" /\ UNCHANGED inPc
    /\ UNCHANGED <<backend, running, mainPc, inBuf, sent, pumpBuf, queueVars,
                   active, started, closing, submitted, processed, done,
                   freed>>

-----------------------------------------------------------------------------
(* run_live(): start, wait, join the input thread, stop.                   *)

Sigint ==
    /\ running
    /\ running' = FALSE
    /\ UNCHANGED <<backend, mainPc, inVars, pumpVars, queueVars, active,
                   started, closing, submitted, processed, done, freed>>

sample_pipeline_start ==
    /\ mainPc = "setup"
    /\ \/ /\ cap' = Cap
          /\ ring' = EmptyRing
          /\ head' = 0 /\ tail' = 0 /\ size' = 0
          /\ active' = FALSE /\ closing' = FALSE /\ started' = TRUE
          /\ submitted' = 0 /\ processed' = 0
          /\ pumpPc' = "loop"
          /\ mainPc' = "started"
       \/ \* calloc or pthread_create failed: run_live() returns 1
          /\ mainPc' = "failed"
          /\ UNCHANGED <<queueVars, active, started, closing, submitted,
                         processed, pumpPc>>
    /\ UNCHANGED <<backend, running, inVars, pumpBuf, done, freed>>

start_input ==
    /\ mainPc = "started"
    /\ \/ /\ backend = "vita49"
          /\ mainPc' = "wait"
          /\ UNCHANGED inPc
       \/ /\ backend # "vita49"
          /\ inPc' = "read"
          /\ mainPc' = "wait"
       \/ \* backend setup or pthread_create failed
          /\ backend # "vita49"
          /\ mainPc' = "stop"
          /\ UNCHANGED inPc
    /\ UNCHANGED <<backend, running, inBuf, sent, pumpVars, queueVars, active,
                   started, closing, submitted, processed, done, freed>>

\* Fault: the pump is stopped without joining the input thread first.
JoinInputSkipped ==
    /\ mainPc = "wait"
    /\ ~running
    /\ mainPc' = "stop"
    /\ UNCHANGED <<backend, running, inVars, pumpVars, queueVars, active,
                   started, closing, submitted, processed, done, freed>>

\* while (running) usleep(100000); pthread_join(input_tid, NULL);
JoinInput ==
    /\ mainPc = "wait"
    /\ ~running
    /\ inPc = "exited"
    /\ mainPc' = "stop"
    /\ UNCHANGED <<backend, running, inVars, pumpVars, queueVars, active,
                   started, closing, submitted, processed, done, freed>>

\* Fault: the stop sets closing without broadcasting not_empty.
StopCloseSilent ==
    /\ mainPc = "stop"
    /\ closing' = TRUE
    /\ mainPc' = "stop_join"
    /\ UNCHANGED <<backend, running, inVars, pumpVars, queueVars, active,
                   started, submitted, processed, done, freed>>

\* sample_pipeline_stop(), first critical section.
StopClose ==
    /\ mainPc = "stop"
    /\ closing' = TRUE
    /\ pumpPc' = SignalNotEmpty
    /\ inPc' = SignalNotFull
    /\ mainPc' = "stop_join"
    /\ UNCHANGED <<backend, running, inBuf, sent, pumpBuf, queueVars, active,
                   started, submitted, processed, done, freed>>

\* sample_pipeline_stop(), after pthread_join(): the ring is released.
StopReset ==
    /\ mainPc = "stop_join"
    /\ pumpPc = "exited"
    /\ ring' = EmptyRing /\ cap' = 0
    /\ head' = 0 /\ tail' = 0 /\ size' = 0
    /\ active' = FALSE /\ started' = FALSE /\ closing' = FALSE
    /\ mainPc' = "stopped"
    /\ UNCHANGED <<backend, running, inVars, pumpVars, submitted, processed,
                   done, freed>>

-----------------------------------------------------------------------------
(* The input thread: backend loop, push_samples(), drain at end of file.   *)

\* One turn of the backend's while (running) loop that got samples.
Read ==
    /\ inPc = "read"
    /\ running
    /\ inBuf < NBuf
    /\ inBuf' = inBuf + 1
    /\ sent' = sent + 1
    /\ inPc' = "push"
    /\ UNCHANGED <<backend, running, mainPc, pumpVars, queueVars, active,
                   started, closing, submitted, processed, done, freed>>

\* Loop exit: the run flag, or end of file, which only a file has.
EndOfInput ==
    /\ inPc = "read"
    /\ ~running \/ (backend = "file" /\ inBuf = NBuf)
    /\ inPc' = IF backend = "file" THEN "drain" ELSE "exited"
    /\ UNCHANGED <<backend, running, mainPc, inBuf, sent, pumpVars, queueVars,
                   active, started, closing, submitted, processed, done,
                   freed>>

\* push_samples(): the pump is not up (or is going down), process inline.
PushInline ==
    /\ inPc = "push"
    /\ ~started \/ closing
    /\ inPc' = "inline"
    /\ UNCHANGED <<backend, running, mainPc, inBuf, sent, pumpVars, queueVars,
                   active, started, closing, submitted, processed, done,
                   freed>>

InlineDone ==
    /\ inPc = "inline"
    /\ done' = inBuf
    /\ inPc' = "read"
    /\ UNCHANGED <<backend, running, mainPc, inBuf, sent, pumpVars, queueVars,
                   active, started, closing, submitted, processed, freed>>

RingFull == size = cap

\* push_samples() has passed its first test, or has woken up on not_full.
Pushing == (inPc = "push" /\ started /\ ~closing) \/ inPc = "recheck"

PushWait ==
    /\ Pushing
    /\ RingFull /\ ~closing
    /\ inPc' = "wait_not_full"
    /\ UNCHANGED <<backend, running, mainPc, inBuf, sent, pumpVars, queueVars,
                   active, started, closing, submitted, processed, done,
                   freed>>

\* Room in the ring: enqueue.  Woken by a stop: free the buffer unprocessed.
PushLand ==
    /\ Pushing
    /\ ~RingFull \/ closing
    /\ IF closing
       THEN /\ freed' = freed \cup {inBuf}
            /\ UNCHANGED <<ring, tail, size, submitted, pumpPc>>
       ELSE /\ ring' = [ring EXCEPT ![tail] = inBuf]
            /\ tail' = (tail + 1) % cap
            /\ size' = size + 1
            /\ submitted' = submitted + 1
            /\ pumpPc' = SignalNotEmpty
            /\ UNCHANGED freed
    /\ inPc' = "read"
    /\ UNCHANGED <<backend, running, mainPc, inBuf, sent, pumpBuf, cap, head,
                   active, started, closing, processed, done>>

\* Fault: the drain looks at the queue only, not at the buffer in process.
OutstandingQueued == started /\ size > 0

\* sample_pipeline_drain(), then channelizer_flush(), then running = 0.
Outstanding == started /\ (size > 0 \/ active)

DrainWait ==
    /\ inPc = "drain"
    /\ Outstanding
    /\ inPc' = "wait_drained"
    /\ UNCHANGED <<backend, running, mainPc, inBuf, sent, pumpVars, queueVars,
                   active, started, closing, submitted, processed, done,
                   freed>>

DrainReturn ==
    /\ inPc = "drain"
    /\ ~Outstanding
    /\ inPc' = "flush"
    /\ UNCHANGED <<backend, running, mainPc, inBuf, sent, pumpVars, queueVars,
                   active, started, closing, submitted, processed, done,
                   freed>>

FileDone ==
    /\ inPc = "flush"
    /\ running' = FALSE
    /\ inPc' = "exited"
    /\ UNCHANGED <<backend, mainPc, inBuf, sent, pumpVars, queueVars, active,
                   started, closing, submitted, processed, done, freed>>

-----------------------------------------------------------------------------
(* sample_pump_thread.                                                     *)

PumpWait ==
    /\ pumpPc = "loop"
    /\ size = 0 /\ ~closing
    /\ pumpPc' = "wait_not_empty"
    /\ UNCHANGED <<backend, running, mainPc, inVars, pumpBuf, queueVars,
                   active, started, closing, submitted, processed, done,
                   freed>>

PumpExit ==
    /\ pumpPc = "loop"
    /\ size = 0 /\ closing
    /\ pumpPc' = "exited"
    /\ UNCHANGED <<backend, running, mainPc, inVars, pumpBuf, queueVars,
                   active, started, closing, submitted, processed, done,
                   freed>>

\* Fault: the pop does not signal not_full.
PumpTakeSilent ==
    /\ pumpPc = "loop"
    /\ size > 0
    /\ pumpBuf' = ring[head]
    /\ head' = (head + 1) % cap
    /\ size' = size - 1
    /\ active' = TRUE
    /\ pumpPc' = "own"
    /\ UNCHANGED <<backend, running, mainPc, inVars, ring, cap, tail, started,
                   closing, submitted, processed, done, freed>>

\* Fault: the pop takes the newest entry instead of the oldest.
PumpTakeNewest ==
    /\ pumpPc = "loop"
    /\ size > 0
    /\ tail' = (tail + cap - 1) % cap
    /\ pumpBuf' = ring[tail']
    /\ size' = size - 1
    /\ active' = TRUE
    /\ inPc' = SignalNotFull
    /\ pumpPc' = "own"
    /\ UNCHANGED <<backend, running, mainPc, inBuf, sent, ring, cap, head,
                   started, closing, submitted, processed, done, freed>>

PumpTake ==
    /\ pumpPc = "loop"
    /\ size > 0
    /\ pumpBuf' = ring[head]
    /\ head' = (head + 1) % cap
    /\ size' = size - 1
    /\ active' = TRUE
    /\ inPc' = SignalNotFull
    /\ pumpPc' = "own"
    /\ UNCHANGED <<backend, running, mainPc, inBuf, sent, ring, cap, tail,
                   started, closing, submitted, processed, done, freed>>

\* process_sample_buf(buf) and the processed counter, outside the lock.
PumpProcess ==
    /\ pumpPc = "own"
    /\ done' = pumpBuf
    /\ processed' = processed + 1
    /\ pumpBuf' = NoBuf
    /\ pumpPc' = "finish"
    /\ UNCHANGED <<backend, running, mainPc, inVars, queueVars, active,
                   started, closing, submitted, freed>>

PumpFinish ==
    /\ pumpPc = "finish"
    /\ active' = FALSE
    /\ inPc' = IF size = 0 THEN SignalDrained ELSE inPc
    /\ pumpPc' = "loop"
    /\ UNCHANGED <<backend, running, mainPc, inBuf, sent, pumpBuf, queueVars,
                   started, closing, submitted, processed, done, freed>>

-----------------------------------------------------------------------------
\* The process is over: run_live() has stopped the pump, or returned early.
Terminated == mainPc \in {"stopped", "failed"} /\ UNCHANGED vars

MainNext  == sample_pipeline_start \/ start_input \/ JoinInput \/ StopClose
             \/ StopReset
InputStep == EndOfInput \/ PushInline \/ InlineDone \/ PushWait \/ PushLand
             \/ DrainWait \/ DrainReturn \/ FileDone
InputNext == Read \/ InputStep
PumpNext  == PumpWait \/ PumpExit \/ PumpTake \/ PumpProcess \/ PumpFinish

Next == MainNext \/ InputNext \/ PumpNext \/ Sigint \/ SpuriousWakeup
        \/ Terminated

Spec == Init /\ [][Next]_vars

\* The scheduler runs every thread that can run.  Nothing obliges an SDR to
\* deliver samples or an operator to interrupt the program: Read and Sigint
\* are left without fairness, except that a file is read to its end.
Fairness ==
    /\ WF_vars(MainNext)
    /\ WF_vars(InputStep)
    /\ WF_vars(backend = "file" /\ Read)
    /\ WF_vars(PumpNext)

FairSpec == Spec /\ Fairness

-----------------------------------------------------------------------------
(* Properties.                                                             *)

\* Every variable keeps its type; the ring indices stay inside the ring.
TypeOK ==
    /\ backend \in Backends
    /\ running \in BOOLEAN
    /\ mainPc \in {"setup", "started", "wait", "stop", "stop_join", "stopped",
                   "failed"}
    /\ inPc \in {"unborn", "read", "push", "inline", "recheck",
                 "wait_not_full", "drain", "wait_drained", "flush", "exited"}
    /\ inBuf \in 0..NBuf
    /\ pumpPc \in {"unborn", "loop", "wait_not_empty", "own", "finish",
                   "exited"}
    /\ pumpBuf \in 0..NBuf
    /\ ring \in [0..(Cap - 1) -> 0..NBuf]
    /\ cap \in {0, Cap}
    /\ head \in 0..(Cap - 1) /\ tail \in 0..(Cap - 1)
    /\ size \in 0..Cap
    /\ active \in BOOLEAN /\ started \in BOOLEAN /\ closing \in BOOLEAN
    /\ submitted \in 0..NBuf /\ processed \in 0..NBuf
    /\ sent \in 0..NBuf /\ done \in 0..NBuf
    /\ freed \in SUBSET Bufs

\* The pump is the in-order, lossless, bounded stream of SampleStream: at
\* most Cap buffers are queued, one is being processed and one is in the
\* hands of the input thread.
Stream == INSTANCE SampleStream WITH Depth <- Cap + 2
StreamSpec == Stream!Spec

\* process_sample_buf() drives the channelizer, the IQ ring and the scanner
\* without a lock of its own: the input thread (inline) and the pump thread
\* are never both inside it, also while the pipeline starts under a VITA-49
\* listener that is already pushing.
OneProcessor == ~(inPc = "inline" /\ pumpPc = "own")

\* "Wait until every sample buffer submitted via push_samples() has been
\* processed" (sdr.h): when sample_pipeline_drain() returns, file_src flushes
\* the channelizer with no buffer still on its way.  A conjunct of NothingLost.
DrainComplete == inPc = "flush" => done = sent /\ pumpPc # "own"

\* run_live() joins the input thread before it stops the pump: the free of a
\* waiting producer's buffer is never taken, no producer is left waiting for
\* a queue that no longer exists, and everything pushed has been processed
\* when the pump is gone, and already when a drain has returned.
NothingLost ==
    /\ DrainComplete
    /\ freed = {}
    /\ mainPc = "stopped" => /\ done = sent
                             /\ inPc \in {"unborn", "exited"}
                             /\ submitted = processed

\* Every buffer handed to push_samples() is eventually processed, whatever
\* the queue depth: a full queue delays the producer, never a buffer forever.
EveryBufferProcessed == \A b \in Bufs : sent >= b ~> done >= b

\* Once the run flag is cleared run_live() gets through the joins and the
\* pump's stop: no thread is left asleep on not_empty, not_full or drained.
\* A file that is read to its end clears the flag by itself.
ShutdownCompletes ==
    /\ ~running ~> mainPc \in {"stopped", "failed"}
    /\ (backend = "file" /\ mainPc = "wait") ~> mainPc = "stopped"
=============================================================================
