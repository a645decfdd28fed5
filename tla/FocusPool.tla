------------------------------ MODULE FocusPool ------------------------------
(***************************************************************************)
(* The pool of focused decoders (focused.c) and its dispatcher             *)
(* (promote_to_pool in main.c) over the sample ring.  A wideband decoder   *)
(* that locks on a preamble has the dispatcher wake a worker for its slot  *)
(* (frequency, bandwidth, SF, CR), which reads the ring from a little      *)
(* before the lock, decodes, cools down and goes idle again.               *)
(*                                                                         *)
(* The dispatcher holds g_focus_pool_mu throughout, so there is one at a   *)
(* time; the workers take no part in that lock and every atomic they share *)
(* with it is a step of its own.  cfg_mu sections are single steps.  Of the *)
(* clock only its answer is kept: a reading of the hold-down timer either  *)
(* finds it lapsed or not.  (A reading whose "now" is older than an arm's  *)
(* activity time wraps below zero and finds it lapsed too.)                *)
(***************************************************************************)
EXTENDS IqRing

CONSTANTS
    PoolSize, Slots,
    Batch,          \* FOCUSED_BATCH_SAMPLES
    Rewind,         \* samples before the lock
    MaxPromotes     \* bound: preamble locks

ASSUME PoolAssumption ==
    /\ PoolSize \in Nat \ {0} /\ Batch \in Nat \ {0} /\ Rewind \in Nat
    /\ MaxPromotes \in Nat

VARIABLES
    state, cur, dec, pending, change, arm, start, cursor,   \* focused_worker
    pc, st, newest,         \* the worker thread's position and locals
    stamp,                  \* g_chan_stats of the worker's channel id
    disp,                   \* the dispatcher: step, slot, start, worker
    promotes,               \* locks so far
    feeding,                \* samples still come
    stopped                 \* workers told to stop so far

sharedVars == <<state, cur, dec, pending, change, arm, start>>
localVars  == <<cursor, pc, st, newest>>
dispVars   == <<stamp, disp, promotes>>
endVars    == <<feeding, stopped>>
vars == <<sharedVars, localVars, dispVars, ringVars, endVars>>

NoSlot  == "none"

\* The workers process_sample_buf() spawns with the ring; every spawn succeeds.
Workers == 0..(PoolSize - 1)
NoCall  == [at |-> "none", slot |-> NoSlot, start |-> 0, w |-> 0]

Init ==
    /\ RingInit
    /\ state = [w \in Workers |-> "IDLE"]
    /\ cur = [w \in Workers |-> NoSlot] /\ dec = [w \in Workers |-> NoSlot]
    /\ pending = [w \in Workers |-> NoSlot]
    /\ change = [w \in Workers |-> FALSE] /\ arm = [w \in Workers |-> FALSE]
    /\ start = [w \in Workers |-> 0] /\ cursor = [w \in Workers |-> 0]
    /\ pc = [w \in Workers |-> "top"] /\ st = [w \in Workers |-> "IDLE"]
    /\ newest = [w \in Workers |-> 0]
    /\ stamp = [w \in Workers |-> NoSlot]
    /\ disp = NoCall /\ promotes = 0
    /\ feeding = TRUE /\ stopped = 0

\* process_sample_buf(), before the channelizer sees the samples.
Write ==
    /\ feeding
    /\ Count \/ iq_ring_append
    /\ UNCHANGED <<sharedVars, localVars, dispVars, endVars>>

-----------------------------------------------------------------------------
(* The dispatcher.                                                         *)

To(at, w) == disp' = [disp EXCEPT !.at = at, !.w = w]

\* on_wideband_preamble_lock() of a slot that passes the allowlist and the
\* SNR floor.
promote_to_pool ==
    /\ disp.at = "none" /\ promotes < MaxPromotes
    /\ \E slot \in Slots :
         disp' = [at |-> "slot", slot |-> slot, w |-> 0,
                  start |-> IF counted > Rewind THEN counted - Rewind ELSE 0]
    /\ promotes' = promotes + 1
    /\ UNCHANGED <<sharedVars, localVars, stamp, ringVars, endVars>>

\* First loop: a worker whose current slot this is ...
MatchSlot ==
    /\ disp.at = "slot"
    /\ IF disp.w \notin Workers THEN To("find", 0)
       ELSE IF cur[disp.w] = disp.slot THEN To("busy", disp.w)
       ELSE To("slot", disp.w + 1)
    /\ UNCHANGED <<sharedVars, localVars, stamp, promotes, ringVars, endVars>>

\* ... and that is not idle is armed again.
MatchBusy ==
    /\ disp.at = "busy"
    /\ IF state[disp.w] # "IDLE" THEN To("arm", disp.w)
       ELSE To("slot", disp.w + 1)
    /\ UNCHANGED <<sharedVars, localVars, stamp, promotes, ringVars, endVars>>

\* Second loop: the first idle worker, if there is one.
FindIdle ==
    /\ disp.at = "find"
    /\ IF disp.w \notin Workers THEN disp' = NoCall
       ELSE IF state[disp.w] = "IDLE" THEN To("arm", disp.w)
       ELSE To("find", disp.w + 1)
    /\ UNCHANGED <<sharedVars, localVars, stamp, promotes, ringVars, endVars>>

\* focused_worker_arm_slot_os() under cfg_mu: compares with the current slot.
ArmSlot ==
    /\ disp.at = "arm"
    /\ IF cur[disp.w] # disp.slot
       THEN /\ pending' = [pending EXCEPT ![disp.w] = disp.slot]
            /\ change' = [change EXCEPT ![disp.w] = TRUE]
       ELSE UNCHANGED <<pending, change>>
    /\ To("start", disp.w)
    /\ UNCHANGED <<state, cur, dec, arm, start, localVars, stamp, promotes,
                   ringVars, endVars>>

\* focused_worker_arm(), one store after the other.
ArmStart ==
    /\ disp.at = "start"
    /\ start' = [start EXCEPT ![disp.w] = disp.start]
    /\ To("state", disp.w)
    /\ UNCHANGED <<state, cur, dec, pending, change, arm, localVars, stamp,
                   promotes, ringVars, endVars>>

ArmState ==
    /\ disp.at = "state"
    /\ state' = [state EXCEPT ![disp.w] = "DECODING"]
    /\ To("pend", disp.w)
    /\ UNCHANGED <<cur, dec, pending, change, arm, start, localVars, stamp,
                   promotes, ringVars, endVars>>

\* Fault: the slot change is not announced when the worker is busy.
ArmPendBusy ==
    /\ disp.at = "pend"
    /\ arm' = [arm EXCEPT ![disp.w] = pc[disp.w] \in {"top", "look"}]
    /\ To("stamp", disp.w)
    /\ UNCHANGED <<state, cur, dec, pending, change, start, localVars, stamp,
                   promotes, ringVars, endVars>>

ArmPend ==
    /\ disp.at = "pend"
    /\ arm' = [arm EXCEPT ![disp.w] = TRUE]
    /\ To("stamp", disp.w)
    /\ UNCHANGED <<state, cur, dec, pending, change, start, localVars, stamp,
                   promotes, ringVars, endVars>>

\* focus_pool_stamp_chan_stats() and the unlock.
Stamp ==
    /\ disp.at = "stamp"
    /\ stamp' = [stamp EXCEPT ![disp.w] = disp.slot]
    /\ disp' = NoCall
    /\ UNCHANGED <<sharedVars, localVars, promotes, ringVars, endVars>>

-----------------------------------------------------------------------------
(* focused_thread().                                                       *)

Goto(w, l) == pc' = [pc EXCEPT ![w] = l]

\* Top of the loop: the arm request is taken before the slot is looked at.
Top(w) ==
    /\ pc[w] = "top"
    /\ IF w < stopped
       THEN /\ Goto(w, "drain") /\ st' = [st EXCEPT ![w] = state[w]]
            /\ UNCHANGED arm
       ELSE /\ Goto(w, IF arm[w] THEN "apply" ELSE "look")
            /\ arm' = [arm EXCEPT ![w] = FALSE]
            /\ st' = [st EXCEPT ![w] = "IDLE"]
    /\ UNCHANGED <<state, cur, dec, pending, change, start, cursor, newest,
                   dispVars, ringVars, endVars>>

\* A pending slot: the filter and the decoder are rebuilt.  A rate that does
\* not fit leaves the old ones; when the new decoder cannot be allocated the
\* old one is gone and the slot is current without a decoder.
Apply(w) ==
    /\ pc[w] = "apply"
    /\ \/ /\ change[w]
          /\ \E ok \in BOOLEAN :
               /\ cur' = [cur EXCEPT ![w] = pending[w]]
               /\ dec' = [dec EXCEPT ![w] = IF ok THEN pending[w] ELSE NoSlot]
               /\ Goto(w, IF ok THEN "anchor" ELSE "fail")
       \/ change[w] /\ Goto(w, "fail") /\ UNCHANGED <<cur, dec>>
       \/ ~change[w] /\ Goto(w, "anchor") /\ UNCHANGED <<cur, dec>>
    /\ change' = [change EXCEPT ![w] = FALSE]
    /\ UNCHANGED <<state, pending, arm, start, cursor, st, newest, dispVars,
                   ringVars, endVars>>

Fail(w) ==
    /\ pc[w] = "fail"
    /\ state' = [state EXCEPT ![w] = "IDLE"]
    /\ Goto(w, "top")
    /\ UNCHANGED <<cur, dec, pending, change, arm, start, cursor, st, newest,
                   dispVars, ringVars, endVars>>

\* Where to start reading: samples are counted before they are appended, so
\* the start may be ahead of the ring.
Anchor(w) ==
    /\ pc[w] = "anchor"
    /\ cursor' = [cursor EXCEPT ![w] =
         IF start[w] = 0 \/ start[w] < Oldest THEN Oldest
         ELSE LesserOf(start[w], total)]
    /\ Goto(w, "go")
    /\ UNCHANGED <<sharedVars, st, newest, dispVars, ringVars, endVars>>

Go(w) ==
    /\ pc[w] = "go"
    /\ state' = [state EXCEPT ![w] = "DECODING"]
    /\ Goto(w, "look")
    /\ UNCHANGED <<cur, dec, pending, change, arm, start, cursor, st, newest,
                   dispVars, ringVars, endVars>>

\* The state is read once; an idle worker only follows the writer.
Look(w) ==
    /\ pc[w] = "look"
    /\ st' = [st EXCEPT ![w] = state[w]]
    /\ IF state[w] = "IDLE"
       THEN Goto(w, "top") /\ cursor' = [cursor EXCEPT ![w] = total]
       ELSE Goto(w, "range") /\ UNCHANGED cursor
    /\ UNCHANGED <<sharedVars, newest, dispVars, ringVars, endVars>>

\* Overrun by the writer: the focus run is dropped.
Range(w) ==
    /\ pc[w] = "range"
    /\ newest' = [newest EXCEPT ![w] =
         IF cursor[w] \in Oldest..(total - 1) THEN total ELSE 0]
    /\ IF cursor[w] < Oldest
       THEN Goto(w, "behind") /\ cursor' = [cursor EXCEPT ![w] = total]
       ELSE /\ Goto(w, IF cursor[w] < total THEN "get" ELSE "timer")
            /\ UNCHANGED cursor
    /\ UNCHANGED <<sharedVars, st, dispVars, ringVars, endVars>>

Behind(w) ==
    /\ pc[w] = "behind"
    /\ state' = [state EXCEPT ![w] = "IDLE"]
    /\ Goto(w, "top")
    /\ UNCHANGED <<cur, dec, pending, change, arm, start, cursor, st, newest,
                   dispVars, ringVars, endVars>>

\* focused_frame_trampoline(): a frame refreshes the activity time and ends
\* a hold-down.
Frame(w) ==
    /\ dec[w] # NoSlot
    /\ state' = [state EXCEPT ![w] = IF @ = "HOLD_DOWN" THEN "DECODING" ELSE @]

\* A batch is copied and decoded; it may complete a frame.
Get(w) ==
    /\ pc[w] = "get"
    /\ LET want == LesserOf(newest[w] - cursor[w], Batch)
           got == WindowCount(cursor[w], want)
       IN  /\ cursor' = [cursor EXCEPT ![w] = @ + got]
           /\ (got > 0 /\ Frame(w)) \/ UNCHANGED state
    /\ newest' = [newest EXCEPT ![w] = 0]
    /\ Goto(w, "timer")
    /\ UNCHANGED <<cur, dec, pending, change, arm, start, st, dispVars,
                   ringVars, endVars>>

\* The hysteresis, on the state read at the top of the iteration: the
\* hold-down since the last activity, or since the hold-down began.
TimerRuns(w) ==
    /\ pc[w] = "timer"
    /\ Goto(w, "top")
    /\ UNCHANGED <<sharedVars, cursor, st, newest, dispVars, ringVars,
                   endVars>>

TimerLapses(w) ==
    /\ pc[w] = "timer"
    /\ Goto(w, IF st[w] = "DECODING" THEN "hold" ELSE "idle")
    /\ UNCHANGED <<sharedVars, cursor, st, newest, dispVars, ringVars,
                   endVars>>

HoldDown(w) ==
    /\ pc[w] = "hold"
    /\ state' = [state EXCEPT ![w] = "HOLD_DOWN"]
    /\ Goto(w, "top")
    /\ UNCHANGED <<cur, dec, pending, change, arm, start, cursor, st, newest,
                   dispVars, ringVars, endVars>>

\* Fault: the hold-down never expires.
ExpireNever(w) ==
    /\ pc[w] = "idle"
    /\ Goto(w, "top")
    /\ UNCHANGED <<sharedVars, cursor, st, newest, dispVars, ringVars,
                   endVars>>

Expire(w) ==
    /\ pc[w] = "idle"
    /\ state' = [state EXCEPT ![w] = "IDLE"]
    /\ Goto(w, "top")
    /\ UNCHANGED <<cur, dec, pending, change, arm, start, cursor, st, newest,
                   dispVars, ringVars, endVars>>

\* Fault: one last batch instead of all that is left.
DrainOnce(w) ==
    /\ pc[w] = "drain"
    /\ IF st[w] = "IDLE" THEN UNCHANGED cursor
       ELSE cursor' = [cursor EXCEPT ![w] =
              LET from == IF @ < Oldest THEN Oldest ELSE @
              IN  from + LesserOf(total - from, Batch)]
    /\ Goto(w, "done")
    /\ UNCHANGED <<sharedVars, st, newest, dispVars, ringVars, endVars>>

\* Told to stop: a worker that is not idle decodes what is left.
Drain(w) ==
    /\ pc[w] = "drain"
    /\ LET from == IF cursor[w] < Oldest THEN Oldest ELSE cursor[w]
       IN  IF st[w] = "IDLE" THEN Goto(w, "done") /\ UNCHANGED cursor
           ELSE /\ cursor' = [cursor EXCEPT ![w] =
                     from + LesserOf(total - from, Batch)]
                /\ Goto(w, IF from >= total THEN "done" ELSE "drain")
    /\ UNCHANGED <<sharedVars, st, newest, dispVars, ringVars, endVars>>

-----------------------------------------------------------------------------
(* The end: run_live() joins the sample pump, then stops and joins one     *)
(* worker after the other.  Locks may still come from baseband in flight.  *)

EndInput ==
    /\ feeding /\ counted = total
    /\ feeding' = FALSE
    /\ UNCHANGED <<sharedVars, localVars, dispVars, ringVars, stopped>>

focused_worker_stop_and_join ==
    /\ ~feeding /\ stopped < PoolSize
    /\ \A w \in Workers : w < stopped => pc[w] = "done"
    /\ stopped' = stopped + 1
    /\ UNCHANGED <<sharedVars, localVars, dispVars, ringVars, feeding>>

Worker(w) ==
    \/ Top(w) \/ Apply(w) \/ Fail(w) \/ Anchor(w) \/ Go(w) \/ Look(w)
    \/ Range(w) \/ Behind(w) \/ Get(w) \/ TimerRuns(w) \/ TimerLapses(w)
    \/ HoldDown(w) \/ Expire(w) \/ Drain(w)

Dispatcher ==
    \/ MatchSlot \/ MatchBusy \/ FindIdle \/ ArmSlot \/ ArmStart \/ ArmState
    \/ ArmPend \/ Stamp

Done == (\A w \in Workers : pc[w] = "done") /\ disp = NoCall /\ UNCHANGED vars

Next ==
    \/ Write \/ promote_to_pool \/ Dispatcher \/ EndInput
    \/ focused_worker_stop_and_join \/ Done
    \/ \E w \in Workers : Worker(w)

Spec == Init /\ [][Next]_vars

\* Threads run, and a timer that is read again and again is found lapsed;
\* samples, locks and the stop may never come.
FairSpec ==
    /\ Spec
    /\ WF_vars(Dispatcher)
    /\ \A w \in Workers : WF_vars(Worker(w)) /\ SF_vars(TimerLapses(w))

-----------------------------------------------------------------------------
(* Properties.                                                             *)

States == {"IDLE", "DECODING", "HOLD_DOWN"}
WorkerSteps == {"top", "apply", "fail", "anchor", "go", "look", "range",
                "behind", "get", "timer", "hold", "idle", "drain", "done"}
DispSteps == {"none", "slot", "busy", "find", "arm", "start", "state", "pend",
              "stamp"}
SlotOrNone == Slots \cup {NoSlot}

\* A slot handed to a worker is never forgotten, although the slot and the
\* arm flag are set in two steps and taken in two steps in the other order:
\* while a change is pending, either the flag is up, or the dispatcher is
\* about to raise it, or the worker is about to look.
PendingServed ==
    \A w \in Workers :
        change[w] => \/ arm[w] \/ pc[w] = "apply"
                     \/ disp.at \in {"start", "state", "pend"} /\ disp.w = w

\* A worker that was decoding when it was told to stop has decoded up to the
\* last sample when it is joined.
Drained ==
    \A w \in Workers :
        pc[w] = "done" /\ st[w] # "IDLE" => cursor[w] = total

\* Every focus run ends: by the hysteresis, by falling behind, or with the
\* program; a worker is not lost to the pool.
WorkersReturn ==
    \A w \in Workers : []<>(state[w] = "IDLE" \/ pc[w] = "done")
=============================================================================
