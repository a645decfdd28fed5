----------------------------- MODULE FocusProofs -----------------------------
(***************************************************************************)
(* Proofs about the focused pool for every number of workers and slots:    *)
(* no slot handed to a worker is forgotten, whatever the two threads'      *)
(* stores and loads interleave to; a stopped worker has decoded to the     *)
(* end; the ring under them stays true.                                    *)
(***************************************************************************)
EXTENDS FocusPool, RingProofs

Calls == [at : DispSteps, slot : SlotOrNone, start : Nat, w : Nat]

\* The flags a dispatcher and a worker hand a slot over with.
HandInv ==
    /\ change \in [Workers -> BOOLEAN] /\ arm \in [Workers -> BOOLEAN]
    /\ pc \in [Workers -> WorkerSteps]
    /\ disp \in Calls
    /\ disp.at \in {"busy", "arm", "start", "state", "pend", "stamp"}
         => disp.w \in Workers
    /\ counted \in Nat
    /\ PendingServed

LEMMA HandInitially ==
    Init => HandInv
BY PoolAssumption
   DEF Init, HandInv, PendingServed, RingInit, NoCall, Calls, DispSteps,
       SlotOrNone, WorkerSteps

\* A step of the worker that neither takes the flag nor looks at the slot.
LEMMA OtherWorkerStep ==
    ASSUME HandInv, NEW w \in Workers, NEW l \in WorkerSteps,
           pc[w] # "apply", pc' = [pc EXCEPT ![w] = l],
           UNCHANGED <<change, arm, disp, counted>>
    PROVE  HandInv'
BY DEF HandInv, PendingServed, Calls

LEMMA HandWorker ==
    ASSUME HandInv, NEW w \in Workers, Worker(w)
    PROVE  HandInv'
<1> USE DEF ringVars, dispVars, sharedVars, localVars, Goto
<1>1. CASE Top(w)
  <2>1. /\ change' = change /\ disp' = disp /\ counted' = counted
        /\ pc[w] = "top"
        /\ \/ arm' = arm /\ pc' = [pc EXCEPT ![w] = "drain"]
           \/ /\ arm[w] /\ arm' = [arm EXCEPT ![w] = FALSE]
              /\ pc' = [pc EXCEPT ![w] = "apply"]
           \/ /\ ~arm[w] /\ arm' = [arm EXCEPT ![w] = FALSE]
              /\ pc' = [pc EXCEPT ![w] = "look"]
    BY <1>1 DEF Top
  <2>2. CASE arm' = arm /\ pc' = [pc EXCEPT ![w] = "drain"]
    BY <2>1, <2>2, OtherWorkerStep DEF WorkerSteps
  <2>3. CASE ~arm[w] /\ arm' = [arm EXCEPT ![w] = FALSE]
             /\ pc' = [pc EXCEPT ![w] = "look"]
    <3>1. arm' = arm
      BY <2>3 DEF HandInv
    <3> QED
      BY <2>1, <2>3, <3>1, OtherWorkerStep DEF WorkerSteps
  <2>4. CASE /\ arm[w] /\ arm' = [arm EXCEPT ![w] = FALSE]
             /\ pc' = [pc EXCEPT ![w] = "apply"]
    <3>1. /\ arm' \in [Workers -> BOOLEAN] /\ pc' \in [Workers -> WorkerSteps]
          /\ pc'[w] = "apply"
          /\ \A v \in Workers \ {w} : pc'[v] = pc[v] /\ arm'[v] = arm[v]
      BY <2>4 DEF HandInv, WorkerSteps
    <3>2. PendingServed'
      BY <3>1, <2>1 DEF HandInv, PendingServed
    <3> QED
      BY <3>1, <3>2, <2>1 DEF HandInv
  <2> QED
    BY <2>1, <2>2, <2>3, <2>4
<1>2. CASE Apply(w)
  <2>1. /\ change' = [change EXCEPT ![w] = FALSE] /\ UNCHANGED <<arm, disp>>
        /\ counted' = counted
        /\ \/ pc' = [pc EXCEPT ![w] = "anchor"]
           \/ pc' = [pc EXCEPT ![w] = "fail"]
    BY <1>2 DEF Apply
  <2> QED
    BY <2>1 DEF HandInv, PendingServed, WorkerSteps, Calls
<1>3. ASSUME NEW l \in WorkerSteps, pc[w] # "apply",
             pc' = [pc EXCEPT ![w] = l], UNCHANGED <<change, arm, disp, counted>>
      PROVE  HandInv'
  BY <1>3, OtherWorkerStep
<1>4. {"top", "go", "look", "range", "behind", "get", "timer", "hold", "idle",
       "drain", "done"} \subseteq WorkerSteps
  BY DEF WorkerSteps
<1>5. CASE Fail(w) \/ Behind(w) \/ HoldDown(w) \/ Expire(w) \/ TimerRuns(w)
  BY <1>3, <1>4, <1>5 DEF Fail, Behind, HoldDown, Expire, TimerRuns
<1>6. CASE Anchor(w) \/ Go(w) \/ Get(w)
  BY <1>3, <1>4, <1>6 DEF Anchor, Go, Get
<1>7. CASE Look(w)
  <2>1. /\ pc[w] # "apply" /\ UNCHANGED <<change, arm, disp, counted>>
        /\ \/ pc' = [pc EXCEPT ![w] = "top"]
           \/ pc' = [pc EXCEPT ![w] = "range"]
    BY <1>7 DEF Look
  <2> QED
    BY <2>1, <1>3, <1>4
<1>8. CASE Range(w)
  <2>1. /\ pc[w] # "apply" /\ UNCHANGED <<change, arm, disp, counted>>
        /\ \/ pc' = [pc EXCEPT ![w] = "behind"]
           \/ pc' = [pc EXCEPT ![w] = "get"]
           \/ pc' = [pc EXCEPT ![w] = "timer"]
    BY <1>8 DEF Range
  <2> QED
    BY <2>1, <1>3, <1>4
<1>9. CASE TimerLapses(w)
  <2>1. /\ pc[w] # "apply" /\ UNCHANGED <<change, arm, disp, counted>>
        /\ \/ pc' = [pc EXCEPT ![w] = "hold"]
           \/ pc' = [pc EXCEPT ![w] = "idle"]
    BY <1>9 DEF TimerLapses
  <2> QED
    BY <2>1, <1>3, <1>4
<1>10. CASE Drain(w)
  <2>1. /\ pc[w] # "apply" /\ UNCHANGED <<change, arm, disp, counted>>
        /\ \/ pc' = [pc EXCEPT ![w] = "drain"]
           \/ pc' = [pc EXCEPT ![w] = "done"]
    BY <1>10 DEF Drain
  <2> QED
    BY <2>1, <1>3, <1>4
<1> QED
  BY <1>1, <1>2, <1>5, <1>6, <1>7, <1>8, <1>9, <1>10 DEF Worker

LEMMA HandDispatcher ==
    ASSUME HandInv, Dispatcher \/ promote_to_pool
    PROVE  HandInv'
<1> USE DEF ringVars, sharedVars, localVars, To
<1>1. disp \in Calls /\ disp.w \in Nat /\ NoCall \in Calls /\ NoCall.at = "none"
  BY DEF HandInv, Calls, NoCall, DispSteps, SlotOrNone
<1>2. ASSUME NEW at \in DispSteps, NEW w \in Nat,
             disp' = [disp EXCEPT !.at = at, !.w = w]
      PROVE  disp' \in Calls /\ disp'.at = at /\ disp'.w = w
  BY <1>1, <1>2 DEF Calls
<1>3. promote_to_pool => HandInv'
  <2> SUFFICES ASSUME promote_to_pool PROVE HandInv'
    OBVIOUS
  <2>1. PICK slot \in Slots :
          disp' = [at |-> "slot", slot |-> slot, w |-> 0,
                   start |-> IF counted > Rewind THEN counted - Rewind ELSE 0]
    BY DEF promote_to_pool
  <2>2. disp' \in Calls /\ disp'.at = "slot"
    BY <2>1, PoolAssumption DEF Calls, DispSteps, SlotOrNone, HandInv
  <2>3. disp.at = "none" /\ UNCHANGED <<change, arm, pc, counted>>
    BY DEF promote_to_pool
  <2> QED
    BY <2>2, <2>3 DEF HandInv, PendingServed
<1>4. ASSUME disp.at \in {"slot", "busy", "find", "arm", "stamp"},
             disp' \in Calls,
             disp'.at \in {"busy", "arm"} => disp'.w \in Workers,
             disp'.at \in {"none", "slot", "busy", "find", "arm"},
             UNCHANGED <<change, arm, pc, counted>>
      PROVE  HandInv'
  BY <1>4 DEF HandInv, PendingServed
<1>5. {"slot", "busy", "find", "arm", "start", "state", "pend", "stamp"}
        \subseteq DispSteps
  BY DEF DispSteps
<1>6. disp.w + 1 \in Nat
  BY <1>1
<1>7. CASE MatchSlot
  <2>1. /\ disp.at = "slot" /\ UNCHANGED <<change, arm, pc, counted>>
        /\ \/ disp' = [disp EXCEPT !.at = "find", !.w = 0]
           \/ /\ disp.w \in Workers
              /\ disp' = [disp EXCEPT !.at = "busy", !.w = disp.w]
           \/ disp' = [disp EXCEPT !.at = "slot", !.w = disp.w + 1]
    BY <1>7 DEF MatchSlot
  <2> QED
    BY <2>1, <1>1, <1>2, <1>4, <1>5, <1>6
<1>8. CASE MatchBusy
  <2>1. /\ disp.at = "busy" /\ UNCHANGED <<change, arm, pc, counted>>
        /\ \/ disp' = [disp EXCEPT !.at = "arm", !.w = disp.w]
           \/ disp' = [disp EXCEPT !.at = "slot", !.w = disp.w + 1]
    BY <1>8 DEF MatchBusy
  <2>2. disp.w \in Workers
    BY <2>1 DEF HandInv
  <2> QED
    BY <2>1, <2>2, <1>1, <1>2, <1>4, <1>5, <1>6
<1>9. CASE FindIdle
  <2>1. /\ disp.at = "find" /\ UNCHANGED <<change, arm, pc, counted>>
        /\ \/ disp' = NoCall
           \/ /\ disp.w \in Workers
              /\ disp' = [disp EXCEPT !.at = "arm", !.w = disp.w]
           \/ disp' = [disp EXCEPT !.at = "find", !.w = disp.w + 1]
    BY <1>9 DEF FindIdle
  <2> QED
    BY <2>1, <1>1, <1>2, <1>4, <1>5, <1>6
<1>10. CASE Stamp
  <2>1. /\ disp.at = "stamp" /\ UNCHANGED <<change, arm, pc, counted>>
        /\ disp' = NoCall
    BY <1>10 DEF Stamp
  <2> QED
    BY <2>1, <1>1, <1>4
<1>11. CASE ArmSlot
  <2>1. /\ disp.at = "arm" /\ UNCHANGED <<arm, pc, counted>>
        /\ disp' = [disp EXCEPT !.at = "start", !.w = disp.w]
        /\ change' = change \/ change' = [change EXCEPT ![disp.w] = TRUE]
    BY <1>11 DEF ArmSlot
  <2>2. disp.w \in Workers /\ disp' \in Calls /\ disp'.at = "start"
        /\ disp'.w = disp.w
    BY <2>1, <1>1, <1>2, <1>5 DEF HandInv
  <2> QED
    BY <2>1, <2>2 DEF HandInv, PendingServed
<1>12. CASE ArmStart \/ ArmState
  <2>1. /\ disp.at \in {"start", "state"}
        /\ UNCHANGED <<change, arm, pc, counted>>
        /\ \/ disp' = [disp EXCEPT !.at = "state", !.w = disp.w]
           \/ disp' = [disp EXCEPT !.at = "pend", !.w = disp.w]
    BY <1>12 DEF ArmStart, ArmState
  <2>2. /\ disp.w \in Workers /\ disp' \in Calls
        /\ disp'.at \in {"state", "pend"} /\ disp'.w = disp.w
    BY <2>1, <1>1, <1>2, <1>5 DEF HandInv
  <2> QED
    BY <2>1, <2>2 DEF HandInv, PendingServed
<1>13. CASE ArmPend
  <2>1. /\ disp.at = "pend" /\ UNCHANGED <<change, pc, counted>>
        /\ arm' = [arm EXCEPT ![disp.w] = TRUE]
        /\ disp' = [disp EXCEPT !.at = "stamp", !.w = disp.w]
    BY <1>13 DEF ArmPend
  <2>2. disp.w \in Workers /\ disp' \in Calls /\ disp'.at = "stamp"
        /\ disp'.w = disp.w
    BY <2>1, <1>1, <1>2, <1>5 DEF HandInv
  <2> QED
    BY <2>1, <2>2 DEF HandInv, PendingServed
<1> QED
  BY <1>3, <1>7, <1>8, <1>9, <1>10, <1>11, <1>12, <1>13 DEF Dispatcher

LEMMA HandStep ==
    ASSUME HandInv, [Next]_vars
    PROVE  HandInv'
<1>1. CASE Write
  <2>1. counted' \in Nat
    BY <1>1, RingAssumption DEF Write, Count, iq_ring_append, HandInv
  <2> QED
    BY <1>1, <2>1 DEF Write, HandInv, PendingServed, sharedVars, localVars,
                      dispVars
<1>2. CASE EndInput \/ focused_worker_stop_and_join \/ Done \/ UNCHANGED vars
  BY <1>2 DEF EndInput, focused_worker_stop_and_join, Done, vars, HandInv,
              PendingServed, sharedVars, localVars, dispVars, ringVars
<1>3. CASE Dispatcher \/ promote_to_pool
  BY <1>3, HandDispatcher
<1>4. CASE \E w \in Workers : Worker(w)
  BY <1>4, HandWorker
<1> QED
  BY <1>1, <1>2, <1>3, <1>4 DEF Next

\* A slot handed to a worker is never forgotten, for every pool size and
\* every number of locks.
THEOREM SlotsNeverLost == Spec => []PendingServed
<1>1. HandInv => PendingServed
  BY DEF HandInv
<1> QED
  BY <1>1, HandInitially, HandStep, PTL DEF Spec

-----------------------------------------------------------------------------
(* The readers.                                                            *)

\* No reader is ahead of the writer, and nothing is written at the end.
ReadInv ==
    /\ RingInv
    /\ cursor \in [Workers -> Nat] /\ newest \in [Workers -> Nat]
    /\ pc \in [Workers -> WorkerSteps] /\ st \in [Workers -> States]
    /\ state \in [Workers -> States]
    /\ start \in [Workers -> Nat] /\ disp \in Calls
    /\ stopped \in Nat /\ feeding \in BOOLEAN
    /\ \A w \in Workers : cursor[w] <= total /\ newest[w] <= total
    /\ \A w \in Workers : pc[w] \in {"drain", "done"} => ~feeding
    /\ stopped > 0 => ~feeding
    /\ ~feeding => counted = total
    /\ Drained

LEMMA ReadInitially ==
    Init => ReadInv
BY RingInitially, PoolAssumption
   DEF Init, ReadInv, Drained, RingInit, NoCall, Calls, DispSteps, SlotOrNone,
       WorkerSteps, States

LEMMA RingRange ==
    ASSUME RingInv
    PROVE  /\ total \in Nat /\ counted \in Nat /\ Oldest \in Nat
           /\ Oldest <= total
BY RingAssumption DEF RingInv, Oldest

\* The ring and the end flags stand still while a worker steps.
StillThere ==
    UNCHANGED <<counted, total, data, feeding, stopped, disp>>

\* A step that moves a worker's cursor inside the range keeps ReadInv.
LEMMA ReaderMoves ==
    ASSUME ReadInv, NEW w \in Workers, StillThere, UNCHANGED start,
           NEW c \in Nat, c <= total, cursor' = [cursor EXCEPT ![w] = c],
           NEW m \in Nat, m <= total, newest' = [newest EXCEPT ![w] = m],
           NEW l \in WorkerSteps, pc' = [pc EXCEPT ![w] = l],
           l \in {"drain", "done"} => ~feeding,
           NEW x \in States, st' = [st EXCEPT ![w] = x],
           l = "done" /\ x # "IDLE" => c = total,
           state' \in [Workers -> States]
    PROVE  ReadInv'
<1>1. RingInv'
  BY DEF StillThere, RingInv, RingTrue, Oldest, ReadInv
<1>2. /\ cursor' \in [Workers -> Nat] /\ newest' \in [Workers -> Nat]
      /\ pc' \in [Workers -> WorkerSteps] /\ st' \in [Workers -> States]
      /\ start' \in [Workers -> Nat]
  BY DEF ReadInv
<1>3. \A v \in Workers : cursor'[v] <= total' /\ newest'[v] <= total'
  BY DEF ReadInv, StillThere
<1>4. \A v \in Workers : pc'[v] \in {"drain", "done"} => ~feeding'
  BY DEF ReadInv, StillThere
<1>5. Drained'
  BY DEF ReadInv, StillThere, Drained
<1> QED
  BY <1>1, <1>2, <1>3, <1>4, <1>5 DEF ReadInv, StillThere

\* An EXCEPT that stores what is there.
LEMMA SameFunction ==
    ASSUME NEW S, NEW T, NEW f \in [S -> T], NEW w \in S
    PROVE  f = [f EXCEPT ![w] = f[w]]
OBVIOUS

LEMMA ReadWorker ==
    ASSUME ReadInv, NEW w \in Workers, Worker(w)
    PROVE  ReadInv'
<1> USE DEF Goto
<1>1. /\ RingInv /\ total \in Nat /\ Oldest \in Nat /\ Oldest <= total
      /\ cursor[w] \in Nat /\ cursor[w] <= total
      /\ newest[w] \in Nat /\ newest[w] <= total
      /\ start[w] \in Nat /\ st[w] \in States /\ state[w] \in States
      /\ pc[w] \in WorkerSteps /\ Batch \in Nat \ {0}
  BY RingRange, PoolAssumption DEF ReadInv
<1>2. /\ cursor = [cursor EXCEPT ![w] = cursor[w]]
      /\ newest = [newest EXCEPT ![w] = newest[w]]
      /\ st = [st EXCEPT ![w] = st[w]]
  BY SameFunction DEF ReadInv
<1>3. StillThere
  BY DEF Worker, Top, Apply, Fail, Anchor, Go, Look, Range, Behind, Get,
         TimerRuns, TimerLapses, HoldDown, Expire, Drain, StillThere, ringVars,
         endVars, dispVars
<1>4. start' = start
  BY DEF Worker, Top, Apply, Fail, Anchor, Go, Look, Range, Behind, Get,
         TimerRuns, TimerLapses, HoldDown, Expire, Drain, sharedVars
<1>5. state' \in [Workers -> States]
  BY DEF ReadInv, Worker, Top, Apply, Fail, Anchor, Go, Look, Range, Behind,
         Get, Frame, TimerRuns, TimerLapses, HoldDown, Expire, Drain,
         sharedVars, States
<1>6. WorkerSteps = {"top", "apply", "fail", "anchor", "go", "look", "range",
                     "behind", "get", "timer", "hold", "idle", "drain", "done"}
  BY DEF WorkerSteps
<1>7. ASSUME NEW c \in Nat, c <= total, cursor' = [cursor EXCEPT ![w] = c],
             NEW m \in Nat, m <= total, newest' = [newest EXCEPT ![w] = m],
             NEW l \in WorkerSteps, pc' = [pc EXCEPT ![w] = l],
             l \in {"drain", "done"} => ~feeding,
             NEW x \in States, st' = [st EXCEPT ![w] = x],
             l = "done" /\ x # "IDLE" => c = total
      PROVE  ReadInv'
  BY <1>3, <1>4, <1>5, <1>7, ReaderMoves
<1>8. ASSUME NEW l \in WorkerSteps \ {"drain", "done"},
             pc' = [pc EXCEPT ![w] = l], UNCHANGED <<cursor, newest, st>>
      PROVE  ReadInv'
  BY <1>1, <1>2, <1>7, <1>8
<1>9. CASE Top(w)
  <2>1. CASE w < stopped
    <3>1. ~feeding
      BY <2>1, PoolAssumption DEF ReadInv, Workers
    <3>2. /\ UNCHANGED <<cursor, newest>> /\ pc' = [pc EXCEPT ![w] = "drain"]
          /\ st' = [st EXCEPT ![w] = state[w]]
      BY <1>9, <2>1 DEF Top
    <3> QED
      BY <3>1, <3>2, <1>1, <1>2, <1>6, <1>7
  <2>2. CASE ~(w < stopped)
    <3>1. /\ UNCHANGED <<cursor, newest>> /\ st' = [st EXCEPT ![w] = "IDLE"]
          /\ \/ pc' = [pc EXCEPT ![w] = "apply"]
             \/ pc' = [pc EXCEPT ![w] = "look"]
      BY <1>9, <2>2 DEF Top
    <3>2. "IDLE" \in States
      BY DEF States
    <3> QED
      BY <3>1, <3>2, <1>1, <1>2, <1>6, <1>7
  <2> QED
    BY <2>1, <2>2
<1>10. CASE Apply(w)
  <2>1. /\ UNCHANGED <<cursor, newest, st>>
        /\ \/ pc' = [pc EXCEPT ![w] = "anchor"]
           \/ pc' = [pc EXCEPT ![w] = "fail"]
    BY <1>10 DEF Apply
  <2> QED
    BY <2>1, <1>6, <1>8
<1>11. CASE Fail(w) \/ Behind(w) \/ HoldDown(w) \/ Expire(w) \/ TimerRuns(w)
  <2>1. UNCHANGED <<cursor, newest, st>> /\ pc' = [pc EXCEPT ![w] = "top"]
    BY <1>11 DEF Fail, Behind, HoldDown, Expire, TimerRuns
  <2> QED
    BY <2>1, <1>6, <1>8
<1>12. CASE Go(w) \/ TimerLapses(w)
  <2>1. /\ UNCHANGED <<cursor, newest, st>>
        /\ \/ pc' = [pc EXCEPT ![w] = "look"] \/ pc' = [pc EXCEPT ![w] = "hold"]
           \/ pc' = [pc EXCEPT ![w] = "idle"]
    BY <1>12 DEF Go, TimerLapses
  <2> QED
    BY <2>1, <1>6, <1>8
<1>13. CASE Anchor(w)
  <2> DEFINE c == IF start[w] = 0 \/ start[w] < Oldest THEN Oldest
                  ELSE LesserOf(start[w], total)
  <2>1. c \in Nat /\ c <= total
    BY <1>1 DEF LesserOf
  <2>2. /\ cursor' = [cursor EXCEPT ![w] = c] /\ UNCHANGED <<newest, st>>
        /\ pc' = [pc EXCEPT ![w] = "go"]
    BY <1>13 DEF Anchor
  <2> HIDE DEF c
  <2> QED
    BY <2>1, <2>2, <1>1, <1>2, <1>6, <1>7
<1>14. CASE Look(w)
  <2>1. /\ st' = [st EXCEPT ![w] = state[w]] /\ newest' = newest
        /\ \/ /\ pc' = [pc EXCEPT ![w] = "top"]
              /\ cursor' = [cursor EXCEPT ![w] = total]
           \/ pc' = [pc EXCEPT ![w] = "range"] /\ cursor' = cursor
    BY <1>14 DEF Look
  <2>2. PICK c \in {total, cursor[w]}, l \in {"top", "range"} :
          cursor' = [cursor EXCEPT ![w] = c] /\ pc' = [pc EXCEPT ![w] = l]
    BY <2>1, <1>2
  <2>3. /\ c \in Nat /\ c <= total
        /\ l \in WorkerSteps /\ l \notin {"drain", "done"}
        /\ newest' = [newest EXCEPT ![w] = newest[w]]
        /\ newest[w] \in Nat /\ newest[w] <= total /\ state[w] \in States
    BY <2>1, <1>1, <1>2, <1>6
  <2> QED
    BY <2>1, <2>2, <2>3, <1>7
<1>15. CASE Range(w)
  <2>1. PICK m \in {0, total} : newest' = [newest EXCEPT ![w] = m]
    BY <1>15 DEF Range
  <2>2. /\ st' = st
        /\ \/ /\ pc' = [pc EXCEPT ![w] = "behind"]
              /\ cursor' = [cursor EXCEPT ![w] = total]
           \/ pc' = [pc EXCEPT ![w] = "get"] /\ cursor' = cursor
           \/ pc' = [pc EXCEPT ![w] = "timer"] /\ cursor' = cursor
    BY <1>15 DEF Range
  <2>3. m \in Nat /\ m <= total
    BY <1>1
  <2>4. PICK c \in {total, cursor[w]}, l \in {"behind", "get", "timer"} :
          cursor' = [cursor EXCEPT ![w] = c] /\ pc' = [pc EXCEPT ![w] = l]
    BY <2>2, <1>2
  <2>5. /\ c \in Nat /\ c <= total
        /\ l \in WorkerSteps /\ l \notin {"drain", "done"}
        /\ st' = [st EXCEPT ![w] = st[w]] /\ st[w] \in States
    BY <2>2, <1>1, <1>2, <1>6
  <2> QED
    BY <2>1, <2>3, <2>4, <2>5, <1>7
<1>16. CASE Get(w)
  <2> DEFINE want == LesserOf(newest[w] - cursor[w], Batch)
             c == cursor[w] + WindowCount(cursor[w], want)
  <2>1. c \in Nat /\ c <= total
    BY <1>1, RingRange DEF WindowCount, WindowFrom, LesserOf
  <2>2. /\ cursor' = [cursor EXCEPT ![w] = c] /\ st' = st
        /\ newest' = [newest EXCEPT ![w] = 0]
        /\ pc' = [pc EXCEPT ![w] = "timer"]
    BY <1>16 DEF Get
  <2>3. /\ "timer" \in WorkerSteps /\ "timer" \notin {"drain", "done"}
        /\ st' = [st EXCEPT ![w] = st[w]] /\ st[w] \in States
        /\ 0 \in Nat /\ 0 <= total
    BY <2>2, <1>1, <1>2, <1>6
  <2> HIDE DEF c
  <2> QED
    BY <2>1, <2>2, <2>3, <1>7
<1>17. CASE Drain(w)
  <2> DEFINE from == IF cursor[w] < Oldest THEN Oldest ELSE cursor[w]
             c == from + LesserOf(total - from, Batch)
  <2>1. /\ c \in Nat /\ c <= total /\ (from >= total => c = total)
        /\ ~feeding
    BY <1>1, <1>17 DEF LesserOf, Drain, ReadInv
  <2>2. /\ newest' = newest /\ st' = st
        /\ \/ /\ st[w] = "IDLE" /\ cursor' = cursor
              /\ pc' = [pc EXCEPT ![w] = "done"]
           \/ /\ cursor' = [cursor EXCEPT ![w] = c] /\ from >= total
              /\ pc' = [pc EXCEPT ![w] = "done"]
           \/ /\ cursor' = [cursor EXCEPT ![w] = c]
              /\ pc' = [pc EXCEPT ![w] = "drain"]
    BY <1>17 DEF Drain
  <2> HIDE DEF from, c
  <2>3. PICK d \in {c, cursor[w]}, l \in {"drain", "done"} :
          /\ cursor' = [cursor EXCEPT ![w] = d] /\ pc' = [pc EXCEPT ![w] = l]
          /\ l = "done" /\ st[w] # "IDLE" => d = total
    BY <2>1, <2>2, <1>2
  <2>4. /\ d \in Nat /\ d <= total /\ l \in WorkerSteps
        /\ st' = [st EXCEPT ![w] = st[w]] /\ st[w] \in States
        /\ newest' = [newest EXCEPT ![w] = newest[w]]
        /\ newest[w] \in Nat /\ newest[w] <= total
    BY <2>1, <2>2, <1>1, <1>2, <1>6
  <2> QED
    BY <2>1, <2>3, <2>4, <1>7
<1> QED
  BY <1>9, <1>10, <1>11, <1>12, <1>13, <1>14, <1>15, <1>16, <1>17 DEF Worker

LEMMA ReadStep ==
    ASSUME ReadInv, HandInv, HandInv', [Next]_vars
    PROVE  ReadInv'
<1> USE DEF sharedVars, localVars, dispVars, endVars
<1>1. CASE Write
  <2>1. RingInv' /\ total \in Nat /\ total' \in Nat /\ total <= total'
    BY <1>1, RingStep, RingRange
       DEF Write, ReadInv, RingInv, Count, iq_ring_append
  <2>2. feeding /\ UNCHANGED <<cursor, newest, pc, st, state, start, disp,
                               stopped, feeding>>
    BY <1>1 DEF Write
  <2>3. \A w \in Workers : cursor[w] <= total' /\ newest[w] <= total'
    BY <2>1 DEF ReadInv
  <2>4. \A w \in Workers : pc[w] # "done"
    BY <2>2 DEF ReadInv
  <2> QED
    BY <2>1, <2>2, <2>3, <2>4 DEF ReadInv, Drained
<1>2. ASSUME UNCHANGED <<counted, total, data>> PROVE RingInv'
  BY <1>2 DEF RingInv, RingTrue, Oldest, ReadInv
<1>3. CASE Dispatcher \/ promote_to_pool
  <2>1. UNCHANGED <<counted, total, data, cursor, newest, pc, st, stopped,
                    feeding>>
    BY <1>3 DEF Dispatcher, promote_to_pool, MatchSlot, MatchBusy, FindIdle,
                ArmSlot, ArmStart, ArmState, ArmPend, Stamp, ringVars
  <2>2. disp \in Calls /\ disp.start \in Nat
    BY DEF ReadInv, Calls
  <2>3. start' \in [Workers -> Nat] /\ state' \in [Workers -> States]
    <3>1. \/ UNCHANGED <<start, state>>
          \/ start' = [start EXCEPT ![disp.w] = disp.start] /\ state' = state
          \/ start' = start /\ state' = [state EXCEPT ![disp.w] = "DECODING"]
      BY <1>3 DEF Dispatcher, promote_to_pool, MatchSlot, MatchBusy, FindIdle,
                  ArmSlot, ArmStart, ArmState, ArmPend, Stamp
    <3> QED
      BY <3>1, <2>2 DEF ReadInv, States
  <2>4. disp' \in Calls
    BY DEF HandInv
  <2> QED
    BY <1>2, <2>1, <2>3, <2>4 DEF ReadInv, Drained
<1>4. CASE EndInput
  BY <1>2, <1>4 DEF EndInput, ReadInv, Drained, ringVars
<1>5. CASE focused_worker_stop_and_join
  BY <1>2, <1>5 DEF focused_worker_stop_and_join, ReadInv, Drained, ringVars
<1>6. CASE Done \/ UNCHANGED vars
  BY <1>2, <1>6 DEF Done, vars, ReadInv, Drained, ringVars
<1>7. CASE \E w \in Workers : Worker(w)
  BY <1>7, ReadWorker
<1> QED
  BY <1>1, <1>3, <1>4, <1>5, <1>6, <1>7 DEF Next

LEMMA ReadAlways == Spec => []ReadInv
BY HandInitially, HandStep, ReadInitially, ReadStep, PTL DEF Spec

\* Every live sample is where a reader looks for it, for every capacity and
\* every sequence of batches.
THEOREM RingStaysTrue == Spec => []RingTrue
<1>1. ReadInv => RingTrue
  BY DEF ReadInv, RingInv
<1> QED
  BY <1>1, ReadAlways, PTL

\* A worker that was decoding when it was told to stop has decoded up to the
\* last sample when it is joined.
THEOREM StoppedWorkersDrained == Spec => []Drained
<1>1. ReadInv => Drained
  BY DEF ReadInv
<1> QED
  BY <1>1, ReadAlways, PTL
=============================================================================
