-------------------------- MODULE SamplePumpProofs --------------------------
(***************************************************************************)
(* Proofs about SamplePump, for every queue capacity and every number of   *)
(* buffers: the safety properties follow from one inductive invariant,     *)
(* which places every buffer handed to push_samples() - processed, owned   *)
(* by the pump thread, in the ring, or in the input thread's hands - in    *)
(* that order.                                                             *)
(***************************************************************************)
EXTENDS SamplePump, TLAPS

\* Buffers owned by sample_pump_thread / held by the input thread: 0 or 1.
Owned  == IF pumpPc = "own" THEN 1 ELSE 0
InHand == IF inPc \in {"push", "inline", "recheck", "wait_not_full"}
          THEN 1 ELSE 0

\* The k-th oldest entry of the queue.
Entry(k) == ring[(head + k) % Cap]

\* Where run_live() is determines the flags and what the threads may be at.
LifecycleInv ==
    /\ mainPc \in {"setup", "failed"} =>
         /\ ~started /\ ~closing /\ size = 0 /\ pumpPc = "unborn"
         /\ inPc \in {"unborn", "read", "push", "inline", "exited"}
         /\ submitted = 0
    /\ mainPc \in {"started", "wait", "stop"} =>
         started /\ ~closing /\ pumpPc \notin {"unborn", "exited"}
    /\ mainPc = "stop_join" =>
         started /\ closing /\ pumpPc \notin {"unborn", "wait_not_empty"}
    /\ mainPc = "stopped" =>
         ~started /\ ~closing /\ size = 0 /\ pumpPc = "exited"
    /\ mainPc \in {"stop", "stop_join", "stopped"} =>
         inPc \in {"unborn", "exited"}
    /\ started => cap = Cap
    /\ pumpPc = "exited" => size = 0
    /\ backend = "vita49" => inPc \notin {"unborn", "drain", "wait_drained",
                                          "flush"}
    /\ (backend # "vita49" /\ mainPc \in {"setup", "started", "failed"})
         => inPc = "unborn"
    /\ backend # "file" => inPc \notin {"drain", "wait_drained", "flush"}

\* The pump thread's flags and registers.
PumpInv ==
    /\ active <=> pumpPc \in {"own", "finish"}
    /\ pumpPc = "own" => pumpBuf = done + 1
    /\ pumpPc # "own" => pumpBuf = NoBuf

\* Every buffer is in one place, in order.
OrderInv ==
    /\ sent = inBuf
    /\ inBuf = done + Owned + size + InHand
    /\ tail = (head + size) % Cap
    /\ \A k \in 0..(size - 1) : Entry(k) = done + Owned + 1 + k
    /\ inPc = "inline" => size = 0 /\ pumpPc # "own"
    /\ freed = {}
    /\ submitted = processed + Owned + size
    /\ processed <= done

\* sample_pipeline_drain() has returned and nothing was pushed since.
DrainInv == inPc = "flush" => size = 0 /\ pumpPc \notin {"own", "finish"}

IInv == TypeOK /\ LifecycleInv /\ PumpInv /\ OrderInv /\ DrainInv
-----------------------------------------------------------------------------
(* Ring arithmetic.                                                        *)

\* An index one lap ahead at most wraps by one subtraction.
LEMMA WrapAround ==
    \A x \in 0..(2 * Cap - 1) : x % Cap = IF x < Cap THEN x ELSE x - Cap
BY CapAssumption

\* Two entries of the queue less than a lap apart are in different slots.
LEMMA DistinctSlots ==
    ASSUME NEW h \in 0..(Cap - 1), NEW i \in 0..Cap, NEW j \in 0..Cap,
           i < j, j - i < Cap
    PROVE  (h + i) % Cap # (h + j) % Cap
<1>1. h + i \in 0..(2 * Cap - 1)
  BY CapAssumption
<1>2. h + j \in 0..(2 * Cap - 1)
  BY CapAssumption
<1>3. (h + i) % Cap = IF h + i < Cap THEN h + i ELSE h + i - Cap
  BY <1>1, WrapAround, CapAssumption
<1>4. (h + j) % Cap = IF h + j < Cap THEN h + j ELSE h + j - Cap
  BY <1>2, WrapAround, CapAssumption
<1>5. QED
  BY <1>3, <1>4, CapAssumption

\* The slot after the k-th entry is that of the (k+1)-st.
LEMMA NextSlot ==
    ASSUME NEW h \in 0..(Cap - 1), NEW k \in 0..Cap
    PROVE  /\ (h + k) % Cap \in 0..(Cap - 1)
           /\ (((h + k) % Cap) + 1) % Cap = (h + (k + 1)) % Cap
<1>1. h + k \in 0..(2 * Cap - 1)
  BY CapAssumption
<1>2. (h + k) % Cap = IF h + k < Cap THEN h + k ELSE h + k - Cap
  BY <1>1, WrapAround, CapAssumption
<1>3. (h + k) % Cap \in 0..(Cap - 1)
  BY <1>2, CapAssumption
<1>4. CASE h + k + 1 <= 2 * Cap - 1
  <2>1. ((h + k) % Cap) + 1 \in 0..(2 * Cap - 1)
    BY <1>3, CapAssumption
  <2>2. h + (k + 1) \in 0..(2 * Cap - 1)
    BY <1>4, CapAssumption
  <2>3. (((h + k) % Cap) + 1) % Cap
          = IF ((h + k) % Cap) + 1 < Cap THEN ((h + k) % Cap) + 1
            ELSE ((h + k) % Cap) + 1 - Cap
    BY <2>1, WrapAround, CapAssumption
  <2>4. (h + (k + 1)) % Cap
          = IF h + (k + 1) < Cap THEN h + (k + 1) ELSE h + (k + 1) - Cap
    BY <2>2, WrapAround, CapAssumption
  <2>5. QED
    BY <1>2, <1>3, <2>3, <2>4, CapAssumption
<1>5. CASE h + k + 1 = 2 * Cap
  <2>1. (h + k) % Cap = Cap - 1
    BY <1>2, <1>5, CapAssumption
  <2>2. (Cap - 1 + 1) % Cap = 0
    BY WrapAround, CapAssumption
  <2>3. (2 * Cap) % Cap = 0
    BY CapAssumption
  <2>4. QED
    BY <1>3, <1>5, <2>1, <2>2, <2>3, CapAssumption
<1>6. QED
  BY <1>1, <1>3, <1>4, <1>5, CapAssumption
-----------------------------------------------------------------------------
(* The invariant is inductive.                                             *)

LEMMA EmptyRingType == EmptyRing \in [0..(Cap - 1) -> 0..NBuf]
BY CapAssumption, NBufAssumption DEF EmptyRing, NoBuf

LEMMA InitIInv == Init => IInv
<1> SUFFICES ASSUME Init PROVE IInv
  OBVIOUS
<1> USE CapAssumption, NBufAssumption DEF Init, NoBuf
<1>1. TypeOK
  <2>1. ring \in [0..(Cap - 1) -> 0..NBuf]
    BY EmptyRingType
  <2>2. /\ cap \in {0, Cap} /\ size \in 0..Cap
        /\ head \in 0..(Cap - 1) /\ tail \in 0..(Cap - 1)
    OBVIOUS
  <2>3. freed \in SUBSET Bufs
    OBVIOUS
  <2>4. inPc \in {"unborn", "read"}
    OBVIOUS
  <2>5. /\ submitted \in 0..NBuf /\ processed \in 0..NBuf
        /\ sent \in 0..NBuf /\ done \in 0..NBuf
        /\ inBuf \in 0..NBuf /\ pumpBuf \in 0..NBuf
    OBVIOUS
  <2>6. QED
    BY <2>1, <2>2, <2>3, <2>4, <2>5 DEF TypeOK
<1>2. LifecycleInv /\ PumpInv /\ DrainInv
  BY DEF LifecycleInv, PumpInv, DrainInv, Backends
<1>3. OrderInv
  <2>1. (0 + 0) % Cap = 0
    BY WrapAround
  <2>2. QED
    BY <2>1 DEF OrderInv, Owned, InHand, Backends
<1>4. QED
  BY <1>1, <1>2, <1>3 DEF IInv

LEMMA NextIInv == IInv /\ [Next]_vars => IInv'
<1> SUFFICES ASSUME IInv, [Next]_vars PROVE IInv'
  OBVIOUS
<1> USE CapAssumption, NBufAssumption
    DEF IInv, NoBuf, vars, inVars, pumpVars, queueVars, Owned, InHand
<1>1. CASE Sigint
  <2> USE <1>1 DEF Sigint
  <2>1. TypeOK'
    BY DEF TypeOK, LifecycleInv, PumpInv, OrderInv
  <2>2. LifecycleInv'
    BY DEF TypeOK, LifecycleInv, PumpInv
  <2>3. PumpInv'
    BY DEF TypeOK, LifecycleInv, PumpInv, OrderInv, Entry
  <2>4. OrderInv'
    BY SMTT(60) DEF TypeOK, LifecycleInv, PumpInv, OrderInv, Entry
  <2>5. DrainInv'
    BY DEF TypeOK, LifecycleInv, PumpInv, DrainInv
  <2>6. QED
    BY <2>1, <2>2, <2>3, <2>4, <2>5
<1>2. CASE sample_pipeline_start
  <2> USE <1>2 DEF sample_pipeline_start
  <2>1. TypeOK'
    <3>1. ring' \in [0..(Cap - 1) -> 0..NBuf]
      BY EmptyRingType DEF TypeOK
    <3>2. /\ cap' \in {0, Cap} /\ size' \in 0..Cap
          /\ head' \in 0..(Cap - 1) /\ tail' \in 0..(Cap - 1)
      BY DEF TypeOK
    <3>3. submitted' \in 0..NBuf /\ processed' \in 0..NBuf
      BY DEF TypeOK
    <3>4. /\ backend' \in Backends /\ running' \in BOOLEAN
          /\ active' \in BOOLEAN /\ started' \in BOOLEAN
          /\ closing' \in BOOLEAN /\ freed' \in SUBSET Bufs
      BY DEF TypeOK
    <3>5. /\ inBuf' \in 0..NBuf /\ pumpBuf' \in 0..NBuf
          /\ sent' \in 0..NBuf /\ done' \in 0..NBuf
      BY DEF TypeOK
    <3>6. /\ mainPc' \in {"setup", "started", "wait", "stop", "stop_join",
                          "stopped", "failed"}
          /\ inPc' \in {"unborn", "read", "push", "inline", "recheck",
                        "wait_not_full", "drain", "wait_drained", "flush",
                        "exited"}
          /\ pumpPc' \in {"unborn", "loop", "wait_not_empty", "own",
                          "finish", "exited"}
      BY DEF TypeOK
    <3>7. QED
      BY ONLY <3>1, <3>2, <3>3, <3>4, <3>5, <3>6 DEF TypeOK
  <2>2. LifecycleInv'
    BY DEF TypeOK, LifecycleInv, PumpInv
  <2>3. PumpInv'
    BY DEF TypeOK, LifecycleInv, PumpInv, OrderInv, Entry
  <2>4. OrderInv'
    BY SMTT(60) DEF TypeOK, LifecycleInv, PumpInv, OrderInv, Entry
  <2>5. DrainInv'
    BY DEF TypeOK, LifecycleInv, PumpInv, DrainInv
  <2>6. QED
    BY <2>1, <2>2, <2>3, <2>4, <2>5
<1>3. CASE start_input
  BY <1>3 DEF start_input, TypeOK, LifecycleInv, PumpInv, OrderInv,
       DrainInv, Entry
<1>4. CASE JoinInput
  BY <1>4 DEF JoinInput, TypeOK, LifecycleInv, PumpInv, OrderInv, DrainInv,
       Entry
<1>5. CASE StopClose
  BY <1>5 DEF StopClose, TypeOK, LifecycleInv, PumpInv, OrderInv, DrainInv,
       Entry, SignalNotFull, SignalNotEmpty
<1>6. CASE StopReset
  <2> USE <1>6 DEF StopReset
  <2>1. TypeOK'
    <3>1. ring' \in [0..(Cap - 1) -> 0..NBuf]
      BY EmptyRingType DEF TypeOK
    <3>2. /\ cap' \in {0, Cap} /\ size' \in 0..Cap
          /\ head' \in 0..(Cap - 1) /\ tail' \in 0..(Cap - 1)
      BY DEF TypeOK
    <3>3. submitted' \in 0..NBuf /\ processed' \in 0..NBuf
      BY DEF TypeOK
    <3>4. /\ backend' \in Backends /\ running' \in BOOLEAN
          /\ active' \in BOOLEAN /\ started' \in BOOLEAN
          /\ closing' \in BOOLEAN /\ freed' \in SUBSET Bufs
      BY DEF TypeOK
    <3>5. /\ inBuf' \in 0..NBuf /\ pumpBuf' \in 0..NBuf
          /\ sent' \in 0..NBuf /\ done' \in 0..NBuf
      BY DEF TypeOK
    <3>6. /\ mainPc' \in {"setup", "started", "wait", "stop", "stop_join",
                          "stopped", "failed"}
          /\ inPc' \in {"unborn", "read", "push", "inline", "recheck",
                        "wait_not_full", "drain", "wait_drained", "flush",
                        "exited"}
          /\ pumpPc' \in {"unborn", "loop", "wait_not_empty", "own",
                          "finish", "exited"}
      BY DEF TypeOK
    <3>7. QED
      BY ONLY <3>1, <3>2, <3>3, <3>4, <3>5, <3>6 DEF TypeOK
  <2>2. LifecycleInv'
    BY DEF TypeOK, LifecycleInv, PumpInv
  <2>3. PumpInv'
    BY DEF TypeOK, LifecycleInv, PumpInv, OrderInv, Entry
  <2>4. OrderInv'
    BY SMTT(60) DEF TypeOK, LifecycleInv, PumpInv, OrderInv, Entry
  <2>5. DrainInv'
    BY DEF TypeOK, LifecycleInv, PumpInv, DrainInv
  <2>6. QED
    BY <2>1, <2>2, <2>3, <2>4, <2>5
<1>7. CASE Read
  BY <1>7 DEF Read, TypeOK, LifecycleInv, PumpInv, OrderInv, DrainInv, Entry
<1>8. CASE EndOfInput
  BY <1>8 DEF EndOfInput, TypeOK, LifecycleInv, PumpInv, OrderInv, DrainInv,
       Entry
<1>9. CASE PushInline
  BY <1>9 DEF PushInline, TypeOK, LifecycleInv, PumpInv, OrderInv, DrainInv,
       Entry
<1>10. CASE InlineDone
  BY <1>10 DEF InlineDone, TypeOK, LifecycleInv, PumpInv, OrderInv,
       DrainInv, Entry
<1>11. CASE PushWait
  BY <1>11 DEF PushWait, TypeOK, LifecycleInv, PumpInv, OrderInv, DrainInv,
       Entry, Pushing, RingFull
<1>12. CASE PushLand
  <2> USE DEF PushLand, RingFull
  <2>1. /\ started /\ ~closing /\ cap = Cap
        /\ mainPc \in {"started", "wait"}
        /\ inPc \in {"push", "recheck"}
    BY <1>12 DEF LifecycleInv, TypeOK, Pushing
  <2>2. /\ size \in 0..(Cap - 1)
        /\ ring' = [ring EXCEPT ![tail] = inBuf]
        /\ tail' = (tail + 1) % Cap
        /\ size' = size + 1 /\ submitted' = submitted + 1
        /\ pumpPc' = SignalNotEmpty /\ inPc' = "read" /\ freed' = freed
        /\ UNCHANGED <<backend, running, mainPc, inBuf, sent, pumpBuf, cap,
                       head, active, started, closing, processed, done>>
    BY <1>12, <2>1 DEF TypeOK
  <2>3. /\ tail = (head + size) % Cap
        /\ tail' = (head + (size + 1)) % Cap
        /\ tail' \in 0..(Cap - 1)
    <3>1. size \in 0..Cap /\ size + 1 \in 0..Cap /\ head \in 0..(Cap - 1)
      BY <2>2 DEF TypeOK
    <3>2. QED
      BY <2>2, <3>1, NextSlot DEF OrderInv
  <2>4. /\ inBuf = done + Owned + size + 1
        /\ Owned' = Owned /\ InHand' = 0
    BY <2>1, <2>2 DEF OrderInv, SignalNotEmpty
  <2>5. \A k \in 0..size : Entry(k)' = done + Owned + 1 + k
    <3> SUFFICES ASSUME NEW k \in 0..size PROVE Entry(k)' = done + Owned + 1 + k
      OBVIOUS
    <3>1. Entry(k)' = ring'[(head + k) % Cap]
      BY <2>2 DEF Entry
    <3>2. CASE k = size
      <4>1. ring'[tail] = inBuf
        BY <2>2 DEF TypeOK
      <4>2. QED
        BY <2>3, <2>4, <3>1, <3>2, <4>1 DEF TypeOK
    <3>3. CASE k < size
      <4>1. (head + k) % Cap # tail
        <5>1. k \in 0..Cap /\ size \in 0..Cap /\ size - k < Cap
              /\ head \in 0..(Cap - 1)
          BY <2>2 DEF TypeOK
        <5>2. QED
          BY <2>3, <3>3, <5>1, DistinctSlots
      <4>2. (head + k) % Cap \in 0..(Cap - 1)
        BY <2>2, NextSlot DEF TypeOK
      <4>3. ring'[(head + k) % Cap] = Entry(k)
        BY <2>2, <4>1, <4>2 DEF TypeOK, Entry
      <4>4. k \in 0..(size - 1)
        BY <2>2, <3>3
      <4>5. QED
        BY <3>1, <4>3, <4>4 DEF OrderInv
    <3>4. QED
      BY <2>2, <3>2, <3>3
  <2>6. TypeOK'
    BY <2>1, <2>2, <2>3, <2>4 DEF TypeOK, OrderInv, SignalNotEmpty
  <2>7. LifecycleInv'
    BY <2>1, <2>2 DEF TypeOK, LifecycleInv, SignalNotEmpty
  <2>8. PumpInv' /\ DrainInv'
    BY <2>1, <2>2 DEF TypeOK, PumpInv, DrainInv, SignalNotEmpty
  <2>9. OrderInv'
    BY <2>2, <2>3, <2>4, <2>5 DEF TypeOK, OrderInv
  <2>10. QED
    BY <2>6, <2>7, <2>8, <2>9
<1>13. CASE DrainWait
  BY <1>13 DEF DrainWait, TypeOK, LifecycleInv, PumpInv, OrderInv, DrainInv,
       Entry, Outstanding
<1>14. CASE DrainReturn
  BY <1>14 DEF DrainReturn, TypeOK, LifecycleInv, PumpInv, OrderInv,
       DrainInv, Entry, Outstanding
<1>15. CASE FileDone
  BY <1>15 DEF FileDone, TypeOK, LifecycleInv, PumpInv, OrderInv, DrainInv,
       Entry
<1>16. CASE PumpWait
  BY <1>16 DEF PumpWait, TypeOK, LifecycleInv, PumpInv, OrderInv, DrainInv,
       Entry
<1>17. CASE PumpExit
  BY <1>17 DEF PumpExit, TypeOK, LifecycleInv, PumpInv, OrderInv, DrainInv,
       Entry
<1>18. CASE PumpTake
  <2> USE DEF PumpTake
  <2>1. /\ started /\ cap = Cap
        /\ mainPc \in {"started", "wait", "stop", "stop_join"}
        /\ size \in 1..Cap /\ Owned = 0 /\ pumpPc' = "own"
    BY <1>18 DEF LifecycleInv, TypeOK
  <2>2. /\ head' = (head + 1) % Cap /\ head' \in 0..(Cap - 1)
        /\ (head + 0) % Cap = head
    BY <1>18, <2>1, WrapAround DEF TypeOK
  <2>3. pumpBuf' = done + 1
    <3>1. 0 \in 0..(size - 1)
      BY <2>1
    <3>2. Entry(0) = done + Owned + 1 + 0
      BY <3>1 DEF OrderInv
    <3>3. Entry(0) = ring[head]
      BY <2>2 DEF Entry
    <3>4. QED
      BY <1>18, <2>1, <3>2, <3>3 DEF TypeOK
  <2>4. inBuf = done + size + InHand /\ InHand' = InHand
    BY <1>18, <2>1 DEF TypeOK, OrderInv, SignalNotFull
  <2>5. \A k \in 0..(size' - 1) : Entry(k)' = done + 1 + 1 + k
    <3> SUFFICES ASSUME NEW k \in 0..(size - 2)
                 PROVE  Entry(k)' = done + 1 + 1 + k
      BY <1>18, <2>1
    <3>1. (head' + k) % Cap = (head + (k + 1)) % Cap
      <4>1. head \in 0..(Cap - 1) /\ 1 \in 0..Cap /\ k + 1 \in 0..Cap
            /\ head' + k \in 0..(2 * Cap - 1)
            /\ head + 1 \in 0..(2 * Cap - 1)
            /\ head + (k + 1) \in 0..(2 * Cap - 1)
        BY <2>1, <2>2 DEF TypeOK
      <4>2. head' = IF head + 1 < Cap THEN head + 1 ELSE head + 1 - Cap
        BY <2>2, <4>1, WrapAround, SMTT(60)
      <4>3. (head' + k) % Cap = IF head' + k < Cap THEN head' + k
                                                  ELSE head' + k - Cap
        BY <2>2, <4>1, WrapAround
      <4>4. (head + (k + 1)) % Cap = IF head + (k + 1) < Cap THEN head + (k + 1)
                                     ELSE head + (k + 1) - Cap
        BY <4>1, WrapAround
      <4>5. QED
        BY <2>1, <4>1, <4>2, <4>3, <4>4
    <3>2. k + 1 \in 0..(size - 1)
      BY <2>1
    <3>3. Entry(k)' = Entry(k + 1)
      BY <1>18, <3>1 DEF Entry
    <3>4. Entry(k + 1) = done + Owned + 1 + (k + 1)
      BY <3>2 DEF OrderInv
    <3>5. QED
      BY <2>1, <3>3, <3>4 DEF TypeOK
  <2>6. tail = (head' + size') % Cap
    <3>1. head \in 0..(Cap - 1) /\ head' + (size - 1) \in 0..(2 * Cap - 1)
          /\ head + 1 \in 0..(2 * Cap - 1) /\ head + size \in 0..(2 * Cap - 1)
      BY <2>1, <2>2 DEF TypeOK
    <3>2. head' = IF head + 1 < Cap THEN head + 1 ELSE head + 1 - Cap
      BY <2>2, <3>1, WrapAround
    <3>3. (head' + (size - 1)) % Cap = IF head' + (size - 1) < Cap
                                       THEN head' + (size - 1)
                                       ELSE head' + (size - 1) - Cap
      BY <2>1, <2>2, <3>1, WrapAround
    <3>4. tail = IF head + size < Cap THEN head + size ELSE head + size - Cap
      BY <2>1, <3>1, WrapAround DEF OrderInv
    <3>5. QED
      BY <1>18, <2>1, <3>1, <3>2, <3>3, <3>4
  <2>7. TypeOK'
    BY <1>18, <2>1, <2>2, <2>3, <2>4 DEF TypeOK, OrderInv, SignalNotFull
  <2>8. LifecycleInv' /\ PumpInv' /\ DrainInv'
    BY <1>18, <2>1, <2>3 DEF TypeOK, LifecycleInv, PumpInv, DrainInv,
       SignalNotFull
  <2>9. OrderInv'
    <3>1. /\ Owned' = 1 /\ size' = size - 1
          /\ submitted' = processed' + Owned' + size'
      BY <1>18, <2>1 DEF TypeOK, OrderInv
    <3>2. inBuf' = done' + Owned' + size' + InHand'
      BY <1>18, <2>1, <2>4, <3>1 DEF TypeOK
    <3>3. \A k \in 0..(size' - 1) : Entry(k)' = done' + Owned' + 1 + k
      BY <1>18, <2>5, <3>1
    <3>4. inPc' # "inline" /\ tail' = (head' + size') % Cap
      BY <1>18, <2>1, <2>6 DEF OrderInv, SignalNotFull
    <3>5. QED
      BY <1>18, <3>1, <3>2, <3>3, <3>4 DEF OrderInv
  <2>10. QED
    BY <2>7, <2>8, <2>9
<1>19. CASE PumpProcess
  BY <1>19 DEF PumpProcess, TypeOK, LifecycleInv, PumpInv, OrderInv,
       DrainInv, Entry
<1>20. CASE PumpFinish
  BY <1>20 DEF PumpFinish, TypeOK, LifecycleInv, PumpInv, OrderInv,
       DrainInv, Entry, SignalDrained
<1>21. CASE SpuriousWakeup
  <2> USE <1>21 DEF SpuriousWakeup
  <2>1. TypeOK'
    BY DEF TypeOK, LifecycleInv, PumpInv, OrderInv
  <2>2. LifecycleInv'
    BY DEF TypeOK, LifecycleInv, PumpInv
  <2>3. PumpInv'
    BY DEF TypeOK, LifecycleInv, PumpInv, OrderInv, Entry
  <2>4. OrderInv'
    <3>1. Owned' = Owned /\ InHand' = InHand
      BY DEF Owned, InHand
    <3>2. /\ inPc' = "inline" => inPc = "inline"
          /\ pumpPc' = "own" => pumpPc = "own"
      OBVIOUS
    <3>3. \A k \in 0..(size - 1) : Entry(k)' = Entry(k)
      BY DEF Entry
    <3>4. QED
      BY <3>1, <3>2, <3>3 DEF OrderInv
  <2>5. DrainInv'
    BY DEF TypeOK, LifecycleInv, PumpInv, DrainInv
  <2>6. QED
    BY <2>1, <2>2, <2>3, <2>4, <2>5
<1>22. CASE Terminated
  BY <1>22 DEF Terminated, TypeOK, LifecycleInv, PumpInv, OrderInv,
       DrainInv, Entry
<1>23. CASE UNCHANGED vars
  BY <1>23 DEF TypeOK, LifecycleInv, PumpInv, OrderInv, DrainInv, Entry
<1>24. QED
  BY <1>1, <1>2, <1>3, <1>4, <1>5, <1>6, <1>7, <1>8, <1>9, <1>10, <1>11,
     <1>12, <1>13, <1>14, <1>15, <1>16, <1>17, <1>18, <1>19, <1>20, <1>21,
     <1>22, <1>23 DEF Next, MainNext, InputNext, InputStep, PumpNext
-----------------------------------------------------------------------------
(* What the invariant gives.                                               *)

\* The inductive invariant holds in every reachable state.
LEMMA Invariance == Spec => []IInv
BY InitIInv, NextIInv, PTL DEF Spec

\* Type correctness: in particular the ring indices never leave the ring and
\* the queue never holds more than its capacity.
THEOREM TypeCorrect == Spec => []TypeOK
<1>1. IInv => TypeOK
  BY DEF IInv
<1>2. QED
  BY <1>1, Invariance, PTL

\* process_sample_buf() is never entered by two threads at once.
THEOREM ProcessingExclusive == Spec => []OneProcessor
<1>1. IInv => OneProcessor
  BY DEF IInv, OrderInv, OneProcessor
<1>2. QED
  BY <1>1, Invariance, PTL

\* A drain that has returned leaves no buffer on its way.
THEOREM DrainIsComplete == Spec => []DrainComplete
<1>1. IInv => DrainComplete
  BY NBufAssumption DEF IInv, TypeOK, OrderInv, DrainInv, DrainComplete,
     Owned, InHand
<1>2. QED
  BY <1>1, Invariance, PTL

\* No buffer is freed unprocessed and none is left behind by the drain or the
\* stop.
THEOREM NoBufferLost == Spec => []NothingLost
<1>1. IInv /\ DrainComplete => NothingLost
  BY NBufAssumption DEF IInv, TypeOK, LifecycleInv, OrderInv, NothingLost,
     Owned, InHand
<1>2. QED
  BY <1>1, Invariance, DrainIsComplete, PTL

\* The pump implements the in-order, exactly-once, bounded stream.
THEOREM PumpImplementsStream == Spec => StreamSpec
<1>1. Init => Stream!Init
  BY DEF Init, Stream!Init
<1>2. IInv /\ [Next]_vars => [Stream!Next]_(Stream!vars)
  <2> SUFFICES ASSUME IInv, [Next]_vars
               PROVE  Stream!Next \/ UNCHANGED <<sent, done>>
    BY DEF Stream!vars
  <2> USE CapAssumption, NBufAssumption DEF IInv
  <2>1. CASE Read
    <3>1. sent - done < Cap + 2
      BY <2>1 DEF Read, TypeOK, OrderInv, Owned, InHand
    <3>2. QED
      BY <2>1, <3>1 DEF Read, Stream!Next, Stream!Submit
  <2>2. CASE InlineDone
    <3>1. done < sent /\ inBuf = done + 1
      BY <2>2 DEF InlineDone, TypeOK, OrderInv, Owned, InHand
    <3>2. QED
      BY <2>2, <3>1 DEF InlineDone, Stream!Next, Stream!Process
  <2>3. CASE PumpProcess
    <3>1. done < sent /\ pumpBuf = done + 1
      BY <2>3 DEF PumpProcess, TypeOK, PumpInv, OrderInv, Owned, InHand
    <3>2. QED
      BY <2>3, <3>1 DEF PumpProcess, inVars, Stream!Next, Stream!Process
  <2>4. CASE UNCHANGED vars
    BY <2>4 DEF vars, inVars
  <2>5. CASE MainNext \/ Sigint \/ SpuriousWakeup \/ Terminated
    BY <2>5 DEF MainNext, sample_pipeline_start, start_input, JoinInput,
       StopClose, StopReset, Sigint, SpuriousWakeup, Terminated, vars, inVars
  <2>6. CASE EndOfInput \/ PushInline \/ PushWait \/ PushLand \/ DrainWait
             \/ DrainReturn \/ FileDone
    BY <2>6 DEF EndOfInput, PushInline, PushWait, PushLand, DrainWait,
       DrainReturn, FileDone
  <2>7. CASE PumpWait \/ PumpExit \/ PumpTake \/ PumpFinish
    BY <2>7 DEF PumpWait, PumpExit, PumpTake, PumpFinish, inVars
  <2>8. QED
    BY <2>1, <2>2, <2>3, <2>4, <2>5, <2>6, <2>7
       DEF Next, InputNext, InputStep, PumpNext
<1>3. QED
  BY <1>1, <1>2, Invariance, PTL DEF Spec, StreamSpec, Stream!Spec
=============================================================================
