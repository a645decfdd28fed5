-------------------------------- MODULE Dedup --------------------------------
(***************************************************************************)
(* The delayed best-pick dedup of dedup.c and its drainer in main.c.       *)
(*                                                                         *)
(* Demodulator threads (PFB sink workers and focused workers) inject       *)
(* replicas with dedup_buffer(); the drainer thread takes clusters whose   *)
(* window has expired out of the ring and emits them; run_live() stops the *)
(* drainer and sweeps the rest.  A replica is a record of what the tiers   *)
(* look at: its SF/BW class, payload length, fingerprint (the set of its   *)
(* one bits), CRC outcome, SNR and PFB slot.  dedup_buffer() reads the     *)
(* clock before it takes g_dedup_mu, so it is two steps here.              *)
(***************************************************************************)
EXTENDS Integers, FiniteSets

CONSTANTS
    Replicas,       \* the replicas the demodulators may deliver
    Workers,        \* threads that call dedup_buffer()
    RingSize,       \* DEDUP_RING_SIZE
    Window,         \* DEDUP_WINDOW_US
    Tier3Window,    \* DEDUP_TIER3_WINDOW_US
    Adjacency,      \* DEDUP_SLOT_ADJACENCY_US
    Proximity,      \* DEDUP_SLOT_PROXIMITY
    FpThresh,       \* DEDUP_FP_HAMMING_THRESH
    FpThreshBad,    \* DEDUP_FP_HAMMING_THRESH_CRCFAIL
    DrainBatch,     \* DEDUP_DRAIN_BATCH
    MaxTime         \* bound: the last instant of the monotonic clock

NoSlot      == -1       \* user = -1 / INT16_MIN: not from the channelizer
MinPayload  == 14
MaxPayload  == 256      \* DEDUP_MAX_PAYLOAD
CrcOutcomes == {"ok", "bad", "none"}

ASSUME ReplicasAssumption ==
    /\ IsFiniteSet(Replicas)
    /\ \A r \in Replicas :
         /\ r.len \in Nat /\ r.snr \in Int
         /\ r.slot \in Nat \cup {NoSlot}
         /\ r.crc \in CrcOutcomes
         /\ IsFiniteSet(r.fp)
ASSUME BoundsAssumption ==
    /\ RingSize \in Nat \ {0} /\ DrainBatch \in Nat \ {0}
    /\ Window \in Nat /\ Tier3Window \in Nat /\ Adjacency \in Nat
    /\ Proximity \in Nat /\ FpThresh \in Nat /\ FpThreshBad \in Nat
    /\ MaxTime \in Nat

Slots == 0..(RingSize - 1)

VARIABLES
    now,        \* CLOCK_MONOTONIC
    ring,       \* g_dedup
    calls,      \* per worker, the dedup_buffer() call in progress
    seen,       \* replicas delivered so far
    dropped,    \* replicas dedup_buffer() ignored or found no slot for
    retracted,  \* replicas of clusters the reverse tier 3 threw away
    drainPc,    \* dedup_drainer_thread
    tick,       \* the drainer's now_us
    run,        \* g_dedup_drainer_run
    mainPc,     \* dedup_drainer_stop()
    batch,      \* clusters copied out of the ring, not yet emitted
    emitted     \* clusters handed to dedup_emit_locked()

vars == <<now, ring, calls, seen, dropped, retracted, drainPc, tick, run,
          mainPc, batch, emitted>>

Free   == [in_use |-> FALSE]
NoCall == [busy |-> FALSE]

Init ==
    /\ now = 0
    /\ ring = [i \in Slots |-> Free]
    /\ calls = [w \in Workers |-> NoCall]
    /\ seen = {} /\ dropped = {} /\ retracted = {}
    /\ drainPc = "loop" /\ tick = 0 /\ run = TRUE
    /\ mainPc = "run"
    /\ batch = {} /\ emitted = {}

-----------------------------------------------------------------------------
(* The three tiers.                                                        *)

\* "Good" of the tournament: CRC passed, or there was no CRC to fail.
Good(r) == r.crc # "bad"

Hamming(a, b) == Cardinality((a \ b) \cup (b \ a))

InUse == {i \in Slots : ring[i].in_use}

OpenedAt(e) == e.emit_at - Window

\* Opened at most d before t; a cluster opened after t is skipped (the
\* "clock skew sentinel").
OpenedWithin(e, t, d) == OpenedAt(e) <= t /\ t - OpenedAt(e) <= d

Tier1(r) ==
    {i \in InUse :
        /\ ring[i].cls = r.cls
        /\ Hamming(ring[i].best.fp, r.fp)
             <= IF Good(r) THEN FpThresh ELSE FpThreshBad}

Tier2(r, t) ==
    {i \in InUse :
        /\ r.slot # NoSlot
        /\ ring[i].cls = r.cls
        /\ ring[i].min_slot # NoSlot
        /\ OpenedWithin(ring[i], t, Adjacency)
        /\ ring[i].min_slot - r.slot <= Proximity
        /\ r.slot - ring[i].max_slot <= Proximity}

Tier3(r, t) ==
    {i \in InUse :
        /\ ~Good(r)
        /\ ring[i].cls = r.cls
        /\ Good(ring[i].best)
        /\ OpenedWithin(ring[i], t, Tier3Window)}

\* The candidates of the first tier that has any.
Matches(r, t) ==
    IF Tier1(r) # {} THEN Tier1(r)
    ELSE IF Tier2(r, t) # {} THEN Tier2(r, t)
    ELSE Tier3(r, t)

\* Every scan of the ring stops at the lowest index.
IsLowest(i, S) == i \in S /\ \A j \in S : i <= j

-----------------------------------------------------------------------------
(* dedup_buffer().                                                         *)

\* Fault: the old rule, the louder replica wins whatever its CRC.
BeatsOnSnr(r, b) == r.snr > b.snr

Beats(r, b) ==
    \/ Good(r) /\ ~Good(b)
    \/ (Good(r) <=> Good(b)) /\ r.snr > b.snr

\* The replica joins a cluster: count, tournament, slot range.
Join(e, r) ==
    [e EXCEPT
        !.members  = @ \cup {r},
        !.count    = @ + 1,
        !.best     = IF Beats(r, @) THEN r ELSE @,
        !.min_slot = IF r.slot # NoSlot /\ (@ = NoSlot \/ r.slot < @)
                     THEN r.slot ELSE @,
        !.max_slot = IF r.slot # NoSlot /\ (@ = NoSlot \/ r.slot > @)
                     THEN r.slot ELSE @]

Open(r, t) ==
    [in_use |-> TRUE, cls |-> r.cls, best |-> r, members |-> {r}, count |-> 1,
     emit_at |-> t + Window, min_slot |-> r.slot, max_slot |-> r.slot]

\* Reverse tier 3: the CRC-fail clusters a good newcomer throws away.
Retracted(r, t) ==
    {i \in InUse :
        /\ Good(r)
        /\ ring[i].cls = r.cls
        /\ ~Good(ring[i].best)
        /\ OpenedWithin(ring[i], t, Tier3Window)}

MembersAt(S) == UNION {ring[i].members : i \in S}

\* A demodulator delivers r; dedup_buffer() reads the clock.
Call(w, r) ==
    /\ mainPc = "run"
    /\ ~calls[w].busy
    /\ r \notin seen
    /\ now + Window <= MaxTime
    /\ seen' = seen \cup {r}
    /\ IF r.len < MinPayload \/ r.len > MaxPayload
       THEN dropped' = dropped \cup {r} /\ UNCHANGED calls
       ELSE /\ calls' = [calls EXCEPT ![w] = [busy |-> TRUE, r |-> r, t |-> now]]
            /\ UNCHANGED dropped
    /\ UNCHANGED <<now, ring, retracted, drainPc, tick, run, mainPc, batch,
                   emitted>>

\* The critical section, by outcome.
FoldIn(w) ==
    LET r == calls[w].r
    IN  /\ calls[w].busy
        /\ \E i \in Slots :
             /\ IsLowest(i, Matches(r, calls[w].t))
             /\ ring' = [ring EXCEPT ![i] = Join(@, r)]
        /\ calls' = [calls EXCEPT ![w] = NoCall]
        /\ UNCHANGED <<now, seen, dropped, retracted, drainPc, tick, run,
                       mainPc, batch, emitted>>

OpenCluster(w) ==
    LET r == calls[w].r
        t == calls[w].t
        gone == Retracted(r, t)
    IN  /\ calls[w].busy
        /\ Matches(r, t) = {}
        /\ \E i \in Slots :
             /\ IsLowest(i, Slots \ InUse)
             /\ ring' = [j \in Slots |-> IF j = i THEN Open(r, t)
                                       ELSE IF j \in gone THEN Free
                                       ELSE ring[j]]
        /\ retracted' = retracted \cup MembersAt(gone)
        /\ calls' = [calls EXCEPT ![w] = NoCall]
        /\ UNCHANGED <<now, seen, dropped, drainPc, tick, run, mainPc, batch,
                       emitted>>

RingFull(w) ==
    LET r == calls[w].r
    IN  /\ calls[w].busy
        /\ Matches(r, calls[w].t) = {}
        /\ Slots \ InUse = {}
        /\ dropped' = dropped \cup {r}
        /\ calls' = [calls EXCEPT ![w] = NoCall]
        /\ UNCHANGED <<now, ring, seen, retracted, drainPc, tick, run, mainPc,
                       batch, emitted>>

-----------------------------------------------------------------------------
(* dedup_drainer_thread.                                                   *)

\* usleep(5000), then the clock is read outside the lock.
DrainTick ==
    /\ drainPc = "loop"
    /\ run
    /\ tick' = now
    /\ drainPc' = "scan"
    /\ UNCHANGED <<now, ring, calls, seen, dropped, retracted, run, mainPc,
                   batch, emitted>>

\* One locked pass: the first DrainBatch expired clusters leave the ring.
Expired == {i \in InUse : tick >= ring[i].emit_at}

Taken == {i \in Expired :
            Cardinality({j \in Expired : j < i}) < DrainBatch}

\* Fault: the copied clusters stay in use.
DrainScanKeeps ==
    /\ drainPc = "scan"
    /\ batch' = {ring[i] : i \in Taken}
    /\ drainPc' = IF Taken = {} THEN "loop" ELSE "emit"
    /\ UNCHANGED <<now, ring, calls, seen, dropped, retracted, tick, run,
                   mainPc, emitted>>

\* Fault: a tick that finds nothing to emit ends the thread.
DrainScanQuits ==
    /\ drainPc = "scan"
    /\ batch' = {ring[i] : i \in Taken}
    /\ ring' = [i \in Slots |-> IF i \in Taken THEN Free ELSE ring[i]]
    /\ drainPc' = IF Taken = {} THEN "exited" ELSE "emit"
    /\ UNCHANGED <<now, calls, seen, dropped, retracted, tick, run, mainPc,
                   emitted>>

DrainScan ==
    /\ drainPc = "scan"
    /\ batch' = {ring[i] : i \in Taken}
    /\ ring' = [i \in Slots |-> IF i \in Taken THEN Free ELSE ring[i]]
    /\ drainPc' = IF Taken = {} THEN "loop" ELSE "emit"
    /\ UNCHANGED <<now, calls, seen, dropped, retracted, tick, run, mainPc,
                   emitted>>

\* dedup_emit_locked() on one cluster of the batch, outside the lock.
DrainEmit ==
    /\ drainPc = "emit"
    /\ \E e \in batch :
         /\ emitted' = emitted \cup {e}
         /\ batch' = batch \ {e}
         /\ drainPc' = IF batch = {e} THEN "loop" ELSE "emit"
    /\ UNCHANGED <<now, ring, calls, seen, dropped, retracted, tick, run,
                   mainPc>>

DrainExit ==
    /\ drainPc = "loop"
    /\ ~run
    /\ drainPc' = "exited"
    /\ UNCHANGED <<now, ring, calls, seen, dropped, retracted, tick, run,
                   mainPc, batch, emitted>>

-----------------------------------------------------------------------------
(* dedup_drainer_stop(), called when every demodulator thread is idle.     *)

StopDrainer ==
    /\ mainPc = "run"
    /\ \A w \in Workers : ~calls[w].busy
    /\ run' = FALSE
    /\ mainPc' = "join"
    /\ UNCHANGED <<now, ring, calls, seen, dropped, retracted, drainPc, tick,
                   batch, emitted>>

\* Fault: the sweep takes only what the last tick found expired.
SweepExpired ==
    /\ mainPc = "join"
    /\ drainPc = "exited"
    /\ batch' = {ring[i] : i \in Expired}
    /\ ring' = [i \in Slots |-> Free]
    /\ mainPc' = "emit"
    /\ UNCHANGED <<now, calls, seen, dropped, retracted, drainPc, tick, run,
                   emitted>>

Sweep ==
    /\ mainPc = "join"
    /\ drainPc = "exited"
    /\ batch' = {ring[i] : i \in InUse}
    /\ ring' = [i \in Slots |-> Free]
    /\ mainPc' = "emit"
    /\ UNCHANGED <<now, calls, seen, dropped, retracted, drainPc, tick, run,
                   emitted>>

SweepEmit ==
    /\ mainPc = "emit"
    /\ emitted' = emitted \cup batch
    /\ batch' = {}
    /\ mainPc' = "done"
    /\ UNCHANGED <<now, ring, calls, seen, dropped, retracted, drainPc, tick,
                   run>>

-----------------------------------------------------------------------------
Tick ==
    /\ now < MaxTime
    /\ now' = now + 1
    /\ UNCHANGED <<ring, calls, seen, dropped, retracted, drainPc, tick, run,
                   mainPc, batch, emitted>>

Terminated == mainPc = "done" /\ UNCHANGED vars

Buffer(w) == FoldIn(w) \/ OpenCluster(w) \/ RingFull(w)
Drainer   == DrainTick \/ DrainScan \/ DrainEmit \/ DrainExit
Stop      == StopDrainer \/ Sweep \/ SweepEmit

Next ==
    \/ \E w \in Workers : Buffer(w) \/ \E r \in Replicas : Call(w, r)
    \/ Drainer \/ Stop \/ Tick \/ Terminated

Spec == Init /\ [][Next]_vars

\* Threads that can run do run and time passes; a stop that has begun goes
\* on.  No replica need ever arrive and no operator need ever stop.
FairSpec ==
    /\ Spec
    /\ \A w \in Workers : WF_vars(Buffer(w))
    /\ WF_vars(Drainer)
    /\ WF_vars(Sweep \/ SweepEmit)
    /\ WF_vars(Tick)

-----------------------------------------------------------------------------
(* Properties.                                                             *)

Pending   == {calls[w].r : w \in {v \in Workers : calls[v].busy}}
InRing    == MembersAt(InUse)
Copied    == UNION {e.members : e \in batch}
Published == UNION {e.members : e \in emitted}
Clusters  == {ring[i] : i \in InUse} \cup batch \cup emitted

Cluster ==
    [in_use : {TRUE}, cls : {r.cls : r \in Replicas}, best : Replicas,
     members : SUBSET Replicas, count : Nat, emit_at : Nat,
     min_slot : Nat \cup {NoSlot}, max_slot : Nat \cup {NoSlot}]

\* The types of the ring, of the calls in progress and of the bookkeeping.
TypeOK ==
    /\ now \in 0..MaxTime
    /\ ring \in [Slots -> Cluster \cup {Free}]
    /\ calls \in [Workers ->
                    {NoCall} \cup [busy : {TRUE}, r : Replicas, t : Nat]]
    /\ seen \subseteq Replicas
    /\ dropped \subseteq Replicas /\ retracted \subseteq Replicas
    /\ drainPc \in {"loop", "scan", "emit", "exited"}
    /\ tick \in 0..MaxTime /\ run \in BOOLEAN
    /\ mainPc \in {"run", "join", "emit", "done"}
    /\ batch \subseteq Cluster /\ emitted \subseteq Cluster

\* Whatever the interleaving of demodulators, drainer and shutdown, every
\* delivered replica is in exactly one place: an unfinished dedup_buffer()
\* call, one open cluster, one copied cluster, one emitted cluster, or it
\* was dropped or retracted.  No replica is emitted twice or forgotten
\* between the locked scan and the unlocked emit.
OnePlace ==
    /\ seen = Pending \cup dropped \cup retracted \cup InRing \cup Copied
                \cup Published
    /\ \A v, w \in Workers :
          v # w /\ calls[v].busy /\ calls[w].busy => calls[v].r # calls[w].r
    /\ \A i, j \in InUse : i # j => ring[i].members \cap ring[j].members = {}
    /\ \A e, f \in batch \cup emitted : e # f => e.members \cap f.members = {}
    /\ batch \cap emitted = {}
    /\ InRing \cap (Copied \cup Published) = {}
    /\ Pending \cap (InRing \cup Copied \cup Published) = {}
    /\ (dropped \cup retracted)
         \cap (Pending \cup InRing \cup Copied \cup Published) = {}
    /\ dropped \cap retracted = {}

Sound(e) ==
    /\ e.best \in e.members
    /\ \A r \in e.members :
          /\ Good(r) => Good(e.best)
          /\ (Good(r) <=> Good(e.best)) => r.snr <= e.best.snr
          /\ r.slot # NoSlot => e.min_slot <= r.slot /\ r.slot <= e.max_slot
    /\ e.count = Cardinality(e.members)
    /\ e.min_slot = NoSlot <=> e.max_slot = NoSlot
    /\ e.min_slot # NoSlot =>
          {e.min_slot, e.max_slot} \subseteq {r.slot : r \in e.members}

\* The tournament's outcome does not depend on arrival order: a cluster's
\* frame is one of its replicas and no replica of the cluster beats it, so
\* a CRC-fail frame stands for a cluster only if every replica failed; the
\* replica count and slot range published with it are those of its members.
BestWins == \A e \in Clusters : Sound(e)

\* Wide-slot suppression never costs a frame that passed its CRC: what the
\* reverse tier 3 throws away consists of CRC-fail replicas only.
GoodNeverRetracted == \A r \in retracted : ~Good(r)

\* dedup_drainer_stop() returns with every delivered replica accounted for:
\* its cluster was emitted, by the drainer or by the sweep, unless it was
\* dropped or retracted on arrival.
StopLeavesNothing ==
    mainPc = "done" => seen = dropped \cup retracted \cup Published

\* Every delivered replica is settled in the end, also if the sniffer is
\* never stopped: emitted with its cluster, dropped, or retracted.  (The
\* three sets only grow, so it is enough that they catch up again and again.)
EveryReplicaSettled == []<>(seen = dropped \cup retracted \cup Published)
=============================================================================
