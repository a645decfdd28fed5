--------------------------- MODULE FusionEvidence ---------------------------
(***************************************************************************)
(* The fusion server's main loop (fusion/main.go) with the clock           *)
(* synchronisation it feeds (clocksync.go), the three evidence buckets it  *)
(* writes (store.go) and the re-solve handler that reads them (replay.go). *)
(*                                                                         *)
(* Sensors hear Emissions.  A station stamps what it hears with its own    *)
(* clock, whose error is off[s]; its feed delivers in order, late, and may *)
(* lose frames.  Observations of one (from, packet_id) are grouped into    *)
(* clusters, one per emission, and a cluster older than Window is flushed: *)
(* stored, fed to the clock-offset graph when its sender is an anchor,     *)
(* published, and solved.  The process may stop between any two of these   *)
(* steps; the buckets survive.                                             *)
(*                                                                         *)
(* Times are integers: `at', locks and offsets in units of the stations'   *)
(* clocks, `now', `first' and sample times in ticks of the server's.       *)
(* Positions are known and propagation is subtracted exactly, so only the  *)
(* clock error is left of a pair's offset; the fields `at' and `off' of an *)
(* observation are the truth behind it, which no operation reads.          *)
(***************************************************************************)
EXTENDS Integers, FiniteSets, Sequences, TLC, SequencesExt, FiniteSetsExt

CONSTANTS
    Stations,          \* station names: naturals, ordered as the names are
    Emissions,         \* sequence of [from, pid, at, due, snr]
    Feeds,             \* subscriptions: pairs <<station, k>>
    Anchors,           \* senders declared with a known position
    NoLock,            \* <<station, emission>> published without a lock time
    Blind,             \* stations without a position or with a bad clock
    Near,              \* <<station, emission>> above the RSSI gate
    Skew,              \* initial clock errors
    StepBack,          \* size of a backward clock step
    SameEmission,      \* --same-emission-window
    Window,            \* --window, in ticks
    MinAnchorEvents, MaxMAD, MaxAge, MaxSamples, Tol,
    TickLen,           \* station clock units per tick
    Steppable,         \* groups of stations whose clocks may be stepped together
    MaxNow,
    FaultKinds,        \* subset of {"late", "lost", "step", "restart"}
    MaxFaults          \* how many of them in a behaviour

VARIABLES
    now, off, faults,
    cursor,            \* [Feeds -> emissions already read from the feed]
    pending,           \* [base key -> clusters in flight, oldest first]
    nextEmissionSeq,   \* [base key -> next sequence number]
    ready, cur, stage, \* the flush in progress: rest, cluster, next step
    unsaved,           \* pair snapshots FeedCluster returned, still to write
    pairs,             \* [pair -> rolling offset state]
    lastAnchorObs,     \* [station -> lock of its last anchor observation]
    rows, snaps, fixes,\* cluster_observations, pair_snapshots, solved_fixes
    published,         \* fixes that left through the hub, and the last replay
    solve              \* the timestamps of the last solve, live or replayed

disk == <<rows, snaps, fixes>>
loopVars == <<pending, nextEmissionSeq, ready, cur, stage, unsaved>>
syncVars == <<pairs, lastAnchorObs>>
world == <<now, off, faults, cursor>>
seen == <<published, solve>>
vars == <<world, loopVars, syncVars, disk, seen>>

BaseKeys == {<<Emissions[i].from, Emissions[i].pid>> : i \in DOMAIN Emissions}
From(base) == base[1]
NoSolve == [inputs |-> {}]
NoCluster == [base |-> <<>>, seq |-> 0]

----------------------------------------------------------------------------
(* Clusters.                                                               *)

Locks(obs) == {obs[i].lock : i \in DOMAIN obs} \ {0}
MinLock(obs) == IF Locks(obs) = {} THEN 0 ELSE Min(Locks(obs))
MaxLock(obs) == IF Locks(obs) = {} THEN 0 ELSE Max(Locks(obs))

\* An observation carrying a lock beats one without; then the higher SNR.
betterObservation(a, b) ==
    IF (a.lock # 0) # (b.lock # 0) THEN a.lock # 0 ELSE a.snr > b.snr

\* Would the lock keep the cluster's spread within the window?
Fits(c, lock) ==
    \/ c.lo = 0 /\ c.hi = 0
    \/ Max({c.hi, lock}) - Min({c.lo, lock}) <= SameEmission

\* Index of the cluster a frame joins, 0 for none: the first that fits, or
\* for a frame without a lock the youngest emission.
pickCluster(cs, lock) ==
    LET fit == {i \in DOMAIN cs : Fits(cs[i], lock)}
        young == {i \in DOMAIN cs : \A j \in DOMAIN cs : cs[j].seq <= cs[i].seq}
        cand == IF lock # 0 THEN fit ELSE young
    IN  IF cand = {} THEN 0 ELSE Min(cand)

\* Mutant form: the displaced observation's lock stays in the bounds.
recomputeLockBoundsNot(c) == c

recomputeLockBounds(c) ==
    [c EXCEPT !.lo = MinLock(c.obs), !.hi = MaxLock(c.obs)]

\* One observation per station: on a collision the better one stays.
mergeObservation(c, o) ==
    LET same == {i \in DOMAIN c.obs : c.obs[i].stn = o.stn}
        i == CHOOSE x \in same : TRUE
    IN  IF same # {}
        THEN recomputeLockBounds(
               [c EXCEPT !.dupes = @ + 1,
                         !.obs[i] = IF betterObservation(o, @) THEN o ELSE @])
        ELSE [c EXCEPT !.obs = Append(@, o),
                       !.lo = IF o.lock # 0 /\ (@ = 0 \/ o.lock < @) THEN o.lock ELSE @,
                       !.hi = IF o.lock > @ THEN o.lock ELSE @]

NewCluster(base, seq, lock) ==
    [base |-> base, seq |-> seq, first |-> now, obs |-> <<>>,
     lo |-> 0, hi |-> 0, low |-> lock = 0, dupes |-> 0]

toClusterObservationRecord(c) ==
    [time |-> IF MaxLock(c.obs) # 0 THEN MaxLock(c.obs) ELSE c.first,
     base |-> c.base, seq |-> c.seq, low |-> c.low, obs |-> ToSet(c.obs)]

----------------------------------------------------------------------------
(* The buckets: bbolt replaces the value of a key that is already there.   *)

clusterObsKey(r) == <<r.time, r.base>>
pairSnapshotKey(r) == <<r.time, r.pair>>
solvedFixKey(r) == <<r.time, r.base, r.seq>>

WriteClusterObservation(r) ==
    {x \in rows : clusterObsKey(x) # clusterObsKey(r)} \cup {r}
WritePairSnapshot(r) ==
    {x \in snaps : pairSnapshotKey(x) # pairSnapshotKey(r)} \cup {r}
WriteSolvedFix(r) ==
    {x \in fixes : solvedFixKey(x) # solvedFixKey(r)} \cup {r}

ReadClusterObservationsRange(lo, hi) == {r \in rows : r.time \in lo..hi}

ReadSolvedFixesRange(lo, hi) == {x \in fixes : x.time \in lo..hi}

\* The newest snapshot of the pair no younger than t, as a set of 0 or 1.
LatestPairSnapshotAtOrBefore(t, pair) ==
    LET old == {s \in snaps : s.pair = pair /\ s.time <= t}
    IN  {s \in old : \A x \in old : x.time <= s.time}

findClusterObservation(t, base, seq) ==
    {r \in ReadClusterObservationsRange(t, t) : r.base = base /\ r.seq = seq}

----------------------------------------------------------------------------
(* Clock synchronisation.                                                  *)

PairKey(a, b) == IF a < b THEN <<a, b>> ELSE <<b, a>>
Values(po) == [i \in DOMAIN po.samples |-> po.samples[i].v]

Middle(s) == SortSeq(s, <)[(Len(s) \div 2) + 1]
Abs(x) == IF x < 0 THEN -x ELSE x
MedianOf(po) == Middle(Values(po))
MadOf(po) == Middle([i \in DOMAIN po.samples |-> Abs(po.samples[i].v - MedianOf(po))])

\* AnchorEvents is at least 1 for every pair there is.
pairStatusNow(po) ==
    IF Len(po.samples) < MinAnchorEvents THEN "warming"
    ELSE IF MadOf(po) > MaxMAD THEN "rejected"
    ELSE IF po.last < now - MaxAge THEN "stale" ELSE "converged"

Converged == {k \in DOMAIN pairs : pairStatusNow(pairs[k]) = "converged"}
stationHasConvergedPair(s) == \E k \in Converged : s \in {k[1], k[2]}

\* The smallest name in a converged pair; 0 stands for "".
PickReferenceStation ==
    IF Converged = {} THEN 0 ELSE Min({k[1] : k \in Converged})

\* Mutant form: the sign is not turned for a pair heard in the other order.
OffsetSampleUnturned(key, A, B) ==
    [v |-> B.lock - A.lock, at |-> now, base |-> <<A.off, B.off>>]

\* The offset is kept as (time of the larger name - time of the smaller).
OffsetSample(key, A, B) ==
    LET measured == B.lock - A.lock
    IN  [v |-> IF key[1] = A.stn THEN measured ELSE -measured, at |-> now,
         base |-> IF key[1] = A.stn THEN <<A.off, B.off>> ELSE <<B.off, A.off>>]

\* One more sample: cap the window, drop what is older than MaxAge.
AddSample(po, s) ==
    LET all == Append(po.samples, s)
        capped == IF Len(all) > MaxSamples THEN Tail(all) ELSE all
    IN  [samples |-> SelectSeq(capped, LAMBDA x : x.at > now - MaxAge),
         last |-> now]

\* Mutant form: the monotonicity guard sees nothing.
SteppedBackNever(o) == FALSE

\* Observations FeedCluster can use, and those whose clock went backward.
Usable(c) == SelectSeq(c.obs, LAMBDA o : o.lock # 0 /\ ~o.strong)
SteppedBack(o) ==
    lastAnchorObs[o.stn] # 0 /\ o.lock + Tol < lastAnchorObs[o.stn]

\* Pairs left once every pair touching a stepped station is deleted.
PairsKept(stepped) ==
    {k \in DOMAIN pairs : k[1] \notin stepped /\ k[2] \notin stepped}

\* The pairs heard together, and the table after each got its sample.
PairsHeard(good) ==
    {k \in Stations \X Stations :
        k[1] < k[2] /\ {k[1], k[2]} \subseteq {good[i].stn : i \in DOMAIN good}}

PairsFed(good, kept) ==
    LET Pos(s) == CHOOSE i \in DOMAIN good : good[i].stn = s
        A(k) == good[Min({Pos(k[1]), Pos(k[2])})]
        B(k) == good[Max({Pos(k[1]), Pos(k[2])})]
        Old(k) == IF k \in kept THEN pairs[k] ELSE [samples |-> <<>>, last |-> now]
    IN  [k \in kept \cup PairsHeard(good) |->
           IF k \in PairsHeard(good) THEN AddSample(Old(k), OffsetSample(k, A(k), B(k)))
           ELSE pairs[k]]

Snapshot(k, po, t) ==
    [time |-> t, pair |-> k, med |-> MedianOf(po), status |-> pairStatusNow(po),
     base |-> {po.samples[i].base : i \in DOMAIN po.samples}]

FeedCluster(c) ==
    LET usable == Usable(c)
        stepped == {usable[i].stn : i \in {j \in DOMAIN usable : SteppedBack(usable[j])}}
        good == SelectSeq(usable, LAMBDA o : ~SteppedBack(o))
        kept == PairsKept(stepped)
        fed == IF Len(good) < 2 THEN [k \in kept |-> pairs[k]] ELSE PairsFed(good, kept)
        LockOf(s) == usable[CHOOSE i \in DOMAIN usable : usable[i].stn = s].lock
        heard == {usable[i].stn : i \in DOMAIN usable}
    IN  IF From(c.base) \notin Anchors \/ Len(usable) < 2
        THEN unsaved' = {} /\ UNCHANGED syncVars
        ELSE /\ lastAnchorObs' = [s \in Stations |->
                    IF s \in heard /\ (s \in stepped \/ LockOf(s) > lastAnchorObs[s])
                    THEN LockOf(s) ELSE lastAnchorObs[s]]
             /\ pairs' = fed
             /\ unsaved' = IF Len(good) < 2 THEN {}
                           ELSE {Snapshot(k, fed[k], MaxLock(good)) : k \in PairsHeard(good)}

\* Timestamp and class of an observation rebased to the reference.
CorrectAndClassify(o, ref) ==
    LET key == PairKey(o.stn, ref)
    IN  IF o.lock = 0 THEN [o |-> o, t |-> o.at + o.off, cls |-> "frame", used |-> {}]
        ELSE IF ref = o.stn
        THEN [o |-> o, t |-> o.lock, used |-> {},
              cls |-> IF stationHasConvergedPair(o.stn) THEN "sync" ELSE "software_lock"]
        ELSE IF key \notin Converged
        THEN [o |-> o, t |-> o.lock, cls |-> "software_lock", used |-> {}]
        ELSE [o |-> o, cls |-> "sync",
              t |-> Max({0, IF o.stn = key[1] THEN o.lock + MedianOf(pairs[key])
                                              ELSE o.lock - MedianOf(pairs[key])}),
              used |-> {pairs[key].samples[i].base : i \in DOMAIN pairs[key].samples}]

----------------------------------------------------------------------------
(* Solving.                                                                *)

\* Observations the solver takes: a position, a timestamp, a usable clock.
Located(obs) == {o \in obs : o.stn \notin Blind}

\* What Solve makes of its inputs besides the position: how many, the worst
\* class and whether classes were mixed.
ClassRank(cls) == CASE cls = "sync" -> 1 [] cls = "software_lock" -> 2 [] OTHER -> 3
Solve(inputs) ==
    [inputs |-> inputs,
     worst |-> Max({ClassRank(i.cls) : i \in inputs}),
     degraded |-> Cardinality({i.cls : i \in inputs}) > 1]

\* Without a reference the solver infers the class from the fields itself.
resolveTNs(o) ==
    IF o.lock # 0 THEN [o |-> o, t |-> o.lock, cls |-> "software_lock", used |-> {}]
    ELSE [o |-> o, t |-> o.at + o.off, cls |-> "frame", used |-> {}]

tryGeolocate(c) ==
    LET ref == PickReferenceStation
    IN  Solve({IF ref = 0 THEN resolveTNs(o) ELSE CorrectAndClassify(o, ref) :
                 o \in Located(ToSet(c.obs))})

\* The snapshot of the pair that was converged and fresh at time t.
FreshSnapshot(t, pair) ==
    {s \in LatestPairSnapshotAtOrBefore(t, pair) :
        s.status = "converged" /\ t - s.time \in 0..(MaxAge * TickLen)}

resolveAtEventTime(r) ==
    LET obs == Located(r.obs)
        ref == Min({o.stn : o \in obs})
        Shift(o) ==
          LET key == PairKey(o.stn, ref)
              snap == FreshSnapshot(r.time, key)
              s == CHOOSE x \in snap : TRUE
          IN  IF o.lock = 0 THEN [o |-> o, t |-> o.at + o.off, cls |-> "frame", used |-> {}]
              ELSE IF o.stn = ref THEN [o |-> o, t |-> o.lock, cls |-> "sync", used |-> {}]
              ELSE IF snap = {} THEN [o |-> o, t |-> o.lock, cls |-> "software_lock", used |-> {}]
              ELSE [o |-> o, cls |-> "sync", used |-> s.base,
                    t |-> Max({0, IF o.stn = key[1] THEN o.lock + s.med ELSE o.lock - s.med})]
    IN  Solve({Shift(o) : o \in obs})

resolveWithCurrentModel(r) ==
    LET obs == Located(r.obs)
        ref == IF Converged = {} THEN Min({o.stn : o \in obs}) ELSE PickReferenceStation
    IN  Solve({CorrectAndClassify(o, ref) : o \in obs})

----------------------------------------------------------------------------
Init ==
    /\ now = 0 /\ off = Skew /\ faults = 0
    /\ cursor = [f \in Feeds |-> 0]
    /\ pending = [b \in BaseKeys |-> <<>>]
    /\ nextEmissionSeq = [b \in BaseKeys |-> 0]
    /\ ready = {} /\ cur = NoCluster /\ stage = "loop" /\ unsaved = {}
    /\ pairs = <<>> /\ lastAnchorObs = [s \in Stations |-> 0]
    /\ rows = {} /\ snaps = {} /\ fixes = {}
    /\ published = {} /\ solve = NoSolve

Fault(kind) == kind \in FaultKinds /\ faults < MaxFaults /\ faults' = faults + 1
Expired(c) == now - c.first > Window

\* Time passes.  The ticker flushes several times per window, so the clock
\* does not run past a cluster that is due.
Tick ==
    /\ now < MaxNow /\ stage = "loop"
    /\ \A b \in BaseKeys : \A i \in DOMAIN pending[b] : ~Expired(pending[b][i])
    /\ now' = now + 1
    /\ UNCHANGED <<off, faults, cursor, loopVars, syncVars, disk, seen>>

\* NTP step, suspend and resume, or a moved virtual machine: one host, or
\* the hosts that follow one time server.
ClockStep(G) ==
    /\ stage = "loop" /\ Fault("step")
    /\ off' = [s \in Stations |-> IF s \in G THEN off[s] - StepBack ELSE off[s]]
    /\ UNCHANGED <<now, cursor, loopVars, syncVars, disk, seen>>

Next1(f) == Emissions[cursor[f] + 1]
CanRead(f) == cursor[f] < Len(Emissions) /\ Next1(f).due <= now
Heard(f) ==
    LET s == f[1] e == Next1(f)
    IN  [stn |-> s, lock |-> IF <<s, cursor[f] + 1>> \in NoLock THEN 0 ELSE e.at + off[s], snr |-> e.snr,
         strong |-> <<s, cursor[f] + 1>> \in Near, at |-> e.at, off |-> off[s]]

\* case b := <-raw: one frame of a feed joins a cluster or opens one.
Receive(f) ==
    /\ stage = "loop" /\ CanRead(f)
    /\ IF Next1(f).due = now THEN faults' = faults
       ELSE Fault("late")
    /\ cursor' = [cursor EXCEPT ![f] = @ + 1]
    /\ LET base == <<Next1(f).from, Next1(f).pid>>
           o == Heard(f)
           i == pickCluster(pending[base], o.lock)
           fresh == NewCluster(base, nextEmissionSeq[base], o.lock)
           Joined(c) == mergeObservation([c EXCEPT !.low = @ \/ o.lock = 0], o)
       IN  /\ pending' = [pending EXCEPT ![base] =
                            IF i = 0 THEN Append(@, Joined(fresh)) ELSE [@ EXCEPT ![i] = Joined(@)]]
           /\ nextEmissionSeq' = [nextEmissionSeq EXCEPT ![base] = IF i = 0 THEN @ + 1 ELSE @]
    /\ UNCHANGED <<now, off, ready, cur, stage, unsaved, syncVars, disk, seen>>

\* The station did not hear it, or the PUB socket dropped it.
Lose(f) ==
    /\ stage = "loop" /\ CanRead(f) /\ Fault("lost")
    /\ cursor' = [cursor EXCEPT ![f] = @ + 1]
    /\ UNCHANGED <<now, off, loopVars, syncVars, disk, seen>>

\* case now := <-tick.C: take every expired cluster out of pending.
flushReady ==
    /\ stage = "loop"
    /\ ready' = UNION {{c \in ToSet(pending[b]) : Expired(c)} : b \in BaseKeys}
    /\ ready' # {}
    /\ pending' = [b \in BaseKeys |-> SelectSeq(pending[b], LAMBDA c : ~Expired(c))]
    /\ stage' = "row"
    /\ UNCHANGED <<world, nextEmissionSeq, cur, unsaved, syncVars, disk, seen>>

\* Store the evidence of the next cluster in order of first sight.
PersistCluster ==
    /\ stage = "row"
    /\ \E c \in ready :
         /\ \A d \in ready : c.first <= d.first
         /\ cur' = c /\ ready' = ready \ {c}
         /\ rows' = WriteClusterObservation(toClusterObservationRecord(c))
    /\ stage' = "sync"
    /\ UNCHANGED <<world, pending, nextEmissionSeq, unsaved, syncVars, snaps, fixes, published, solve>>

\* Anchor traffic updates the clock graph before anything is solved.
FeedSync ==
    /\ stage = "sync"
    /\ FeedCluster(cur)
    /\ stage' = "snaps"
    /\ UNCHANGED <<world, pending, nextEmissionSeq, ready, cur, disk, seen>>

PersistSnapshot ==
    /\ stage = "snaps"
    /\ \E r \in unsaved : snaps' = WritePairSnapshot(r) /\ unsaved' = unsaved \ {r}
    /\ UNCHANGED <<world, pending, nextEmissionSeq, ready, cur, stage, syncVars, rows, fixes, seen>>

AfterCluster == IF ready = {} THEN "loop" ELSE "row"
Event(kind, c) == [kind |-> kind, base |-> c.base, seq |-> c.seq]
LiveFixes == {e \in published : e.kind = "GEOLOCATED"}

\* The TX event; anchor traffic is not located.
PublishTx ==
    /\ stage = "snaps" /\ unsaved = {}
    /\ stage' = IF From(cur.base) \in Anchors \/ Cardinality(Located(ToSet(cur.obs))) < 3
                THEN AfterCluster ELSE "solve"
    /\ UNCHANGED <<world, pending, nextEmissionSeq, ready, cur, unsaved, syncVars, disk, seen>>

\* Mutant form: the fix is dated by the server's clock.
FixRecordFirstSeen(c) == [time |-> c.first, base |-> c.base, seq |-> c.seq]

FixRecord(c) == [time |-> IF c.hi # 0 THEN c.hi ELSE c.first, base |-> c.base, seq |-> c.seq]

\* The fix is stored before it is published; the solver may not converge.
PersistFix ==
    /\ stage = "solve"
    /\ solve' = tryGeolocate(cur)
    /\ fixes' = WriteSolvedFix(FixRecord(cur))
    /\ stage' = "geo"
    /\ UNCHANGED <<world, pending, nextEmissionSeq, ready, cur, unsaved, syncVars, rows, snaps, published>>

NoSolution ==
    /\ stage = "solve"
    /\ stage' = AfterCluster
    /\ UNCHANGED <<world, pending, nextEmissionSeq, ready, cur, unsaved, syncVars, disk, seen>>

PublishFix ==
    /\ stage = "geo"
    /\ published' = published \cup {Event("GEOLOCATED", cur)}
    /\ stage' = AfterCluster /\ solve' = NoSolve
    /\ UNCHANGED <<world, pending, nextEmissionSeq, ready, cur, unsaved, syncVars, disk>>

\* GET /api/evidence/fixes: what the timeline shows of a range; one that ends
\* before it starts is refused.
parseEvidenceRange(lo, hi) == lo <= hi
evidenceFixesHandler(lo, hi) ==
    IF parseEvidenceRange(lo, hi) THEN ReadSolvedFixesRange(lo, hi) ELSE {}

\* POST /api/resolve: a fix of the timeline solved again from its stored
\* cluster, published as a replay.
Resolvable(r) == Cardinality(Located(r.obs)) >= 3
resolveHandler ==
    /\ \E lo, hi \in {x.time : x \in fixes} : \E x \in evidenceFixesHandler(lo, hi) :
       \E r \in findClusterObservation(x.time, x.base, x.seq) :
         Resolvable(r) /\ published' = LiveFixes \cup {Event("REPLAY_GEOLOCATED", r)}
    /\ UNCHANGED <<world, loopVars, syncVars, disk, solve>>

\* The process ends, by signal or crash: what is still pending is at most
\* printed.  A restart finds the buckets and nothing else.
Restart ==
    /\ Fault("restart")
    /\ pending' = [b \in BaseKeys |-> <<>>]
    /\ nextEmissionSeq' = [b \in BaseKeys |-> 0]
    /\ ready' = {} /\ cur' = NoCluster /\ stage' = "loop" /\ unsaved' = {}
    /\ pairs' = <<>> /\ lastAnchorObs' = [s \in Stations |-> 0] /\ solve' = NoSolve
    /\ UNCHANGED <<now, off, cursor, disk, published>>

Next ==
    \/ Tick \/ \E G \in Steppable : ClockStep(G)
    \/ \E f \in Feeds : Receive(f) \/ Lose(f)
    \/ flushReady \/ PersistCluster \/ FeedSync \/ PersistSnapshot
    \/ PublishTx \/ PersistFix \/ NoSolution \/ PublishFix
    \/ resolveHandler \/ Restart

Spec == Init /\ [][Next]_vars

----------------------------------------------------------------------------
Clusters == ready \cup UNION {ToSet(pending[b]) : b \in BaseKeys}

\* One wavefront per cluster (pickCluster, mergeObservation): however frames,
\* relays and better copies arrive, the locks of a cluster in flight lie
\* within the same-emission window, each station is in it once, the recorded
\* bounds are those of the observations it holds, and a cluster with an
\* observation without a lock is marked low-trust.
OneWavefront ==
    \A c \in Clusters :
        /\ MaxLock(c.obs) - MinLock(c.obs) <= SameEmission
        /\ \A i, j \in DOMAIN c.obs : c.obs[i].stn = c.obs[j].stn => i = j
        /\ \A i \in DOMAIN c.obs : c.obs[i].lock = 0 => c.low
        /\ c.lo = MinLock(c.obs) /\ c.hi = MaxLock(c.obs)

\* Timestamps labelled sync are on one clock (FeedCluster's sign, the two
\* corrections, live and replayed): after subtracting the true time of the
\* emission, the sync timestamps of a solve all show the same clock error,
\* as long as no station's clock was stepped.
Aligned(inputs) ==
    \A a, b \in inputs :
        a.cls = "sync" /\ b.cls = "sync" => a.t - a.o.at = b.t - b.o.at
SyncAligned ==
    off = Skew =>
        /\ Aligned(solve.inputs)
        /\ \A r \in {x \in rows : Resolvable(x)} :
              Aligned(resolveAtEventTime(r).inputs) /\ Aligned(resolveWithCurrentModel(r).inputs)

\* A backward clock step wider than the same-emission window never leaves a
\* pair with samples of both clocks: a station stepped alone falls out of the
\* others' clusters, and for stations stepped together the monotonicity guard
\* of FeedCluster drops their pairs first.
OneBaseline ==
    \A k \in DOMAIN pairs : \A i, j \in DOMAIN pairs[k].samples :
        pairs[k].samples[i].base = pairs[k].samples[j].base

\* A published fix can be found again after any crash: its row is in
\* solved_fixes, and cluster_observations has evidence under its event time.
FixHasEvidence ==
    \A e \in published : e.kind = "GEOLOCATED" =>
        \E x \in fixes : /\ x.base = e.base /\ x.seq = e.seq
                         /\ \E r \in rows : clusterObsKey(r) = <<x.time, x.base>>
=============================================================================
