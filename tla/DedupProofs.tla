----------------------------- MODULE DedupProofs -----------------------------
(* Invariance proofs for Dedup: every replica in one place, sound clusters, *)
(* no CRC-pass replica retracted, and nothing left behind by the stop.      *)
EXTENDS Dedup, FiniteSetTheorems, TLAPS

\* Which thread is where, and who owns the batch.
PhaseInv ==
    /\ run <=> mainPc = "run"
    /\ mainPc # "run" => \A w \in Workers : ~calls[w].busy
    /\ drainPc = "exited" => ~run
    /\ mainPc \in {"emit", "done"} => drainPc = "exited" /\ InUse = {}
    /\ drainPc # "emit" /\ mainPc # "emit" => batch = {}

IInv == TypeOK /\ PhaseInv /\ OnePlace /\ BestWins /\ GoodNeverRetracted

-----------------------------------------------------------------------------
(* Clusters.                                                               *)

\* An occupied ring entry is a cluster.
LEMMA InUseCluster == TypeOK => \A i \in InUse : ring[i] \in Cluster
BY DEF TypeOK, InUse, Free

\* A cluster opened by one replica is well formed and sound.
LEMMA OpenSound ==
    ASSUME NEW r \in Replicas, NEW t \in Nat
    PROVE  Open(r, t) \in Cluster /\ Sound(Open(r, t))
<1> USE ReplicasAssumption, BoundsAssumption DEF NoSlot
<1>1. Open(r, t) \in Cluster
  BY DEF Open, Cluster
<1>2. Cardinality({r}) = 1
  BY FS_Singleton
<1>3. Sound(Open(r, t))
  BY <1>2 DEF Open, Sound
<1>4. QED
  BY <1>1, <1>3

\* A replica that joins a sound cluster leaves it sound.
LEMMA JoinSound ==
    ASSUME NEW e \in Cluster, Sound(e), NEW r \in Replicas, r \notin e.members
    PROVE  /\ Join(e, r) \in Cluster
           /\ Join(e, r).members = e.members \cup {r}
           /\ Sound(Join(e, r))
<1> USE ReplicasAssumption DEF NoSlot
<1> DEFINE j == Join(e, r)
<1>1. /\ j.members = e.members \cup {r}
      /\ j.count = e.count + 1
      /\ j.best = IF Beats(r, e.best) THEN r ELSE e.best
      /\ j.min_slot = IF r.slot # NoSlot
                         /\ (e.min_slot = NoSlot \/ r.slot < e.min_slot)
                      THEN r.slot ELSE e.min_slot
      /\ j.max_slot = IF r.slot # NoSlot
                         /\ (e.max_slot = NoSlot \/ r.slot > e.max_slot)
                      THEN r.slot ELSE e.max_slot
      /\ j.in_use = e.in_use /\ j.cls = e.cls /\ j.emit_at = e.emit_at
  BY DEF Join, Cluster
<1>2. j \in Cluster
  <2>1. /\ j.members \in SUBSET Replicas /\ j.count \in Nat
        /\ j.best \in Replicas
        /\ j.min_slot \in Nat \cup {NoSlot}
        /\ j.max_slot \in Nat \cup {NoSlot}
    BY <1>1 DEF Cluster
  <2>2. QED
    BY <2>1 DEF Join, Cluster
<1>3. IsFiniteSet(e.members)
  BY FS_Subset DEF Cluster
<1>4. j.count = Cardinality(j.members)
  <2>1. Cardinality(e.members \cup {r}) = Cardinality(e.members) + 1
    BY ONLY <1>3, r \notin e.members, FS_AddElement
  <2>2. e.count = Cardinality(e.members)
    BY DEF Sound
  <2>3. QED
    BY ONLY <1>1, <2>1, <2>2
<1>5. j.best \in j.members
  BY <1>1 DEF Sound
<1>6. \A m \in j.members : /\ Good(m) => Good(j.best)
                           /\ (Good(m) <=> Good(j.best)) => m.snr <= j.best.snr
  BY <1>1, SMTT(30) DEF Sound, Beats, Good, Cluster
<1>7. e.min_slot \in Nat \cup {NoSlot} /\ e.max_slot \in Nat \cup {NoSlot}
  BY DEF Cluster
<1>8. \A m \in j.members :
         m.slot # NoSlot => j.min_slot <= m.slot /\ m.slot <= j.max_slot
  <2>1. \A m \in e.members : m \in Replicas
    BY DEF Cluster
  <2>2. QED
    BY <1>1, <1>7, <2>1, SMTT(30) DEF Sound
<1>9. j.min_slot = NoSlot <=> j.max_slot = NoSlot
  BY <1>1, <1>7 DEF Sound
<1>10. j.min_slot # NoSlot =>
          {j.min_slot, j.max_slot} \subseteq {m.slot : m \in j.members}
  BY <1>1, <1>7 DEF Sound
<1>11. Sound(j)
  BY <1>4, <1>5, <1>6, <1>8, <1>9, <1>10 DEF Sound
<1>12. QED
  BY <1>1, <1>2, <1>11

-----------------------------------------------------------------------------
(* The invariant is inductive, one lemma per action.                       *)

LEMMA InitIInv == Init => IInv
<1> SUFFICES ASSUME Init PROVE IInv
  OBVIOUS
<1> USE BoundsAssumption DEF Init
<1>1. InUse = {} /\ Pending = {}
  BY DEF InUse, Pending, Free, NoCall
<1>2. InRing = {} /\ Copied = {} /\ Published = {} /\ Clusters = {}
  BY <1>1 DEF InRing, MembersAt, Copied, Published, Clusters
<1>3. TypeOK
  BY DEF TypeOK
<1>4. PhaseInv
  BY <1>1 DEF PhaseInv, NoCall
<1>5. OnePlace
  BY <1>1, <1>2 DEF OnePlace, NoCall
<1>6. QED
  BY <1>2, <1>3, <1>4, <1>5 DEF IInv, BestWins, GoodNeverRetracted

\* Steps that touch neither the ring, nor the calls, nor the batch.
LEMMA Idle ==
    ASSUME IInv,
           TypeOK', PhaseInv',
           UNCHANGED <<ring, calls, seen, dropped, retracted, batch, emitted>>
    PROVE  IInv'
<1>1. /\ InUse' = InUse /\ Pending' = Pending /\ InRing' = InRing
      /\ Copied' = Copied /\ Published' = Published /\ Clusters' = Clusters
  BY DEF InUse, Pending, InRing, MembersAt, Copied, Published, Clusters
<1>2. OnePlace'
  BY <1>1 DEF IInv, OnePlace
<1>3. QED
  BY <1>1, <1>2 DEF IInv, BestWins, GoodNeverRetracted

LEMMA IdleSteps ==
    ASSUME IInv, DrainTick \/ DrainExit \/ StopDrainer \/ Tick \/ UNCHANGED vars
    PROVE  IInv'
<1> USE BoundsAssumption
<1>1. UNCHANGED <<ring, calls, seen, dropped, retracted, batch, emitted>>
  BY DEF DrainTick, DrainExit, StopDrainer, Tick, vars
<1>2. InUse' = InUse
  BY <1>1 DEF InUse
<1>3. TypeOK'
  <2>1. now' \in 0..MaxTime /\ tick' \in 0..MaxTime
    BY DEF IInv, TypeOK, DrainTick, DrainExit, StopDrainer, Tick, vars
  <2>2. /\ drainPc' \in {"loop", "scan", "emit", "exited"}
        /\ mainPc' \in {"run", "join", "emit", "done"} /\ run' \in BOOLEAN
    BY DEF IInv, TypeOK, DrainTick, DrainExit, StopDrainer, Tick, vars
  <2>3. QED
    BY <1>1, <2>1, <2>2 DEF IInv, TypeOK
<1>4. PhaseInv'
  BY <1>1, <1>2 DEF IInv, TypeOK, PhaseInv, DrainTick, DrainExit, StopDrainer,
     Tick, vars
<1>5. QED
  BY <1>1, <1>3, <1>4, Idle

LEMMA CallStep ==
    ASSUME IInv, NEW w \in Workers, NEW r \in Replicas, Call(w, r)
    PROVE  IInv'
<1> USE BoundsAssumption DEF IInv
<1>1. /\ r \notin Pending /\ r \notin dropped /\ r \notin retracted
      /\ r \notin InRing /\ r \notin Copied /\ r \notin Published
  BY DEF Call, OnePlace
<1>2. /\ InUse' = InUse /\ InRing' = InRing /\ Copied' = Copied
      /\ Published' = Published /\ Clusters' = Clusters
      /\ \A i \in InUse : ring'[i] = ring[i]
      /\ seen' = seen \cup {r}
      /\ UNCHANGED <<retracted, batch, emitted>>
  BY DEF Call, InUse, InRing, MembersAt, Copied, Published, Clusters
<1>3. CASE r.len < MinPayload \/ r.len > MaxPayload
  <2>1. Pending' = Pending /\ dropped' = dropped \cup {r} /\ calls' = calls
    BY <1>3 DEF Call, Pending
  <2>2. OnePlace'
    BY <1>1, <1>2, <2>1 DEF OnePlace
  <2>3. TypeOK'
    BY <1>2, <2>1 DEF Call, TypeOK
  <2>4. PhaseInv'
    BY <1>2, <2>1 DEF Call, PhaseInv
  <2>5. QED
    BY <1>2, <2>2, <2>3, <2>4 DEF BestWins, GoodNeverRetracted
<1>4. CASE ~(r.len < MinPayload \/ r.len > MaxPayload)
  <2>1. /\ calls' = [calls EXCEPT ![w] = [busy |-> TRUE, r |-> r, t |-> now]]
        /\ dropped' = dropped /\ ~calls[w].busy
    BY <1>4 DEF Call
  <2>2. /\ calls'[w] = [busy |-> TRUE, r |-> r, t |-> now]
        /\ \A v \in Workers : v # w => calls'[v] = calls[v]
    BY <2>1 DEF TypeOK
  <2>3. Pending' = Pending \cup {r}
    BY <2>1, <2>2 DEF Pending
  <2>4. \A u, v \in Workers :
           u # v /\ calls'[u].busy /\ calls'[v].busy => calls'[u].r # calls'[v].r
    BY <1>1, <2>2 DEF OnePlace, Pending
  <2>5. OnePlace'
    BY <1>1, <1>2, <2>1, <2>3, <2>4 DEF OnePlace
  <2>6. TypeOK'
    <3>1. [busy |-> TRUE, r |-> r, t |-> now]
             \in [busy : {TRUE}, r : Replicas, t : Nat]
      BY DEF TypeOK
    <3>2. calls' \in [Workers ->
                    {NoCall} \cup [busy : {TRUE}, r : Replicas, t : Nat]]
      BY <2>1, <3>1 DEF TypeOK
    <3>3. QED
      BY <1>2, <2>1, <3>2 DEF Call, TypeOK
  <2>7. PhaseInv'
    BY <1>2, <2>1 DEF Call, PhaseInv
  <2>8. QED
    BY <1>2, <2>5, <2>6, <2>7 DEF BestWins, GoodNeverRetracted
<1>5. QED
  BY <1>3, <1>4

\* A call that returns takes its replica out of the pending ones.
LEMMA CallReturns ==
    ASSUME IInv, NEW w \in Workers, calls[w].busy,
           calls' = [calls EXCEPT ![w] = NoCall]
    PROVE  /\ calls[w].r \in Replicas /\ calls[w].t \in Nat
           /\ calls[w].r \in Pending
           /\ Pending' = Pending \ {calls[w].r}
           /\ \A v \in Workers : calls'[v].busy => calls[v].busy /\ calls'[v] = calls[v]
           /\ calls' \in [Workers ->
                    {NoCall} \cup [busy : {TRUE}, r : Replicas, t : Nat]]
<1> USE DEF IInv
<1>1. calls[w] \in [busy : {TRUE}, r : Replicas, t : Nat]
  <2>1. calls[w] \in {NoCall} \cup [busy : {TRUE}, r : Replicas, t : Nat]
    BY DEF TypeOK
  <2>2. NoCall.busy = FALSE
    BY DEF NoCall
  <2>3. QED
    BY <2>1, <2>2
<1>2. /\ calls'[w] = NoCall
      /\ \A v \in Workers : v # w => calls'[v] = calls[v]
  BY DEF TypeOK
<1>3. ~NoCall.busy
  BY DEF NoCall
<1>4. \A v \in Workers : calls'[v].busy => calls[v].busy /\ calls'[v] = calls[v]
  BY <1>2, <1>3
<1>5. Pending' = Pending \ {calls[w].r}
  <2>1. \A v \in Workers : v # w /\ calls[v].busy => calls[v].r # calls[w].r
    BY DEF OnePlace
  <2>2. QED
    BY <1>2, <1>3, <2>1 DEF Pending
<1>6. QED
  BY <1>1, <1>2, <1>4, <1>5 DEF Pending, TypeOK

LEMMA FoldInStep ==
    ASSUME IInv, NEW w \in Workers, FoldIn(w)
    PROVE  IInv'
<1> DEFINE r == calls[w].r
<1> USE DEF IInv
<1>1. /\ calls[w].busy
      /\ calls' = [calls EXCEPT ![w] = NoCall]
      /\ UNCHANGED <<now, seen, dropped, retracted, drainPc, tick, run,
                      mainPc, batch, emitted>>
  BY DEF FoldIn
<1>2. /\ r \in Replicas /\ r \in Pending /\ Pending' = Pending \ {r}
      /\ \A v \in Workers :
            calls'[v].busy => calls[v].busy /\ calls'[v] = calls[v]
      /\ calls' \in [Workers ->
                    {NoCall} \cup [busy : {TRUE}, r : Replicas, t : Nat]]
  BY <1>1, CallReturns
<1> HIDE DEF r
<1>3. PICK i \in InUse : ring' = [ring EXCEPT ![i] = Join(ring[i], r)]
  BY DEF FoldIn, IsLowest, Matches, Tier1, Tier2, Tier3, r
<1>4. /\ ring[i] \in Cluster /\ Sound(ring[i]) /\ i \in Slots
      /\ ring[i].members \subseteq InRing
  BY InUseCluster DEF BestWins, Clusters, InUse, InRing, MembersAt
<1>5. r \notin InRing /\ r \notin Copied /\ r \notin Published
      /\ r \notin dropped /\ r \notin retracted
  BY <1>2 DEF OnePlace
<1>6. /\ Join(ring[i], r) \in Cluster /\ Sound(Join(ring[i], r))
      /\ Join(ring[i], r).members = ring[i].members \cup {r}
      /\ Join(ring[i], r).in_use
  <2>1. r \notin ring[i].members
    BY <1>4, <1>5
  <2>2. /\ Join(ring[i], r) \in Cluster /\ Sound(Join(ring[i], r))
        /\ Join(ring[i], r).members = ring[i].members \cup {r}
    BY <1>2, <1>4, <2>1, JoinSound
  <2>3. QED
    BY <2>2 DEF Cluster
<1>7. /\ ring'[i] = Join(ring[i], r)
      /\ \A j \in Slots : j # i => ring'[j] = ring[j]
  BY <1>3, <1>4 DEF TypeOK
<1>8. InUse' = InUse
  BY <1>6, <1>7 DEF InUse
<1>9. InRing' = InRing \cup {r}
  BY <1>4, <1>6, <1>7, <1>8 DEF InRing, MembersAt, InUse
<1>10. Copied' = Copied /\ Published' = Published
  BY <1>1 DEF Copied, Published
<1>11. OnePlace'
  <2>1. \A j, k \in InUse : j # k => ring'[j].members \cap ring'[k].members = {}
    <3>1. \A j \in InUse : r \notin ring[j].members
      BY <1>5 DEF InRing, MembersAt
    <3>2. QED
      BY <1>6, <1>7, <3>1 DEF OnePlace, InUse
  <2>2. \A u, v \in Workers :
           u # v /\ calls'[u].busy /\ calls'[v].busy => calls'[u].r # calls'[v].r
    BY <1>2 DEF OnePlace
  <2>3. QED
    BY <1>1, <1>2, <1>5, <1>8, <1>9, <1>10, <2>1, <2>2 DEF OnePlace
<1>12. BestWins'
  BY <1>1, <1>6, <1>7, <1>8 DEF BestWins, Clusters, InUse
<1>13. TypeOK'
  <2>1. ring' \in [Slots -> Cluster \cup {Free}]
    BY <1>3, <1>4, <1>6 DEF TypeOK
  <2>2. QED
    BY <1>1, <1>2, <2>1 DEF TypeOK
<1>14. PhaseInv'
  BY <1>1, <1>2, <1>8 DEF PhaseInv
<1>15. QED
  BY <1>1, <1>11, <1>12, <1>13, <1>14 DEF GoodNeverRetracted

LEMMA RingFullStep ==
    ASSUME IInv, NEW w \in Workers, RingFull(w)
    PROVE  IInv'
<1> DEFINE r == calls[w].r
<1> USE DEF IInv
<1>1. /\ calls[w].busy
      /\ calls' = [calls EXCEPT ![w] = NoCall]
      /\ dropped' = dropped \cup {r}
      /\ UNCHANGED <<now, ring, seen, retracted, drainPc, tick, run, mainPc,
                      batch, emitted>>
  BY DEF RingFull
<1>2. /\ r \in Replicas /\ r \in Pending /\ Pending' = Pending \ {r}
      /\ \A v \in Workers :
            calls'[v].busy => calls[v].busy /\ calls'[v] = calls[v]
      /\ calls' \in [Workers ->
                    {NoCall} \cup [busy : {TRUE}, r : Replicas, t : Nat]]
  BY <1>1, CallReturns
<1> HIDE DEF r
<1>3. /\ InUse' = InUse /\ InRing' = InRing /\ Copied' = Copied
      /\ Published' = Published /\ Clusters' = Clusters
  BY <1>1 DEF InUse, InRing, MembersAt, Copied, Published, Clusters
<1>4. OnePlace'
  <2>1. \A u, v \in Workers :
           u # v /\ calls'[u].busy /\ calls'[v].busy => calls'[u].r # calls'[v].r
    BY <1>2 DEF OnePlace
  <2>2. QED
    BY <1>1, <1>2, <1>3, <2>1 DEF OnePlace
<1>5. TypeOK'
  BY <1>1, <1>2 DEF TypeOK
<1>6. PhaseInv'
  BY <1>1, <1>2, <1>3 DEF PhaseInv
<1>7. QED
  BY <1>1, <1>3, <1>4, <1>5, <1>6 DEF BestWins, GoodNeverRetracted

LEMMA OpenClusterStep ==
    ASSUME IInv, NEW w \in Workers, OpenCluster(w)
    PROVE  IInv'
<1> DEFINE r == calls[w].r
           t == calls[w].t
           gone == Retracted(r, t)
<1> USE DEF IInv
<1>1. /\ calls[w].busy
      /\ calls' = [calls EXCEPT ![w] = NoCall]
      /\ retracted' = retracted \cup MembersAt(gone)
      /\ UNCHANGED <<now, seen, dropped, drainPc, tick, run, mainPc, batch,
                      emitted>>
  BY DEF OpenCluster
<1>2. /\ r \in Replicas /\ t \in Nat
      /\ r \in Pending /\ Pending' = Pending \ {r}
      /\ \A v \in Workers :
            calls'[v].busy => calls[v].busy /\ calls'[v] = calls[v]
      /\ calls' \in [Workers ->
                    {NoCall} \cup [busy : {TRUE}, r : Replicas, t : Nat]]
  BY <1>1, CallReturns
<1>3. PICK i \in Slots \ InUse :
        ring' = [j \in Slots |-> IF j = i THEN Open(r, t)
                                ELSE IF j \in gone THEN Free ELSE ring[j]]
  BY DEF OpenCluster, IsLowest
<1>4. gone \subseteq InUse /\ \A j \in gone : ~Good(ring[j].best)
  BY DEF Retracted
<1> HIDE DEF r, t, gone
<1>5. /\ ring'[i] = Open(r, t)
      /\ \A j \in InUse \ gone : ring'[j] = ring[j]
      /\ \A j \in Slots : j # i /\ j \notin InUse \ gone => ~ring'[j].in_use
      /\ InUse \subseteq Slots
  BY <1>3, <1>4 DEF InUse, Free
<1>6. /\ Open(r, t) \in Cluster /\ Sound(Open(r, t)) /\ Open(r, t).in_use
      /\ Open(r, t).members = {r}
  <2>1. Open(r, t) \in Cluster /\ Sound(Open(r, t))
    BY <1>2, OpenSound
  <2>2. QED
    BY <2>1 DEF Open
<1>7. InUse' = (InUse \ gone) \cup {i}
  BY <1>5, <1>6 DEF InUse
<1>8. /\ r \notin InRing /\ r \notin Copied /\ r \notin Published
      /\ r \notin dropped /\ r \notin retracted
  BY <1>2 DEF OnePlace
<1>9. InRing = MembersAt(gone) \cup MembersAt(InUse \ gone)
  BY <1>4 DEF InRing, MembersAt
<1>10. MembersAt(gone) \cap MembersAt(InUse \ gone) = {}
  BY <1>4 DEF MembersAt, OnePlace
<1>11. InRing' = MembersAt(InUse \ gone) \cup {r}
  BY <1>5, <1>6, <1>7 DEF InRing, MembersAt
<1>12. Copied' = Copied /\ Published' = Published
  BY <1>1 DEF Copied, Published
<1>13. OnePlace'
  <2>1. \A j, k \in InUse' : j # k => ring'[j].members \cap ring'[k].members = {}
    <3>1. \A j \in InUse : r \notin ring[j].members
      BY <1>8 DEF InRing, MembersAt
    <3>2. QED
      BY <1>5, <1>6, <1>7, <3>1 DEF OnePlace
  <2>2. \A u, v \in Workers :
           u # v /\ calls'[u].busy /\ calls'[v].busy => calls'[u].r # calls'[v].r
    BY <1>2 DEF OnePlace
  <2>3. /\ seen = Pending \cup dropped \cup retracted \cup InRing \cup Copied
                  \cup Published
        /\ InRing \cap (Copied \cup Published) = {}
        /\ Pending \cap (InRing \cup Copied \cup Published) = {}
        /\ (dropped \cup retracted)
             \cap (Pending \cup InRing \cup Copied \cup Published) = {}
        /\ dropped \cap retracted = {}
        /\ \A e, f \in batch \cup emitted : e # f => e.members \cap f.members = {}
        /\ batch \cap emitted = {}
    BY DEF OnePlace
  <2>4. seen' = Pending' \cup dropped' \cup retracted' \cup InRing'
                 \cup Copied' \cup Published'
    BY ONLY <1>1, <1>2, <1>9, <1>11, <1>12, <2>3
  <2>5. InRing' \cap (Copied' \cup Published') = {}
    BY ONLY <1>8, <1>9, <1>11, <1>12, <2>3
  <2>6. Pending' \cap (InRing' \cup Copied' \cup Published') = {}
    BY ONLY <1>2, <1>9, <1>11, <1>12, <2>3
  <2>7. Pending' \cup InRing' \cup Copied' \cup Published'
           \subseteq Pending \cup InRing \cup Copied \cup Published
    BY ONLY <1>2, <1>9, <1>11, <1>12
  <2>8. /\ (dropped \cup retracted)
             \cap (Pending' \cup InRing' \cup Copied' \cup Published') = {}
        /\ MembersAt(gone)
             \cap (Pending' \cup InRing' \cup Copied' \cup Published') = {}
    <3>1. MembersAt(gone) \subseteq InRing
      BY ONLY <1>9
    <3>2. /\ MembersAt(gone) \cap Pending' = {}
          /\ MembersAt(gone) \cap InRing' = {}
      BY ONLY <1>2, <1>8, <1>10, <1>11, <2>3, <3>1
    <3>3. MembersAt(gone) \cap (Copied' \cup Published') = {}
      BY ONLY <1>12, <2>3, <3>1
    <3>4. QED
      BY ONLY <2>3, <2>7, <3>2, <3>3
  <2>9. dropped' \cap retracted' = {}
    BY ONLY <1>1, <1>9, <2>3
  <2>10. QED
    BY <1>1, <2>1, <2>2, <2>3, <2>4, <2>5, <2>6, <2>7, <2>8, <2>9 DEF OnePlace
<1>14. BestWins'
  BY <1>1, <1>5, <1>6, <1>7 DEF BestWins, Clusters
<1>15. GoodNeverRetracted'
  <2>1. \A j \in gone : Sound(ring[j])
    BY <1>4 DEF BestWins, Clusters
  <2>2. QED
    BY <1>1, <1>4, <2>1 DEF GoodNeverRetracted, MembersAt, Sound
<1>16. TypeOK'
  <2>1. ring' \in [Slots -> Cluster \cup {Free}]
    BY <1>3, <1>6 DEF TypeOK
  <2>2. MembersAt(gone) \subseteq Replicas
    BY <1>4, InUseCluster DEF MembersAt, Cluster
  <2>3. QED
    BY <1>1, <1>2, <2>1, <2>2 DEF TypeOK
<1>17. PhaseInv'
  BY <1>1, <1>2 DEF PhaseInv
<1>18. QED
  BY <1>13, <1>14, <1>15, <1>16, <1>17

\* Clusters S leave the ring for an empty batch.
LEMMA Unload ==
    ASSUME IInv, NEW S \in SUBSET InUse, batch = {},
           batch' = {ring[i] : i \in S},
           ring' = [i \in Slots |-> IF i \in S THEN Free ELSE ring[i]],
           UNCHANGED <<calls, seen, dropped, retracted, emitted>>
    PROVE  /\ OnePlace' /\ BestWins' /\ GoodNeverRetracted'
           /\ InUse' = InUse \ S
           /\ ring' \in [Slots -> Cluster \cup {Free}]
           /\ batch' \subseteq Cluster
<1> USE DEF IInv
<1>1. InUse' = InUse \ S /\ \A i \in InUse \ S : ring'[i] = ring[i]
  BY DEF InUse, Free
<1>2. /\ InRing = MembersAt(S) \cup MembersAt(InUse \ S)
      /\ InRing' = MembersAt(InUse \ S)
      /\ Copied' = MembersAt(S) /\ Copied = {}
      /\ Published' = Published /\ Pending' = Pending
  BY <1>1 DEF InRing, MembersAt, Copied, Published, Pending
<1>3. MembersAt(S) \cap MembersAt(InUse \ S) = {}
  BY DEF MembersAt, OnePlace
<1>4. \A i \in InUse : ring[i] \in Cluster /\ Sound(ring[i])
  BY InUseCluster DEF BestWins, Clusters
<1>5. OnePlace'
  <2>1. \A e, f \in batch' \cup emitted' : e # f => e.members \cap f.members = {}
    <3>1. \A e, f \in batch' : e # f => e.members \cap f.members = {}
      BY DEF OnePlace
    <3>2. \A e \in batch', f \in emitted : e.members \cap f.members = {}
      BY DEF OnePlace, InRing, MembersAt, Published
    <3>3. \A e, f \in emitted : e # f => e.members \cap f.members = {}
      BY DEF OnePlace
    <3>4. QED
      BY <3>1, <3>2, <3>3
  <2>2. batch' \cap emitted' = {}
    <3>1. \A e \in batch' : e.members # {} /\ e.members \subseteq InRing
      BY <1>4 DEF Sound, InRing, MembersAt
    <3>2. \A e \in emitted : e.members \cap InRing = {}
      BY DEF OnePlace, Published
    <3>3. QED
      BY <3>1, <3>2
  <2>3. \A i, j \in InUse' : i # j => ring'[i].members \cap ring'[j].members = {}
    BY <1>1 DEF OnePlace
  <2>4. QED
    BY <1>1, <1>2, <1>3, <2>1, <2>2, <2>3 DEF OnePlace
<1>6. BestWins'
  BY <1>1, <1>4 DEF BestWins, Clusters
<1>7. ring' \in [Slots -> Cluster \cup {Free}] /\ batch' \subseteq Cluster
  BY <1>4 DEF TypeOK
<1>8. QED
  BY <1>1, <1>5, <1>6, <1>7 DEF GoodNeverRetracted

LEMMA DrainScanStep == ASSUME IInv, DrainScan PROVE IInv'
<1> USE DEF IInv
<1>1. /\ drainPc = "scan" /\ mainPc # "emit" /\ batch = {}
      /\ mainPc \notin {"emit", "done"}
  BY DEF DrainScan, PhaseInv
<1>2. Taken \subseteq InUse
  BY DEF Taken, Expired
<1>3. /\ batch' = {ring[i] : i \in Taken}
      /\ ring' = [i \in Slots |-> IF i \in Taken THEN Free ELSE ring[i]]
      /\ drainPc' = IF Taken = {} THEN "loop" ELSE "emit"
      /\ UNCHANGED <<now, calls, seen, dropped, retracted, tick, run, mainPc,
                      emitted>>
  BY DEF DrainScan
<1>4. /\ OnePlace' /\ BestWins' /\ GoodNeverRetracted'
      /\ ring' \in [Slots -> Cluster \cup {Free}] /\ batch' \subseteq Cluster
  BY <1>1, <1>2, <1>3, Unload
<1>5. TypeOK'
  BY <1>3, <1>4 DEF TypeOK
<1>6. PhaseInv'
  BY <1>1, <1>3 DEF PhaseInv
<1>7. QED
  BY <1>4, <1>5, <1>6

LEMMA SweepStep == ASSUME IInv, Sweep PROVE IInv'
<1> USE DEF IInv
<1>1. mainPc = "join" /\ drainPc = "exited" /\ batch = {}
  BY DEF Sweep, PhaseInv
<1>2. /\ batch' = {ring[i] : i \in InUse}
      /\ mainPc' = "emit"
      /\ UNCHANGED <<now, calls, seen, dropped, retracted, drainPc, tick, run,
                      emitted>>
  BY DEF Sweep
<1>3. ring' = [i \in Slots |-> IF i \in InUse THEN Free ELSE ring[i]]
  <2>1. \A i \in Slots : i \notin InUse => ring[i] = Free
    BY DEF TypeOK, InUse, Cluster
  <2>2. QED
    BY <2>1 DEF Sweep
<1>4. /\ OnePlace' /\ BestWins' /\ GoodNeverRetracted' /\ InUse' = {}
      /\ ring' \in [Slots -> Cluster \cup {Free}] /\ batch' \subseteq Cluster
  BY <1>1, <1>2, <1>3, Unload
<1>5. TypeOK'
  BY <1>2, <1>4 DEF TypeOK
<1>6. PhaseInv'
  BY <1>1, <1>2, <1>4 DEF PhaseInv
<1>7. QED
  BY <1>4, <1>5, <1>6

\* Clusters S go from the batch to the published ones.
LEMMA Emit ==
    ASSUME IInv, NEW S \in SUBSET batch,
           batch' = batch \ S, emitted' = emitted \cup S,
           UNCHANGED <<ring, calls, seen, dropped, retracted>>
    PROVE  /\ OnePlace' /\ BestWins' /\ GoodNeverRetracted'
           /\ InUse' = InUse
           /\ batch' \subseteq Cluster /\ emitted' \subseteq Cluster
<1> USE DEF IInv
<1>1. /\ InUse' = InUse /\ InRing' = InRing /\ Pending' = Pending
      /\ Clusters' = Clusters /\ batch' \cup emitted' = batch \cup emitted
  BY DEF InUse, InRing, MembersAt, Pending, Clusters
<1>2. Copied' \cup Published' = Copied \cup Published
  BY DEF Copied, Published
<1>3. batch' \cap emitted' = {}
  BY DEF OnePlace
<1>4. OnePlace'
  BY <1>1, <1>2, <1>3 DEF OnePlace
<1>5. QED
  BY <1>1, <1>4 DEF TypeOK, BestWins, GoodNeverRetracted

LEMMA DrainEmitStep == ASSUME IInv, DrainEmit PROVE IInv'
<1> USE DEF IInv
<1>1. PICK e \in batch :
         /\ emitted' = emitted \cup {e} /\ batch' = batch \ {e}
         /\ drainPc' = IF batch = {e} THEN "loop" ELSE "emit"
  BY DEF DrainEmit
<1>2. /\ drainPc = "emit"
      /\ UNCHANGED <<now, ring, calls, seen, dropped, retracted, tick, run,
                      mainPc>>
  BY DEF DrainEmit
<1>3. /\ OnePlace' /\ BestWins' /\ GoodNeverRetracted' /\ InUse' = InUse
      /\ batch' \subseteq Cluster /\ emitted' \subseteq Cluster
  <2>1. {e} \in SUBSET batch
    OBVIOUS
  <2>2. QED
    BY <1>1, <1>2, <2>1, Emit
<1>4. TypeOK'
  BY <1>1, <1>2, <1>3 DEF TypeOK
<1>5. PhaseInv'
  BY <1>1, <1>2, <1>3 DEF PhaseInv
<1>6. QED
  BY <1>3, <1>4, <1>5

LEMMA SweepEmitStep == ASSUME IInv, SweepEmit PROVE IInv'
<1> USE DEF IInv
<1>1. /\ mainPc = "emit" /\ mainPc' = "done"
      /\ emitted' = emitted \cup batch /\ batch' = {}
      /\ UNCHANGED <<now, ring, calls, seen, dropped, retracted, drainPc, tick,
                      run>>
  BY DEF SweepEmit
<1>2. /\ OnePlace' /\ BestWins' /\ GoodNeverRetracted' /\ InUse' = InUse
      /\ batch' \subseteq Cluster /\ emitted' \subseteq Cluster
  <2>1. batch' = batch \ batch
    BY <1>1
  <2>2. QED
    BY <1>1, <2>1, Emit
<1>3. TypeOK'
  BY <1>1, <1>2 DEF TypeOK
<1>4. PhaseInv'
  BY <1>1, <1>2 DEF PhaseInv
<1>5. QED
  BY <1>2, <1>3, <1>4

LEMMA NextIInv == IInv /\ [Next]_vars => IInv'
<1> SUFFICES ASSUME IInv, [Next]_vars PROVE IInv'
  OBVIOUS
<1>1. CASE \E w \in Workers : Buffer(w)
  BY <1>1, FoldInStep, OpenClusterStep, RingFullStep DEF Buffer
<1>2. CASE \E w \in Workers, r \in Replicas : Call(w, r)
  BY <1>2, CallStep
<1>3. CASE Drainer
  BY <1>3, IdleSteps, DrainScanStep, DrainEmitStep DEF Drainer
<1>4. CASE Stop
  BY <1>4, IdleSteps, SweepStep, SweepEmitStep DEF Stop
<1>5. CASE Tick \/ Terminated \/ UNCHANGED vars
  BY <1>5, IdleSteps DEF Terminated
<1>6. QED
  BY <1>1, <1>2, <1>3, <1>4, <1>5 DEF Next

LEMMA Invariance == Spec => []IInv
  BY InitIInv, NextIInv, PTL DEF Spec

-----------------------------------------------------------------------------
(* The results.                                                            *)

\* The ring, the calls of dedup_buffer() and the batches keep their types.
THEOREM TypeCorrect == Spec => []TypeOK
<1>1. IInv => TypeOK
  BY DEF IInv
<1>2. QED
  BY <1>1, Invariance, PTL

\* Every replica handed to dedup_buffer() is in exactly one place, for any
\* number of demodulator threads, any ring size and any thresholds.
THEOREM ReplicaInOnePlace == Spec => []OnePlace
<1>1. IInv => OnePlace
  BY DEF IInv
<1>2. QED
  BY <1>1, Invariance, PTL

\* The frame a cluster stands for wins the tournament among all its
\* replicas, whatever order they arrived in, and its summary is exact.
THEOREM WinnerIsBest == Spec => []BestWins
<1>1. IInv => BestWins
  BY DEF IInv
<1>2. QED
  BY <1>1, Invariance, PTL

\* The reverse tier 3 of dedup_buffer() discards CRC-fail replicas only.
THEOREM GoodFramesKept == Spec => []GoodNeverRetracted
<1>1. IInv => GoodNeverRetracted
  BY DEF IInv
<1>2. QED
  BY <1>1, Invariance, PTL

\* dedup_drainer_stop() leaves no replica in the ring or in a batch.
THEOREM StopIsComplete == Spec => []StopLeavesNothing
<1>1. IInv => StopLeavesNothing
  <2> SUFFICES ASSUME IInv, mainPc = "done"
               PROVE  seen = dropped \cup retracted \cup Published
    BY DEF StopLeavesNothing
  <2>1. InUse = {} /\ batch = {} /\ \A w \in Workers : ~calls[w].busy
    BY DEF IInv, PhaseInv
  <2>2. Pending = {} /\ InRing = {} /\ Copied = {}
    BY <2>1 DEF Pending, InRing, MembersAt, Copied
  <2>3. QED
    BY <2>2 DEF IInv, OnePlace
<1>2. QED
  BY <1>1, Invariance, PTL
=============================================================================
