--------------------------- MODULE SnapshotProofs ---------------------------
(***************************************************************************)
(* Every snapshot on disk holds exactly its window, for every ring, window *)
(* and queue size: what the writer extracted is the window while it holds  *)
(* it, because a copy of full length cannot have been clamped.             *)
(***************************************************************************)
EXTENDS IqSnapshot, RingProofs

Exact(from) == [k \in 1..WindowSize |-> from + k - 1]

SnapInv ==
    /\ RingInv
    /\ queue \in Seq(Nat) /\ lock \in Nat
    /\ pc \in {"iq", "json"} => window = Exact(Start)
    /\ \A f \in files : f.samples = Exact(f.start)

LEMMA SnapInitially ==
    Init => SnapInv
BY RingInitially DEF Init, SnapInv

\* A copy as long as the window starts where the window starts.
LEMMA FullCopyIsExact ==
    ASSUME SnapInv, Len(Extracted) = WindowSize
    PROVE  Extracted = Exact(Start)
<1>1. /\ Pre \in Nat /\ Post \in Nat \ {0} /\ WindowSize \in Nat \ {0}
      /\ Start \in Nat /\ total \in Nat /\ Capacity \in Nat \ {0}
  BY SnapshotAssumption, RingAssumption
     DEF SnapInv, RingInv, Start, WindowSize
<1> DEFINE c == WindowCount(Start, WindowSize)
<1>2. c \in Nat
  BY <1>1 DEF WindowCount, WindowFrom, Oldest, LesserOf
<1>3. Extracted = [k \in 1..c |-> WindowAt(Start, k - 1)]
  BY DEF Extracted
<1> HIDE DEF c
<1>4. c = WindowSize
  BY <1>2, <1>3
<1>5. WindowFrom(Start) = Start
  BY <1>1, <1>4 DEF c, WindowCount, WindowFrom, Oldest, LesserOf
<1>6. ASSUME NEW k \in 1..WindowSize
      PROVE  WindowAt(Start, k - 1) = Start + k - 1
  <2>1. k - 1 \in 0..(WindowCount(Start, WindowSize) - 1)
    BY <1>1, <1>4 DEF c
  <2>2. WindowAt(Start, k - 1) = WindowFrom(Start) + (k - 1)
    BY <2>1, <1>1, WindowTrue DEF SnapInv
  <2> QED
    BY <2>2, <1>1, <1>5
<1> QED
  BY <1>3, <1>4, <1>6 DEF Exact

LEMMA SnapStep ==
    ASSUME SnapInv, [Next]_vars
    PROVE  SnapInv'
<1> USE DEF SnapInv
<1>1. CASE Write
  <2>1. RingInv'
    BY <1>1, RingStep DEF Write
  <2> QED
    BY <1>1, <2>1 DEF Write, workVars, diskVars, Start, Exact, WindowSize
<1>2. ASSUME ringVars' = ringVars PROVE RingInv'
  BY <1>2 DEF ringVars, RingInv, RingTrue, Oldest
<1>3. CASE iq_snapshot_enqueue
  <2>1. queue' \in Seq(Nat)
    <3>1. queue' = queue \/ queue' = Append(queue, counted)
      BY <1>3 DEF iq_snapshot_enqueue
    <3>2. counted \in Nat /\ queue \in Seq(Nat)
      BY DEF RingInv
    <3> QED
      BY ONLY <3>1, <3>2
  <2> QED
    BY <1>2, <1>3, <2>1
       DEF iq_snapshot_enqueue, workVars, diskVars, Start, Exact, WindowSize
<1>4. CASE Take
  <2>1. queue' \in Seq(Nat) /\ lock' \in Nat
    <3>1. \/ queue # <<>> /\ lock' = Head(queue) /\ queue' = Tail(queue)
          \/ UNCHANGED <<queue, lock>>
      BY <1>4 DEF Take
    <3>2. lock \in Nat /\ queue \in Seq(Nat)
      OBVIOUS
    <3>3. queue # <<>> => Head(queue) \in Nat /\ Tail(queue) \in Seq(Nat)
      <4>1. queue # <<>> => Len(queue) \in Nat /\ Len(queue) > 0
        BY <3>2
      <4> QED
        BY ONLY <3>2, <4>1
    <3> QED
      BY ONLY <3>1, <3>2, <3>3
  <2> QED
    BY <1>2, <1>4, <2>1 DEF Take, diskVars, Exact, WindowSize
<1>5. CASE Poll \/ Check
  BY <1>2, <1>5 DEF Poll, Check, workVars, diskVars, Start, Exact, WindowSize
<1>6. CASE Get
  <2>1. CASE Len(Extracted) = WindowSize
    <3>1. Extracted = Exact(Start)
      BY <2>1, FullCopyIsExact
    <3> QED
      BY <1>2, <1>6, <3>1, <2>1, SnapshotAssumption
         DEF Get, diskVars, Start, Exact, WindowSize
  <2>2. CASE Len(Extracted) # WindowSize
    BY <1>2, <1>6, <2>2 DEF Get, diskVars, Start, Exact, WindowSize
  <2> QED
    BY <2>1, <2>2
<1>7. ASSUME NEW kind, NEW n, window = Exact(Start)
      PROVE  File(kind, n).samples = Exact(File(kind, n).start)
  BY <1>7 DEF File
<1>8. CASE WriteIq \/ write_sidecar
  <2>1. /\ window = Exact(Start) /\ UNCHANGED <<ringVars, queue, workVars>>
        /\ \A f \in files' : \/ f \in files
                              \/ \E kind, n : f = File(kind, n)
    BY <1>8 DEF WriteIq, write_sidecar
  <2>2. \A f \in files' : f.samples = Exact(f.start)
    BY <2>1, <1>7
  <2>3. UNCHANGED <<window, lock, queue>>
    BY <2>1 DEF workVars
  <2>4. RingInv'
    BY <2>1, <1>2
  <2>5. \A x : Exact(x)' = Exact(x)
    BY DEF Exact, WindowSize
  <2>6. Start' = Start
    BY <2>3 DEF Start
  <2> QED
    BY <2>1, <2>2, <2>3, <2>4, <2>5, <2>6
<1>9. CASE Handled
  <2>1. files' \subseteq files
    BY <1>9 DEF Handled, Prunings
  <2> QED
    BY <1>2, <1>9, <2>1 DEF Handled, Exact, WindowSize
<1>10. CASE EndInput \/ iq_snapshot_shutdown \/ Done \/ UNCHANGED vars
  BY <1>2, <1>10 DEF EndInput, iq_snapshot_shutdown, Done, vars, workVars,
                     diskVars, Start, Exact, WindowSize
<1> QED
  BY <1>1, <1>3, <1>4, <1>5, <1>6, <1>8, <1>9, <1>10 DEF Next, Writer

\* Every file on disk holds exactly the samples its sidecar announces.
THEOREM SnapshotsExact == Spec => []WindowExact
<1>1. SnapInv => WindowExact
  BY DEF SnapInv, WindowExact, Exact
<1> QED
  BY <1>1, SnapInitially, SnapStep, PTL DEF Spec
=============================================================================
