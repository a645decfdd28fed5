------------------------------- MODULE IqRing -------------------------------
(***************************************************************************)
(* The absolute-indexed ring of raw samples (iq_ring.c) and the counter of *)
(* samples taken from the pump (g_samples_total in main.c), by which locks *)
(* are dated.  A sample is its index in the stream.  Every operation of    *)
(* the ring holds its mutex, so each is one step; a reader that takes two  *)
(* steps sees the ring move between them.                                  *)
(***************************************************************************)
EXTENDS Integers

CONSTANTS
    Capacity,       \* samples the ring holds
    MaxTotal,       \* bound: samples appended
    Appends         \* sizes of the batches appended

ASSUME RingAssumption ==
    /\ Capacity \in Nat \ {0} /\ MaxTotal \in Nat
    /\ Appends \subseteq Nat \ {0}

VARIABLES
    counted,        \* g_samples_total
    total,          \* total_written
    data            \* what each position holds; -1 before it is written

Positions == 0..(Capacity - 1)
LesserOf(a, b) == IF a < b THEN a ELSE b

ringVars == <<counted, total, data>>
RingInit == counted = 0 /\ total = 0 /\ data = [p \in Positions |-> -1]

\* iq_ring_live_range(): the oldest sample kept; total is one past the newest.
Oldest == IF total > Capacity THEN total - Capacity ELSE 0

\* n <= Capacity samples from first on, each at its index modulo the capacity
\* (the two memcpy around the end of the buffer).
Stored(first, n) ==
    [p \in Positions |->
        LET here == {i \in first..(first + n - 1) : i % Capacity = p}
        IN  IF here = {} THEN data[p] ELSE CHOOSE i \in here : TRUE]

\* process_sample_buf(): the batch is counted first ...
Count ==
    /\ counted = total
    /\ \E n \in Appends : counted + n <= MaxTotal /\ counted' = counted + n
    /\ UNCHANGED <<total, data>>

\* ... and appended: of one larger than the ring only the end is kept.
iq_ring_append ==
    LET n == counted - total
        to_store == LesserOf(n, Capacity)
    IN  /\ n > 0
        /\ data' = Stored(counted - to_store, to_store)
        /\ total' = counted
        /\ UNCHANGED counted

\* iq_ring_get_window(): where the copy starts, and how much is copied.
WindowFrom(start) == IF start < Oldest THEN Oldest ELSE start
WindowCount(start, n) ==
    LET end == LesserOf(start + n, total)
    IN  IF end <= WindowFrom(start) THEN 0 ELSE end - WindowFrom(start)
WindowAt(start, k) == data[(WindowFrom(start) + k) % Capacity]

-----------------------------------------------------------------------------
\* Every sample of the live range is where a reader looks for it, whatever
\* the batches were and however often the ring wrapped: the memcpy pair of
\* iq_ring_append and the one of iq_ring_get_window agree.
RingTrue == \A i \in Oldest..(total - 1) : data[i % Capacity] = i
=============================================================================
