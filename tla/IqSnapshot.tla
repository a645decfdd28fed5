----------------------------- MODULE IqSnapshot -----------------------------
(***************************************************************************)
(* The per-lock capture of raw samples (iq_snapshot.c): preamble-lock      *)
(* callbacks queue a request, one writer thread waits for the ring to pass *)
(* the window, extracts it, and writes the IQ file and its sidecar under   *)
(* temporary names.  Every JanitorEvery requests it prunes the directory.  *)
(***************************************************************************)
EXTENDS IqRing, Sequences, FiniteSets

CONSTANTS
    Pre, Post,          \* the window, in samples
    QueueCap,
    MaxPolls,           \* WRITER_WAIT_TIMEOUT_MS / WRITER_POLL_SLEEP_MS
    JanitorEvery,
    IqSize, JsonSize, DiskCap,      \* file sizes and the cap on their sum
    MaxLocks            \* bound: preamble locks

ASSUME SnapshotAssumption ==
    /\ Pre \in Nat /\ Post \in Nat \ {0} /\ QueueCap \in Nat \ {0}
    /\ MaxPolls \in Nat /\ JanitorEvery \in Nat \ {0}
    /\ IqSize \in Nat /\ JsonSize \in Nat /\ DiskCap \in Nat
    /\ MaxLocks \in Nat

VARIABLES
    queue,      \* lock_sample_idx of each request
    pc,         \* the writer: next, poll, check, get, iq, json, done
    lock,       \* the request in hand
    polls,      \* waited_ms
    window,     \* the extracted samples
    files,      \* [seq, kind, start, samples] under their final names
    seq,        \* s_file_seq
    since,      \* since_janitor
    stats,      \* the counters; failed: gave up on an I/O error, uncounted
    running, feeding

vars == <<ringVars, queue, pc, lock, polls, window, files, seq, since, stats,
          running, feeding>>
workVars == <<lock, polls, window>>
diskVars == <<files, seq, since>>

WindowSize == Pre + Post
Start == IF lock > Pre THEN lock - Pre ELSE 0

Init ==
    /\ RingInit
    /\ queue = <<>> /\ pc = "next" /\ lock = 0 /\ polls = 0 /\ window = <<>>
    /\ files = {} /\ seq = 0 /\ since = 0
    /\ stats = [enqueued |-> 0, full |-> 0, snr |-> 0, timeout |-> 0,
                missed |-> 0, kept |-> 0, failed |-> 0]
    /\ running = TRUE /\ feeding = TRUE

Write ==
    /\ feeding
    /\ Count \/ iq_ring_append
    /\ UNCHANGED <<queue, pc, workVars, diskVars, stats, running, feeding>>

Bump(c) == stats' = [stats EXCEPT ![c] = @ + 1]

\* iq_snapshot_enqueue() from on_wideband_preamble_lock(): a lock below the
\* SNR floor or with the queue full is only counted.
iq_snapshot_enqueue ==
    /\ running /\ stats.enqueued < MaxLocks
    /\ \E loud \in BOOLEAN :
         LET c == IF ~loud THEN "snr"
                  ELSE IF Len(queue) >= QueueCap THEN "full" ELSE "none"
         IN  /\ queue' = IF c = "none" THEN Append(queue, counted) ELSE queue
             /\ stats' = [x \in DOMAIN stats |->
                  stats[x] + IF x \in {"enqueued", c} THEN 1 ELSE 0]
    /\ UNCHANGED <<ringVars, pc, workVars, diskVars, running, feeding>>

-----------------------------------------------------------------------------
(* writer_thread_main() and writer_handle_event().                         *)

\* Fault: the loop ends with the flag, whatever is queued.
TakeStops ==
    /\ pc = "next"
    /\ IF running /\ queue # <<>>
       THEN /\ lock' = Head(queue) /\ queue' = Tail(queue)
            /\ pc' = "poll" /\ polls' = 0
       ELSE /\ ~running /\ pc' = "done" /\ UNCHANGED <<queue, lock, polls>>
    /\ UNCHANGED <<ringVars, window, diskVars, stats, running, feeding>>

\* The next request; the loop ends when told to and nothing is queued.
Take ==
    /\ pc = "next"
    /\ IF queue # <<>>
       THEN /\ lock' = Head(queue) /\ queue' = Tail(queue)
            /\ pc' = "poll" /\ polls' = 0
       ELSE /\ ~running /\ pc' = "done" /\ UNCHANGED <<queue, lock, polls>>
    /\ UNCHANGED <<ringVars, window, diskVars, stats, running, feeding>>

\* Fault: no budget.
PollForever ==
    /\ pc = "poll"
    /\ pc' = IF total >= Start + WindowSize THEN "check" ELSE "poll"
    /\ UNCHANGED <<polls, stats>>
    /\ UNCHANGED <<ringVars, queue, lock, window, diskVars, running, feeding>>

\* Wait for the end of the window; a poll past the budget gives up.
Poll ==
    /\ pc = "poll"
    /\ IF total >= Start + WindowSize
       THEN pc' = "check" /\ UNCHANGED <<polls, stats>>
       ELSE IF polls >= MaxPolls
       THEN pc' = "handled" /\ Bump("timeout") /\ UNCHANGED polls
       ELSE pc' = "poll" /\ polls' = polls + 1 /\ UNCHANGED stats
    /\ UNCHANGED <<ringVars, queue, lock, window, diskVars, running, feeding>>

\* The start of the window must still be live.
Check ==
    /\ pc = "check"
    /\ IF Start < Oldest
       THEN pc' = "handled" /\ Bump("missed")
       ELSE pc' = "get" /\ UNCHANGED stats
    /\ UNCHANGED <<ringVars, queue, workVars, diskVars, running, feeding>>

Extracted ==
    [k \in 1..WindowCount(Start, WindowSize) |-> WindowAt(Start, k - 1)]

\* Fault: the length of what was copied is not looked at.
GetAny ==
    /\ pc = "get"
    /\ pc' = "iq" /\ window' = Extracted /\ UNCHANGED stats
    /\ UNCHANGED <<ringVars, queue, lock, polls, diskVars, running, feeding>>

\* The ring may have moved on since: a short copy is dropped.
Get ==
    /\ pc = "get"
    /\ \/ /\ Len(Extracted) < WindowSize
          /\ pc' = "handled" /\ Bump("missed") /\ UNCHANGED window
       \/ /\ Len(Extracted) = WindowSize
          /\ pc' = "iq" /\ window' = Extracted /\ UNCHANGED stats
    /\ UNCHANGED <<ringVars, queue, lock, polls, diskVars, running, feeding>>

File(kind, n) == [seq |-> n, kind |-> kind, start |-> Start,
                  samples |-> window]

\* The IQ file under its final name, or nothing at all.
WriteIq ==
    /\ pc = "iq"
    /\ seq' = seq + 1
    /\ \/ /\ pc' = "json" /\ files' = files \cup {File("iq", seq)}
          /\ UNCHANGED stats
       \/ pc' = "handled" /\ Bump("failed") /\ UNCHANGED files
    /\ UNCHANGED <<ringVars, queue, workVars, since, running, feeding>>

\* Fault: the IQ file stays when its sidecar cannot be written.
write_sidecar_only ==
    /\ pc = "json"
    /\ \/ files' = files \cup {File("json", seq - 1)} /\ Bump("kept")
       \/ files' = files /\ Bump("failed")
    /\ pc' = "handled"
    /\ UNCHANGED <<ringVars, queue, workVars, seq, since, running, feeding>>

\* The sidecar; without it the IQ file is removed.
write_sidecar ==
    /\ pc = "json"
    /\ \/ files' = files \cup {File("json", seq - 1)} /\ Bump("kept")
       \/ files' = files \ {File("iq", seq - 1)} /\ Bump("failed")
    /\ pc' = "handled"
    /\ UNCHANGED <<ringVars, queue, workVars, seq, since, running, feeding>>

SizeOf(fs) ==
    IqSize * Cardinality({f \in fs : f.kind = "iq"})
        + JsonSize * Cardinality({f \in fs : f.kind = "json"})

\* janitor_run(): the oldest files go, those over the age cap and then more
\* until the rest fits the disk cap.  The two files of a snapshot may carry
\* the same modification time, and qsort leaves equal ones in any order.
Prunings ==
    {rest \in SUBSET files :
        /\ \A f \in files \ rest, g \in rest : f.seq <= g.seq
        /\ SizeOf(rest) <= DiskCap}

\* Fault: the janitor is not run.
HandledUnpruned ==
    /\ pc = "handled"
    /\ since' = (since + 1) % JanitorEvery
    /\ UNCHANGED files
    /\ pc' = "next" /\ lock' = 0 /\ polls' = 0 /\ window' = <<>>
    /\ UNCHANGED <<ringVars, queue, seq, stats, running, feeding>>

\* The end of an iteration, with the janitor now and then.
Handled ==
    /\ pc = "handled"
    /\ IF since + 1 >= JanitorEvery
       THEN since' = 0 /\ files' \in Prunings
       ELSE since' = since + 1 /\ UNCHANGED files
    /\ pc' = "next" /\ lock' = 0 /\ polls' = 0 /\ window' = <<>>
    /\ UNCHANGED <<ringVars, queue, seq, stats, running, feeding>>

-----------------------------------------------------------------------------
\* The input ends; the channelizer is flushed and destroyed, so the locks end;
\* then iq_snapshot_shutdown() tells the writer to stop and joins it.
EndInput ==
    /\ feeding /\ counted = total /\ feeding' = FALSE
    /\ UNCHANGED <<ringVars, queue, pc, workVars, diskVars, stats, running>>

iq_snapshot_shutdown ==
    /\ ~feeding /\ running /\ running' = FALSE
    /\ UNCHANGED <<ringVars, queue, pc, workVars, diskVars, stats, feeding>>

Done == pc = "done" /\ UNCHANGED vars

Writer ==
    \/ Take \/ Poll \/ Check \/ Get \/ WriteIq \/ write_sidecar \/ Handled

Next ==
    \/ Write \/ iq_snapshot_enqueue \/ Writer \/ EndInput
    \/ iq_snapshot_shutdown \/ Done

Spec == Init /\ [][Next]_vars

\* The writer's thread runs; samples, locks and the shutdown may never come.
FairSpec == Spec /\ WF_vars(Writer)
-----------------------------------------------------------------------------
(* Properties.                                                             *)

\* Every file on disk holds exactly the samples its sidecar announces, one
\* after the other, although the writer looks at the ring three times and
\* the ring moves between the looks.
WindowExact ==
    \A f \in files : f.samples = [k \in 1..WindowSize |-> f.start + k - 1]

\* An IQ file without its sidecar, or a sidecar without its IQ file, exists
\* only while the writer is between the two, or where the janitor's cut went
\* through a pair: then it is the oldest on disk, next to be pruned.
PairsWhole ==
    \A f \in files :
        \/ \E g \in files : g.seq = f.seq /\ g.kind # f.kind
        \/ pc = "json" /\ f.seq = seq - 1
        \/ \A g \in files : f.seq <= g.seq

\* The store outgrows its cap by what is written between two janitor runs.
DiskBounded ==
    SizeOf(files) <= DiskCap + JanitorEvery * (IqSize + JsonSize)

\* What the snapshot directory holds, at any moment: exact windows, in whole
\* pairs, within the bound.
FilesWhole == WindowExact /\ PairsWhole /\ DiskBounded

\* The writer that was joined has dealt with every request that was queued:
\* each call of iq_snapshot_enqueue has exactly one outcome.
ShutdownDrains ==
    pc = "done" =>
        stats.enqueued = stats.full + stats.snr + stats.timeout
                         + stats.missed + stats.kept + stats.failed

\* The join of iq_snapshot_shutdown() returns, although no sample comes any
\* more for the windows that are still open.
ShutdownReturns == ~running ~> pc = "done"
=============================================================================
