---------------------------- MODULE SampleStream ----------------------------
(***************************************************************************)
(* What the sample pump of main.c promises to the SDR backends and to the  *)
(* DSP path: the buffers handed to push_samples() reach                    *)
(* process_sample_buf() exactly once and in the order they were handed     *)
(* over, and the producer is never more than Depth buffers ahead.          *)
(* Buffers are numbered 1, 2, ... in hand-over order.                      *)
(***************************************************************************)
EXTENDS Naturals

CONSTANT Depth

VARIABLES
    sent,   \* number of buffers handed to push_samples() so far
    done    \* number of the last buffer whose processing has finished
vars == <<sent, done>>

Init == sent = 0 /\ done = 0

Submit == /\ sent - done < Depth
          /\ sent' = sent + 1
          /\ UNCHANGED done

Process == /\ done < sent
           /\ done' = done + 1
           /\ UNCHANGED sent

Next == Submit \/ Process

Spec == Init /\ [][Next]_vars
=============================================================================
