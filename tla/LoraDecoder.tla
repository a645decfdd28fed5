----------------------------- MODULE LoraDecoder -----------------------------
(***************************************************************************)
(* The frame state machine of one LoRa decoder (state_tick in lora.c), one *)
(* action per outcome of a symbol.  What the FFT sees is chosen freely:    *)
(* whether the peak is above the floor, on the preamble bin or a straddle, *)
(* what the header says, whether its checksum holds, and how far the       *)
(* payload is from one that satisfies its CRC.  Sample alignment (STO,     *)
(* CFO, SFO) decides what the next symbol looks like and is part of that   *)
(* choice.                                                                 *)
(***************************************************************************)
EXTENDS LoraFrame

CONSTANTS
    PREAMBLE_MIN,   \* matching upchirps that make a preamble
    HeaderSyms,     \* ticks of STATE_HEADER: two downchirps and the block
    Sfs, Lens, Crs, \* spreading factors, payload lengths, coding rates
    MaxRuns         \* bound: preamble runs

ASSUME LoraAssumption ==
    /\ PREAMBLE_MIN \in Nat \ {0, 1} /\ HeaderSyms \in Nat \ {0}
    /\ Sfs \subseteq SpreadingFactors /\ Lens \subseteq Lengths
    /\ Crs \subseteq CodingRates
    /\ MaxRuns \in Nat

VARIABLES
    sf, ldro, brute, brute2,    \* fixed when the decoder is configured
    state, preamble_count, locked_once, header_idx,
    sym_count, sym_target,
    len, has_crc, cr,           \* header fields
    meta,                       \* the lora_frame_meta_t kept across frames
    run,                        \* preamble runs so far
    fired,                      \* preamble callbacks of this run
    out                         \* the frame last given to the callback

cfgVars   == <<sf, ldro, brute, brute2>>
hdrVars   == <<len, has_crc, cr>>
frameVars == <<preamble_count, locked_once, header_idx, sym_count, sym_target>>
vars == <<cfgVars, state, frameVars, hdrVars, meta, run, fired, out>>

NoFrame == [run |-> 0]

Init ==
    /\ sf \in Sfs /\ ldro \in BOOLEAN
    /\ brute \in BOOLEAN /\ brute2 \in BOOLEAN
    /\ state = "IDLE"
    /\ preamble_count = 0 /\ locked_once = FALSE /\ header_idx = 0
    /\ sym_count = 0 /\ sym_target = 0
    /\ len = 0 /\ has_crc = FALSE /\ cr = 0
    /\ meta = [lock |-> 0, ok |-> FALSE, corrected |-> FALSE, bits |-> 0]
    /\ run = 0 /\ fired = 0
    /\ out = NoFrame

reset_to_idle ==
    /\ state' = "IDLE"
    /\ preamble_count' = 0 /\ locked_once' = FALSE /\ header_idx' = 0
    /\ sym_count' = 0 /\ sym_target' = 0

-----------------------------------------------------------------------------
(* STATE_IDLE and STATE_PREAMBLE_OK.  Below the floor IDLE stays as it is. *)

Detect ==
    /\ state = "IDLE" /\ run < MaxRuns
    /\ state' = "PREAMBLE_OK"
    /\ preamble_count' = 1 /\ locked_once' = FALSE
    /\ run' = run + 1 /\ fired' = 0
    /\ UNCHANGED <<cfgVars, header_idx, sym_count, sym_target, hdrVars, meta,
                   out>>

\* Below the floor, or off the bin before PREAMBLE_MIN matches.
LosePreamble ==
    /\ state = "PREAMBLE_OK"
    /\ reset_to_idle
    /\ UNCHANGED <<cfgVars, hdrVars, meta, run, fired, out>>

\* On the bin and no straddle.  The first such tick with PREAMBLE_MIN
\* matches is the lock: the anchor is stamped and the callback fires.
MatchPreamble ==
    /\ state = "PREAMBLE_OK"
    /\ preamble_count' = Least(preamble_count + 1, PREAMBLE_MIN + 4)
    /\ IF preamble_count' >= PREAMBLE_MIN /\ ~locked_once
       THEN /\ locked_once' = TRUE
            /\ meta' = [meta EXCEPT !.lock = run]
            /\ fired' = fired + 1
       ELSE UNCHANGED <<locked_once, meta, fired>>
    /\ UNCHANGED <<cfgVars, state, header_idx, sym_count, sym_target, hdrVars,
                   run, out>>

\* Fault: one match too few is taken for a preamble.
StartHeaderEarly ==
    /\ state = "PREAMBLE_OK" /\ preamble_count >= PREAMBLE_MIN - 1
    /\ state' = "HEADER" /\ header_idx' = 0
    /\ UNCHANGED <<cfgVars, preamble_count, locked_once, sym_count, sym_target,
                   hdrVars, meta, run, fired, out>>

\* Off the bin, or a straddle, after PREAMBLE_MIN matches: the sync word.
StartHeader ==
    /\ state = "PREAMBLE_OK" /\ preamble_count >= PREAMBLE_MIN
    /\ state' = "HEADER" /\ header_idx' = 0
    /\ UNCHANGED <<cfgVars, preamble_count, locked_once, sym_count, sym_target,
                   hdrVars, meta, run, fired, out>>

-----------------------------------------------------------------------------
(* STATE_HEADER: the downchirps and all but the last header symbol.        *)

HeaderSymbol ==
    /\ state = "HEADER" /\ header_idx + 1 < HeaderSyms
    /\ header_idx' = header_idx + 1
    /\ UNCHANGED <<cfgVars, state, preamble_count, locked_once, sym_count,
                   sym_target, hdrVars, meta, run, fired, out>>

\* Fault: after a bad checksum the decoder reads another header block.
HeaderRetry ==
    /\ state = "HEADER" /\ header_idx + 1 = HeaderSyms
    /\ header_idx' = 0
    /\ UNCHANGED <<cfgVars, state, preamble_count, locked_once, sym_count,
                   sym_target, hdrVars, meta, run, fired, out>>

\* The last symbol, and the checksum fails or the length is 0; what was read
\* stays in the header fields.
HeaderFail ==
    /\ state = "HEADER" /\ header_idx + 1 = HeaderSyms
    /\ len' \in Lens \cup {0} /\ has_crc' \in BOOLEAN /\ cr' \in Crs
    /\ reset_to_idle
    /\ UNCHANGED <<cfgVars, meta, run, fired, out>>

\* What the frame callback is given: given bytes, of which valid are decoded.
Frame(valid, given, checked, dist, m) ==
    [run |-> run, lock |-> m.lock, valid |-> valid, given |-> given,
     checked |-> checked, dist |-> dist, ok |-> m.ok,
     corrected |-> m.corrected, bits |-> m.bits]

\* The checksum holds.  Without payload symbols the frame is delivered at
\* once, without bytes.
HeaderPass ==
    /\ state = "HEADER" /\ header_idx + 1 = HeaderSyms
    /\ \E l \in Lens, c \in BOOLEAN, r \in Crs :
         LET n == SymTarget(sf, ldro, l, c, r)
             m == [meta EXCEPT !.ok = ~c]
         IN  /\ len' = l /\ has_crc' = c /\ cr' = r
             /\ IF n = 0
                THEN /\ reset_to_idle
                     /\ meta' = m
                     /\ out' = Frame(0, 0, FALSE, 0, m)
                ELSE /\ state' = "PAYLOAD"
                     /\ sym_count' = 0 /\ sym_target' = n
                     /\ header_idx' = HeaderSyms
                     /\ UNCHANGED <<preamble_count, locked_once, meta, out>>
    /\ UNCHANGED <<cfgVars, run, fired>>

-----------------------------------------------------------------------------
(* STATE_PAYLOAD.                                                          *)

PayloadSymbol ==
    /\ state = "PAYLOAD" /\ sym_count + 1 < sym_target
    /\ sym_count' = sym_count + 1
    /\ UNCHANGED <<cfgVars, state, preamble_count, locked_once, header_idx,
                   sym_target, hdrVars, meta, run, fired, out>>

\* Fault: the two-bit search runs whether or not it is enabled.
RepairAlways(dist) ==
    CASE dist = 0 -> [ok |-> TRUE, corrected |-> FALSE, bits |-> 0]
      [] dist \in {1, 2} -> [ok |-> TRUE, corrected |-> TRUE, bits |-> dist]
      [] OTHER -> [ok |-> FALSE, corrected |-> FALSE, bits |-> 0]

\* CRC verdict on bytes that are dist bit flips from satisfying it (3: more
\* than two).
Repair(dist) ==
    CASE dist = 0 -> [ok |-> TRUE, corrected |-> FALSE, bits |-> 0]
      [] dist = 1 /\ brute -> [ok |-> TRUE, corrected |-> TRUE, bits |-> 1]
      [] dist = 2 /\ brute /\ brute2 ->
           [ok |-> TRUE, corrected |-> TRUE, bits |-> 2]
      [] OTHER -> [ok |-> FALSE, corrected |-> FALSE, bits |-> 0]

\* The last symbol: assemble, check or repair the CRC, deliver.  Without a
\* check the repair fields of meta keep what the last frame left there.
Deliver ==
    LET n     == sym_count + 1
        count == ByteCount(sf, ldro, n, len, has_crc, cr)
        check == CrcChecked(count, has_crc)
    IN  /\ state = "PAYLOAD" /\ n >= sym_target
        /\ \E dist \in 0..3 :
             LET v == Repair(dist)
                 m == IF check
                      THEN [meta EXCEPT !.ok = v.ok, !.corrected = v.corrected,
                                        !.bits = v.bits]
                      ELSE [meta EXCEPT !.ok = ~has_crc]
             IN  /\ meta' = m
                 /\ out' = Frame(count, len, check, dist, m)
        /\ reset_to_idle
        /\ UNCHANGED <<cfgVars, hdrVars, run, fired>>

Tick ==
    \/ LosePreamble \/ MatchPreamble \/ StartHeader
    \/ HeaderSymbol \/ HeaderFail \/ HeaderPass
    \/ PayloadSymbol \/ Deliver

Quiet == state = "IDLE" /\ UNCHANGED vars

Next == Detect \/ Tick \/ Quiet

Spec == Init /\ [][Next]_vars

\* Samples keep coming, so every symbol is ticked.
FairSpec == Spec /\ WF_vars(Tick)

-----------------------------------------------------------------------------
(* Properties.                                                             *)

Meta == [lock : 0..MaxRuns, ok : BOOLEAN, corrected : BOOLEAN, bits : 0..2]

\* The variables keep their types; the symbol counter stays within the
\* target and the target within payload_syms[].
TypeOK ==
    /\ sf \in Sfs /\ ldro \in BOOLEAN /\ brute \in BOOLEAN /\ brute2 \in BOOLEAN
    /\ state \in {"IDLE", "PREAMBLE_OK", "HEADER", "PAYLOAD"}
    /\ preamble_count \in 0..(PREAMBLE_MIN + 4) /\ locked_once \in BOOLEAN
    /\ header_idx \in 0..HeaderSyms
    /\ sym_target \in 0..MAX_PAYLOAD_SYMBOLS
    /\ sym_count \in 0..sym_target
    /\ len \in {0} \cup Lens /\ has_crc \in BOOLEAN /\ cr \in {0} \cup Crs
    /\ meta \in Meta
    /\ run \in 0..MaxRuns /\ fired \in 0..1

\* "Fired exactly once per preamble run": the callback that wakes a focused
\* decoder fires once before the header of the same run is read, and a frame
\* carries the lock anchor of its own preamble, not of an earlier one.
OwnLock ==
    /\ state \in {"HEADER", "PAYLOAD"} => fired = 1 /\ meta.lock = run
    /\ out.run > 0 => out.lock = out.run

\* The callback reads no byte the decoder has not written.
AllBytesDecoded == out.run > 0 => out.given <= out.valid

\* Of a frame whose CRC was checked, payload_crc_ok and the repair fields
\* say what happened: a mismatch passes only through an enabled repair.
VerdictSound ==
    out.run > 0 /\ out.checked =>
        /\ out.ok <=> \/ out.dist = 0
                      \/ out.dist = 1 /\ brute
                      \/ out.dist = 2 /\ brute /\ brute2
        /\ out.corrected <=> out.ok /\ out.dist > 0
        /\ out.corrected => out.bits = out.dist

\* The metadata survives from frame to frame in the decoder; what a frame is
\* delivered with is nevertheless its own: its lock and its CRC verdict.
MetaOwn == OwnLock /\ VerdictSound

\* A decoder that has begun a header comes back to hunting for preambles,
\* whatever it receives.
FrameEnds == state \in {"HEADER", "PAYLOAD"} ~> state = "IDLE"
=============================================================================
