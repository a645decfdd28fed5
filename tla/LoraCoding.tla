----------------------------- MODULE LoraCoding -----------------------------
(***************************************************************************)
(* The coding chain of lora.c: diagonal deinterleaver, hard and soft       *)
(* Hamming decoder, payload CRC and its one- and two-bit repair, run       *)
(* against a reference transmitter and a channel that spoils one symbol of *)
(* a block or flips bits of a payload.                                     *)
(*                                                                         *)
(* Bits are 0/1, a codeword or symbol is a function from bit positions     *)
(* (most significant first, as the code unpacks them), a byte or a CRC is  *)
(* a number.                                                               *)
(***************************************************************************)
EXTENDS Integers, Sequences, FiniteSets, Bitwise

CONSTANTS
    SfApps,         \* application bits per symbol
    Patterns,       \* patterns of the nibbles of a block
    Payloads        \* payloads (sequences of bytes)

ASSUME CodingAssumption ==
    /\ SfApps \subseteq 5..12 /\ Patterns \subseteq (0..15) \X (0..15)
    /\ \A p \in Payloads : Len(p) >= 2 /\ \A i \in DOMAIN p : p[i] \in 0..255

VARIABLES stage, job, got
vars == <<stage, job, got>>

Bit(v, k) == (v \div 2^k) % 2
Parity(b, S) == Cardinality({i \in S : b[i] = 1}) % 2

-----------------------------------------------------------------------------
(* The codebook, and the transmitter: the inverse of the decoder's map.    *)

cw_LUT == <<0, 23, 45, 58, 78, 89, 99, 116,
            139, 156, 166, 177, 197, 210, 232, 255>>
cw_LUT_cr5 == <<0, 24, 40, 48, 72, 80, 96, 120,
                136, 144, 160, 184, 192, 216, 232, 240>>

Codebook ==
    [cr \in 5..8 |-> [n \in 0..15 |->
        LET row == (IF cr = 5 THEN cw_LUT_cr5 ELSE cw_LUT)[n + 1]
        IN  [i \in 0..(cr - 1) |-> Bit(row, 7 - i)]]]

NibbleAt(pattern, r) == (pattern[1] + r * pattern[2]) % 16

Interleaved(pattern, sf_app, cr) ==
    [i \in 0..(cr - 1) |-> [j \in 0..(sf_app - 1) |->
        LET r == (i - j - 1) % sf_app
        IN  Codebook[cr][NibbleAt(pattern, r)][i]]]

\* The decoder returns a nibble with its bits reversed.
Reversed(n) == 8 * Bit(n, 0) + 4 * Bit(n, 1) + 2 * Bit(n, 2) + Bit(n, 3)

-----------------------------------------------------------------------------
(* lora_deinterleave() and lora_deinterleave_soft().                       *)

\* Fault: the diagonal runs the other way.
DeinterleaveStraight(inter, sf_app, cr) ==
    [r \in 0..(sf_app - 1) |-> [i \in 0..(cr - 1) |-> inter[i][r]]]

Deinterleave(inter, sf_app, cr) ==
    [r \in 0..(sf_app - 1) |-> [i \in 0..(cr - 1) |->
        inter[i][(i - r - 1) % sf_app]]]

-----------------------------------------------------------------------------
(* lora_hamming_decode().                                                  *)

Syndrome(b) ==
    Parity(b, {0, 1, 2, 4}) + 2 * Parity(b, {1, 2, 3, 5})
        + 4 * Parity(b, {0, 1, 3, 6})

\* The data bit a syndrome points at; -1: none, a parity bit is wrong.
Culprit(s) == CASE s = 5 -> 3 [] s = 7 -> 2 [] s = 3 -> 1 [] s = 6 -> 0
                [] OTHER -> -1

\* 4/8 corrects only words of odd weight, 4/7 always, 4/6 and 4/5 never.
HammingDecode(b, cr) ==
    LET correct == cr = 7 \/ (cr = 8 /\ Parity(b, 0..7) = 1)
        bad     == IF correct THEN Culprit(Syndrome(b)) ELSE -1
        d(i)    == IF i = bad THEN 1 - b[i] ELSE b[i]
    IN  8 * d(3) + 4 * d(2) + 2 * d(1) + d(0)

-----------------------------------------------------------------------------
(* lora_hamming_decode_soft(): the first of the best-scoring codewords.    *)

RECURSIVE SumTo(_, _)
SumTo(f, n) == IF n < 0 THEN 0 ELSE f[n] + SumTo(f, n - 1)

Score(llr, n, cr) ==
    LET c == Codebook[cr][n]
        term == [j \in 0..(cr - 1) |-> IF c[j] = 1 THEN llr[j] ELSE -llr[j]]
    IN  SumTo(term, cr - 1)

HammingSoft(llr, cr) ==
    LET scores == {<<n, Score(llr, n, cr)>> : n \in 0..15}
        best   == CHOOSE a \in scores :
                    \A b \in scores : b[2] <= a[2] /\ (b[1] < a[1] => b[2] < a[2])
    IN  Reversed(cw_LUT[best[1] + 1] \div 16)

-----------------------------------------------------------------------------
(* lora_crc16() and the payload CRC with its XORed tail.                   *)

\* One shift of the register; STEP8 is a byte.
Shift(s) == IF s >= 32768 THEN ((s * 2) % 65536) ^^ 4129 ELSE s * 2
STEP8(s) ==
    LET f[i \in 0..8] == IF i = 0 THEN s ELSE Shift(f[i - 1]) IN f[8]

lora_crc16(bytes) ==
    LET f[i \in 0..Len(bytes)] ==
            IF i = 0 THEN 0 ELSE STEP8(f[i - 1] ^^ (bytes[i] * 256))
    IN  f[Len(bytes)]

WantCrc(p) ==
    (lora_crc16(SubSeq(p, 1, Len(p) - 2)) ^^ p[Len(p)])
        ^^ (p[Len(p) - 1] * 256)

Flip(p, bit) ==
    [p EXCEPT ![(bit \div 8) + 1] = @ ^^ (2^(bit % 8))]

BitsOf(p) == 0..(8 * Len(p) - 1)
NoRepair == [ok |-> FALSE, payload |-> <<>>]

\* Fault: the search stops before the last byte.
Correct1Short(p, crc) ==
    LET hits == {b \in BitsOf(p) :
                   b + 8 \in BitsOf(p) /\ WantCrc(Flip(p, b)) = crc}
        b    == CHOOSE x \in hits : \A y \in hits : x <= y
    IN  IF hits = {} THEN NoRepair ELSE [ok |-> TRUE, payload |-> Flip(p, b)]

\* lora_crc_bruteforce_correct(): the first bit whose flip satisfies crc.
Correct1(p, crc) ==
    LET hits == {b \in BitsOf(p) : WantCrc(Flip(p, b)) = crc}
        b    == CHOOSE x \in hits : \A y \in hits : x <= y
    IN  IF hits = {} THEN NoRepair ELSE [ok |-> TRUE, payload |-> Flip(p, b)]

\* Fault: the table starts one byte late.
DeltaLate(len, bit) ==
    LET j == bit \div 8
        m == bit % 8
        f[k \in 0..(len - 1)] ==
            IF k = len - 1 THEN 2^m
            ELSE IF k >= len - 3 THEN 2^(8 + m)
            ELSE STEP8(f[k + 1])
    IN  f[j]

\* What flipping a bit does to the CRC: the last two bytes directly, the
\* bytes before them through the recurrence, from the back.
Delta(len, bit) ==
    LET j == bit \div 8
        m == bit % 8
        f[k \in 0..(len - 1)] ==
            IF k = len - 1 THEN 2^m
            ELSE IF k = len - 2 THEN 2^(8 + m)
            ELSE STEP8(f[k + 1])
    IN  f[j]

\* lora_crc_bruteforce_correct_2bit(): for the first bit i that has one, the
\* first bit j whose delta completes the difference.
Correct2(p, crc) ==
    LET target == WantCrc(p) ^^ crc
        deltas == {<<b, Delta(Len(p), b)>> : b \in BitsOf(p)}
        needs  == {<<d[1], target ^^ d[2]>> : d \in deltas}
        pairs  == {<<q[1][1], q[2][1]>> : q \in {x \in needs \X deltas :
                     x[1][1] # x[2][1] /\ x[1][2] = x[2][2]}}
        q      == CHOOSE x \in pairs :
                    \A y \in pairs : x[1] < y[1] \/ (x[1] = y[1] /\ x[2] <= y[2])
    IN  IF target = 0 \/ pairs = {} THEN NoRepair
        ELSE [ok |-> TRUE, payload |-> Flip(Flip(p, q[1]), q[2])]

-----------------------------------------------------------------------------
(* The channel.  A block job: one symbol is replaced by any other.  A CRC  *)
(* job: up to two payload bits are flipped.                                *)

NoJob == [kind |-> "none"]

Init == stage = "idle" /\ job = NoJob /\ got = <<>>

SendBlock ==
    /\ stage = "idle"
    /\ \E sf_app \in SfApps, cr \in 5..8, pattern \in Patterns :
         job' = [kind |-> "block", sf_app |-> sf_app, cr |-> cr,
                 pattern |-> pattern, bad |-> -1,
                 rx |-> Interleaved(pattern, sf_app, cr)]
    /\ stage' = "sent"
    /\ UNCHANGED got

SpoilSymbol ==
    /\ stage = "sent" /\ job.kind = "block"
    /\ \E i \in 0..(job.cr - 1), mask \in 1..(2^job.sf_app - 1) :
         job' = [job EXCEPT !.bad = i,
                   !.rx = [@ EXCEPT ![i] =
                     [j \in DOMAIN @ |-> (@[j] + Bit(mask, j)) % 2]]]
    /\ stage' = "received"
    /\ UNCHANGED got

ReceiveClean ==
    /\ stage = "sent" /\ stage' = "received" /\ UNCHANGED <<job, got>>

DecodeHard ==
    /\ stage = "received" /\ job.kind = "block"
    /\ LET cw == Deinterleave(job.rx, job.sf_app, job.cr)
       IN  got' = [r \in 0..(job.sf_app - 1) |-> HammingDecode(cw[r], job.cr)]
    /\ stage' = "hard"
    /\ UNCHANGED job

DecodeSoft ==
    /\ stage = "received" /\ job.kind = "block"
    /\ LET llr == [i \in DOMAIN job.rx |->
                    [j \in DOMAIN job.rx[i] |-> 2 * job.rx[i][j] - 1]]
           cw  == Deinterleave(llr, job.sf_app, job.cr)
       IN  got' = [r \in 0..(job.sf_app - 1) |-> HammingSoft(cw[r], job.cr)]
    /\ stage' = "soft"
    /\ UNCHANGED job

SendPayload ==
    /\ stage = "idle"
    /\ \E p \in Payloads :
         job' = [kind |-> "crc", sent |-> p, crc |-> WantCrc(p), bad |-> 0,
                 rx |-> p]
    /\ stage' = "sent"
    /\ UNCHANGED got

FlipBits ==
    /\ stage = "sent" /\ job.kind = "crc"
    /\ \E b \in BitsOf(job.sent) : \E a \in 0..b :
         job' = IF a = b THEN [job EXCEPT !.bad = 1, !.rx = Flip(@, a)]
                ELSE [job EXCEPT !.bad = 2, !.rx = Flip(Flip(@, a), b)]
    /\ stage' = "received"
    /\ UNCHANGED got

\* The CRC branch of STATE_PAYLOAD: verify, else one bit, else two.
CheckCrc ==
    /\ stage = "received" /\ job.kind = "crc"
    /\ got' = IF WantCrc(job.rx) = job.crc
              THEN [bits |-> 0, payload |-> job.rx]
              ELSE LET one == Correct1(job.rx, job.crc)
                       two == Correct2(job.rx, job.crc)
                   IN  IF one.ok THEN [bits |-> 1, payload |-> one.payload]
                       ELSE IF two.ok THEN [bits |-> 2, payload |-> two.payload]
                       ELSE [bits |-> -1, payload |-> job.rx]
    /\ stage' = "checked"
    /\ UNCHANGED job

Done == stage \in {"hard", "soft", "checked"} /\ UNCHANGED vars

Next ==
    \/ SendBlock \/ SpoilSymbol \/ ReceiveClean \/ DecodeHard \/ DecodeSoft
    \/ SendPayload \/ FlipBits \/ CheckCrc \/ Done

Spec == Init /\ [][Next]_vars

-----------------------------------------------------------------------------
(* Properties.                                                             *)

Decoded == \A r \in DOMAIN got : got[r] = Reversed(NibbleAt(job.pattern, r))

\* A clean block is decoded at every rate.  The diagonal puts each bit of a
\* symbol into a different codeword, so at 4/7 and 4/8 one symbol of a block
\* that is wrong in any way costs the soft decoder nothing, and the hard one
\* nothing when the symbol carries parity.
OneBadSymbol ==
    /\ stage = "hard" /\ (job.bad = -1 \/ (job.bad >= 4 /\ job.cr >= 7)) => Decoded
    /\ stage = "soft" /\ (job.bad = -1 \/ job.cr >= 7) => Decoded


\* "a single-bit CRC16 match is not a coincidence": a payload with one wrong
\* bit comes back exactly as it was sent.
OneBitRestored ==
    stage = "checked" /\ job.bad < 2 =>
        got.bits = job.bad /\ got.payload = job.sent

\* The table of deltas finds a pair whenever two bits are wrong and one flip
\* does not help, and what it returns does satisfy the CRC.
TwoBitsVerify ==
    stage = "checked" => got.bits >= 0 /\ WantCrc(got.payload) = job.crc

\* The payload CRC's repair does what the counters it feeds say: one wrong
\* bit is restored, and a repair of two verifies.
RepairsVerify == OneBitRestored /\ TwoBitsVerify
=============================================================================
