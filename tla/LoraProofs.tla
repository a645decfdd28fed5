----------------------------- MODULE LoraProofs -----------------------------
(***************************************************************************)
(* Proofs about the LoRa frame state machine, for every set of spreading   *)
(* factors, lengths and coding rates and any number of preamble runs.      *)
(***************************************************************************)
EXTENDS LoraDecoder, TLAPS

-----------------------------------------------------------------------------
(* The geometry of a frame.                                                *)

\* A block of n symbols at rate cr holds n \div cr codeword groups.
LEMMA WholeBlocks ==
    \A b \in Nat, cr_ \in CodingRates : (b * cr_) \div cr_ = b
<1> SUFFICES ASSUME NEW b \in Nat, NEW cr_ \in CodingRates
             PROVE  (b * cr_) \div cr_ = b
    OBVIOUS
<1>1. CASE cr_ = 5  BY <1>1
<1>2. CASE cr_ = 6  BY <1>2
<1>3. CASE cr_ = 7  BY <1>3
<1>4. CASE cr_ = 8  BY <1>4
<1> QED BY <1>1, <1>2, <1>3, <1>4 DEF CodingRates

\* The blocks counted hold every nibble that follows the header block, and
\* there are at most 103 of them.
LEMMA BlocksEnough ==
    ASSUME NEW s \in SpreadingFactors, NEW d \in BOOLEAN,
           NEW l \in Lengths, NEW c \in BOOLEAN
    PROVE  /\ PayloadBits(s, d) \in 5..12
           /\ Blocks(s, d, l, c) \in 0..103
           /\ Blocks(s, d, l, c) * PayloadBits(s, d) >= 2 * l - s + 7
<1> DEFINE n == Numer(s, l, c)
           p == PayloadBits(s, d)
<1>1. n \in 0..514 /\ n >= 2 * l - s + 7
    BY DEF Numer, AtLeast0, SpreadingFactors, Lengths
<1>2. p \in 5..12
    BY DEF PayloadBits, SpreadingFactors
<1> HIDE DEF n, p
<1>3. /\ (n + p - 1) \div p \in 0..103
      /\ ((n + p - 1) \div p) * p >= n
    <2>1. CASE p = 5   BY <1>1, <2>1
    <2>2. CASE p = 6   BY <1>1, <2>2
    <2>3. CASE p = 7   BY <1>1, <2>3
    <2>4. CASE p = 8   BY <1>1, <2>4
    <2>5. CASE p = 9   BY <1>1, <2>5
    <2>6. CASE p = 10  BY <1>1, <2>6
    <2>7. CASE p = 11  BY <1>1, <2>7
    <2>8. CASE p = 12  BY <1>1, <2>8
    <2> QED BY <1>2, <2>1, <2>2, <2>3, <2>4, <2>5, <2>6, <2>7, <2>8
<1>4. Blocks(s, d, l, c) = (n + p - 1) \div p
    BY DEF Blocks, n, p
<1>5. s \in Int /\ l \in Int
    BY DEF SpreadingFactors, Lengths
<1>6. Blocks(s, d, l, c) * p >= 2 * l - s + 7
    <2> DEFINE q == ((n + p - 1) \div p) * p
    <2>1. q >= n /\ q \in Int
        BY <1>1, <1>2, <1>3
    <2> HIDE DEF q
    <2>2. q >= 2 * l - s + 7
        BY <1>1, <1>5, <2>1
    <2> QED BY <1>4, <2>2 DEF q
<1> QED BY <1>2, <1>3, <1>4, <1>6 DEF p

\* The number of payload symbols, never clipped by the symbol buffer.
LEMMA TargetExact ==
    ASSUME NEW s \in SpreadingFactors, NEW d \in BOOLEAN,
           NEW l \in Lengths, NEW c \in BOOLEAN, NEW r \in CodingRates
    PROVE  /\ SymTarget(s, d, l, c, r) = Blocks(s, d, l, c) * r
           /\ SymTarget(s, d, l, c, r) \in 0..MAX_PAYLOAD_SYMBOLS
<1> DEFINE b == Blocks(s, d, l, c)
<1>1. b \in 0..103
    BY BlocksEnough
<1> HIDE DEF b
<1>2. b * r \in 0..824
    <2>1. CASE r = 5  BY <1>1, <2>1
    <2>2. CASE r = 6  BY <1>1, <2>2
    <2>3. CASE r = 7  BY <1>1, <2>3
    <2>4. CASE r = 8  BY <1>1, <2>4
    <2> QED BY <2>1, <2>2, <2>3, <2>4 DEF CodingRates
<1>3. Least(b * r, 1024) = b * r
    BY <1>2 DEF Least
<1> QED BY <1>2, <1>3 DEF SymTarget, MAX_PAYLOAD_SYMBOLS, b

\* A frame whose header passed yields all its payload bytes from the number
\* of symbols the decoder waits for: every length, spreading factor, coding
\* rate, with and without CRC and low-data-rate optimisation.
THEOREM GeometryCovers ==
    ASSUME NEW s \in SpreadingFactors, NEW d \in BOOLEAN,
           NEW l \in Lengths, NEW c \in BOOLEAN, NEW r \in CodingRates
    PROVE  LET n == SymTarget(s, d, l, c, r)
           IN  /\ ByteCount(s, d, n, l, c, r) \in Nat
               /\ ByteCount(s, d, n, l, c, r) >= l
<1> DEFINE b == Blocks(s, d, l, c)
           p == PayloadBits(s, d)
           n == SymTarget(s, d, l, c, r)
           q == b * p
<1>1. b \in Nat /\ p \in Nat /\ q \in Int /\ q >= 2 * l - s + 7
    BY BlocksEnough
<1>2. n \div r = b
    BY <1>1, TargetExact, WholeBlocks
<1>3. s \in 7..12 /\ l \in 1..255
    BY DEF SpreadingFactors, Lengths
<1> DEFINE a == (Leftover(s) + q) \div 2
<1>4. a \in Int /\ a >= l
    <2>1. Leftover(s) = s - 7
        BY <1>3 DEF Leftover, HeaderBits
    <2> HIDE DEF q
    <2> QED BY <1>1, <1>3, <2>1
<1>5. Assembled(s, d, n, r) = Least(a, 256)
    BY <1>2 DEF Assembled, MAX_PAYLOAD_BYTES
<1> HIDE DEF a, b, p, n, q
<1>6. Assembled(s, d, n, r) \in Nat /\ Assembled(s, d, n, r) >= l
    BY <1>3, <1>4, <1>5 DEF Least
<1>7. Total(l, c) \in Nat /\ Total(l, c) >= l
    BY <1>3 DEF Total
<1>8. /\ ByteCount(s, d, n, l, c, r) \in Nat
      /\ ByteCount(s, d, n, l, c, r) >= l
    BY <1>6, <1>7 DEF ByteCount, Least
<1> QED BY <1>8 DEF n
-----------------------------------------------------------------------------
(* The inductive invariant.                                                *)

\* Of the frame last delivered.
OutOK ==
    /\ out.run \in Nat
    /\ out.run > 0 =>
         /\ out.lock = out.run
         /\ out.given <= out.valid
         /\ out.checked =>
              /\ out.ok <=> \/ out.dist = 0
                            \/ out.dist = 1 /\ brute
                            \/ out.dist = 2 /\ brute /\ brute2
              /\ out.corrected <=> out.ok /\ out.dist > 0
              /\ out.corrected => out.bits = out.dist

\* The lock is stamped exactly when the count reaches PREAMBLE_MIN.
Locking ==
    /\ state = "PREAMBLE_OK" =>
         /\ run > 0
         /\ locked_once <=> preamble_count >= PREAMBLE_MIN
         /\ locked_once => fired = 1 /\ meta.lock = run
         /\ ~locked_once => fired = 0
    /\ state \in {"HEADER", "PAYLOAD"} => run > 0 /\ fired = 1 /\ meta.lock = run

\* A payload in progress has the target its header gave.
Progress ==
    /\ state = "HEADER" => header_idx < HeaderSyms
    /\ state = "PAYLOAD" =>
         /\ len \in Lens /\ cr \in Crs
         /\ sym_target = SymTarget(sf, ldro, len, has_crc, cr)
         /\ sym_count < sym_target

IInv == TypeOK /\ Locking /\ Progress /\ OutOK

LEMMA InitIInv == Init => IInv
<1> SUFFICES ASSUME Init PROVE IInv
    OBVIOUS
<1> USE LoraAssumption DEF Init
<1>1. TypeOK
    <2>1. /\ preamble_count \in 0..(PREAMBLE_MIN + 4)
          /\ header_idx \in 0..HeaderSyms
          /\ sym_target \in 0..MAX_PAYLOAD_SYMBOLS
          /\ sym_count \in 0..sym_target
          /\ run \in 0..MaxRuns /\ fired \in 0..1
        BY DEF MAX_PAYLOAD_SYMBOLS
    <2>2. meta \in Meta
        BY DEF Meta
    <2>3. /\ len \in {0} \cup Lens /\ has_crc \in BOOLEAN
          /\ cr \in {0} \cup Crs /\ locked_once \in BOOLEAN
        OBVIOUS
    <2> QED BY <2>1, <2>2, <2>3 DEF TypeOK
<1>2. Locking /\ Progress
    BY DEF Locking, Progress
<1>3. OutOK
    BY DEF OutOK, NoFrame
<1> QED BY <1>1, <1>2, <1>3 DEF IInv

\* Back in IDLE, with the delivered frame left alone or replaced by a good
\* one.
LEMMA IdleIInv ==
    ASSUME IInv, reset_to_idle, UNCHANGED <<cfgVars, run, fired>>,
           meta' \in Meta, len' \in {0} \cup Lens, has_crc' \in BOOLEAN,
           cr' \in {0} \cup Crs, OutOK'
    PROVE  IInv'
<1> USE LoraAssumption DEF reset_to_idle, cfgVars
<1>1. TypeOK'
    <2>1. /\ sf' \in Sfs /\ ldro' \in BOOLEAN
          /\ brute' \in BOOLEAN /\ brute2' \in BOOLEAN
          /\ run' \in 0..MaxRuns /\ fired' \in 0..1
        BY DEF IInv, TypeOK
    <2>2. /\ preamble_count' \in 0..(PREAMBLE_MIN + 4)
          /\ header_idx' \in 0..HeaderSyms
          /\ sym_target' \in 0..MAX_PAYLOAD_SYMBOLS
          /\ sym_count' \in 0..sym_target'
        BY DEF MAX_PAYLOAD_SYMBOLS
    <2>3. locked_once' \in BOOLEAN /\ state' = "IDLE"
        OBVIOUS
    <2> QED BY <2>1, <2>2, <2>3 DEF TypeOK
<1>2. Locking' /\ Progress'
    BY DEF Locking, Progress
<1> QED BY <1>1, <1>2 DEF IInv

\* A step that leaves the delivered frame and the configuration alone.
LEMMA OutKept ==
    ASSUME OutOK, UNCHANGED <<cfgVars, out>>
    PROVE  OutOK'
BY DEF OutOK, cfgVars

LEMMA DetectIInv == IInv /\ Detect => IInv'
<1> SUFFICES ASSUME IInv, Detect PROVE IInv'
    OBVIOUS
<1> USE LoraAssumption DEF Detect, IInv
<1>1. TypeOK'
    <2>1. preamble_count' \in 0..(PREAMBLE_MIN + 4)
        OBVIOUS
    <2>2. run' \in 0..MaxRuns /\ fired' \in 0..1
        BY DEF TypeOK
    <2>3. locked_once' \in BOOLEAN /\ state' = "PREAMBLE_OK"
        OBVIOUS
    <2> QED BY <2>1, <2>2, <2>3 DEF TypeOK, cfgVars, hdrVars
<1>2. Locking' /\ Progress'
    BY DEF Locking, Progress, TypeOK
<1>3. OutOK'
    BY OutKept
<1> QED BY <1>1, <1>2, <1>3

LEMMA LosePreambleIInv == IInv /\ LosePreamble => IInv'
<1> SUFFICES ASSUME IInv, LosePreamble PROVE IInv'
    OBVIOUS
<1>1. OutOK'
    BY OutKept DEF IInv, LosePreamble
<1> QED BY <1>1, IdleIInv DEF IInv, TypeOK, LosePreamble, hdrVars

LEMMA MatchPreambleIInv == IInv /\ MatchPreamble => IInv'
<1> SUFFICES ASSUME IInv, MatchPreamble PROVE IInv'
    OBVIOUS
<1> USE LoraAssumption DEF MatchPreamble, IInv
<1>1. preamble_count' \in 0..(PREAMBLE_MIN + 4) /\ preamble_count' > 0
    BY DEF TypeOK, Least
<1>2. preamble_count >= PREAMBLE_MIN => preamble_count' >= PREAMBLE_MIN
    BY DEF TypeOK, Least
<1>3. /\ locked_once' \in BOOLEAN
      /\ locked_once' <=> preamble_count' >= PREAMBLE_MIN
      /\ locked_once' => fired' = 1 /\ meta'.lock = run
      /\ ~locked_once' => fired' = 0
      /\ meta' \in Meta
    <2>1. CASE preamble_count' >= PREAMBLE_MIN /\ ~locked_once
        BY <2>1 DEF Locking, TypeOK, Meta
    <2>2. CASE ~(preamble_count' >= PREAMBLE_MIN /\ ~locked_once)
        BY <1>2, <2>2 DEF Locking, TypeOK
    <2> QED BY <2>1, <2>2
<1>4. TypeOK'
    BY <1>1, <1>3 DEF TypeOK, cfgVars, hdrVars
<1>5. Locking' /\ Progress'
    BY <1>3 DEF Locking, Progress
<1>6. OutOK'
    BY OutKept
<1> QED BY <1>4, <1>5, <1>6

LEMMA StartHeaderIInv == IInv /\ StartHeader => IInv'
BY LoraAssumption
   DEF IInv, TypeOK, Locking, Progress, OutOK, StartHeader, cfgVars, hdrVars

LEMMA HeaderSymbolIInv == IInv /\ HeaderSymbol => IInv'
BY LoraAssumption
   DEF IInv, TypeOK, Locking, Progress, OutOK, HeaderSymbol, cfgVars, hdrVars

LEMMA HeaderFailIInv == IInv /\ HeaderFail => IInv'
<1> SUFFICES ASSUME IInv, HeaderFail PROVE IInv'
    OBVIOUS
<1>1. OutOK'
    BY OutKept DEF IInv, HeaderFail
<1> QED BY <1>1, IdleIInv DEF IInv, TypeOK, HeaderFail

LEMMA PayloadSymbolIInv == IInv /\ PayloadSymbol => IInv'
BY LoraAssumption
   DEF IInv, TypeOK, Locking, Progress, OutOK, PayloadSymbol, cfgVars, hdrVars

LEMMA HeaderPassIInv == IInv /\ HeaderPass => IInv'
<1> SUFFICES ASSUME IInv, HeaderPass PROVE IInv'
    OBVIOUS
<1> USE LoraAssumption
<1>1. PICK l \in Lens, c \in BOOLEAN, r \in Crs :
         LET n == SymTarget(sf, ldro, l, c, r)
             m == [meta EXCEPT !.ok = ~c]
         IN  /\ len' = l /\ has_crc' = c /\ cr' = r
             /\ IF n = 0
                THEN /\ reset_to_idle
                     /\ meta' = m
                     /\ out' = Frame(0, 0, FALSE, 0, m)
                ELSE /\ state' = "PAYLOAD"
                     /\ sym_count' = 0 /\ sym_target' = n
                     /\ header_idx' = HeaderSyms
                     /\ UNCHANGED <<preamble_count, locked_once, meta, out>>
    BY DEF HeaderPass
<1>2. /\ state = "HEADER" /\ UNCHANGED <<cfgVars, run, fired>>
      /\ run \in Nat /\ run > 0 /\ fired = 1 /\ meta.lock = run
      /\ meta \in Meta
    BY DEF HeaderPass, IInv, Locking, TypeOK
<1>3. SymTarget(sf, ldro, l, c, r) \in 0..MAX_PAYLOAD_SYMBOLS
    <2>1. /\ sf \in SpreadingFactors /\ ldro \in BOOLEAN
          /\ l \in Lengths /\ r \in CodingRates
        BY DEF IInv, TypeOK
    <2> QED BY <2>1, TargetExact
<1>4. CASE SymTarget(sf, ldro, l, c, r) = 0
    <2> DEFINE m == [meta EXCEPT !.ok = ~c]
    <2>1. m \in Meta /\ m.lock = run
        BY <1>2 DEF Meta
    <2>2. reset_to_idle /\ meta' = m /\ out' = Frame(0, 0, FALSE, 0, m)
        BY <1>1, <1>4
    <2> HIDE DEF m
    <2>3. OutOK'
        BY <1>2, <2>1, <2>2 DEF OutOK, Frame
    <2> QED BY <1>1, <1>2, <2>1, <2>2, <2>3, IdleIInv
<1>5. CASE SymTarget(sf, ldro, l, c, r) # 0
    <2>1. /\ state' = "PAYLOAD" /\ header_idx' = HeaderSyms
          /\ sym_count' = 0 /\ sym_target' = SymTarget(sf, ldro, l, c, r)
          /\ len' = l /\ has_crc' = c /\ cr' = r
          /\ UNCHANGED <<preamble_count, locked_once, meta, out>>
        BY <1>1, <1>5
    <2>2. TypeOK'
        <3>1. /\ header_idx' \in 0..HeaderSyms
              /\ sym_target' \in 0..MAX_PAYLOAD_SYMBOLS
              /\ sym_count' \in 0..sym_target'
            <4>1. sym_target' \in 0..1024 /\ sym_count' = 0
                BY ONLY <1>3, <2>1 DEF MAX_PAYLOAD_SYMBOLS
            <4>2. header_idx' = HeaderSyms /\ HeaderSyms \in Nat
                BY <2>1
            <4> QED BY ONLY <4>1, <4>2 DEF MAX_PAYLOAD_SYMBOLS
        <3>2. /\ len' \in {0} \cup Lens /\ has_crc' \in BOOLEAN
              /\ cr' \in {0} \cup Crs
            BY <2>1
        <3> QED BY <1>2, <2>1, <3>1, <3>2 DEF IInv, TypeOK, cfgVars
    <2>3. Locking'
        BY <1>2, <2>1 DEF Locking
    <2>4. Progress'
        BY <1>2, <1>3, <1>5, <2>1 DEF Progress, cfgVars, MAX_PAYLOAD_SYMBOLS
    <2>5. OutOK'
        BY <1>2, <2>1, OutKept DEF IInv
    <2> QED BY <2>2, <2>3, <2>4, <2>5 DEF IInv
<1> QED BY <1>4, <1>5

\* What the CRC branch reports of a payload dist flips away.
LEMMA RepairSound ==
    ASSUME NEW dist \in 0..3, brute \in BOOLEAN, brute2 \in BOOLEAN
    PROVE  LET v == Repair(dist)
           IN  /\ v.ok \in BOOLEAN /\ v.corrected \in BOOLEAN /\ v.bits \in 0..2
               /\ v.ok <=> \/ dist = 0
                           \/ dist = 1 /\ brute
                           \/ dist = 2 /\ brute /\ brute2
               /\ v.corrected <=> v.ok /\ dist > 0
               /\ v.corrected => v.bits = dist
<1> DEFINE clean == [ok |-> TRUE, corrected |-> FALSE, bits |-> 0]
           lost  == [ok |-> FALSE, corrected |-> FALSE, bits |-> 0]
           fixed == [ok |-> TRUE, corrected |-> TRUE, bits |-> dist]
<1>1. CASE dist = 0
    <2>1. Repair(dist) = clean
        BY <1>1 DEF Repair
    <2>2. Repair(dist).ok = TRUE /\ Repair(dist).corrected = FALSE
        BY <2>1
    <2>3. Repair(dist).bits \in 0..2 /\ ~(dist > 0)
        BY <1>1, <2>1
    <2> QED BY <1>1, <2>2, <2>3, Zenon
<1>2. CASE dist \in {1, 2} /\ brute /\ (dist = 2 => brute2)
    <2>1. Repair(dist) = fixed
        <3>1. CASE dist = 1  BY <1>2, <3>1 DEF Repair
        <3>2. CASE dist = 2  BY <1>2, <3>2 DEF Repair
        <3> QED BY <1>2, <3>1, <3>2
    <2> QED BY <1>2, <2>1
<1>3. CASE dist # 0 /\ ~(dist \in {1, 2} /\ brute /\ (dist = 2 => brute2))
    <2>1. Repair(dist) = lost
        BY <1>3 DEF Repair
    <2> QED BY <1>3, <2>1
<1> QED BY <1>1, <1>2, <1>3

LEMMA DeliverIInv == IInv /\ Deliver => IInv'
<1> SUFFICES ASSUME IInv, Deliver PROVE IInv'
    OBVIOUS
<1> USE LoraAssumption
<1> DEFINE n     == sym_count + 1
           count == ByteCount(sf, ldro, n, len, has_crc, cr)
           check == CrcChecked(count, has_crc)
<1>1. PICK dist \in 0..3 :
         LET v == Repair(dist)
             m == IF check
                  THEN [meta EXCEPT !.ok = v.ok, !.corrected = v.corrected,
                                    !.bits = v.bits]
                  ELSE [meta EXCEPT !.ok = ~has_crc]
         IN  /\ meta' = m
             /\ out' = Frame(count, len, check, dist, m)
    BY DEF Deliver
<1>2. /\ reset_to_idle /\ UNCHANGED <<cfgVars, hdrVars, run, fired>>
      /\ state = "PAYLOAD" /\ n >= sym_target
    BY DEF Deliver
<1>3. /\ run \in Nat /\ run > 0 /\ meta.lock = run /\ meta \in Meta
      /\ brute \in BOOLEAN /\ brute2 \in BOOLEAN /\ has_crc \in BOOLEAN
      /\ len \in Lens /\ cr \in Crs
    BY <1>2 DEF IInv, TypeOK, Locking, Progress
<1>4. n = SymTarget(sf, ldro, len, has_crc, cr)
    <2>1. sym_count \in Int /\ sym_target \in Int /\ sym_count < sym_target
        BY <1>2 DEF IInv, TypeOK, Progress, MAX_PAYLOAD_SYMBOLS
    <2> QED BY <1>2, <2>1 DEF IInv, Progress
<1>5. count >= len
    <2>1. /\ sf \in SpreadingFactors /\ ldro \in BOOLEAN
          /\ len \in Lengths /\ cr \in CodingRates
        BY <1>3 DEF IInv, TypeOK
    <2> QED BY <1>3, <1>4, <2>1, GeometryCovers
<1> DEFINE v == Repair(dist)
<1>6. /\ v.ok \in BOOLEAN /\ v.corrected \in BOOLEAN /\ v.bits \in 0..2
      /\ v.ok <=> \/ dist = 0
                  \/ dist = 1 /\ brute
                  \/ dist = 2 /\ brute /\ brute2
      /\ v.corrected <=> v.ok /\ dist > 0
      /\ v.corrected => v.bits = dist
    BY <1>3, RepairSound
<1> HIDE DEF count, check, v
<1>7. meta' \in Meta /\ meta'.lock = run
    BY <1>1, <1>3, <1>6 DEF Meta, v
<1>8. check => meta'.ok = v.ok /\ meta'.corrected = v.corrected /\ meta'.bits = v.bits
    BY <1>1, <1>3 DEF Meta, v
<1>9. out' = Frame(count, len, check, dist, meta')
    BY <1>1 DEF Frame
<1>10. OutOK'
    <2>1. /\ out'.run = run /\ out'.lock = run /\ out'.given = len
          /\ out'.valid = count /\ out'.checked = check /\ out'.dist = dist
          /\ out'.ok = meta'.ok /\ out'.corrected = meta'.corrected
          /\ out'.bits = meta'.bits
        BY <1>7, <1>9 DEF Frame
    <2>2. brute' = brute /\ brute2' = brute2
        BY <1>2 DEF cfgVars
    <2> QED BY <1>3, <1>5, <1>6, <1>8, <2>1, <2>2 DEF OutOK
<1>11. /\ len' \in {0} \cup Lens /\ has_crc' \in BOOLEAN
       /\ cr' \in {0} \cup Crs
    BY <1>2, <1>3 DEF hdrVars
<1> QED BY <1>2, <1>7, <1>10, <1>11, IdleIInv

LEMMA NextIInv == IInv /\ [Next]_vars => IInv'
<1>1. ASSUME IInv, UNCHANGED vars PROVE IInv'
    BY <1>1 DEF IInv, TypeOK, Locking, Progress, OutOK, vars, cfgVars, hdrVars,
                frameVars
<1> QED
    BY <1>1, DetectIInv, LosePreambleIInv, MatchPreambleIInv, StartHeaderIInv,
       HeaderSymbolIInv, HeaderFailIInv, HeaderPassIInv, PayloadSymbolIInv,
       DeliverIInv
    DEF Next, Tick, Quiet

LEMMA Invariant == Spec => []IInv
BY InitIInv, NextIInv, PTL DEF Spec

-----------------------------------------------------------------------------
(* What it gives.                                                          *)

\* The counters stay within the buffers they index.
THEOREM TypeCorrect == Spec => []TypeOK
<1>1. IInv => TypeOK  BY DEF IInv
<1> QED BY <1>1, Invariant, PTL

\* Every frame is delivered with the lock anchor of its own preamble run,
\* and the lock callback fired exactly once before its header was read.
THEOREM LockIsOwn == Spec => []OwnLock
<1>1. IInv => OwnLock  BY DEF IInv, Locking, OutOK, OwnLock
<1> QED BY <1>1, Invariant, PTL

\* The frame callback never sees a byte that was not decoded, for any
\* length, spreading factor and coding rate.
THEOREM BytesDecoded == Spec => []AllBytesDecoded
<1>1. IInv => AllBytesDecoded  BY DEF IInv, OutOK, AllBytesDecoded
<1> QED BY <1>1, Invariant, PTL

\* The CRC verdict delivered with a checked frame is the true one.
THEOREM VerdictIsSound == Spec => []VerdictSound
<1>1. IInv => VerdictSound  BY DEF IInv, OutOK, VerdictSound
<1> QED BY <1>1, Invariant, PTL

\* No frame is delivered with metadata of an earlier one.
THEOREM MetaIsOwn == Spec => []MetaOwn
<1>1. OwnLock /\ VerdictSound => MetaOwn  BY DEF MetaOwn
<1> QED BY <1>1, LockIsOwn, VerdictIsSound, PTL
=============================================================================
