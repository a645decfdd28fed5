------------------------------ MODULE LoraFrame ------------------------------
(***************************************************************************)
(* The geometry of a LoRa frame as the decoder of lora.c computes it: how  *)
(* many payload symbols follow a header, how many nibbles and bytes they   *)
(* yield, and which bytes the CRC check compares.                          *)
(***************************************************************************)
EXTENDS Integers

MAX_PAYLOAD_BYTES   == 256
MAX_PAYLOAD_SYMBOLS == 1024

SpreadingFactors == 7..12
CodingRates      == 5..8
Lengths          == 1..255      \* payload_len of a header that passes

Least(a, b) == IF a < b THEN a ELSE b
AtLeast0(a) == IF a < 0 THEN 0 ELSE a

\* sf_app of the header block, and of the payload blocks.
HeaderBits(sf)        == sf - 2
PayloadBits(sf, ldro) == IF ldro THEN sf - 2 ELSE sf

\* Payload nibbles at the end of the header block.
Leftover(sf) == HeaderBits(sf) - 5

\* Fault: the last, partly filled block is not counted.
BlocksFloor(sf, ldro, len, crc) ==
    AtLeast0(2 * len - sf + 7 + (IF crc THEN 4 ELSE 0))
        \div PayloadBits(sf, ldro)

\* Nibbles that remain after the header block, and the interleaver blocks
\* that carry them.
Numer(sf, len, crc) == AtLeast0(2 * len - sf + 7 + (IF crc THEN 4 ELSE 0))
Blocks(sf, ldro, len, crc) ==
    (Numer(sf, len, crc) + PayloadBits(sf, ldro) - 1) \div PayloadBits(sf, ldro)

\* payload_sym_target.
SymTarget(sf, ldro, len, crc, cr) ==
    Least(Blocks(sf, ldro, len, crc) * cr, MAX_PAYLOAD_SYMBOLS)

\* Bytes assembled from n payload symbols and cut to payload and CRC.
Assembled(sf, ldro, n, cr) ==
    Least((Leftover(sf) + (n \div cr) * PayloadBits(sf, ldro)) \div 2,
          MAX_PAYLOAD_BYTES)
Total(len, crc) == len + (IF crc THEN 2 ELSE 0)
ByteCount(sf, ldro, n, len, crc, cr) ==
    Least(Assembled(sf, ldro, n, cr), Total(len, crc))

\* The CRC is checked when at least four bytes were assembled; the two
\* bytes compared are the last two.
CrcChecked(count, crc) == crc /\ count >= 4
=============================================================================
