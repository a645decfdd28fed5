------------------------------- MODULE MCDedup -------------------------------
(* One transmission with a leaked copy, a corrupted copy on the next slot  *)
(* and a phantom on a far one, a second transmission of the same class on  *)
(* the phantom's slot, and a payload below the minimum.                    *)
EXTENDS Dedup

Replica(c, f, crc, snr, slot, len) ==
    [cls |-> c, fp |-> f, crc |-> crc, snr |-> snr, slot |-> slot, len |-> len]

Leaked    == Replica("a", {1}, "ok", 2, 4, 20)
Corrupted == Replica("a", {1, 2}, "bad", 3, 5, 20)
Phantom   == Replica("a", {1, 2, 3, 4, 5}, "bad", 1, 9, 20)
Other     == Replica("a", {3, 4, 5}, "ok", 1, 9, 20)
Short     == Replica("b", {}, "ok", 1, 1, 13)

MCReplicas == {Leaked, Corrupted, Phantom, Other, Short}
=============================================================================
