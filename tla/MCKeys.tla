------------------------------- MODULE MCKeys -------------------------------
(* A packet and its repetition, two channel hashes, a word list of two keys, *)
(* a browser and a client that posts keys.                                   *)
EXTENDS KeySearch

CONSTANTS f1, f2, f3, c1, c2, ka, kb, kc

Full(h, id, crc, at) ==
  [size |-> "full", hash |-> h, id |-> id, crc |-> crc, node |-> 1, pos |-> at]

\* f1 and f2 are one packet and its repetition, from inside the fence, on the
\* channel that is searched; f3, not received here, is of the other channel.
MCInfo == [f \in Frames |-> IF f = f3 THEN Full(2, 3, TRUE, <<1, 1>>) ELSE Full(1, 1, TRUE, <<1, 1>>)]
MCAir == <<f1, f2>>
MCOpens == {<<kb, f1>>, <<kb, f2>>, <<ka, f3>>}
Vertex(a, b) == [kind |-> "vertex", at |-> <<a, b>>]
MCHookOn == <<>>
MCFence == <<Vertex(9, 9), [kind |-> "name"], Vertex(0, 0), Vertex(0, 3), Vertex(3, 3), Vertex(3, 0)>>
Key(h, k, len) ==
  [form |-> "key", named |-> TRUE, padded |-> FALSE, len |-> len, entry |-> [hash |-> h, key |-> k]]
MCPresets == <<[hash |-> 1, key |-> ka], [hash |-> 2, key |-> ka]>>
MCStart == <<[Key(1, ka, 16) EXCEPT !.form = "default", !.named = FALSE]>>
MCLines == <<Key(1, ka, 16), [Key(1, kc, 16) EXCEPT !.padded = TRUE], Key(1, kb, 1)>>
MCAsk == [c \in Conns |->
  IF c = c1 THEN {[kind |-> "events", auth |-> TRUE], [kind |-> "keys", auth |-> FALSE, body |-> <<>>]}
  ELSE {[kind |-> "keys", auth |-> TRUE,
         body |-> <<Key(1, kb, 8), [Key(1, kc, 32) EXCEPT !.form = "share"]>>]}]
=============================================================================
