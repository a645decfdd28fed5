---------------------------- MODULE MCLoraCoding ----------------------------
(* Blocks in which every nibble occurs, and payloads of two to five bytes. *)
EXTENDS LoraCoding

MCPatterns == {<<0, 0>>, <<0, 3>>, <<15, 13>>, <<6, 3>>, <<9, 7>>,
                <<1, 3>>, <<8, 3>>}
MCPayloads == {<<0, 0>>, <<165, 60, 255>>, <<1, 2, 3, 4, 254>>}
=============================================================================
