------------------------------ MODULE MCFusion ------------------------------
(* Three stations, two anchor packets and a target packet with its relay.  *)
EXTENDS FusionEvidence

MCEmissions ==
    << [from |-> "anchor", pid |-> 1, at |-> 10, due |-> 0, snr |-> 1],
       [from |-> "anchor", pid |-> 2, at |-> 20, due |-> 1, snr |-> 1],
       [from |-> "node",   pid |-> 1, at |-> 30, due |-> 2, snr |-> 1],
       [from |-> "node",   pid |-> 1, at |-> 34, due |-> 2, snr |-> 2] >>
MCSkew == [s \in Stations |-> CASE s = 1 -> 103 [] s = 2 -> 100 [] OTHER -> 101]
MCFeeds == {<<1, 1>>, <<2, 1>>, <<3, 1>>}
MCNoLock == {<<3, 4>>}
MCNear == {<<1, 1>>}
=============================================================================
