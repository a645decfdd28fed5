------------------------------- MODULE MCLink -------------------------------
(* A small fusion server: two sensors, one of them with an HTTP endpoint. *)
EXTENDS CommandLink

CONSTANTS s1, s2, e1, e2

MCApi == {s1}
MCRefused == {2}
MCFiles == {[n \in Names |-> IF n = s1 THEN e1 ELSE NoEp]}
MCOffered == {<<s1, e1>>, <<s1, e2>>, <<s2, e1>>}
=============================================================================
