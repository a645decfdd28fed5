------------------------------ MODULE MCStore ------------------------------
(* A small instance of EventStore.  Two hashtag channels and a private one   *)
(* share a channel byte; the frames cover a message with a region, sensor    *)
(* data, a renamed node, a second node that only answers probes, and frames  *)
(* whose check failed.                                                       *)
EXTENDS EventStore

MCHashOf(s) == IF s.of \in {"meteo", "Meteo", "k"} THEN 7 ELSE 9
MCLower(b) == IF b \in {"Meteo", "METEO"} THEN "meteo" ELSE b
MCUpper(b) == IF b \in {"Meteo", "meteo"} THEN "METEO" ELSE b
MCTitle(b) == IF b \in {"METEO", "meteo"} THEN "Meteo" ELSE b
MCPublicSecret == [from |-> "key", of |-> "p"]
Key(k) == [from |-> "key", of |-> k]

Frame == [type |-> "grp_txt", hash |-> 7, secret |-> TagSecret("meteo"), mac |-> TRUE,
          sound |-> TRUE, lpp |-> FALSE, sub |-> "none", who |-> 0, label |-> "",
          scope |-> "none", path |-> FALSE, crc |-> "ok", bits |-> 0,
          repairs |-> {}]

MCAir == <<
  [Frame EXCEPT !.scope = "eu", !.path = TRUE, !.secret = Key("k")],
  [Frame EXCEPT !.type = "advert", !.who = 1, !.label = "a", !.bits = 1],
  [Frame EXCEPT !.type = "grp_data", !.lpp = TRUE, !.crc = "none"],
  [Frame EXCEPT !.type = "control", !.sub = "resp", !.who = 2, !.mac = FALSE, !.crc = "fail",
     !.repairs = {[bits |-> 1, mac |-> TRUE], [bits |-> 2, mac |-> FALSE]}],
  [Frame EXCEPT !.type = "advert", !.who = 1, !.label = "b"] >>

MCConfig == <<[form |-> "tag", name |-> Name(FALSE, "test")]>>
MCForms == {[form |-> "tag", name |-> Name(TRUE, "meteo")],
            [form |-> "spec", name |-> Name(TRUE, "meteo"), secret |-> Key("k"), valid |-> TRUE]}
MCWordLines == <<[kind |-> "comment", name |-> NoName], [kind |-> "word", name |-> Name(FALSE, "Meteo")]>>
MCBuiltin == <<Name(FALSE, "fr")>>
=============================================================================
