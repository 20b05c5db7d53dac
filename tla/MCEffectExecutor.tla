--------------------------- MODULE MCEffectExecutor ---------------------------
(***************************************************************************)
(* Overlapping rules: "deploy" admits the two intents that share an        *)
(* idempotency key, "all" admits every intent, "check" has no limit.  One  *)
(* intent needs an approval.  Servers race for the last use of "all" and   *)
(* for the approval, callers for the keys, with one capability or two.     *)
(***************************************************************************)
EXTENDS EffectExecutor, TLC

CONSTANTS c1, c2, c3, s1, s2, w1, w2

MCRule     == {"deploy", "check", "all"}
MCCounter  == [r \in MCRule |-> r]
MCLimit    == [r \in {"deploy", "all"} |-> 2]
MCIntent   == {"publish", "republish", "test"}
MCMatching == [i \in MCIntent |-> IF i = "test" THEN {"check", "all"} ELSE {"deploy", "all"}]
MCApproves == [a \in {"signed"} |-> "publish"]
MCKeyOf    == [i \in MCIntent |-> IF i = "test" THEN "k2" ELSE "k1"]

Symmetry == Permutations({c1, c2, c3}) \cup Permutations({s1, s2}) \cup Permutations({w1, w2})
=============================================================================
