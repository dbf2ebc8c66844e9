---------------------------- MODULE MCDataHealth ----------------------------
(* Instances of DataHealth for TLC. *)
EXTENDS DataHealth

CONSTANTS t1, t2

Pair == {t1, t2}
Single == {t1}
FirstThenSecond == [t \in Torrents |-> IF t = t1 THEN 1 ELSE 2]
OneBatch == [t \in Torrents |-> 0]
TwoBatches == [t \in Torrents |-> 1]
FirstHasTwo == [t \in Torrents |-> IF t = t1 THEN 1 ELSE 0]
FirstBatches == [t \in Torrents |-> {0}]
FirstOfFirst == [t \in Torrents |-> IF t = t1 THEN {0} ELSE {}]
Together(t) == Torrents
Apart(t) == {t}
=============================================================================
