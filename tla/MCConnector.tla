---------------------------- MODULE MCConnector ----------------------------
(* One artifact file, few requests, and restarts.  Two texts of the        *)
(* contract differ in a date and in one more action that is permitted.     *)
EXTENDS Connector, TLC

CONSTANTS
  demoXml, demo, v1, v2, s1, s2, w1, w2, p1, p2, r1,
  toUse, toRead, today, tomorrow   \* lines of contracts

MCBaseOf == [f \in Files |-> demo]
MCCuts == [b \in Bases |-> {}]
MCContract == {[kind |-> "contract", base |-> demo]}

MCLines == {toUse, toRead, today, tomorrow}
MCLinesOf ==
  [v \in Versions |->
     IF v = v1 THEN {toUse, today} ELSE {toUse, toRead, tomorrow}]

SameStamps == Permutations(Stamps)
SameUsers == Permutations(Workers) \cup Permutations(Parties)
(* A watcher that has stopped is like one that is never scheduled again.   *)
Watching == phase # "stopped"
=============================================================================
