------------------------- MODULE ContractComparison -------------------------
(***************************************************************************)
(* The comparison of two contracts in ContractUtil.java.                   *)
(*                                                                         *)
(* Both are printed, all structure is removed from the print (cleanUp),    *)
(* and the lines that only one of them has are looked at: a difference in  *)
(* a line with a value of the ids code lists, or with a literal other than *)
(* a date, makes the contracts different.  A contract is the set of its    *)
(* lines: neither their order nor repetitions matter to removeAll.         *)
(***************************************************************************)
CONSTANTS
  Lines,      \* the lines of printed contracts, structure removed
  Idsc,       \* those with "idsc:"
  Values,     \* those with "@value"
  Dates,      \* those that look like a date and time
  Durations   \* those that look like a duration, or name its unit

ASSUME LinesAssumption ==
  /\ Idsc \subseteq Lines
  /\ Values \subseteq Lines
  /\ Dates \subseteq Lines
  /\ Durations \subseteq Lines

(* What the request has and the offer has not is not looked at.            *)
OneSidedDifferences(offer, request) == offer \ request

getTextBasedDifferences(offer, request) ==
  (offer \ request) \cup (request \ offer)

compareWithIndex(offer, request) ==
  \A line \in getTextBasedDifferences(offer, request) :
    /\ line \notin Idsc
    /\ line \in Values => line \in Dates

(* The comparison of the negotiation that no handler uses: durations may   *)
(* differ as well.                                                         *)
compareWithIndexNeg(offer, request) ==
  \A line \in getTextBasedDifferences(offer, request) :
    /\ line \notin Idsc
    /\ line \in Values => line \in Dates \cup Durations

(* The lines that make a difference.                                       *)
Terms(contract) == contract \cap (Idsc \cup (Values \ Dates))
=============================================================================
