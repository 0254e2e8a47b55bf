----------------------- MODULE ContractComparison_proofs -----------------------
(***************************************************************************)
(* What the comparison of contracts in ContractUtil decides, for any lines *)
(* a printed contract may consist of.                                      *)
(***************************************************************************)
EXTENDS ContractComparison, TLAPS

(* The lines that only one of two contracts has are all tolerated exactly  *)
(* if both have the same terms: the comparison, made line by line on       *)
(* differences, is an equivalence of contracts.                            *)
THEOREM ComparesTerms ==
  ASSUME NEW offer \in SUBSET Lines, NEW request \in SUBSET Lines
  PROVE  compareWithIndex(offer, request) <=> Terms(offer) = Terms(request)
<1>1. \A line : line \in getTextBasedDifferences(offer, request) <=>
                  ~(line \in offer <=> line \in request)
  BY DEF getTextBasedDifferences
<1>2. compareWithIndex(offer, request) <=>
        \A line \in Idsc \cup (Values \ Dates) :
          line \in offer <=> line \in request
  BY <1>1, LinesAssumption DEF compareWithIndex
<1>3. Terms(offer) = Terms(request) <=>
        \A line \in Idsc \cup (Values \ Dates) :
          line \in offer <=> line \in request
  BY DEF Terms
<1> QED BY <1>2, <1>3

(* The comparison of negotiations is that of requests, but for durations   *)
(* that are no value of a code list.                                       *)
THEOREM NegotiationComparesTerms ==
  ASSUME NEW offer \in SUBSET Lines, NEW request \in SUBSET Lines
  PROVE  compareWithIndexNeg(offer, request) <=>
           Terms(offer) \ (Durations \ Idsc) = Terms(request) \ (Durations \ Idsc)
<1>1. \A line : line \in getTextBasedDifferences(offer, request) <=>
                  ~(line \in offer <=> line \in request)
  BY DEF getTextBasedDifferences
<1>2. compareWithIndexNeg(offer, request) <=>
        \A line \in Idsc \cup (Values \ (Dates \cup Durations)) :
          line \in offer <=> line \in request
  BY <1>1, LinesAssumption DEF compareWithIndexNeg
<1>3. Terms(offer) \ (Durations \ Idsc) = Terms(request) \ (Durations \ Idsc) <=>
        \A line \in Idsc \cup (Values \ (Dates \cup Durations)) :
          line \in offer <=> line \in request
  BY DEF Terms
<1> QED BY <1>2, <1>3

=============================================================================
