-------------------------- MODULE MCSelfDescription --------------------------
(* Artifacts of which one name is mistaken for the other's, and few        *)
(* description requests.                                                   *)
EXTENDS SelfDescription

CONSTANTS
  demoXml, demoPlain, demoApi, demoDescTtl,   \* artifact files
  demo, demoDesc,                             \* bases
  v1, v2, s1, s2, r1

MCBaseOf == [f \in Files |-> IF f = demoDescTtl THEN demoDesc ELSE demo]
MCCuts == [b \in Bases |-> IF b = demoDesc THEN {demo} ELSE {}]

OfDemo(kind) == [kind |-> kind, base |-> demo]

MCContract == {OfDemo("contract")}
MCDesc == {OfDemo("desc")}
MCNegotiation == {OfDemo("negotiation")}
MCBoth == MCContract \cup MCDesc

(* No directories, no text that does not parse, and no more than two       *)
(* artifact files at a time.                                               *)
FewFiles ==
  /\ \A n \in Names : disk[n] \notin {Directory, Broken}
  /\ Cardinality({f \in Files : disk[f] # Absent}) <= 2
=============================================================================
