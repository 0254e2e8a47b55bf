---------------------- MODULE MCArtifactChangeManager ----------------------
(* Small directories for ArtifactChangeManager.                            *)
EXTENDS ArtifactChangeManager, TLC

CONSTANTS
  demoXml, demoPlain, demoApi, demoDescTtl,   \* artifact files
  demo, demoDesc,                             \* bases
  v1, v2,                                     \* texts
  s1, s2                                      \* stamps

MCBaseOf == [f \in Files |-> IF f = demoDescTtl THEN demoDesc ELSE demo]
MCCuts == [b \in Bases |-> IF b = demoDesc THEN {demo} ELSE {}]

contractFile == [kind |-> "contract", base |-> demo]
descFile == [kind |-> "desc", base |-> demo]
negotiationFile == [kind |-> "negotiation", base |-> demo]

MCContract == {contractFile}
MCDesc == {descFile}
MCNegotiation == {negotiationFile}
MCAll == MCContract \cup MCDesc \cup MCNegotiation

(* Metadata files of several kinds, but one at a time.                     *)
OneMetaFile ==
  \A m, n \in MetaFiles : m = n \/ disk[m] = Absent \/ disk[n] = Absent

Symmetry == Permutations(Stamps) \cup Permutations(Versions)
=============================================================================
