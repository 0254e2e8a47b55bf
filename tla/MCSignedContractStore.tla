----------------------- MODULE MCSignedContractStore -----------------------
(* A store with few artifacts, parties, agreements and threads.            *)
EXTENDS SignedContractStore, TLC

CONSTANTS t1, t2, p1, p2, a1, a2, w1, w2

Symmetry ==
  Permutations(Targets) \cup Permutations(Parties)
    \cup Permutations(Agreements) \cup Permutations(Writers)
=============================================================================
