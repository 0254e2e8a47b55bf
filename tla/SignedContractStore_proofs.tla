--------------------- MODULE SignedContractStore_proofs ---------------------
(***************************************************************************)
(* Theorems about SignedContractStore, for every set of artifacts,         *)
(* parties, agreements and threads: its types, that settled agreements     *)
(* stay and are saved, and that with one thread and a disk that works it   *)
(* is an AgreementRegister.                                                *)
(***************************************************************************)
EXTENDS SignedContractStore, TLAPS

-----------------------------------------------------------------------------
(* Types.                                                                  *)

LEMMA StoreTypeInit == StoreInit => StoreTypeOK
<1> SUFFICES ASSUME StoreInit PROVE StoreTypeOK
  OBVIOUS
<1>1. signedContractIndex \in Memory
  BY DEF StoreInit, Memory, Empty
<1>2. settled \in [Targets -> [Parties -> BOOLEAN]]
  BY DEF StoreInit
<1> QED
  BY <1>1, <1>2 DEF StoreInit, StoreTypeOK

LEMMA LoadedType ==
  ASSUME file \in Memory \cup {Missing, Torn}
  PROVE  Loaded(file) \in Memory
BY DEF Loaded, Memory, Empty

(* What a step that only moves thread w keeps.                             *)
LEMMA StepType ==
  ASSUME NEW w \in Writers, NEW from, StoreTypeOK,
         NEW to \in {"check", "fresh", "put", "open", "write", "close",
                     "done", "failed"},
         from # "idle", Step(w, from, to), UNCHANGED adding
  PROVE  /\ at' \in [Writers -> {"idle", "check", "fresh", "put", "open",
                                 "write", "close", "done", "failed"}]
         /\ adding' \in [Writers -> Arguments \cup {None}]
         /\ \A v \in Writers : adding'[v] = None <=> at'[v] = "idle"
         /\ adding[w] \in Arguments
BY DEF StoreTypeOK, Step

LEMMA StoreTypeStep == StoreTypeOK /\ [StoreNext]_storeVars => StoreTypeOK'
<1> SUFFICES ASSUME StoreTypeOK, [StoreNext]_storeVars PROVE StoreTypeOK'
  OBVIOUS
<1>1. ASSUME NEW w \in Writers, NEW t \in Targets, NEW p \in Parties,
             NEW a \in Agreements, addSignedContract(w, t, p, a)
      PROVE  StoreTypeOK'
  <2>1. getSignedContract(t, p) \in Agreements \cup {None}
    BY DEF StoreTypeOK, getSignedContract, hasSignedContract, Memory, Bucket
  <2> DEFINE arguments == [target |-> t, party |-> p, agreement |-> a,
                           old |-> getSignedContract(t, p)]
  <2>2. arguments \in Arguments
    BY <2>1 DEF Arguments
  <2>3. arguments # None
    BY <2>2, StoreAssumption
  <2>4. /\ at' = [at EXCEPT ![w] = "check"]
        /\ adding' = [adding EXCEPT ![w] = arguments]
    BY <1>1 DEF addSignedContract, Step
  <2> HIDE DEF arguments
  <2>5. /\ at' \in [Writers -> {"idle", "check", "fresh", "put", "open",
                                "write", "close", "done", "failed"}]
        /\ adding' \in [Writers -> Arguments \cup {None}]
        /\ \A v \in Writers : adding'[v] = None <=> at'[v] = "idle"
    BY <2>2, <2>3, <2>4 DEF StoreTypeOK
  <2>6. settled' \in [Targets -> [Parties -> BOOLEAN]]
    <3>1. [q \in Parties |->
             settled[t][q] \/ (Busy(t) = {} /\ hasSignedContract(t, q))]
            \in [Parties -> BOOLEAN]
      BY Zenon DEF StoreTypeOK
    <3> QED
      BY <1>1, <3>1 DEF addSignedContract, StoreTypeOK
  <2> QED
    BY <1>1, <2>5, <2>6 DEF addSignedContract, StoreTypeOK, saveVars
<1>2. ASSUME NEW w \in Writers, Add(w) PROVE StoreTypeOK'
  <2>1. CASE Check(w)
    <3>1. at[w] = "check" /\ (Step(w, "check", "fresh") \/ Step(w, "check", "put"))
      BY <2>1 DEF Check, Step
    <3> QED
      BY <2>1, <3>1, StepType DEF Check, StoreTypeOK, saveVars
  <2>2. CASE Fresh(w)
    <3>1. adding[w] \in Arguments
      BY <2>2, StepType DEF Fresh
    <3>2. signedContractIndex' \in Memory
      BY <2>2, <3>1 DEF Fresh, StoreTypeOK, Memory, Bucket, EmptyBucket,
                        Arguments
    <3> QED
      BY <2>2, <3>2, StepType DEF Fresh, StoreTypeOK, saveVars
  <2>3. CASE Put(w)
    <3>1. adding[w] \in Arguments
      BY <2>3, StepType DEF Put
    <3>2. signedContractIndex' \in Memory
      <4> DEFINE t == adding[w].target
                 p == adding[w].party
                 a == adding[w].agreement
      <4>1. t \in Targets /\ p \in Parties /\ a \in Agreements
        BY <3>1 DEF Arguments
      <4>2. signedContractIndex[t] \in Bucket
        BY <2>3, <4>1 DEF Put, StoreTypeOK, Memory
      <4>3. [signedContractIndex[t] EXCEPT ![p] = a] \in Bucket
        BY <4>1, <4>2 DEF Bucket
      <4>4. \/ signedContractIndex' =
                 [signedContractIndex EXCEPT ![t] =
                    [signedContractIndex[t] EXCEPT ![p] = a]]
            \/ UNCHANGED signedContractIndex
        BY <2>3 DEF Put
      <4> HIDE DEF t, p, a
      <4> QED
        BY <4>1, <4>3, <4>4 DEF StoreTypeOK, Memory
    <3> QED
      BY <2>3, <3>2, StepType DEF Put, StoreTypeOK, saveVars
  <2>4. CASE PutThrows(w)
    BY <2>4, StepType DEF PutThrows, StoreTypeOK, saveVars
  <2>5. CASE Open(w)
    BY <2>5, StepType, StoreAssumption DEF Open, StoreTypeOK, Saving
  <2>6. CASE OpenFails(w)
    BY <2>6, StepType DEF OpenFails, StoreTypeOK
  <2>7. CASE Write(w)
    BY <2>7, StepType DEF Write, StoreTypeOK
  <2>9. CASE Close(w)
    BY <2>9, StepType DEF Close, StoreTypeOK
  <2>8. CASE Leave(w)
    BY <2>8 DEF Leave, StoreTypeOK, saveVars
  <2> QED
    BY <1>2, <2>1, <2>2, <2>3, <2>4, <2>5, <2>6, <2>7, <2>8, <2>9 DEF Add
<1>3. CASE Restart
  BY <1>3, LoadedType, StoreAssumption DEF Restart, StoreTypeOK
<1>4. CASE UNCHANGED storeVars
  BY <1>4 DEF storeVars, saveVars, StoreTypeOK
<1> QED
  BY <1>1, <1>2, <1>3, <1>4 DEF StoreNext

(* The store keeps to its types, whatever its threads do to each other and *)
(* whenever the process ends.                                              *)
THEOREM StoreTypes == StoreSpec => []StoreTypeOK
BY StoreTypeInit, StoreTypeStep, PTL DEF StoreSpec

-----------------------------------------------------------------------------
(* Settled agreements.                                                     *)

LEMMA SettledInit == StoreInit => SettledInv
BY DEF StoreInit, SettledInv, SettledAgreementsStay

(* A step that takes no thread to "fresh", takes no agreement away and     *)
(* settles nothing keeps the invariant.                                    *)
LEMMA SettledKept ==
  ASSUME SettledInv, UNCHANGED <<adding, settled>>,
         \A v \in Writers : at'[v] = "fresh" => at[v] = "fresh",
         \A t \in Targets, p \in Parties :
           hasSignedContract(t, p) => hasSignedContract(t, p)'
  PROVE  SettledInv'
BY DEF SettledInv, SettledAgreementsStay, Busy

LEMMA SettledStep ==
  StoreTypeOK /\ SettledInv /\ [StoreNext]_storeVars => SettledInv'
<1> SUFFICES ASSUME StoreTypeOK, SettledInv, [StoreNext]_storeVars
             PROVE  SettledInv'
  OBVIOUS
<1>1. ASSUME NEW w \in Writers, NEW t \in Targets, NEW p \in Parties,
             NEW a \in Agreements, addSignedContract(w, t, p, a)
      PROVE  SettledInv'
  <2>1. \A s \in Targets, q \in Parties :
          settled'[s][q] => /\ hasSignedContract(s, q)
                            /\ \A v \in Busy(s) : at[v] # "fresh"
    <3> TAKE s \in Targets, q \in Parties
    <3>1. CASE s = t
      <4>1. settled'[s] = [r \in Parties |->
               settled[t][r] \/ (Busy(t) = {} /\ hasSignedContract(t, r))]
        BY <1>1, <3>1 DEF addSignedContract, StoreTypeOK
      <4>2. settled'[s][q] =>
              settled[t][q] \/ (Busy(t) = {} /\ hasSignedContract(t, q))
        BY <4>1, Zenon
      <4> QED
        BY <3>1, <4>2 DEF SettledInv, SettledAgreementsStay
    <3>2. CASE s # t
      <4>1. settled'[s] = settled[s]
        BY <1>1, <3>2 DEF addSignedContract, StoreTypeOK
      <4> QED
        BY <4>1 DEF SettledInv, SettledAgreementsStay
    <3> QED
      BY <3>1, <3>2
  <2>2. at' = [at EXCEPT ![w] = "check"] /\ UNCHANGED signedContractIndex
    BY <1>1 DEF addSignedContract, Step
  <2>3. \A s \in Targets : \A v \in Busy(s)' : v = w \/ v \in Busy(s)
    BY <1>1 DEF addSignedContract, Busy, StoreTypeOK
  <2>4. \A s \in Targets, q \in Parties :
          hasSignedContract(s, q)' <=> hasSignedContract(s, q)
    BY <2>2 DEF hasSignedContract
  <2>5. \A s \in Targets : \A v \in Busy(s)' :
          at'[v] = "fresh" => v \in Busy(s) /\ at[v] = "fresh"
    BY <2>2, <2>3 DEF StoreTypeOK, Busy
  <2> QED
    BY <2>1, <2>4, <2>5 DEF SettledInv, SettledAgreementsStay
<1>2. ASSUME NEW w \in Writers, Add(w) PROVE SettledInv'
  <2>1. CASE Check(w)
    <3>1. CASE Step(w, "check", "put")
      BY <2>1, <3>1, SettledKept DEF Check, Step, StoreTypeOK, hasSignedContract
    <3>2. CASE /\ Step(w, "check", "fresh")
               /\ signedContractIndex[adding[w].target] = None
      <4>1. \A s \in Targets, q \in Parties :
              w \in Busy(s) => ~settled[s][q]
        BY <3>2 DEF SettledInv, SettledAgreementsStay, hasSignedContract, Busy
      <4>2. \A v \in Writers : at'[v] = "fresh" => v = w \/ at[v] = "fresh"
        BY <3>2 DEF Step, StoreTypeOK
      <4> QED
        BY <2>1, <4>1, <4>2
        DEF Check, SettledInv, SettledAgreementsStay, hasSignedContract, Busy
    <3> QED
      BY <2>1, <3>1, <3>2 DEF Check
  <2>2. CASE Fresh(w)
    <3>1. adding[w] \in Arguments /\ at[w] = "fresh"
      BY <2>2, StepType DEF Fresh, Step
    <3> DEFINE t == adding[w].target
    <3>2. t \in Targets /\ w \in Busy(t)
      BY <3>1, StoreAssumption DEF Arguments, Busy
    <3>3. \A q \in Parties : ~settled[t][q]
      BY <3>1, <3>2 DEF SettledInv
    <3>4. \A s \in Targets \ {t} : signedContractIndex'[s] = signedContractIndex[s]
      BY <2>2, <3>2 DEF Fresh, StoreTypeOK, Memory
    <3>5. \A v \in Writers : at'[v] = "fresh" => at[v] = "fresh"
      BY <2>2 DEF Fresh, Step, StoreTypeOK
    <3> HIDE DEF t
    <3>6. \A s \in Targets, q \in Parties :
            settled'[s][q] => /\ s # t
                              /\ hasSignedContract(s, q)
                              /\ \A v \in Busy(s)' : at'[v] # "fresh"
      BY <2>2, <3>3, <3>5 DEF Fresh, SettledInv, SettledAgreementsStay, Busy
    <3> QED
      BY <3>4, <3>6 DEF SettledInv, SettledAgreementsStay, hasSignedContract
  <2>3. CASE Put(w)
    <3>1. adding[w] \in Arguments
      BY <2>3, StepType DEF Put
    <3>2. \A v \in Writers : at'[v] = "fresh" => at[v] = "fresh"
      BY <2>3 DEF Put, Step, StoreTypeOK
    <3>3. ASSUME NEW s \in Targets, NEW q \in Parties, hasSignedContract(s, q)
          PROVE  hasSignedContract(s, q)'
      <4> DEFINE t == adding[w].target
                 p == adding[w].party
                 a == adding[w].agreement
      <4>1. t \in Targets /\ p \in Parties /\ a \in Agreements
        BY <3>1 DEF Arguments
      <4>2. signedContractIndex[t] \in Bucket
        BY <2>3, <4>1 DEF Put, StoreTypeOK, Memory
      <4>3. \/ signedContractIndex' =
                 [signedContractIndex EXCEPT ![t] =
                    [signedContractIndex[t] EXCEPT ![p] = a]]
            \/ UNCHANGED signedContractIndex
        BY <2>3 DEF Put
      <4>4. [signedContractIndex[t] EXCEPT ![p] = a] # None
        BY <4>1, <4>2, StoreAssumption DEF Bucket
      <4>5. a # None
        BY <4>1, StoreAssumption
      <4> HIDE DEF t, p, a
      <4> QED
        BY <3>3, <4>1, <4>2, <4>3, <4>4, <4>5
        DEF hasSignedContract, StoreTypeOK, Memory, Bucket
    <3> QED
      BY <2>3, <3>2, <3>3, SettledKept DEF Put
  <2>4. CASE PutThrows(w) \/ Open(w) \/ OpenFails(w) \/ Write(w) \/ Close(w)
    <3>1. /\ UNCHANGED <<signedContractIndex, adding, settled>>
          /\ \/ Step(w, "put", "failed")
             \/ Step(w, "open", "write")
             \/ Step(w, "open", "done")
             \/ Step(w, "write", "close")
             \/ Step(w, "close", "done")
      BY <2>4 DEF PutThrows, Open, OpenFails, Write, Close
    <3>2. \A v \in Writers : at'[v] = "fresh" => at[v] = "fresh"
      BY <3>1 DEF Step, StoreTypeOK
    <3> QED
      BY <3>1, <3>2, SettledKept DEF hasSignedContract
  <2>5. CASE Leave(w)
    <3>1. /\ \A v \in Writers : at'[v] = "fresh" => at[v] = "fresh"
          /\ \A s \in Targets : Busy(s)' \subseteq Busy(s)
      BY <2>5 DEF Leave, StoreTypeOK, Busy
    <3> QED
      BY <2>5, <3>1 DEF Leave, SettledInv, SettledAgreementsStay,
                        hasSignedContract, Busy
  <2> QED
    BY <1>2, <2>1, <2>2, <2>3, <2>4, <2>5 DEF Add
<1>3. CASE Restart
  BY <1>3 DEF Restart, SettledInv, SettledAgreementsStay
<1>4. CASE UNCHANGED storeVars
  BY <1>4 DEF storeVars, SettledInv, SettledAgreementsStay,
              hasSignedContract, Busy
<1> QED
  BY <1>1, <1>2, <1>3, <1>4 DEF StoreNext

(* A settled agreement stays until the process ends, for any number of     *)
(* threads that add agreements without a lock, and even if the disk fails. *)
THEOREM SettledStays == StoreSpec => []SettledAgreementsStay
<1>1. StoreSpec => []SettledInv
  BY SettledInit, SettledStep, StoreTypes, PTL DEF StoreSpec
<1>2. SettledInv => SettledAgreementsStay
  BY DEF SettledInv
<1> QED
  BY <1>1, <1>2, PTL

-----------------------------------------------------------------------------
(* What is settled is saved.                                               *)

LEMMA SavedInit == StoreInit => SavedInv
BY DEF StoreInit, SavedInv, CoversHeld, hasSignedContract, Empty, Saving

(* A step outside save() settles only what was held while nobody was       *)
(* adding, and what it enters is about to be saved.                        *)
LEMMA SavedKept ==
  ASSUME SavedInv, UNCHANGED <<file, saveVars>>,
         \A v \in Writers : at'[v] = "write" <=> at[v] = "write",
         \A v \in Writers : at'[v] = "close" <=> at[v] = "close",
         \A t \in Targets, p \in Parties :
           settled'[t][p] =>
             settled[t][p] \/ (Busy(t) = {} /\ hasSignedContract(t, p)),
         \A t \in Targets, p \in Parties :
           hasSignedContract(t, p)' =>
             \/ hasSignedContract(t, p)
             \/ \E w \in Busy(t)' : at'[w] = "open",
         \A t \in Targets : \A v \in Busy(t) :
           at[v] = "open" => v \in Busy(t)' /\ at'[v] = "open"
  PROVE  SavedInv'
<1>1. ASSUME NEW memory, CoversHeld(memory)
      PROVE  \A t \in Targets, p \in Parties :
               /\ settled'[t][p] => Covers(memory, t, p)
               /\ hasSignedContract(t, p)' =>
                    \/ Covers(memory, t, p)
                    \/ \E w \in Busy(t)' : at'[w] = "open"
  BY <1>1 DEF CoversHeld
<1>2. ~spoilt' /\ file' # Torn => CoversHeld(Loaded(file))'
  <2>1. ~spoilt /\ file # Torn => CoversHeld(Loaded(file))
    BY DEF SavedInv
  <2>2. UNCHANGED <<Loaded(file), spoilt, file>>
    BY DEF Loaded, saveVars
  <2> QED
    BY <1>1, <2>1, <2>2 DEF CoversHeld, Covers
<1>3. Saving' = Saving
  BY DEF Saving
<1>4. ASSUME NEW w \in Saving, ~overlapped[w], ~spoilt, at[w] = "close",
             writing[w] # Torn
      PROVE  CoversHeld(writing[w])'
  <2>1. CoversHeld(writing[w]) /\ UNCHANGED writing
    BY <1>4 DEF SavedInv, saveVars
  <2> QED
    BY <1>1, <2>1 DEF CoversHeld, Covers
<1> QED
  BY <1>2, <1>3, <1>4 DEF SavedInv, saveVars, Saving

LEMMA SavedStep ==
  /\ StoreTypeOK
  /\ SettledInv
  /\ SavedInv
  /\ [StoreNext]_storeVars
  => SavedInv'
<1> SUFFICES ASSUME StoreTypeOK, SettledInv, SavedInv, [StoreNext]_storeVars
             PROVE  SavedInv'
  OBVIOUS
<1>1. ASSUME NEW w \in Writers, NEW t \in Targets, NEW p \in Parties,
             NEW a \in Agreements, addSignedContract(w, t, p, a)
      PROVE  SavedInv'
  <2>1. \A s \in Targets, q \in Parties :
          settled'[s][q] =>
            settled[s][q] \/ (Busy(s) = {} /\ hasSignedContract(s, q))
    <3> TAKE s \in Targets, q \in Parties
    <3>1. CASE s = t
      <4>1. settled'[s] = [r \in Parties |->
               settled[t][r] \/ (Busy(t) = {} /\ hasSignedContract(t, r))]
        BY <1>1, <3>1 DEF addSignedContract, StoreTypeOK
      <4>2. settled'[s][q] =>
              settled[t][q] \/ (Busy(t) = {} /\ hasSignedContract(t, q))
        BY <4>1, Zenon
      <4> QED
        BY <3>1, <4>2
    <3>2. CASE s # t
      BY <1>1, <3>2 DEF addSignedContract, StoreTypeOK
    <3> QED
      BY <3>1, <3>2
  <2>2. /\ at[w] = "idle" /\ at' = [at EXCEPT ![w] = "check"]
        /\ UNCHANGED <<signedContractIndex, file, saveVars>>
    BY <1>1 DEF addSignedContract, Step
  <2>3. \A v \in Writers : v = w \/ adding'[v] = adding[v]
    BY <1>1 DEF addSignedContract, StoreTypeOK
  <2>4. \A s \in Targets, q \in Parties :
          hasSignedContract(s, q)' <=> hasSignedContract(s, q)
    BY <2>2 DEF hasSignedContract
  <2>5. \A v \in Writers : IF v = w THEN at'[v] = "check" ELSE at'[v] = at[v]
    BY <2>2 DEF StoreTypeOK
  <2>6. \A s \in Targets : \A v \in Busy(s) :
          at[v] = "open" => v \in Busy(s)' /\ at'[v] = "open"
    BY <2>2, <2>3, <2>5 DEF Busy
  <2> QED
    BY <2>1, <2>2, <2>4, <2>5, <2>6, SavedKept
<1>2. ASSUME NEW w \in Writers, Add(w) PROVE SavedInv'
  <2> DEFINE Alike(m) ==
               \A s \in Targets, q \in Parties :
                 /\ settled'[s][q] => Covers(m, s, q)
                 /\ hasSignedContract(s, q)' =>
                      Covers(m, s, q) \/ \E v \in Busy(s)' : at'[v] = "open"
  <2>a. ASSUME NEW to, at' = [at EXCEPT ![w] = to]
        PROVE  \A v \in Writers : at'[v] = IF v = w THEN to ELSE at[v]
    BY <2>a DEF StoreTypeOK
  <2>1. CASE Check(w) \/ PutThrows(w)
    <3>1. /\ UNCHANGED <<signedContractIndex, file, adding, settled, saveVars>>
          /\ \/ Step(w, "check", "fresh")
             \/ Step(w, "check", "put")
             \/ Step(w, "put", "failed")
      BY <2>1 DEF Check, PutThrows
    <3>2. \A v \in Writers :
            \/ at'[v] = at[v]
            \/ at[v] \in {"check", "put"} /\ at'[v] \in {"fresh", "put", "failed"}
      BY <3>1, <2>a DEF Step
    <3>3. UNCHANGED <<signedContractIndex, file, adding, settled, saveVars>>
      BY <3>1
    <3> QED
      BY <3>2, <3>3, SavedKept DEF hasSignedContract, Busy
  <2>2. CASE Fresh(w)
    <3>1. adding[w] \in Arguments
      BY <2>2, StepType DEF Fresh
    <3>2. \A s \in Targets, q \in Parties :
            hasSignedContract(s, q)' => hasSignedContract(s, q)
      BY <2>2, <3>1
      DEF Fresh, hasSignedContract, EmptyBucket, StoreTypeOK, Memory, Arguments
    <3>3. \A v \in Writers : at'[v] = at[v] \/ (at[v] = "fresh" /\ at'[v] = "put")
      BY <2>2, <2>a DEF Fresh, Step
    <3>4. UNCHANGED <<file, adding, settled, saveVars>>
      BY <2>2 DEF Fresh
    <3> QED
      BY <3>2, <3>3, <3>4, SavedKept DEF Busy
  <2>3. CASE Put(w)
    <3>1. adding[w] \in Arguments
      BY <2>3, StepType DEF Put
    <3> DEFINE t == adding[w].target
    <3>2. t \in Targets /\ w \in Busy(t)
      BY <3>1, StoreAssumption DEF Arguments, Busy
    <3>3. \A s \in Targets \ {t} : signedContractIndex'[s] = signedContractIndex[s]
      BY <2>3, <3>2 DEF Put, StoreTypeOK, Memory
    <3>4. at[w] = "put" /\ at' = [at EXCEPT ![w] = "open"]
      BY <2>3 DEF Put, Step
    <3>5. UNCHANGED <<file, adding, settled, saveVars>>
      BY <2>3 DEF Put
    <3>6. \A s \in Targets : Busy(s)' = Busy(s)
      BY <3>5 DEF Busy
    <3>7. \A v \in Writers : at'[v] = IF v = w THEN "open" ELSE at[v]
      BY <3>4, <2>a
    <3> HIDE DEF t
    <3>8. \A s \in Targets, q \in Parties :
            hasSignedContract(s, q)' =>
              \/ hasSignedContract(s, q)
              \/ \E v \in Busy(s)' : at'[v] = "open"
      BY <3>2, <3>3, <3>6, <3>7 DEF hasSignedContract
    <3> QED
      BY <3>4, <3>5, <3>6, <3>7, <3>8, SavedKept DEF Busy
  <2>4. CASE Open(w)
    <3>1. /\ file' = Torn
          /\ at[w] = "open" /\ at' = [at EXCEPT ![w] = "write"]
          /\ \A v \in Writers :
               overlapped'[v] <=> IF v = w THEN Saving # {}
                                  ELSE overlapped[v] \/ v \in Saving
      BY <2>4, Zenon DEF Open, Step
    <3>2. \A v \in Writers : at'[v] = IF v = w THEN "write" ELSE at[v]
      BY <3>1, <2>a
    <3>3. Saving' = Saving \cup {w}
      BY <3>2 DEF Saving
    <3>4. ASSUME NEW v \in Saving', ~overlapped'[v]
          PROVE  Saving' = {v} /\ at'[v] = "write"
      BY <3>1, <3>2, <3>3, <3>4 DEF Saving
    <3> QED
      BY <3>1, <3>4 DEF SavedInv
  <2>b. ASSUME UNCHANGED <<signedContractIndex, adding, settled>>,
               \A v \in Writers : at[v] = "open" => at'[v] = "open",
               NEW memory, CoversHeld(memory)
        PROVE  Alike(memory)
    BY <2>b DEF CoversHeld, hasSignedContract, Busy
  <2>5. CASE OpenFails(w)
    <3>1. /\ spoilt' /\ at[w] = "open" /\ at' = [at EXCEPT ![w] = "done"]
          /\ UNCHANGED <<file, overlapped>>
      BY <2>5 DEF OpenFails, Step
    <3>2. Saving' = Saving
      BY <3>1, <2>a DEF Saving
    <3> QED
      BY <3>1, <3>2 DEF SavedInv
  <2>6. CASE Write(w)
    <3>1. /\ at[w] = "write" /\ at' = [at EXCEPT ![w] = "close"]
          /\ UNCHANGED <<signedContractIndex, file, adding, settled, overlapped>>
          /\ overlapped[w] => spoilt' = spoilt
          /\ writing'[w] \in {signedContractIndex, Torn}
      BY <2>6 DEF Write, Step, StoreTypeOK
    <3>2. \A v \in Writers : at'[v] = IF v = w THEN "close" ELSE at[v]
      BY <3>1, <2>a
    <3>3. Saving' = Saving /\ w \in Saving
      BY <3>1, <3>2 DEF Saving
    <3>4. ~spoilt' /\ file' # Torn => CoversHeld(Loaded(file))'
      <4> SUFFICES ASSUME ~spoilt', file' # Torn
                   PROVE  CoversHeld(Loaded(file))'
        OBVIOUS
      <4>1. CoversHeld(Loaded(file)) /\ UNCHANGED Loaded(file)
        BY <3>1, <3>3 DEF SavedInv, Loaded
      <4>2. \A v \in Writers : at[v] = "open" => at'[v] = "open"
        BY <3>1, <3>2
      <4>3. Alike(Loaded(file))
        BY <3>1, <4>1, <4>2, <2>b
      <4> QED
        BY <4>1, <4>3 DEF CoversHeld, Covers
    <3>5. ASSUME NEW v \in Saving', ~overlapped'[v]
          PROVE  v = w /\ Saving' = {v} /\ file' = Torn
      BY <3>1, <3>3, <3>5 DEF SavedInv
    <3>6. writing'[w] # Torn => CoversHeld(writing[w])'
      BY <3>1 DEF CoversHeld, Covers, SettledInv, SettledAgreementsStay,
                  hasSignedContract
    <3> QED
      BY <3>4, <3>5, <3>6 DEF SavedInv
  <2>7. CASE Close(w)
    <3>1. /\ at[w] = "close" /\ at' = [at EXCEPT ![w] = "done"]
          /\ UNCHANGED <<signedContractIndex, adding, settled>>
          /\ file' = writing[w] \/ (overlapped[w] /\ file' = Torn)
          /\ \A v \in Writers \ {w} : overlapped'[v] = overlapped[v]
          /\ ~spoilt' => ~spoilt /\ ~overlapped[w]
      BY <2>7 DEF Close, Step, StoreTypeOK
    <3>2. \A v \in Writers : at'[v] = IF v = w THEN "done" ELSE at[v]
      BY <3>1, <2>a
    <3>3. Saving' = Saving \ {w} /\ w \in Saving
      BY <3>1, <3>2 DEF Saving
    <3>4. ~spoilt' /\ file' # Torn => CoversHeld(Loaded(file))'
      <4> SUFFICES ASSUME ~spoilt', file' # Torn
                   PROVE  CoversHeld(Loaded(file))'
        OBVIOUS
      <4>1. CoversHeld(writing[w]) /\ file' = writing[w] /\ writing[w] # Torn
        BY <3>1, <3>3 DEF SavedInv
      <4>2. Loaded(file)' = writing[w]
        BY <4>1, StoreAssumption DEF Loaded, StoreTypeOK
      <4>3. \A v \in Writers : at[v] = "open" => at'[v] = "open"
        BY <3>1, <3>2
      <4>4. Alike(writing[w])
        BY <3>1, <4>1, <4>3, <2>b
      <4> QED
        BY <4>2, <4>4 DEF CoversHeld, Covers
    <3>5. ASSUME NEW v \in Saving' PROVE overlapped'[v]
      BY <3>1, <3>3, <3>5 DEF SavedInv, Saving
    <3> QED
      BY <3>4, <3>5 DEF SavedInv
  <2>8. CASE Leave(w)
    <3>1. /\ at[w] \in {"done", "failed"} /\ at' = [at EXCEPT ![w] = "idle"]
          /\ UNCHANGED <<signedContractIndex, file, settled, saveVars>>
      BY <2>8 DEF Leave
    <3>2. \A v \in Writers : v = w \/ adding'[v] = adding[v]
      BY <2>8 DEF Leave, StoreTypeOK
    <3>3. \A v \in Writers : at'[v] = IF v = w THEN "idle" ELSE at[v]
      BY <3>1, <2>a
    <3>4. \A s \in Targets : \A v \in Busy(s) :
            at[v] = "open" => v \in Busy(s)' /\ at'[v] = "open"
      BY <3>1, <3>2, <3>3 DEF Busy
    <3>5. \A s \in Targets, q \in Parties :
            hasSignedContract(s, q)' <=> hasSignedContract(s, q)
      BY <3>1 DEF hasSignedContract
    <3> QED
      BY <3>1, <3>3, <3>4, <3>5, SavedKept
  <2> QED
    BY <1>2, <2>1, <2>2, <2>3, <2>4, <2>5, <2>6, <2>7, <2>8 DEF Add
<1>3. CASE Restart
  <2>1. /\ signedContractIndex' = Loaded(file) /\ UNCHANGED Loaded(file)
        /\ \A v \in Writers : at'[v] = "idle"
        /\ \A s \in Targets, q \in Parties : ~settled'[s][q]
    BY <1>3 DEF Restart, Loaded
  <2>2. Saving' = {}
    BY <2>1 DEF Saving
  <2>3. CoversHeld(Loaded(file))'
    BY <2>1 DEF CoversHeld, Covers, hasSignedContract
  <2> QED
    BY <2>2, <2>3 DEF SavedInv
<1>4. CASE UNCHANGED storeVars
  BY <1>4, SavedKept DEF storeVars, hasSignedContract, Busy
<1> QED
  BY <1>1, <1>2, <1>3, <1>4 DEF StoreNext

LEMMA SavedInvIsSaved == SavedInv => SettledIsSaved
BY DEF SavedInv, CoversHeld, SettledIsSaved

(* What is settled, or held while nobody adds, would be read back after a  *)
(* restart, for any number of threads, unless the file shows damage or a   *)
(* save failed or ran beside another and none has made up for it since.    *)
THEOREM WhatIsSettledIsSaved == StoreSpec => []SettledIsSaved
<1>1. StoreSpec => []SettledInv
  BY SettledInit, SettledStep, StoreTypes, PTL DEF StoreSpec
<1>2. StoreSpec => []SavedInv
  BY <1>1, SavedInit, SavedStep, StoreTypes, PTL DEF StoreSpec
<1> QED
  BY <1>2, SavedInvIsSaved, PTL

-----------------------------------------------------------------------------
(* One thread and a disk that works.                                       *)

(* What a map from artifacts to maps says about agreements.                *)
Flat(memory) ==
  [t \in Targets |-> [p \in Parties |->
     IF memory[t] # None /\ memory[t][p] # None THEN memory[t][p] ELSE None]]

(* How memory and file relate at each step of the one thread u.            *)
Before(u, a) == Held[adding[u].target][adding[u].party] = a

SingleInv(u) ==
  /\ ~overlapped[u]
  /\ at[u] \in {"idle", "check", "fresh", "put"} => Flat(Loaded(file)) = Held
  /\ at[u] \in {"check", "fresh", "put"} => Before(u, adding[u].old)
  /\ at[u] = "fresh" => signedContractIndex[adding[u].target] = None
  /\ at[u] = "put" => signedContractIndex[adding[u].target] # None
  /\ at[u] \in {"open", "write", "close", "done"} => Before(u, adding[u].agreement)
  /\ at[u] = "open" =>
       Flat(Loaded(file)) =
         [Held EXCEPT ![adding[u].target][adding[u].party] = adding[u].old]
  /\ at[u] \in {"write", "close"} => file = Torn
  /\ at[u] = "close" => writing[u] = signedContractIndex
  /\ at[u] = "done" => file = signedContractIndex
  /\ at[u] # "failed"

LEMMA HeldIsFlat == Held = Flat(signedContractIndex)
BY DEF Held, Flat, getSignedContract, hasSignedContract

LEMMA HeldType ==
  ASSUME StoreTypeOK
  PROVE  Held \in [Targets -> [Parties -> Agreements \cup {None}]]
BY DEF Held, StoreTypeOK, Memory, Bucket, getSignedContract, hasSignedContract

LEMMA FlatEmpty == Flat(Empty) = Register!Nothing
BY DEF Flat, Empty, Register!Nothing

(* InProgress with a single thread.                                        *)
LEMMA InProgressOf ==
  ASSUME NEW u, Writers = {u}
  PROVE  InProgress = adding[u]
<1>1. CASE adding[u] = None
  BY <1>1 DEF InProgress
<1>2. CASE adding[u] # None
  <2>1. (CHOOSE w \in Writers : adding[w] # None) = u
    BY <1>2
  <2> QED
    BY <1>2, <2>1 DEF InProgress
<1> QED
  BY <1>1, <1>2

LEMMA SingleInit ==
  ASSUME NEW u \in Writers, StoreInit
  PROVE  SingleInv(u) /\ (Writers = {u} => Register!RegisterInit)
<1>1. Held = Register!Nothing
  BY FlatEmpty, HeldIsFlat DEF StoreInit
<1>2. Loaded(file) = Empty
  BY DEF StoreInit, Loaded
<1>3. at[u] = "idle" /\ adding[u] = None /\ overlapped[u] = FALSE
  BY DEF StoreInit
<1>4. SingleInv(u)
  BY <1>1, <1>2, <1>3, FlatEmpty DEF SingleInv
<1>5. Writers = {u} => InProgress = None
  BY <1>3, InProgressOf
<1> QED
  BY <1>1, <1>4, <1>5 DEF Register!RegisterInit

(* An agreement entered changes what is held, about one artifact and with  *)
(* one party.                                                              *)
LEMMA HeldAfterPut ==
  ASSUME StoreTypeOK, NEW t \in Targets, NEW p \in Parties,
         NEW a \in Agreements, signedContractIndex[t] # None,
         signedContractIndex' = [signedContractIndex EXCEPT ![t][p] = a]
  PROVE  Held' = [Held EXCEPT ![t][p] = a]
<1>1. signedContractIndex[t] \in Bucket /\ a # None
  BY StoreAssumption DEF StoreTypeOK, Memory
<1>2. [signedContractIndex[t] EXCEPT ![p] = a] \in Bucket
  BY <1>1 DEF Bucket
<1>3. [signedContractIndex[t] EXCEPT ![p] = a] # None
  BY <1>2, StoreAssumption
<1>4. signedContractIndex' =
        [signedContractIndex EXCEPT ![t] =
           [signedContractIndex[t] EXCEPT ![p] = a]]
  OBVIOUS
<1>5. \A s \in Targets, q \in Parties :
        Held'[s][q] = IF s = t /\ q = p THEN a ELSE Held[s][q]
  BY <1>1, <1>3, <1>4
  DEF Held, getSignedContract, hasSignedContract, StoreTypeOK, Memory, Bucket
<1>6. Held' = [s \in Targets |-> Held'[s]] /\
      \A s \in Targets : Held'[s] = [q \in Parties |-> Held'[s][q]]
  BY DEF Held
<1>7. Held \in [Targets -> [Parties -> Agreements \cup {None}]]
  BY HeldType
<1>8. [Held EXCEPT ![t][p] = a] =
        [s \in Targets |-> [q \in Parties |->
           IF s = t /\ q = p THEN a ELSE Held[s][q]]]
  BY <1>7
<1>9. Held' = [s \in Targets |-> [q \in Parties |-> Held'[s][q]]]
  BY <1>6
<1> QED
  BY <1>5, <1>8, <1>9

LEMMA InProgressNext ==
  ASSUME NEW u, Writers = {u}
  PROVE  InProgress' = adding'[u]
<1>1. CASE adding'[u] = None
  BY <1>1 DEF InProgress
<1>2. CASE adding'[u] # None
  <2>1. (CHOOSE w \in Writers : adding'[w] # None) = u
    BY <1>2
  <2> QED
    BY <1>2, <2>1 DEF InProgress
<1> QED
  BY <1>1, <1>2

(* A step of the single thread, or a restart, keeps the invariant, and is  *)
(* a step of the register or none.                                         *)
LEMMA SingleStep ==
  ASSUME NEW u, Writers = {u}, ~DiskFails,
         StoreTypeOK, StoreTypeOK', SingleInv(u), [StoreNext]_storeVars
  PROVE  SingleInv(u)' /\ [Register!RegisterNext]_(Register!registerVars)
<1> DEFINE t == adding[u].target
           p == adding[u].party
           a == adding[u].agreement
           o == adding[u].old
           RegisterStep == [Register!RegisterNext]_(Register!registerVars)
           Stutter == UNCHANGED <<Held, InProgress>>
<1> USE DEF Step
<1>a. InProgress = adding[u] /\ InProgress' = adding'[u]
  BY InProgressOf, InProgressNext
<1>b. /\ Held \in [Targets -> [Parties -> Agreements \cup {None}]]
      /\ u \in Writers
  BY HeldType
<1>c. at[u] # "idle" =>
        /\ adding[u] \in Arguments /\ adding[u] # None
        /\ t \in Targets /\ p \in Parties /\ a \in Agreements
        /\ o \in Agreements \cup {None}
  BY <1>b DEF StoreTypeOK, Arguments
<1>d. Stutter => RegisterStep
  BY DEF Register!registerVars
<1>e. UNCHANGED signedContractIndex => UNCHANGED Held
  BY DEF Held, getSignedContract, hasSignedContract
<1>f. UNCHANGED file => UNCHANGED Flat(Loaded(file))
  BY DEF Flat, Loaded
<1>1. ASSUME NEW s \in Targets, NEW q \in Parties, NEW b \in Agreements,
             addSignedContract(u, s, q, b)
      PROVE  SingleInv(u)' /\ RegisterStep
  <2>1. /\ at[u] = "idle" /\ at'[u] = "check"
        /\ adding'[u] = [target |-> s, party |-> q, agreement |-> b,
                         old |-> Held[s][q]]
        /\ UNCHANGED <<signedContractIndex, file, overlapped, writing>>
        /\ adding[u] = None
    BY <1>1, <1>b DEF addSignedContract, StoreTypeOK, Held, saveVars
  <2>2. SingleInv(u)'
    BY <2>1, <1>e, <1>f DEF SingleInv, Before
  <2>3. Register!Begin(s, q, b)
    BY <2>1, <1>a, <1>e DEF Register!Begin
  <2> QED
    BY <2>2, <2>3 DEF Register!RegisterNext
<1>2. CASE Check(u)
  <2>1. /\ at[u] = "check"
        /\ \/ at'[u] = "fresh" /\ signedContractIndex[t] = None
           \/ at'[u] = "put" /\ signedContractIndex[t] # None
        /\ UNCHANGED <<signedContractIndex, file, adding, overlapped, writing>>
    BY <1>2, <1>b DEF Check, StoreTypeOK, saveVars
  <2>2. SingleInv(u)'
    BY <2>1, <1>e, <1>f DEF SingleInv, Before
  <2> QED
    BY <2>1, <2>2, <1>a, <1>d, <1>e
<1>3. CASE Fresh(u)
  <2>1. /\ at[u] = "fresh" /\ at'[u] = "put"
        /\ signedContractIndex' = [signedContractIndex EXCEPT ![t] = EmptyBucket]
        /\ UNCHANGED <<file, adding, overlapped, writing>>
    BY <1>3, <1>b DEF Fresh, StoreTypeOK, saveVars
  <2>2. EmptyBucket \in Bucket
    BY DEF Bucket, EmptyBucket
  <2>3. signedContractIndex'[t] # None
    BY <2>1, <2>2, <1>c, StoreAssumption DEF StoreTypeOK, Memory
  <2>4. UNCHANGED Held
    <3>1. signedContractIndex[t] = None
      BY <2>1 DEF SingleInv
    <3>2. \A s \in Targets, q \in Parties :
            getSignedContract(s, q)' = getSignedContract(s, q)
      BY <2>1, <3>1, <1>c
      DEF StoreTypeOK, Memory, EmptyBucket, getSignedContract,
          hasSignedContract
    <3> QED
      BY <3>2 DEF Held
  <2>5. SingleInv(u)'
    BY <2>1, <2>3, <2>4, <1>f DEF SingleInv, Before
  <2> QED
    BY <2>1, <2>4, <2>5, <1>a, <1>d
<1>4. CASE Put(u)
  <2>1. /\ at[u] = "put" /\ at'[u] = "open"
        /\ signedContractIndex[t] # None
        /\ signedContractIndex' = [signedContractIndex EXCEPT ![t][p] = a]
        /\ UNCHANGED <<file, adding, overlapped, writing>>
    BY <1>4, <1>b DEF Put, StoreTypeOK, Busy, saveVars
  <2>2. Held' = [Held EXCEPT ![t][p] = a]
    BY <2>1, <1>c, HeldAfterPut
  <2>3. Held = [Held' EXCEPT ![t][p] = o]
    <3>1. Held[t][p] = o
      BY <2>1 DEF SingleInv, Before
    <3> HIDE DEF t, p, a, o
    <3> QED
      BY <2>1, <2>2, <3>1, <1>b, <1>c
  <2>4. Held'[t][p] = a
    BY <2>1, <2>2, <1>b, <1>c
  <2>5. SingleInv(u)'
    BY <2>1, <2>3, <2>4, <1>f DEF SingleInv, Before
  <2>6. Register!Sign
    BY <2>1, <2>2, <1>a, <1>c DEF Register!Sign, Register!With
  <2> QED
    BY <2>5, <2>6 DEF Register!RegisterNext
<1>5. CASE PutThrows(u)
  BY <1>5, <1>b DEF PutThrows, SingleInv
<1>6. CASE Open(u)
  <2>1. /\ at[u] = "open" /\ at'[u] = "write" /\ file' = Torn
        /\ ~overlapped'[u]
        /\ UNCHANGED <<signedContractIndex, adding>>
    <3>1. Saving = {}
      BY <1>6 DEF Open, Saving
    <3>2. overlapped'[u] = (Saving # {})
      BY <1>6, <1>b DEF Open
    <3>3. ~overlapped'[u]
      BY <3>1, <3>2
    <3> QED
      BY <1>6, <1>b, <3>3 DEF Open, StoreTypeOK
  <2>2. SingleInv(u)'
    BY <2>1, <1>e DEF SingleInv, Before
  <2> QED
    BY <2>1, <2>2, <1>a, <1>d, <1>e
<1>7. CASE OpenFails(u)
  BY <1>7 DEF OpenFails
<1>8. CASE Write(u)
  <2>1. /\ at[u] = "write" /\ at'[u] = "close"
        /\ writing'[u] = signedContractIndex
        /\ UNCHANGED <<signedContractIndex, file, adding, overlapped>>
    <3>1. ~ \E v \in Writers : at[v] \in {"fresh", "put"}
      BY <1>8 DEF Write
    <3> QED
      BY <1>8, <1>b, <3>1 DEF Write, StoreTypeOK
  <2>2. SingleInv(u)'
    BY <2>1, <1>e DEF SingleInv, Before
  <2> QED
    BY <2>1, <2>2, <1>a, <1>d, <1>e
<1>12. CASE Close(u)
  <2>1. /\ at[u] = "close" /\ at'[u] = "done"
        /\ file' = signedContractIndex
        /\ ~overlapped'[u]
        /\ UNCHANGED <<signedContractIndex, adding>>
    BY <1>12, <1>b DEF Close, StoreTypeOK, SingleInv
  <2>2. SingleInv(u)'
    BY <2>1, <1>e DEF SingleInv, Before
  <2> QED
    BY <2>1, <2>2, <1>a, <1>d, <1>e
<1>9. CASE Leave(u)
  <2>1. /\ at[u] = "done" /\ at'[u] = "idle" /\ adding'[u] = None
        /\ UNCHANGED <<signedContractIndex, file, overlapped, writing>>
    BY <1>9, <1>b DEF Leave, StoreTypeOK, SingleInv, saveVars
  <2>2. Flat(Loaded(file)) = Held
    <3>1. file = signedContractIndex /\ signedContractIndex \in Memory
      BY <2>1 DEF SingleInv, StoreTypeOK
    <3>2. Loaded(file) = file
      BY <3>1, StoreAssumption DEF Loaded
    <3> QED
      BY <3>1, <3>2, HeldIsFlat
  <2>3. SingleInv(u)'
    BY <2>1, <2>2, <1>e, <1>f DEF SingleInv, Before
  <2>4. Register!Finish
    BY <2>1, <1>a, <1>c, <1>e DEF Register!Finish, SingleInv, Before
  <2> QED
    BY <2>3, <2>4 DEF Register!RegisterNext
<1>10. CASE Restart
  <2>1. /\ at'[u] = "idle" /\ adding'[u] = None /\ ~overlapped'[u]
        /\ signedContractIndex' = Loaded(file) /\ UNCHANGED file
    BY <1>10, <1>b DEF Restart
  <2>2. Held' = Flat(Loaded(file))
    BY <2>1 DEF Held, Flat, getSignedContract, hasSignedContract
  <2>3. SingleInv(u)'
    BY <2>1, <2>2, <1>f DEF SingleInv
  <2>4. CASE at[u] = "idle"
    <3>1. Held' = Held /\ adding[u] = None
      BY <2>2, <2>4, <1>b DEF SingleInv, StoreTypeOK
    <3> QED
      BY <2>1, <2>3, <3>1, <1>a, <1>d
  <2>5. CASE at[u] # "idle"
    <3>1. CASE at[u] \in {"check", "fresh", "put", "open"}
      <4>1. Held' = Register!With(o)
        <5>1. CASE at[u] = "open"
          BY <5>1, <2>2, <1>a DEF SingleInv, Register!With
        <5>2. CASE at[u] # "open"
          <6>1. Held' = Held /\ Held[t][p] = o
            BY <3>1, <5>2, <2>2 DEF SingleInv, Before
          <6>2. Held = [Held EXCEPT ![t][p] = o]
            <7> HIDE DEF t, p, o
            <7> QED
              BY <6>1, <1>b, <1>c, <2>5
          <6> QED
            BY <6>1, <6>2, <1>a DEF Register!With
        <5> QED
          BY <5>1, <5>2
      <4> QED
        BY <4>1, <2>1, <2>3, <2>5, <1>a, <1>c
        DEF Register!RegisterNext, Register!Crash
    <3>2. CASE at[u] \in {"write", "close"}
      <4>1. Held' = Register!Nothing
        BY <3>2, <2>2, FlatEmpty DEF SingleInv, Loaded
      <4> QED
        BY <4>1, <2>1, <2>3, <2>5, <1>a, <1>c
        DEF Register!RegisterNext, Register!Crash
    <3>3. CASE at[u] = "done"
      <4>1. Held' = Held /\ Held[t][p] = a
        <5>1. file = signedContractIndex /\ signedContractIndex \in Memory
          BY <3>3 DEF SingleInv, StoreTypeOK
        <5>2. Loaded(file) = file
          BY <5>1, StoreAssumption DEF Loaded
        <5> QED
          BY <3>3, <5>1, <5>2, <2>2, HeldIsFlat DEF SingleInv, Before
      <4>2. Held = [Held EXCEPT ![t][p] = a]
        <5> HIDE DEF t, p, a
        <5> QED
          BY <4>1, <1>b, <1>c, <2>5
      <4>3. Held' = Register!With(a)
        BY <4>1, <4>2, <1>a DEF Register!With
      <4> QED
        BY <4>3, <2>1, <2>3, <2>5, <1>a, <1>c
        DEF Register!RegisterNext, Register!Crash
    <3> QED
      BY <2>5, <3>1, <3>2, <3>3, <1>b DEF SingleInv, StoreTypeOK
  <2> QED
    BY <2>4, <2>5
<1>11. CASE UNCHANGED storeVars
  <2>1. SingleInv(u)'
    BY <1>11, <1>e, <1>f DEF storeVars, saveVars, SingleInv, Before
  <2> QED
    BY <1>11, <2>1, <1>a, <1>d, <1>e DEF storeVars
<1> QED
  BY <1>1, <1>2, <1>3, <1>4, <1>5, <1>6, <1>7, <1>8, <1>9, <1>10, <1>11,
     <1>12
  DEF StoreNext, Add

(* With one thread and a disk that works the store is a register of        *)
(* agreements: what was added survives every restart, but for one in the   *)
(* middle of an addition.                                                  *)
THEOREM SingleThreadIsRegister ==
  ASSUME NEW u, Writers = {u}, ~DiskFails
  PROVE  StoreSpec => IsRegister
<1>1. StoreInit => SingleInv(u) /\ Register!RegisterInit
  BY SingleInit
<1>2. StoreTypeOK /\ StoreTypeOK' /\ SingleInv(u) /\ [StoreNext]_storeVars
        => SingleInv(u)' /\ [Register!RegisterNext]_(Register!registerVars)
  BY SingleStep
<1> QED
  BY <1>1, <1>2, StoreTypes, PTL DEF StoreSpec, IsRegister, Register!RegisterSpec
=============================================================================
