------------------------ MODULE MessageHandlers_proofs ------------------------
(***************************************************************************)
(* Theorems about MessageHandlers, for every directory, any number of      *)
(* threads and consumers, and any texts of contracts: its types, that what *)
(* is agreed was offered, and that answers have the reasons they need.     *)
(***************************************************************************)
EXTENDS MessageHandlers, SelfDescription_proofs, ContractComparison_proofs

-----------------------------------------------------------------------------
(* The store.                                                              *)

(* The steps a thread takes within addSignedContract.                      *)
StoreSteps(w) ==
  \/ Store!Check(w)
  \/ Store!Fresh(w)
  \/ Store!Put(w)
  \/ Store!PutThrows(w)
  \/ Store!Open(w)
  \/ Store!OpenFails(w)
  \/ Store!Write(w)
  \/ Store!Close(w)

(* Where a thread may be in addSignedContract.                             *)
Stations ==
  {"idle", "check", "fresh", "put", "open", "write", "close", "done",
   "failed"}

(* What a step that only moves thread w keeps.                             *)
LEMMA StoreMove ==
  ASSUME NEW w \in Workers, NEW from, Store!StoreTypeOK,
         NEW to \in Stations \ {"idle"},
         from # "idle", Store!Step(w, from, to), UNCHANGED adding
  PROVE  /\ at' \in [Workers -> Stations]
         /\ adding' \in [Workers -> Store!Arguments \cup {None}]
         /\ \A v \in Workers : adding'[v] = None <=> at'[v] = "idle"
         /\ adding[w] \in Store!Arguments
         /\ at[w] = from /\ at'[w] = to
         /\ \A v \in Workers \ {w} : at'[v] = at[v]
BY DEF Store!StoreTypeOK, Store!Step, Stations

LEMMA StoreStepsType ==
  ASSUME Store!StoreTypeOK, NEW w \in Workers, StoreSteps(w)
  PROVE  Store!StoreTypeOK'
<1>1. CASE Store!Check(w)
  BY <1>1, StoreMove
  DEF Store!Check, Store!StoreTypeOK, Store!saveVars, Stations
<1>2. CASE Store!Fresh(w)
  <2>1. adding[w] \in Store!Arguments
    BY <1>2, StoreMove DEF Store!Fresh, Stations
  <2>2. signedContractIndex' \in Store!Memory
    BY <1>2, <2>1 DEF Store!Fresh, Store!StoreTypeOK, Store!Memory,
       Store!Bucket, Store!EmptyBucket, Store!Arguments
  <2> QED
    BY <1>2, <2>2, StoreMove
  DEF Store!Fresh, Store!StoreTypeOK, Store!saveVars, Stations
<1>3. CASE Store!Put(w)
  <2>1. adding[w] \in Store!Arguments
    BY <1>3, StoreMove DEF Store!Put, Stations
  <2> DEFINE t == adding[w].target
             p == adding[w].party
             a == adding[w].agreement
  <2>2. t \in Artifact /\ p \in Parties /\ a \in Agreement
    BY <2>1 DEF Store!Arguments
  <2>3. signedContractIndex[t] \in Store!Bucket
    BY <1>3, <2>2 DEF Store!Put, Store!StoreTypeOK, Store!Memory
  <2>4. [signedContractIndex[t] EXCEPT ![p] = a] \in Store!Bucket
    BY <2>2, <2>3 DEF Store!Bucket
  <2>5. \/ signedContractIndex' =
             [signedContractIndex EXCEPT ![t] =
                [signedContractIndex[t] EXCEPT ![p] = a]]
        \/ UNCHANGED signedContractIndex
    BY <1>3 DEF Store!Put
  <2> HIDE DEF t, p, a
  <2>6. signedContractIndex' \in Store!Memory
    BY <2>2, <2>4, <2>5 DEF Store!StoreTypeOK, Store!Memory
  <2> QED
    BY <1>3, <2>6, StoreMove
  DEF Store!Put, Store!StoreTypeOK, Store!saveVars, Stations
<1>4. CASE Store!PutThrows(w)
  BY <1>4, StoreMove
  DEF Store!PutThrows, Store!StoreTypeOK, Store!saveVars, Stations
<1>5. CASE Store!Open(w)
  BY <1>5, StoreMove DEF Store!Open, Store!StoreTypeOK, Store!Saving, Stations
<1>6. CASE Store!Write(w)
  <2>1. /\ writing' \in [Workers -> Store!Memory \cup {Torn}]
        /\ spoilt' \in BOOLEAN
        /\ UNCHANGED <<signedContractIndex, file, adding, settled, overlapped>>
    BY <1>6 DEF Store!Write, Store!StoreTypeOK
  <2> QED BY <1>6, <2>1, StoreMove DEF Store!Write, Store!StoreTypeOK, Stations
<1>7. CASE Store!Close(w)
  <2>1. /\ file' \in Store!Memory \cup {Missing, Torn}
        /\ overlapped' \in [Workers -> BOOLEAN]
        /\ writing' \in [Workers -> Store!Memory \cup {Torn}]
        /\ spoilt' \in BOOLEAN
        /\ UNCHANGED <<signedContractIndex, adding, settled>>
    BY <1>7 DEF Store!Close, Store!StoreTypeOK
  <2> QED BY <1>7, <2>1, StoreMove DEF Store!Close, Store!StoreTypeOK, Stations
<1>8. CASE Store!OpenFails(w)
  BY <1>8, StoreMove DEF Store!OpenFails, Store!StoreTypeOK, Stations
<1> QED BY <1>1, <1>2, <1>3, <1>4, <1>5, <1>6, <1>7, <1>8 DEF StoreSteps

LEMMA StoreLeaveType ==
  ASSUME Store!StoreTypeOK, NEW w \in Workers, Store!Leave(w)
  PROVE  Store!StoreTypeOK'
BY DEF Store!Leave, Store!StoreTypeOK, Store!saveVars

LEMMA StoreAddType ==
  ASSUME Store!StoreTypeOK, NEW w \in Workers, NEW t \in Artifact,
         NEW p \in Parties, NEW a \in Agreement,
         Store!addSignedContract(w, t, p, a)
  PROVE  /\ Store!StoreTypeOK'
         /\ at[w] = "idle" /\ at'[w] = "check"
         /\ adding'[w].target = t
         /\ adding'[w].party = p
         /\ adding'[w].agreement = a
         /\ \A v \in Workers \ {w} : at'[v] = at[v] /\ adding'[v] = adding[v]
         /\ UNCHANGED signedContractIndex
<1>1. Store!getSignedContract(t, p) \in Agreement \cup {None}
  BY DEF Store!StoreTypeOK, Store!getSignedContract, Store!hasSignedContract,
     Store!Memory, Store!Bucket
<1> DEFINE arguments == [target |-> t, party |-> p, agreement |-> a,
                         old |-> Store!getSignedContract(t, p)]
<1>2. arguments \in Store!Arguments
  BY <1>1 DEF Store!Arguments
<1>3. arguments # None
  BY <1>2, EntriesAssumption
<1>4. /\ at[w] = "idle"
      /\ at' = [at EXCEPT ![w] = "check"]
      /\ adding' = [adding EXCEPT ![w] = arguments]
      /\ UNCHANGED <<signedContractIndex, file, overlapped, writing, spoilt>>
  BY DEF Store!addSignedContract, Store!Step, Store!saveVars
<1>5. arguments.target = t /\ arguments.party = p /\ arguments.agreement = a
  OBVIOUS
<1> HIDE DEF arguments
<1>6. settled' \in [Artifact -> [Parties -> BOOLEAN]]
  <2>1. [q \in Parties |->
           settled[t][q] \/ (Store!Busy(t) = {} /\ Store!hasSignedContract(t, q))]
          \in [Parties -> BOOLEAN]
    BY Zenon DEF Store!StoreTypeOK
  <2> QED BY <2>1 DEF Store!addSignedContract, Store!StoreTypeOK
<1> QED BY <1>2, <1>3, <1>4, <1>5, <1>6 DEF Store!StoreTypeOK

-----------------------------------------------------------------------------
(* The invariant.                                                          *)

WorkerTypeOK ==
  /\ job \in [Workers -> Request \cup {None}]
  /\ step \in [Workers -> Steps]
  /\ found \in [Workers -> Artifact \cup {None}]
  /\ reply \in [Workers -> Answers \cup {None}]

HistoryOK ==
  /\ offered \subseteq Files \X Text
  /\ reasons \in [Workers -> SUBSET Reasons]
  /\ disturbed \in [Workers -> BOOLEAN]

StepsOf(type) ==
  CASE type = "artifact" ->
         {"getContract", "hasContract", "contractId", "target",
          "checkSigned", "deliver"}
    [] type = "request" ->
         {"find", "compare", "compareOffer", "accept", "makeAgreement",
          "signing", "decline", "makeOffer"}
    [] type = "agreement" -> {"compare", "compareOffer", "agree", "signing"}

(* Where a thread is, and what it has at hand there.                       *)
Serves(w) ==
  /\ job[w] = None => step[w] = "idle" /\ found[w] = None
  /\ job[w] # None => step[w] \in StepsOf(job[w].type) /\ reply[w] = None
  /\ step[w] \in Reading => found[w] # None
  /\ step[w] = "signing" <=> at[w] # "idle"
  /\ found[w] # None => found[w].file = job[w].uri

(* If a single reason held all the while, which it may be at a step.       *)
Leading(here) ==
  CASE here \in {"contractId", "target", "checkSigned"} ->
         {"agreed", "refused"}
    [] here = "deliver" -> {"free", "agreed", "absent"}
    [] here \in {"accept", "makeAgreement", "agree", "signing"} -> {"equal"}
    [] here \in {"decline", "makeOffer"} -> {"different"}
    [] OTHER -> Reasons

MayDeliver(w) == {"free", "agreed", "absent"} \cap reasons[w] # {}

(* What the history of a request says of where its thread is.  The         *)
(* artifact at hand is the one in the index, or there was none in between. *)
Follows(w) ==
  job[w] # None =>
    /\ Reason(job[w]) \in reasons[w]
    /\ found[w] # None =>
         \/ index[job[w].uri] = found[w]
         \/ "absent" \in reasons[w] /\ reasons[w] # {"absent"}
    /\ \A reason : reasons[w] = {reason} => reason \in Leading(step[w])
    /\ step[w] = "deliver" => MayDeliver(w)
    /\ disturbed[w] => job[w].type = "request"
    /\ job[w].type = "request" /\ Disturbing => disturbed[w]

Deserves(w, answer) ==
  /\ answer = "artifact" => MayDeliver(w)
  /\ \A reason \in Reasons :
       reasons[w] = {reason} =>
         \/ answer \in RightAnswers[reason] \cup {"error"}
         \/ disturbed[w] /\ answer = "NOT_FOUND"

Answered(w) == reply[w] # None => Deserves(w, reply[w])

WasOffered(f, text) ==
  \E t \in Text : <<f, t>> \in offered /\ SameTerms(t, text)

AllOffered(memory) ==
  \A a \in Artifact, p \in Parties :
    memory[a] # None /\ memory[a][p] # None =>
      WasOffered(a.file, memory[a][p].text)

OfferedInv ==
  /\ \A a \in Artifact :
       hasContract(a) => <<a.file, contractIndex[a].text>> \in offered
  /\ \A w \in Workers :
       step[w] = "agree" => WasOffered(job[w].uri, job[w].terms)
  /\ \A w \in Workers :
       adding[w] # None =>
         WasOffered(adding[w].target.file, adding[w].agreement.text)
  /\ AllOffered(signedContractIndex)
  /\ file \in Store!Memory => AllOffered(file)
  /\ \A w \in Workers :
       writing[w] \in Store!Memory => AllOffered(writing[w])

HandlerInv ==
  /\ SelfInv
  /\ Store!StoreTypeOK
  /\ WorkerTypeOK
  /\ HistoryOK
  /\ \A w \in Workers : Serves(w)
  /\ \A w \in Workers : Follows(w)
  /\ \A w \in Workers : Answered(w)
  /\ OfferedInv

LEMMA HandlerInvTypes == HandlerInv => ConnectorTypeOK
BY SelfInvTypes
   DEF HandlerInv, WorkerTypeOK, HistoryOK, Serves, StepsOf, ConnectorTypeOK,
       Request

LEMMA HandlerInvAnswers == HandlerInv => DeliveryHadReason /\ SteadyAnswers
BY EntriesAssumption
   DEF HandlerInv, WorkerTypeOK, Answers, Answered, Deserves, MayDeliver,
       DeliveryHadReason, SteadyAnswers

LEMMA HandlerInvTerms == HandlerInv => AgreedTermsWereOffered
BY DEF HandlerInv, OfferedInv, AllOffered, WasOffered,
   AgreedTermsWereOffered, Store!hasSignedContract, Store!getSignedContract

-----------------------------------------------------------------------------
(* What a step of a thread does, whichever handler it belongs to.          *)

ReadsNothing(w) == UNCHANGED found

ReadsIndex(w) ==
  /\ exists(job[w].uri)
  /\ found' = [found EXCEPT ![w] = index[job[w].uri]]

(* It goes on, for the reasons that lead there.                            *)
Goes(w, to) ==
  /\ \E from \in Steps \ {"idle", "signing"} : Continue(w, from, to)
  /\ to \in StepsOf(job[w].type)
  /\ ReadsNothing(w) \/ ReadsIndex(w)
  /\ to \in Reading => found'[w] # None
  /\ \A reason : reasons[w] = {reason} => reason \in Leading(to)
  /\ to = "deliver" => MayDeliver(w)
  /\ to = "agree" => WasOffered(job[w].uri, job[w].terms)

Says(w, answer) ==
  /\ \E from \in Steps \ {"idle"} : Reply(w, from, answer)
  /\ answer \in Answers
  /\ Deserves(w, answer)

(* It calls addSignedContract with what was offered.                       *)
Signs(w) ==
  /\ Goes(w, "signing")
  /\ UNCHANGED found
  /\ \E t \in Artifact, a \in Agreement :
       /\ Store!addSignedContract(w, t, job[w].party, a)
       /\ WasOffered(t.file, a.text)

HandlerCase(w) ==
  \/ Accepting(w)
  \/ (\E to \in Steps \ {"idle", "signing"} : Goes(w, to)) /\ Stay
  \/ (\E answer : Says(w, answer)) /\ step[w] # "signing" /\ Stay
  \/ Signs(w) /\ UNCHANGED <<serving, requests>>
  \/ step[w] = "signing" /\ StoreSteps(w) /\ UNCHANGED handlerVars
  \/ /\ step[w] = "signing" /\ (\E answer : Says(w, answer))
     /\ Store!Leave(w) /\ UNCHANGED <<serving, requests>>

-----------------------------------------------------------------------------
(* What a thread may conclude from where it is.                            *)

LEMMA ReasonsAre ==
  Reasons = {"absent", "free", "agreed", "refused", "noOffer", "equal",
             "different"}
BY DEF Reasons, RightAnswers

(* A request in progress is known with its types.                          *)
LEMMA AtWork ==
  ASSUME HandlerInv, NEW w \in Workers, step[w] # "idle"
  PROVE  /\ job[w] # None /\ job[w] \in Request
         /\ job[w].uri \in Files /\ job[w].party \in Parties
         /\ job[w].type \in {"artifact", "request", "agreement"}
         /\ job[w].type # "artifact" => job[w].terms \in Text
         /\ step[w] \in StepsOf(job[w].type)
         /\ reply[w] = None
         /\ Reason(job[w]) \in reasons[w]
         /\ index[job[w].uri] \in Artifact \cup {None}
         /\ exists(job[w].uri) => index[job[w].uri].file = job[w].uri
<1>1. job[w] # None
  BY DEF HandlerInv, Serves
<1>2. job[w] \in Request
  BY <1>1 DEF HandlerInv, WorkerTypeOK
<1>3. index \in [Files -> Artifact \cup {None}] /\ \A f \in Files : index[f] # None => index[f].file = f
  BY ManagerInvTypes DEF HandlerInv, SelfInv, TypeOK, IndexTypeOK
<1> QED BY <1>1, <1>2, <1>3 DEF HandlerInv, Serves, Follows, Request, exists

LEMMA AtHand ==
  ASSUME HandlerInv, NEW w \in Workers, step[w] \in Reading
  PROVE  /\ found[w] \in Artifact /\ found[w].file = job[w].uri
         /\ \/ index[job[w].uri] = found[w]
            \/ "absent" \in reasons[w] /\ reasons[w] # {"absent"}
         /\ \A reason : reasons[w] = {reason} => index[job[w].uri] = found[w]
<1>1. found[w] # None /\ step[w] # "idle"
  BY DEF HandlerInv, Serves, Reading
<1> QED BY <1>1, AtWork DEF HandlerInv, WorkerTypeOK, Serves, Follows

LEMMA OfferType ==
  ASSUME HandlerInv, NEW a \in Artifact, contractIndex[a] # None
  PROVE  /\ contractIndex[a].text \in Text
         /\ contractIndex[a].target \in Files
         /\ WasOffered(a.file, contractIndex[a].text)
<1>1. contractIndex[a] \in Offer
  BY ManagerInvTypes DEF HandlerInv, SelfInv, TypeOK, IndexTypeOK
<1>2. contractIndex[a].text \in Text /\ contractIndex[a].target \in Files
  BY <1>1 DEF Offer
<1> QED BY <1>2 DEF HandlerInv, OfferedInv, hasContract, WasOffered, SameTerms

(* Compared as equal, texts have the same terms.                           *)
LEMMA EqualTerms ==
  ASSUME NEW text \in Text, NEW terms \in Text
  PROVE  FoundEqual(text, terms) <=> SameTerms(text, terms)
<1>1. LinesOf[text.ver] \in SUBSET Lines /\ LinesOf[terms.ver] \in SUBSET Lines
  BY HandlersAssumption DEF Text
<1> QED BY <1>1, ComparesTerms DEF FoundEqual, SameTerms

-----------------------------------------------------------------------------
(* The steps, one handler after the other.                                 *)

LEMMA ErrorCase ==
  ASSUME NEW w \in Workers, NEW from \in Steps \ {"idle"},
         Reply(w, from, "error")
  PROVE  Says(w, "error")
BY DEF Says, Deserves, Answers

LEMMA LookUpCase ==
  ASSUME HandlerInv, NEW w \in Workers,
         NEW from \in Steps \ {"idle", "signing"}, NEW to, LookUp(w, from, to),
         to \in StepsOf(job[w].type), to \notin {"deliver", "agree"},
         \A reason : reasons[w] = {reason} => reason \in Leading(to)
  PROVE  Goes(w, to) \/ Says(w, "error")
<1>1. CASE Reply(w, from, "error")
  BY <1>1, ErrorCase
<1>2. CASE /\ Continue(w, from, to)
           /\ exists(job[w].uri)
           /\ found' = [found EXCEPT ![w] = index[job[w].uri]]
  <2>1. found'[w] # None
    BY <1>2 DEF exists, HandlerInv, WorkerTypeOK
  <2> QED BY <1>2, <2>1 DEF Goes, ReadsIndex
<1> QED BY <1>1, <1>2 DEF LookUp

LEMMA ArtifactCases ==
  ASSUME HandlerInv, NEW w \in Workers,
         \/ GetContract(w) \/ HasContract(w) \/ ContractId(w)
         \/ Target(w) \/ CheckSigned(w) \/ Deliver(w)
  PROVE  HandlerCase(w)
<1> DEFINE r == Reason(job[w])
<1>1. /\ step[w] \in {"getContract", "hasContract", "contractId", "target",
                      "checkSigned", "deliver"}
      /\ Stay
  BY DEF GetContract, HasContract, ContractId, Target, CheckSigned, Deliver,
     LookUp, Continue, Reply
<1>2. /\ job[w].type = "artifact" /\ r \in reasons[w]
      /\ \A reason : reasons[w] = {reason} =>
           reason = r /\ reason \in Leading(step[w])
      /\ ~exists(job[w].uri) => r = "absent"
      /\ exists(job[w].uri) /\ ~hasContract(index[job[w].uri]) => r = "free"
      /\ exists(job[w].uri) /\ hasContract(index[job[w].uri]) =>
           IF Store!hasSignedContract(index[job[w].uri], job[w].party)
             THEN r = "agreed" ELSE r = "refused"
  <2>1. job[w].type = "artifact"
    BY <1>1, AtWork DEF StepsOf
  <2> QED BY <1>1, <2>1, AtWork DEF HandlerInv, Follows, Reason
<1> HIDE DEF r
<1>3. CASE GetContract(w)
  <2>1. CASE exists(job[w].uri)
    <3>1. /\ Continue(w, "getContract", "hasContract")
          /\ found' = [found EXCEPT ![w] = index[job[w].uri]]
      BY <1>3, <2>1 DEF GetContract
    <3>2. found'[w] # None
      BY <2>1, <3>1 DEF exists, HandlerInv, WorkerTypeOK
    <3>3. reasons[w] \subseteq Reasons
      BY DEF HandlerInv, HistoryOK
    <3>4. Goes(w, "hasContract")
      BY <1>2, <2>1, <3>1, <3>2, <3>3 DEF Goes, ReadsIndex, StepsOf, Leading, Steps
    <3> QED BY <1>1, <3>4 DEF HandlerCase, Steps
  <2>2. CASE ~exists(job[w].uri)
    <3>1. Continue(w, "getContract", "deliver") /\ UNCHANGED found
      BY <1>3, <2>2 DEF GetContract
    <3>2. Goes(w, "deliver")
      BY <1>2, <2>2, <3>1
         DEF Goes, ReadsNothing, StepsOf, Leading, MayDeliver, Steps, Reading
    <3> QED BY <1>1, <3>2 DEF HandlerCase, Steps
  <2> QED BY <2>1, <2>2
<1>4. CASE HasContract(w)
  <2>1. step[w] = "hasContract" /\ UNCHANGED found
    BY <1>4 DEF HasContract, Continue
  <2>2. /\ found[w] \in Artifact
        /\ index[job[w].uri] = found[w] \/ "absent" \in reasons[w]
        /\ \A reason : reasons[w] = {reason} => index[job[w].uri] = found[w]
    BY <2>1, AtHand DEF Reading
  <2>3. found[w] # None
    BY <2>2, IndexAssumption
  <2>4. CASE hasContract(found[w])
    <3>1. Continue(w, "hasContract", "contractId")
      BY <1>4, <2>4 DEF HasContract
    <3>2. Goes(w, "contractId")
      BY <1>2, <2>1, <2>2, <2>3, <2>4, <3>1
         DEF Goes, ReadsNothing, StepsOf, Leading, Steps, exists
    <3> QED BY <1>1, <3>2 DEF HandlerCase, Steps
  <2>5. CASE ~hasContract(found[w])
    <3>1. Continue(w, "hasContract", "deliver")
      BY <1>4, <2>5 DEF HasContract
    <3>2. Goes(w, "deliver")
      BY <1>2, <2>1, <2>2, <2>3, <2>5, <3>1
         DEF Goes, ReadsNothing, StepsOf, Leading, MayDeliver, Steps, Reading,
             exists
    <3> QED BY <1>1, <3>2 DEF HandlerCase, Steps
  <2> QED BY <2>4, <2>5
<1>5. CASE ContractId(w)
  <2>1. CASE Continue(w, "contractId", "target") /\ UNCHANGED found
    <3>1. Goes(w, "target")
      BY <1>2, <2>1
         DEF Goes, ReadsNothing, StepsOf, Leading, Steps, Reading, Continue
    <3> QED BY <1>1, <3>1 DEF HandlerCase, Steps
  <2>2. CASE Reply(w, "contractId", "error")
    BY <1>1, <2>2, ErrorCase DEF HandlerCase, Steps, Reply
  <2> QED BY <1>5, <2>1, <2>2 DEF ContractId
<1>6. CASE Target(w)
  <2>1. step[w] = "target" /\ LookUp(w, "target", "checkSigned")
    BY <1>6 DEF Target, LookUp, Continue, Reply
  <2>2. Goes(w, "checkSigned") \/ Says(w, "error")
    BY <1>2, <2>1, LookUpCase DEF StepsOf, Leading, Steps
  <2> QED BY <1>1, <2>1, <2>2 DEF HandlerCase, Steps
<1>7. CASE CheckSigned(w)
  <2>1. step[w] = "checkSigned"
    BY <1>7 DEF CheckSigned, Continue, Reply
  <2>2. /\ found[w] \in Artifact
        /\ index[job[w].uri] = found[w] \/ "absent" \in reasons[w]
        /\ \A reason : reasons[w] = {reason} => index[job[w].uri] = found[w]
    BY <2>1, AtHand DEF Reading
  <2>3. found[w] # None
    BY <2>2, IndexAssumption
  <2>4. \A reason : reasons[w] = {reason} => reason \in {"agreed", "refused"}
    BY <1>2, <2>1 DEF Leading
  <2>5. CASE Store!hasSignedContract(found[w], job[w].party)
    <3>1. Continue(w, "checkSigned", "deliver") /\ UNCHANGED found
      BY <1>7, <2>5 DEF CheckSigned
    <3>2. MayDeliver(w) /\ \A reason : reasons[w] = {reason} => reason = "agreed"
      BY <1>2, <2>2, <2>3, <2>4, <2>5 DEF MayDeliver, exists
    <3>3. Goes(w, "deliver")
      BY <1>2, <3>1, <3>2 DEF Goes, ReadsNothing, StepsOf, Leading, Steps, Reading
    <3> QED BY <1>1, <3>3 DEF HandlerCase, Steps
  <2>6. CASE ~Store!hasSignedContract(found[w], job[w].party)
    <3>1. Reply(w, "checkSigned", "NOT_AUTHORIZED")
      BY <1>7, <2>6 DEF CheckSigned
    <3>2. \A reason : reasons[w] = {reason} => reason = "refused"
      BY <1>2, <2>2, <2>3, <2>4, <2>6 DEF exists
    <3>3. Says(w, "NOT_AUTHORIZED")
      BY <3>1, <3>2 DEF Says, Deserves, Answers, RightAnswers, Steps
    <3> QED BY <1>1, <2>1, <3>3 DEF HandlerCase
  <2> QED BY <2>5, <2>6
<1>8. CASE Deliver(w)
  <2>1. step[w] = "deliver"
    BY <1>8 DEF Deliver, Reply
  <2>2. MayDeliver(w) /\ \A reason : reasons[w] = {reason} =>
                            reason \in {"free", "agreed", "absent"}
    BY <1>2, <2>1, AtWork DEF Leading, HandlerInv, Follows
  <2>3. CASE Reply(w, "deliver", "artifact") /\ exists(job[w].uri)
    <3>1. \A reason : reasons[w] = {reason} => reason \in {"free", "agreed"}
      BY <1>2, <2>2, <2>3
    <3>2. Says(w, "artifact")
      BY <2>2, <2>3, <3>1 DEF Says, Deserves, Answers, RightAnswers, Steps
    <3> QED BY <1>1, <2>1, <3>2 DEF HandlerCase
  <2>4. CASE Reply(w, "deliver", "NOT_FOUND") /\ ~exists(job[w].uri)
    <3>1. \A reason : reasons[w] = {reason} => reason = "absent"
      BY <1>2, <2>4
    <3>2. Says(w, "NOT_FOUND")
      BY <2>4, <3>1 DEF Says, Deserves, Answers, RightAnswers, Steps
    <3> QED BY <1>1, <2>1, <3>2 DEF HandlerCase
  <2> QED BY <1>8, <2>3, <2>4 DEF Deliver
<1> QED BY <1>3, <1>4, <1>5, <1>6, <1>7, <1>8

(* The terms of an offer in the index, and what they say of the request.   *)
LEMMA OfferAtHand ==
  ASSUME HandlerInv, NEW w \in Workers, step[w] \in Reading,
         job[w].type # "artifact", contractIndex[found[w]] # None
  PROVE  /\ contractIndex[found[w]].text \in Text
         /\ job[w].terms \in Text
         /\ \A reason : reasons[w] = {reason} =>
              IF FoundEqual(contractIndex[found[w]].text, job[w].terms)
                THEN reason = "equal" ELSE reason = "different"
<1>1. found[w] \in Artifact /\ step[w] # "idle"
  BY AtHand DEF Reading
<1>2. contractIndex[found[w]].text \in Text
  BY <1>1, OfferType
<1>3. found[w] # None
  BY <1>1, IndexAssumption
<1>4. ASSUME NEW reason, reasons[w] = {reason}
      PROVE  reason = Reason(job[w]) /\ index[job[w].uri] = found[w]
  BY <1>1, <1>4, AtWork, AtHand
<1> QED BY <1>1, <1>2, <1>3, <1>4, AtWork DEF Reason, exists, hasContract

LEMMA ComparisonCases ==
  ASSUME HandlerInv, NEW w \in Workers, Compare(w) \/ CompareOffer(w)
  PROVE  HandlerCase(w)
<1>1. CASE Compare(w)
  <2>1. step[w] = "compare" /\ LookUp(w, "compare", "compareOffer") /\ Stay
    BY <1>1 DEF Compare, LookUp, Continue, Reply
  <2>2. job[w].type \in {"request", "agreement"} /\ reasons[w] \subseteq Reasons
    BY <2>1, AtWork DEF StepsOf, HandlerInv, HistoryOK
  <2>3. Goes(w, "compareOffer") \/ Says(w, "error")
    BY <2>1, <2>2, LookUpCase DEF StepsOf, Leading, Steps
  <2> QED BY <2>1, <2>3 DEF HandlerCase, Steps
<1>2. CASE CompareOffer(w)
  <2> DEFINE offer == contractIndex[found[w]]
             equal == FoundEqual(offer.text, job[w].terms)
  <2>1. step[w] = "compareOffer" /\ Stay
    BY <1>2 DEF CompareOffer, Reply
  <2>2. /\ found[w] \in Artifact /\ found[w].file = job[w].uri
        /\ job[w].type \in {"request", "agreement"}
        /\ job[w].uri \in Files
    BY <2>1, AtHand, AtWork DEF Reading, StepsOf
  <2>3. offer # None =>
          /\ offer.text \in Text /\ job[w].terms \in Text
          /\ \A reason : reasons[w] = {reason} =>
               reason = IF equal THEN "equal" ELSE "different"
    BY <2>1, <2>2, OfferAtHand DEF Reading
  <2>4. CASE /\ offer # None /\ equal /\ UNCHANGED found
             /\ Continue(w, "compareOffer",
                  IF job[w].type = "request" THEN "accept" ELSE "agree")
    <3>1. <<job[w].uri, offer.text>> \in offered
      BY <2>2, <2>4 DEF HandlerInv, OfferedInv, hasContract
    <3>2. WasOffered(job[w].uri, job[w].terms)
      BY <2>3, <2>4, <3>1, EqualTerms DEF WasOffered
    <3>3. \A reason : reasons[w] = {reason} => reason = "equal"
      BY <2>3, <2>4
    <3> HIDE DEF offer, equal
    <3>4. Goes(w, IF job[w].type = "request" THEN "accept" ELSE "agree")
      BY <2>2, <2>4, <3>2, <3>3
         DEF Goes, ReadsNothing, StepsOf, Leading, Steps, Reading
    <3> QED BY <2>1, <3>4 DEF HandlerCase, Steps
  <2>5. CASE /\ offer # None /\ ~equal /\ job[w].type = "request"
             /\ Continue(w, "compareOffer", "decline") /\ UNCHANGED found
    <3>1. \A reason : reasons[w] = {reason} => reason = "different"
      BY <2>3, <2>5
    <3> HIDE DEF offer, equal
    <3>2. Goes(w, "decline")
      BY <2>5, <3>1 DEF Goes, ReadsNothing, StepsOf, Leading, Steps, Reading
    <3> QED BY <2>1, <3>2 DEF HandlerCase, Steps
  <2>6. CASE /\ offer # None /\ ~equal
             /\ Reply(w, "compareOffer", "rejection")
    <3>1. \A reason : reasons[w] = {reason} => reason = "different"
      BY <2>3, <2>6
    <3> HIDE DEF offer, equal
    <3>2. Says(w, "rejection")
      BY <2>6, <3>1 DEF Says, Deserves, Answers, RightAnswers, Steps
    <3> QED BY <2>1, <3>2 DEF HandlerCase
  <2>7. CASE Reply(w, "compareOffer", "error")
    BY <2>1, <2>7, ErrorCase DEF HandlerCase, Steps
  <2> QED BY <1>2, <2>4, <2>5, <2>6, <2>7 DEF CompareOffer
<1> QED BY <1>1, <1>2

LEMMA RequestCases ==
  ASSUME HandlerInv, NEW w \in Workers,
         Find(w) \/ Accept(w) \/ MakeAgreement(w) \/ Decline(w) \/ MakeOffer(w)
  PROVE  HandlerCase(w)
<1>1. /\ step[w] \in {"find", "accept", "makeAgreement", "decline",
                      "makeOffer"}
      /\ MakeAgreement(w) \/ Stay
  BY DEF Find, Accept, Decline, MakeOffer, MakeAgreement, LookUp, Continue, Reply
<1>2. /\ job[w].type = "request" /\ Reason(job[w]) \in reasons[w]
      /\ reasons[w] \subseteq Reasons
      /\ \A reason : reasons[w] = {reason} =>
           reason = Reason(job[w]) /\ reason \in Leading(step[w])
      /\ ~exists(job[w].uri) => Reason(job[w]) = "absent"
  BY <1>1, AtWork DEF StepsOf, HandlerInv, Follows, HistoryOK, Reason
<1>3. CASE Find(w)
  <2>1. CASE Continue(w, "find", "compare") /\ UNCHANGED found
    <3>1. Goes(w, "compare")
      BY <1>2, <2>1 DEF Goes, ReadsNothing, StepsOf, Leading, Steps, Reading
    <3> QED BY <1>1, <1>3, <3>1 DEF HandlerCase, Steps, Find
  <2>2. CASE Reply(w, "find", "NOT_FOUND") /\ ~exists(job[w].uri)
    <3>1. Says(w, "NOT_FOUND")
      BY <1>2, <2>2 DEF Says, Deserves, Answers, RightAnswers, Steps
    <3> QED BY <1>1, <1>3, <3>1 DEF HandlerCase, Find
  <2> QED BY <1>3, <2>1, <2>2 DEF Find
<1>4. CASE Accept(w)
  <2>1. step[w] = "accept" /\ LookUp(w, "accept", "makeAgreement")
    BY <1>4 DEF Accept, LookUp, Continue, Reply
  <2>2. Goes(w, "makeAgreement") \/ Says(w, "error")
    BY <1>2, <2>1, LookUpCase DEF StepsOf, Leading, Steps
  <2> QED BY <1>4, <2>1, <2>2 DEF HandlerCase, Steps, Accept
<1>5. CASE Decline(w)
  <2>1. step[w] = "decline" /\ LookUp(w, "decline", "makeOffer")
    BY <1>5 DEF Decline, LookUp, Continue, Reply
  <2>2. Goes(w, "makeOffer") \/ Says(w, "error")
    BY <1>2, <2>1, LookUpCase DEF StepsOf, Leading, Steps
  <2> QED BY <1>5, <2>1, <2>2 DEF HandlerCase, Steps, Decline
<1>6. CASE MakeOffer(w)
  <2>1. CASE Reply(w, "makeOffer", "offer")
    <3>1. Says(w, "offer")
      BY <1>2, <2>1 DEF Says, Deserves, Answers, RightAnswers, Steps, Reply, Leading
    <3> QED BY <1>6, <2>1, <3>1 DEF HandlerCase, MakeOffer, Reply
  <2>2. CASE Reply(w, "makeOffer", "error")
    BY <1>6, <2>2, ErrorCase DEF HandlerCase, Steps, MakeOffer, Reply
  <2> QED BY <1>6, <2>1, <2>2 DEF MakeOffer
<1>7. CASE MakeAgreement(w)
  <2> DEFINE offer == contractIndex[found[w]]
  <2>1. CASE Reply(w, "makeAgreement", "error") /\ Stay
    BY <2>1, ErrorCase DEF HandlerCase, Steps, Reply
  <2>2. CASE /\ offer # None /\ Continue(w, "makeAgreement", "signing")
             /\ Store!addSignedContract(w, found[w], job[w].party,
                  [text |-> offer.text, target |-> offer.target])
             /\ UNCHANGED <<serving, requests, found>>
    <3>1. step[w] = "makeAgreement" /\ found[w] \in Artifact
      BY <2>2, AtHand DEF Continue, Reading
    <3>2. /\ [text |-> offer.text, target |-> offer.target] \in Agreement
          /\ WasOffered(found[w].file, offer.text)
      BY <2>2, <3>1, OfferType DEF Agreement
    <3> HIDE DEF offer
    <3>3. Goes(w, "signing")
      BY <1>2, <2>2, <3>1 DEF Goes, ReadsNothing, StepsOf, Leading, Steps, Reading
    <3>4. \E a \in Agreement :
            /\ Store!addSignedContract(w, found[w], job[w].party, a)
            /\ WasOffered(found[w].file, a.text)
      BY <2>2, <3>2
    <3>5. Signs(w)
      BY <2>2, <3>1, <3>3, <3>4 DEF Signs
    <3> QED BY <2>2, <3>5 DEF HandlerCase
  <2> QED BY <1>7, <2>1, <2>2 DEF MakeAgreement
<1> QED BY <1>3, <1>4, <1>5, <1>6, <1>7

LEMMA AgreeCase ==
  ASSUME HandlerInv, NEW w \in Workers, Agree(w)
  PROVE  HandlerCase(w)
<1>1. CASE Reply(w, "agree", "error") /\ Stay
  BY <1>1, ErrorCase DEF HandlerCase, Steps, Reply
<1>2. CASE /\ Continue(w, "agree", "signing")
           /\ exists(job[w].uri)
           /\ Store!addSignedContract(w, index[job[w].uri], job[w].party,
                [text |-> job[w].terms, target |-> job[w].uri])
           /\ UNCHANGED <<serving, requests, found>>
  <2>1. step[w] = "agree"
    BY <1>2 DEF Continue
  <2>2. /\ job[w].type = "agreement" /\ job[w].uri \in Files
        /\ job[w].terms \in Text
        /\ index[job[w].uri] \in Artifact
        /\ index[job[w].uri].file = job[w].uri
        /\ WasOffered(job[w].uri, job[w].terms)
    BY <1>2, <2>1, AtWork DEF StepsOf, exists, HandlerInv, OfferedInv
  <2>3. [text |-> job[w].terms, target |-> job[w].uri] \in Agreement
    BY <2>2 DEF Agreement
  <2>4. \A reason : reasons[w] = {reason} => reason \in Leading("signing")
    BY <2>1, AtWork DEF HandlerInv, Follows, Leading
  <2>5. Goes(w, "signing")
    BY <1>2, <2>1, <2>2, <2>4 DEF Goes, ReadsNothing, StepsOf, Steps, Reading
  <2>6. \E a \in Agreement :
          /\ Store!addSignedContract(w, index[job[w].uri], job[w].party, a)
          /\ WasOffered(index[job[w].uri].file, a.text)
    BY <1>2, <2>2, <2>3
  <2>7. Signs(w)
    BY <1>2, <2>2, <2>5, <2>6 DEF Signs
  <2> QED BY <1>2, <2>7 DEF HandlerCase
<1> QED BY <1>1, <1>2 DEF Agree

LEMMA SignedCase ==
  ASSUME HandlerInv, NEW w \in Workers, Signed(w)
  PROVE  HandlerCase(w)
<1>1. /\ step[w] = "signing" /\ Store!Leave(w)
      /\ UNCHANGED <<serving, requests>>
  BY DEF Signed, Reply
<1>2. \A reason : reasons[w] = {reason} => reason = "equal"
  <2>1. Follows(w) /\ job[w] # None
    BY <1>1, AtWork DEF HandlerInv
  <2> QED BY <1>1, <2>1 DEF Follows, Leading
<1>3. \A answer \in {"agreement", "success"} :
        Reply(w, "signing", answer) => Says(w, answer)
  BY <1>2 DEF Says, Deserves, Answers, RightAnswers, Steps
<1>4. Reply(w, "signing", "error") => Says(w, "error")
  BY ErrorCase DEF Steps
<1> QED BY <1>1, <1>3, <1>4 DEF HandlerCase, Signed

LEMMA FailureCases ==
  ASSUME HandlerInv, NEW w \in Workers, NoToken(w) \/ Disturbed(w)
  PROVE  HandlerCase(w)
<1>1. CASE \E from \in Steps \ {"idle", "signing"} : Reply(w, from, "error")
  BY <1>1, ErrorCase DEF HandlerCase, NoToken, Disturbed, Reply
<1>2. CASE Disturbing /\ Reply(w, "find", "NOT_FOUND") /\ Stay
  <2>1. step[w] = "find"
    BY <1>2 DEF Reply
  <2>2. disturbed[w]
    BY <1>2, <2>1, AtWork DEF StepsOf, HandlerInv, Follows
  <2>3. Says(w, "NOT_FOUND")
    BY <1>2, <2>2 DEF Says, Deserves, Answers, Steps
  <2> QED BY <1>2, <2>1, <2>3 DEF HandlerCase
<1>3. \/ \E from \in Steps \ {"idle", "signing"} : Reply(w, from, "error")
      \/ Disturbing /\ Reply(w, "find", "NOT_FOUND") /\ Stay
  BY DEF NoToken, Disturbed, LookingUp, Steps
<1> QED BY <1>1, <1>2, <1>3

LEMMA HandlerCases ==
  ASSUME HandlerInv, NEW w \in Workers, Handler(w)
  PROVE  HandlerCase(w)
<1>1. CASE Accepting(w)
  BY <1>1 DEF HandlerCase
<1>2. CASE Signing(w)
  BY <1>2 DEF HandlerCase, Signing, StoreSteps
<1> QED BY <1>1, <1>2, ArtifactCases, ComparisonCases, RequestCases, AgreeCase,
           SignedCase, FailureCases DEF Handler

-----------------------------------------------------------------------------
(* What a step leaves of a thread.                                         *)

SameJob(w) ==
  /\ job'[w] = job[w] /\ step'[w] = step[w]
  /\ found'[w] = found[w] /\ reply'[w] = reply[w]

SameCall(w) == at'[w] = at[w] /\ adding'[w] = adding[w]

(* An artifact is replaced in the index by way of its absence.             *)
Turnover ==
  \A f \in Files : \/ index'[f] = index[f]
                   \/ index[f] = None
                   \/ index'[f] = None

LEMMA ReasonType ==
  ASSUME NEW request
  PROVE  Reason(request) \in Reasons
BY ReasonsAre DEF Reason

LEMMA ReasonsGrow ==
  ASSUME Observe, NEW w \in Workers
  PROVE  /\ job'[w] = None => reasons'[w] = reasons[w]
         /\ job'[w] # None /\ job[w] = None => reasons'[w] = {Reason(job[w])'}
         /\ job'[w] # None /\ job[w] # None =>
              reasons'[w] = reasons[w] \cup {Reason(job[w])'}
BY DEF Observe

LEMMA DisturbedGrows ==
  ASSUME Observe, NEW w \in Workers
  PROVE  /\ job'[w] = None => disturbed'[w] = disturbed[w]
         /\ job'[w] # None =>
              (/\ disturbed'[w] => job'[w].type = "request"
               /\ job'[w].type = "request" /\ Disturbing' => disturbed'[w])
BY DEF Observe

LEMMA OfferedGrows ==
  ASSUME HandlerInv, Observe
  PROVE  /\ offered \subseteq offered'
         /\ \A a \in Artifact :
              hasContract(a)' => <<a.file, contractIndex'[a].text>> \in offered'
         /\ \A f, text : WasOffered(f, text) => WasOffered(f, text)'
         /\ \A memory : AllOffered(memory) => AllOffered(memory)'
<1>1. offered \subseteq offered'
  BY DEF Observe
<1>2. \A a \in Artifact :
        hasContract(a)' => <<a.file, contractIndex'[a].text>> \in offered'
  BY DEF Observe, HandlerInv, OfferedInv, hasContract
<1>3. \A f, text : WasOffered(f, text) => WasOffered(f, text)'
  BY <1>1 DEF WasOffered
<1> QED BY <1>1, <1>2, <1>3 DEF AllOffered

LEMMA HistoryStep ==
  ASSUME HandlerInv, Observe, SelfInv'
  PROVE  HistoryOK'
<1>1. offered' \subseteq Files \X Text
  <2>1. contractIndex' \in [Artifact -> Offer \cup {None}]
    <3>1. ManagerInv'
      BY DEF SelfInv
    <3>2. TypeOK'
      BY <3>1, ManagerInvTypes, PTL
    <3> QED BY <3>2 DEF TypeOK, IndexTypeOK
  <2>2. ASSUME NEW a \in Artifact, contractIndex'[a] # None
        PROVE  <<a.file, contractIndex'[a].text>> \in Files \X Text
    BY <2>1, <2>2 DEF Offer, Artifact
  <2> QED BY <2>2 DEF Observe, HandlerInv, HistoryOK
<1>2. \A w \in Workers : Reason(job[w])' \in Reasons
  BY ReasonsAre DEF Reason
<1> QED BY <1>1, <1>2 DEF Observe, HandlerInv, HistoryOK

(* A thread that a step leaves alone still follows its history.            *)
LEMMA StaysAlone ==
  ASSUME HandlerInv, Observe, Turnover, NEW w \in Workers,
         SameJob(w), at'[w] = "idle" <=> at[w] = "idle"
  PROVE  Serves(w)' /\ Follows(w)' /\ Answered(w)'
<1>1. Serves(w)'
  BY DEF HandlerInv, Serves, SameJob
<1>2. ASSUME job[w] # None
      PROVE  Follows(w)'
  <2>1. step[w] # "idle" /\ reasons'[w] = reasons[w] \cup {Reason(job[w])'}
    BY <1>2, ReasonsGrow
       DEF SameJob, HandlerInv, WorkerTypeOK, Request, Serves, StepsOf
  <2>2. Reason(job[w]) \in reasons[w] /\ job[w].uri \in Files
    BY <2>1, AtWork
  <2>3. CASE found[w] # None /\ index[job[w].uri] = found[w]
    <3>1. Reason(job[w]) # "absent"
      BY <2>3 DEF Reason, exists
    <3>2. index'[job[w].uri] = None => Reason(job[w])' = "absent"
      BY DEF Reason, exists, SameJob
    <3>3. \/ index'[job[w].uri] = found[w]
          \/ "absent" \in reasons'[w] /\ reasons'[w] # {"absent"}
      BY <2>1, <2>2, <2>3, <3>1, <3>2 DEF Turnover
    <3> QED BY <1>2, <2>1, <2>2, <3>3, DisturbedGrows
            DEF HandlerInv, Follows, SameJob, MayDeliver
  <2>4. CASE found[w] = None \/ index[job[w].uri] # found[w]
    BY <1>2, <2>1, <2>2, <2>4, DisturbedGrows
       DEF HandlerInv, Follows, SameJob, MayDeliver
  <2> QED BY <2>3, <2>4
<1>3. job[w] = None => Follows(w)'
  BY DEF Follows, SameJob
<1>4. Answered(w)'
  BY ReasonsGrow, DisturbedGrows
     DEF HandlerInv, Serves, Answered, Deserves, MayDeliver, SameJob
<1> QED BY <1>1, <1>2, <1>3, <1>4

LEMMA AfterGoing ==
  ASSUME HandlerInv, Observe, NEW w \in Workers, NEW to \in Steps \ {"idle"},
         Goes(w, to), UNCHANGED index, to = "signing" <=> at'[w] # "idle"
  PROVE  /\ Serves(w)' /\ Follows(w)' /\ Answered(w)'
         /\ WorkerTypeOK'
         /\ \A v \in Workers \ {w} : SameJob(v)
<1>1. PICK from \in Steps \ {"idle", "signing"} : Continue(w, from, to)
  BY DEF Goes
<1>2. /\ step[w] = from /\ step' = [step EXCEPT ![w] = to]
      /\ UNCHANGED <<job, reply>>
  BY <1>1 DEF Continue
<1>3. /\ job[w] # None /\ job[w].uri \in Files /\ reply[w] = None
      /\ Reason(job[w]) \in reasons[w]
      /\ index[job[w].uri] \in Artifact \cup {None}
      /\ exists(job[w].uri) => index[job[w].uri].file = job[w].uri
  BY <1>2, AtWork
<1>4. reasons'[w] = reasons[w] \cup {Reason(job[w])'}
  BY <1>2, <1>3, ReasonsGrow
<1>5. /\ found' \in [Workers -> Artifact \cup {None}]
      /\ \A v \in Workers \ {w} : found'[v] = found[v]
      /\ \/ found'[w] = found[w]
         \/ exists(job[w].uri) /\ found'[w] = index[job[w].uri]
  BY <1>3 DEF Goes, ReadsNothing, ReadsIndex, exists, HandlerInv, WorkerTypeOK
<1>6. WorkerTypeOK' /\ \A v \in Workers \ {w} : SameJob(v)
  BY <1>2, <1>5 DEF HandlerInv, WorkerTypeOK, SameJob
<1>7. step'[w] = to
  BY <1>2 DEF HandlerInv, WorkerTypeOK
<1>8. Serves(w)'
  BY <1>2, <1>3, <1>5, <1>7 DEF HandlerInv, Serves, Goes, exists
<1>9. Follows(w)'
  BY <1>2, <1>3, <1>4, <1>5, <1>7, DisturbedGrows
     DEF HandlerInv, Follows, Goes, exists, MayDeliver
<1> QED BY <1>2, <1>3, <1>6, <1>8, <1>9 DEF Answered

LEMMA AfterAnswering ==
  ASSUME HandlerInv, Observe, NEW w \in Workers, NEW answer,
         Says(w, answer), at'[w] = "idle"
  PROVE  /\ Serves(w)' /\ Follows(w)' /\ Answered(w)'
         /\ WorkerTypeOK'
         /\ job'[w] = None /\ step'[w] = "idle"
         /\ \A v \in Workers \ {w} : SameJob(v)
<1>1. /\ step' = [step EXCEPT ![w] = "idle"]
      /\ job' = [job EXCEPT ![w] = None]
      /\ found' = [found EXCEPT ![w] = None]
      /\ reply' = [reply EXCEPT ![w] = answer]
      /\ answer \in Answers /\ Deserves(w, answer)
  BY DEF Says, Reply
<1>2. WorkerTypeOK' /\ \A v \in Workers \ {w} : SameJob(v)
  BY <1>1 DEF HandlerInv, WorkerTypeOK, SameJob, Steps
<1>3. /\ job'[w] = None /\ step'[w] = "idle" /\ found'[w] = None
      /\ reply'[w] = answer
  BY <1>1 DEF HandlerInv, WorkerTypeOK
<1>4. reasons'[w] = reasons[w] /\ disturbed'[w] = disturbed[w]
  BY <1>3, ReasonsGrow, DisturbedGrows
<1> QED BY <1>1, <1>2, <1>3, <1>4
        DEF Serves, Follows, Answered, Deserves, MayDeliver, Reading

LEMMA AfterAccepting ==
  ASSUME HandlerInv, Observe, NEW w \in Workers, Accepting(w)
  PROVE  /\ Serves(w)' /\ Follows(w)' /\ Answered(w)'
         /\ WorkerTypeOK'
         /\ step'[w] # "agree"
         /\ UNCHANGED storeVars
         /\ \A v \in Workers \ {w} : SameJob(v)
<1>1. PICK request \in Request :
        /\ job' = [job EXCEPT ![w] = request]
        /\ step' = [step EXCEPT ![w] =
                      CASE request.type = "artifact" -> "getContract"
                        [] request.type = "request" -> "find"
                        [] request.type = "agreement" -> "compare"]
  BY DEF Accepting
<1>2. /\ step[w] = "idle" /\ reply' = [reply EXCEPT ![w] = None]
      /\ UNCHANGED <<found, storeVars>>
  BY DEF Accepting
<1>3. /\ job'[w] = request /\ request # None /\ reply'[w] = None
      /\ request.type \in {"artifact", "request", "agreement"}
      /\ step'[w] = CASE request.type = "artifact" -> "getContract"
                      [] request.type = "request" -> "find"
                      [] request.type = "agreement" -> "compare"
      /\ job[w] = None /\ found'[w] = None
  BY <1>1, <1>2, EntriesAssumption
     DEF HandlerInv, WorkerTypeOK, Serves, Request, StepsOf
<1>4. step'[w] \in StepsOf(request.type) \cap {"getContract", "find", "compare"}
  BY <1>3 DEF StepsOf
<1>5. WorkerTypeOK' /\ \A v \in Workers \ {w} : SameJob(v)
  BY <1>1, <1>2, <1>4 DEF HandlerInv, WorkerTypeOK, SameJob, Steps
<1>6. at'[w] = "idle"
  BY <1>2 DEF storeVars, HandlerInv, Serves
<1>7. Serves(w)' /\ Answered(w)'
  BY <1>3, <1>4, <1>6 DEF Serves, Answered, Reading
<1>8. Reason(job[w])' \in Reasons
  BY ReasonsAre DEF Reason
<1>9. Follows(w)'
  BY <1>3, <1>4, <1>8, ReasonsGrow, DisturbedGrows DEF Follows, Leading
<1> QED BY <1>2, <1>4, <1>5, <1>7, <1>9

-----------------------------------------------------------------------------
(* The invariant holds at first, and every step keeps it.                  *)

LEMMA SelfTurnover ==
  ASSUME SelfInv, [SelfNext]_selfVars
  PROVE  Turnover
<1>1. CASE PutsBack
  BY <1>1 DEF PutsBack, PutBack, Turnover
<1>2. CASE [Next]_vars
  <2>1. index \in [Files -> Artifact \cup {None}]
    BY ManagerInvTypes DEF SelfInv, TypeOK, IndexTypeOK
  <2>2. CASE UNCHANGED index
    BY <2>2 DEF Turnover
  <2>3. CASE AddArtifact
    BY <2>1, <2>3 DEF AddArtifact, addArtifact, exists, Turnover
  <2>4. CASE RemoveArtifact
    BY <2>1, <2>4 DEF RemoveArtifact, removeArtifact, Turnover
  <2>5. UNCHANGED index \/ AddArtifact \/ RemoveArtifact
    BY <1>2 DEF Next, Manager, notifyRemove, notifyAdd, RemoveContract,
       RemoveDescription, RemoveNegotiation, RemoveAttachments,
       PublishRemoval, AddContract, AddDescription, AddNegotiation,
       AlreadyIndexed, Attach, Publish, Throw, managerVars, indexVars, vars
  <2> QED BY <2>2, <2>3, <2>4, <2>5
<1> QED BY <1>1, <1>2, SelfStepCases

LEMMA HandlerKeepsSelf ==
  ASSUME SelfInv, UNCHANGED <<vars, listVars, readerVars, seen, kept, serving>>,
         requests' \in 0..MaxRequests
  PROVE  SelfInv' /\ UNCHANGED <<index, contractIndex>>
<1>1. ManagerInv'
  BY ManagerStepInv DEF SelfInv
<1>2. UNCHANGED <<index, contractIndex>>
  BY DEF vars, managerVars, indexVars
<1> QED BY <1>1, <1>2
        DEF SelfInv, listVars, readerVars, ListTypeOK, ReaderTypeOK,
            HistoryTypeOK

(* A save reads the maps and writes what it has read, or nothing of use.   *)
SaveFollows ==
  /\ \/ file' \in {file, Torn}
     \/ \E w \in Workers : file' = writing[w]
  /\ \A w \in Workers : writing'[w] \in {writing[w], signedContractIndex, Torn}

(* A step within addSignedContract is the thread's own, and enters only    *)
(* what was offered.                                                       *)
LEMMA StoreStepsMove ==
  ASSUME Store!StoreTypeOK, NEW w \in Workers, StoreSteps(w)
  PROVE  /\ UNCHANGED adding /\ at[w] # "idle" /\ at'[w] # "idle"
         /\ adding[w] \in Store!Arguments
         /\ \A v \in Workers \ {w} : at'[v] = at[v]
         /\ SaveFollows
<1>1. PICK from \in Stations \ {"idle"}, to \in Stations \ {"idle"} :
        Store!Step(w, from, to) /\ UNCHANGED adding
  BY DEF StoreSteps, Store!Check, Store!Fresh, Store!Put, Store!PutThrows,
     Store!Open, Store!OpenFails, Store!Write, Store!Close, Stations
<1>2. SaveFollows
  BY DEF StoreSteps, Store!Check, Store!Fresh, Store!Put, Store!PutThrows,
     Store!Open, Store!OpenFails, Store!Write, Store!Close, Store!saveVars,
     Store!StoreTypeOK, SaveFollows
<1> QED BY <1>1, <1>2, StoreMove

LEMMA EntersArguments ==
  ASSUME Store!StoreTypeOK, NEW w \in Workers, StoreSteps(w),
         NEW a \in Artifact, NEW p \in Parties,
         signedContractIndex'[a] # None, signedContractIndex'[a][p] # None
  PROVE  \/ /\ signedContractIndex[a] # None
            /\ signedContractIndex[a][p] = signedContractIndex'[a][p]
         \/ /\ adding[w].target = a
            /\ adding[w].agreement = signedContractIndex'[a][p]
<1>1. /\ adding[w].target \in Artifact /\ adding[w].party \in Parties
      /\ adding[w].agreement \in Agreement
  BY StoreStepsMove DEF Store!Arguments
<1>2. CASE UNCHANGED signedContractIndex
  BY <1>2
<1>3. CASE signedContractIndex' =
             [signedContractIndex EXCEPT ![adding[w].target] = Store!EmptyBucket]
  BY <1>1, <1>3 DEF Store!StoreTypeOK, Store!Memory, Store!EmptyBucket
<1>4. CASE /\ Store!Put(w)
           /\ signedContractIndex' =
                [signedContractIndex EXCEPT
                   ![adding[w].target][adding[w].party] = adding[w].agreement]
  <2> DEFINE t == adding[w].target
             q == adding[w].party
             g == adding[w].agreement
  <2>1. signedContractIndex[t] \in Store!Bucket
    BY <1>1, <1>4 DEF Store!Put, Store!StoreTypeOK, Store!Memory
  <2>2. signedContractIndex' =
          [signedContractIndex EXCEPT ![t] =
             [signedContractIndex[t] EXCEPT ![q] = g]]
    BY <1>4
  <2>3. signedContractIndex[t] # None
    BY <1>4 DEF Store!Put
  <2> HIDE DEF t, q, g
  <2>4. CASE a = t
    <3>1. signedContractIndex'[a] = [signedContractIndex[t] EXCEPT ![q] = g]
      BY <2>2, <2>4 DEF Store!StoreTypeOK, Store!Memory
    <3>2. p = q => signedContractIndex'[a][p] = g
      BY <2>1, <3>1 DEF Store!Bucket
    <3>3. p # q => signedContractIndex'[a][p] = signedContractIndex[a][p]
      BY <2>1, <2>4, <3>1 DEF Store!Bucket
    <3> QED BY <2>3, <2>4, <3>2, <3>3 DEF t, g
  <2>5. CASE a # t
    BY <2>2, <2>5 DEF Store!StoreTypeOK, Store!Memory
  <2> QED BY <2>4, <2>5
<1> QED BY <1>2, <1>3, <1>4 DEF StoreSteps, Store!Check, Store!Fresh,
           Store!Put, Store!PutThrows, Store!Open, Store!OpenFails,
           Store!Write, Store!Close

LEMMA PutOffered ==
  ASSUME HandlerInv, NEW w \in Workers, StoreSteps(w)
  PROVE  AllOffered(signedContractIndex')
<1> SUFFICES ASSUME NEW a \in Artifact, NEW p \in Parties,
                    signedContractIndex'[a] # None,
                    signedContractIndex'[a][p] # None
             PROVE  WasOffered(a.file, signedContractIndex'[a][p].text)
  BY DEF AllOffered
<1>1. adding[w] # None
  BY StoreStepsMove, EntriesAssumption DEF HandlerInv
<1> QED BY <1>1, EntersArguments
        DEF HandlerInv, OfferedInv, AllOffered

(* After a step that calls nothing and enters nothing that was not offered *)
(* all that is agreed was offered.                                         *)
LEMMA OfferedStep ==
  ASSUME HandlerInv, Observe,
         \A w \in Workers :
           step'[w] = "agree" =>
             \/ step[w] = "agree" /\ job'[w] = job[w]
             \/ WasOffered(job'[w].uri, job'[w].terms),
         \A w \in Workers :
           adding'[w] # None =>
             \/ adding'[w] = adding[w]
             \/ WasOffered(adding'[w].target.file, adding'[w].agreement.text),
         AllOffered(signedContractIndex'),
         SaveFollows
  PROVE  OfferedInv'
<1>1. \A w \in Workers :
        step'[w] = "agree" => WasOffered(job'[w].uri, job'[w].terms)
  BY DEF HandlerInv, OfferedInv
<1>2. \A w \in Workers :
        adding'[w] # None =>
          WasOffered(adding'[w].target.file, adding'[w].agreement.text)
  BY DEF HandlerInv, OfferedInv
<1>3. Torn \notin Store!Memory
  BY EntriesAssumption
<1>4. file' \in Store!Memory => AllOffered(file')
  BY <1>3 DEF HandlerInv, OfferedInv, SaveFollows
<1>5. \A w \in Workers :
        writing'[w] \in Store!Memory => AllOffered(writing'[w])
  BY <1>3 DEF HandlerInv, OfferedInv, SaveFollows
<1> QED BY <1>1, <1>2, <1>4, <1>5, OfferedGrows DEF OfferedInv

LEMMA HandlerStep ==
  ASSUME HandlerInv, Observe, NEW w \in Workers, Handler(w),
         UNCHANGED <<vars, listVars, readerVars, seen, kept>>
  PROVE  HandlerInv'
<1> USE DEF HandlerInv
<1>1. HandlerCase(w)
  BY HandlerCases
<1>2. SelfInv' /\ UNCHANGED <<index, contractIndex>>
  <2>1. UNCHANGED serving
    BY <1>1 DEF HandlerCase, Accepting, Stay, handlerVars
  <2>2. requests' \in 0..MaxRequests
    BY <1>1, ReadersAssumption
       DEF HandlerCase, Accepting, Stay, handlerVars, SelfInv, ListTypeOK
  <2> QED BY <2>1, <2>2, HandlerKeepsSelf
<1>3. HistoryOK'
  BY <1>2, HistoryStep
<1>4. Turnover
  BY <1>2 DEF Turnover
<1>5. CASE Accepting(w)
  <2>1. /\ Serves(w)' /\ Follows(w)' /\ Answered(w)' /\ WorkerTypeOK'
        /\ step'[w] # "agree" /\ UNCHANGED storeVars
        /\ \A v \in Workers \ {w} : SameJob(v)
    BY <1>5, AfterAccepting
  <2>2. Store!StoreTypeOK' /\ at' = at
    BY <2>1 DEF storeVars, Store!StoreTypeOK
  <2>3. OfferedInv'
    BY <2>1, OfferedStep DEF OfferedInv, SaveFollows, storeVars, SameJob
  <2> QED BY <1>2, <1>3, <1>4, <2>1, <2>2, <2>3, StaysAlone
<1>6. CASE (\E to \in Steps \ {"idle", "signing"} : Goes(w, to)) /\ Stay
  <2>1. PICK to \in Steps \ {"idle", "signing"} : Goes(w, to)
    BY <1>6
  <2>2. Store!StoreTypeOK' /\ UNCHANGED storeVars /\ at' = at
    BY <1>6 DEF Stay, storeVars, Store!StoreTypeOK
  <2>3. at[w] = "idle"
    BY <2>1 DEF Goes, Continue, Serves
  <2>4. /\ Serves(w)' /\ Follows(w)' /\ Answered(w)' /\ WorkerTypeOK'
        /\ \A v \in Workers \ {w} : SameJob(v)
    BY <1>2, <2>1, <2>2, <2>3, AfterGoing
  <2>5. step'[w] = "agree" => WasOffered(job'[w].uri, job'[w].terms)
    BY <2>1 DEF Goes, Continue, WorkerTypeOK
  <2>6. OfferedInv'
    BY <2>2, <2>4, <2>5, OfferedStep DEF OfferedInv, SaveFollows, storeVars, SameJob
  <2> QED BY <1>2, <1>3, <1>4, <2>2, <2>4, <2>6, StaysAlone
<1>7. CASE (\E answer : Says(w, answer)) /\ step[w] # "signing" /\ Stay
  <2>1. PICK answer : Says(w, answer)
    BY <1>7
  <2>2. Store!StoreTypeOK' /\ UNCHANGED storeVars /\ at' = at
    BY <1>7 DEF Stay, storeVars, Store!StoreTypeOK
  <2>3. at'[w] = "idle"
    BY <1>7, <2>2 DEF Serves
  <2>4. /\ Serves(w)' /\ Follows(w)' /\ Answered(w)' /\ WorkerTypeOK'
        /\ step'[w] = "idle"
        /\ \A v \in Workers \ {w} : SameJob(v)
    BY <2>1, <2>3, AfterAnswering
  <2>5. OfferedInv'
    BY <2>2, <2>4, OfferedStep DEF OfferedInv, SaveFollows, storeVars, SameJob
  <2> QED BY <1>2, <1>3, <1>4, <2>2, <2>4, <2>5, StaysAlone
<1>8. CASE Signs(w)
  <2>1. PICK t \in Artifact, a \in Agreement :
          /\ Store!addSignedContract(w, t, job[w].party, a)
          /\ WasOffered(t.file, a.text)
    BY <1>8 DEF Signs
  <2>2. step[w] # "idle" /\ Goes(w, "signing")
    BY <1>8 DEF Signs, Goes, Continue
  <2>3. job[w].party \in Parties
    BY <2>2, AtWork
  <2>4. /\ Store!StoreTypeOK' /\ at'[w] = "check"
        /\ adding'[w].target = t /\ adding'[w].agreement = a
        /\ \A v \in Workers \ {w} : at'[v] = at[v] /\ adding'[v] = adding[v]
        /\ UNCHANGED signedContractIndex
    BY <2>1, <2>3, StoreAddType
  <2>5. SaveFollows
    BY <2>1 DEF Store!addSignedContract, Store!saveVars, SaveFollows
  <2>6. /\ Serves(w)' /\ Follows(w)' /\ Answered(w)' /\ WorkerTypeOK'
        /\ \A v \in Workers \ {w} : SameJob(v)
    BY <1>2, <2>2, <2>4, AfterGoing DEF Steps
  <2>7. step'[w] # "agree"
    BY <2>2 DEF Goes, Continue, WorkerTypeOK
  <2>8. OfferedInv'
    BY <2>1, <2>4, <2>5, <2>6, <2>7, OfferedStep DEF OfferedInv, SameJob
  <2> QED BY <1>2, <1>3, <1>4, <2>4, <2>6, <2>8, StaysAlone
<1>9. CASE step[w] = "signing" /\ StoreSteps(w) /\ UNCHANGED handlerVars
  <2>1. Store!StoreTypeOK'
    BY <1>9, StoreStepsType
  <2>2. /\ UNCHANGED adding /\ \A v \in Workers : at'[v] = "idle" <=> at[v] = "idle"
        /\ SaveFollows
        /\ AllOffered(signedContractIndex')
    BY <1>9, StoreStepsMove, PutOffered
  <2>3. WorkerTypeOK' /\ \A v \in Workers : SameJob(v)
    BY <1>9 DEF handlerVars, workerVars, WorkerTypeOK, SameJob
  <2>4. OfferedInv'
    BY <2>2, <2>3, OfferedStep DEF SameJob
  <2> QED BY <1>2, <1>3, <1>4, <2>1, <2>2, <2>3, <2>4, StaysAlone
<1>10. CASE /\ step[w] = "signing" /\ (\E answer : Says(w, answer))
            /\ Store!Leave(w)
  <2>1. PICK answer : Says(w, answer)
    BY <1>10
  <2>2. Store!StoreTypeOK'
    BY <1>10, StoreLeaveType
  <2>3. /\ at'[w] = "idle" /\ adding'[w] = None
        /\ \A v \in Workers \ {w} : at'[v] = at[v] /\ adding'[v] = adding[v]
        /\ UNCHANGED signedContractIndex
        /\ SaveFollows
    BY <1>10 DEF Store!Leave, Store!saveVars, Store!StoreTypeOK, SaveFollows
  <2>4. /\ Serves(w)' /\ Follows(w)' /\ Answered(w)' /\ WorkerTypeOK'
        /\ step'[w] = "idle"
        /\ \A v \in Workers \ {w} : SameJob(v)
    BY <2>1, <2>3, AfterAnswering
  <2>5. OfferedInv'
    BY <2>3, <2>4, OfferedStep DEF OfferedInv, SameJob
  <2> QED BY <1>2, <1>3, <1>4, <2>2, <2>3, <2>4, <2>5, StaysAlone
<1> QED BY <1>1, <1>5, <1>6, <1>7, <1>8, <1>9, <1>10 DEF HandlerCase

LEMMA SelfStep ==
  ASSUME HandlerInv, Observe, [SelfNext]_selfVars,
         UNCHANGED <<workerVars, storeVars>>
  PROVE  HandlerInv'
<1>1. SelfInv' /\ Turnover
  BY SelfStepInv, SelfTurnover DEF HandlerInv
<1>2. HistoryOK'
  BY <1>1, HistoryStep
<1>3. /\ Store!StoreTypeOK' /\ WorkerTypeOK'
      /\ \A w \in Workers : SameJob(w) /\ SameCall(w)
  BY DEF HandlerInv, storeVars, workerVars, Store!StoreTypeOK, WorkerTypeOK,
     SameJob, SameCall
<1>4. OfferedInv'
  BY <1>3, OfferedStep
     DEF HandlerInv, OfferedInv, SaveFollows, storeVars, SameJob, SameCall
<1> QED BY <1>1, <1>2, <1>3, <1>4, StaysAlone DEF HandlerInv, SameCall

(* A step that changes nothing adds no reason.                             *)
LEMMA StutterObserves ==
  ASSUME HandlerInv, UNCHANGED connectorVars
  PROVE  Observe
<1>1. UNCHANGED <<job, offered, reasons, disturbed, index, contractIndex,
                  signedContractIndex, pc, call>>
  BY DEF connectorVars, selfVars, vars, watcherVars, managerVars, indexVars,
     workerVars, storeVars
<1>2. /\ \A w \in Workers : Reason(job[w])' = Reason(job[w])
      /\ Disturbing' = Disturbing
  BY <1>1 DEF Reason, exists, hasContract, Store!hasSignedContract, Disturbing
<1>3. ASSUME NEW w \in Workers
      PROVE  reasons[w] = IF job'[w] = None THEN reasons[w]
                          ELSE (IF job[w] = None THEN {} ELSE reasons[w])
                                 \cup {Reason(job[w])'}
  BY <1>1, <1>2 DEF HandlerInv, Follows
<1>4. ASSUME NEW w \in Workers, job[w] # None
      PROVE  disturbed[w] <=> /\ job[w].type = "request"
                              /\ disturbed[w] \/ Disturbing
  BY <1>4 DEF HandlerInv, Follows
<1>5. disturbed' =
        [w \in Workers |->
           IF job'[w] = None THEN disturbed[w]
           ELSE /\ job'[w].type = "request"
                /\ (job[w] # None /\ disturbed[w]) \/ Disturbing']
  BY <1>1, <1>2, <1>4 DEF HandlerInv, HistoryOK
<1> QED BY <1>1, <1>3, <1>5 DEF Observe, HandlerInv, HistoryOK

LEMMA HandlerInvStep ==
  ASSUME HandlerInv, [ConnectorNext]_connectorVars
  PROVE  HandlerInv'
<1>1. CASE UNCHANGED connectorVars
  BY <1>1, StutterObserves, SelfStep DEF connectorVars
<1>2. CASE SelfNext /\ UNCHANGED <<workerVars, storeVars>> /\ Observe
  BY <1>2, SelfStep
<1>3. CASE /\ \E w \in Workers : Handler(w)
           /\ UNCHANGED <<vars, listVars, readerVars, seen, kept>>
           /\ Observe
  BY <1>3, HandlerStep
<1> QED BY <1>1, <1>2, <1>3 DEF ConnectorNext

LEMMA HandlerInvInit == ConnectorInit => HandlerInv
<1> SUFFICES ASSUME ConnectorInit PROVE HandlerInv
  OBVIOUS
<1>1. SelfInv
  BY SelfInitInv DEF ConnectorInit
<1>2. Store!StoreTypeOK
  BY EntriesAssumption DEF ConnectorInit, Store!StoreInit, Store!StoreTypeOK,
     Store!Memory, Store!Bucket, Store!Empty
<1>3. WorkerTypeOK /\ HistoryOK
  BY DEF ConnectorInit, WorkerTypeOK, HistoryOK, Steps
<1>4. \A w \in Workers : Serves(w) /\ Follows(w) /\ Answered(w)
  BY DEF ConnectorInit, Serves, Follows, Answered, Reading, Store!StoreInit
<1>5. OfferedInv
  <2>1. /\ file \notin Store!Memory
        /\ \A w \in Workers : writing[w] \notin Store!Memory
    BY EntriesAssumption DEF ConnectorInit, Store!StoreInit
  <2> QED BY <2>1 DEF ConnectorInit, SelfInit, Init, IndexInit, OfferedInv,
             hasContract, AllOffered, Store!StoreInit, Store!Empty
<1> QED BY <1>1, <1>2, <1>3, <1>4, <1>5 DEF HandlerInv

(* The types of all state, where each thread is, what it may conclude from *)
(* there, and that terms are on their way only if they were offered.       *)
THEOREM HandlerInvariant == ConnectorSpec => []HandlerInv
BY HandlerInvInit, HandlerInvStep, PTL DEF ConnectorSpec

(* Handlers stay within their types: a request is never answered with the  *)
(* maps of an artifact that was not found (the unlocked reads of the index *)
(* in ArtifactWithContractHandler and ContractUtil).                       *)
THEOREM ConnectorTypesHold == ConnectorSpec => []ConnectorTypeOK
BY HandlerInvariant, HandlerInvTypes, PTL

(* For any number of threads, files and consumers: an artifact is sent     *)
(* without an agreement only if at some moment of the request the index    *)
(* held no contract for it, or not the artifact itself                     *)
(* (ArtifactWithContractHandler.handle).                                   *)
THEOREM DeliveriesHaveReasons == ConnectorSpec => []DeliveryHadReason
BY HandlerInvariant, HandlerInvAnswers, PTL

(* And a request for which one reason held all the while gets the answer   *)
(* that reason speaks for, or an error, in all three handlers: but for a   *)
(* contract request answered NOT_FOUND because an artifact came or went    *)
(* meanwhile.                                                              *)
THEOREM AnswersAreSteady == ConnectorSpec => []SteadyAnswers
BY HandlerInvariant, HandlerInvAnswers, PTL

(* Whatever is signed was offered for the file, but for dates and the      *)
(* like, whatever texts contracts have (ContractUtil with the handlers).   *)
THEOREM TermsWereOffered == ConnectorSpec => []AgreedTermsWereOffered
BY HandlerInvariant, HandlerInvTerms, PTL

=============================================================================
