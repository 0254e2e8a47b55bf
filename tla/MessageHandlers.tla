-------------------------- MODULE MessageHandlers --------------------------
(***************************************************************************)
(* The handlers of ArtifactRequestMessage, ContractRequestMessage and      *)
(* ContractAgreementMessage (ArtifactWithContractHandler,                  *)
(* ContractRequestMessageHandler, ContractAgreementMessageHandler and the  *)
(* ContractUtil they use), beside the change manager that changes the      *)
(* index they read.                                                        *)
(*                                                                         *)
(* A handler runs in the thread of its request and takes no lock: every    *)
(* access to the index is a step of its own, and what it has read may be   *)
(* stale when it is used.  The artifact a request is about is named by its *)
(* URI, which the file name fixes; a requested contract or an agreement is *)
(* made of a text that an offer may have too, or may differ from in some   *)
(* lines (LinesOf).  step[w] says where thread w is:                       *)
(*   idle         waiting for a request                                    *)
(*   getContract  in getContract, about to look the artifact up            *)
(*   hasContract  in getContract, about to ask for the artifact's contract *)
(*   contractId   in getContract, about to fetch the contract              *)
(*   target       about to look up the artifact that has a contract        *)
(*   checkSigned  about to look for an agreement                           *)
(*   deliver      about to look up the file and send it                    *)
(*   find         about to look for the file a contract is requested for   *)
(*   compare      in compareWithIndex, about to look the artifact up       *)
(*   compareOffer in compareWithIndex, about to fetch the artifact's offer *)
(*   accept       in acceptContractOffer, about to look the artifact up    *)
(*   makeAgreement in createNewContractAgreement, about to fetch the offer *)
(*   decline      in createDefaultOffer, about to look the artifact up     *)
(*   makeOffer    in createNewContractOffer, about to fetch the offer      *)
(*   agree        about to look up the artifact of an accepted agreement   *)
(*   signing      in addSignedContract                                     *)
(***************************************************************************)
EXTENDS SelfDescription, ContractComparison

CONSTANTS
  Workers,      \* threads that answer requests
  Parties,      \* consumers
  LinesOf,      \* the lines of a contract with a given text
  DiskFails,    \* see SignedContractStore
  Missing,
  Torn

ASSUME HandlersAssumption == LinesOf \in [Versions -> SUBSET Lines]

VARIABLES
  job,          \* the request a thread is answering, or None
  step,         \* where the thread is
  found,        \* the artifact it looked up last, or None
  reply,        \* its last answer, or None
  offered,      \* history: the offers an artifact ever had
  reasons,      \* history: what spoke for an answer since the request came
  disturbed,    \* history: whether artifacts came or went since a request
                \* for a contract came
  signedContractIndex, file, at, adding, overlapped, writing, settled, spoilt

storeVars ==
  <<signedContractIndex, file, at, adding, settled, overlapped, writing, spoilt>>
workerVars == <<job, step, found, reply>>
handlerVars == <<serving, requests, workerVars>>
connectorVars ==
  <<selfVars, workerVars, offered, reasons, disturbed, storeVars>>

Agreement == [text : Text, target : Files]

Store ==
  INSTANCE SignedContractStore WITH
    Targets <- Artifact, Agreements <- Agreement, Writers <- Workers

Request ==
  [type : {"artifact"}, uri : Files, party : Parties, terms : {None}]
    \cup [type : {"request", "agreement"}, uri : Files, party : Parties,
          terms : {t \in Text : t.of.kind = "contract"}]

(* An error is INTERNAL_RECIPIENT_ERROR, or an exception that leaves the   *)
(* handler.                                                                *)
Answers ==
  {"artifact", "NOT_AUTHORIZED", "NOT_FOUND", "agreement", "offer",
   "success", "rejection", "error"}

(* What is kept of a request or an agreement is not mistaken for nothing.  *)
ASSUME EntriesAssumption ==
  /\ DiskFails \in BOOLEAN
  /\ None \notin Request \cup Answers
  /\ None \notin Agreement \cup Store!Bucket \cup Store!Arguments
  /\ Missing # Torn
  /\ {Missing, Torn} \cap Store!Memory = {}

(* The answers each reason speaks for.                                     *)
RightAnswers ==
  [absent |-> {"NOT_FOUND"}, free |-> {"artifact"}, agreed |-> {"artifact"},
   refused |-> {"NOT_AUTHORIZED"}, noOffer |-> {},
   equal |-> {"agreement", "success"}, different |-> {"offer", "rejection"}]

Reasons == DOMAIN RightAnswers

Steps ==
  {"idle", "getContract", "hasContract", "contractId", "target",
   "checkSigned", "deliver", "find", "compare", "compareOffer", "accept",
   "makeAgreement", "decline", "makeOffer", "agree", "signing"}

(* The steps that read the maps of the artifact looked up before.          *)
Reading ==
  {"hasContract", "contractId", "checkSigned", "compareOffer",
   "makeAgreement", "makeOffer"}

(* The steps that go through the artifacts.                                *)
LookingUp ==
  {"getContract", "target", "deliver", "find", "compare", "accept", "decline",
   "agree"}

ConnectorTypeOK ==
  /\ Store!StoreTypeOK
  /\ SelfTypeOK
  /\ job \in [Workers -> Request \cup {None}]
  /\ step \in [Workers -> Steps]
  /\ found \in [Workers -> Artifact \cup {None}]
  /\ reply \in [Workers -> Answers \cup {None}]
  /\ offered \subseteq Files \X Text
  /\ reasons \in [Workers -> SUBSET Reasons]
  /\ disturbed \in [Workers -> BOOLEAN]
  /\ \A w \in Workers :
       /\ job[w] = None <=> step[w] = "idle"
       /\ step[w] \in Reading => found[w] # None
       /\ step[w] = "signing" <=> at[w] # "idle"

ConnectorInit ==
  /\ SelfInit
  /\ Store!StoreInit
  /\ job = [w \in Workers |-> None]
  /\ step = [w \in Workers |-> "idle"]
  /\ found = [w \in Workers |-> None]
  /\ reply = [w \in Workers |-> None]
  /\ offered = {}
  /\ reasons = [w \in Workers |-> {}]
  /\ disturbed = [w \in Workers |-> FALSE]

-----------------------------------------------------------------------------
FoundEqual(text, terms) ==
  compareWithIndex(LinesOf[text.ver], LinesOf[terms.ver])

(* What speaks for an answer, as long as nothing changes.                  *)
Reason(request) ==
  LET a == index[request.uri] IN
    IF ~exists(request.uri) THEN "absent"
    ELSE IF request.type = "artifact" THEN
      IF ~hasContract(a) THEN "free"
      ELSE IF Store!hasSignedContract(a, request.party) THEN "agreed"
      ELSE "refused"
    ELSE IF ~hasContract(a) THEN "noOffer"
    ELSE IF FoundEqual(contractIndex[a].text, request.terms) THEN "equal"
    ELSE "different"

(* The change manager is adding or removing an artifact.                   *)
Disturbing == pc \in {"attach", "publishRemoval"} /\ call.name \in Files

(* The history variables follow every step.                                *)
Observe ==
  /\ IF contractIndex' = contractIndex
       THEN UNCHANGED offered
       ELSE offered' = offered \cup
              {<<a.file, contractIndex'[a].text>> :
                 a \in {b \in Artifact : contractIndex'[b] # None}}
  /\ reasons' =
       [w \in Workers |->
          IF job'[w] = None THEN reasons[w]
          ELSE (IF job[w] = None THEN {} ELSE reasons[w])
                 \cup {Reason(job[w])'}]
  /\ disturbed' =
       [w \in Workers |->
          IF job'[w] = None THEN disturbed[w]
          ELSE /\ job'[w].type = "request"
               /\ (job[w] # None /\ disturbed[w]) \/ Disturbing']

-----------------------------------------------------------------------------
(* The shape of a step.                                                    *)

Continue(w, from, to) ==
  /\ step[w] = from
  /\ step' = [step EXCEPT ![w] = to]
  /\ UNCHANGED <<job, reply>>

Reply(w, from, answer) ==
  /\ step[w] = from
  /\ step' = [step EXCEPT ![w] = "idle"]
  /\ job' = [job EXCEPT ![w] = None]
  /\ found' = [found EXCEPT ![w] = None]
  /\ reply' = [reply EXCEPT ![w] = answer]

(* artifactIndex.getArtifactAsObject(uri).get()                            *)
LookUp(w, from, to) ==
  \/ /\ Continue(w, from, to)
     /\ exists(job[w].uri)
     /\ found' = [found EXCEPT ![w] = index[job[w].uri]]
  \/ /\ Reply(w, from, "error")
     /\ ~exists(job[w].uri)

Stay == UNCHANGED <<serving, requests>> /\ UNCHANGED storeVars

Accepting(w) ==
  /\ serving
  /\ step[w] = "idle"
  /\ requests < MaxRequests
  /\ requests' = requests + 1
  /\ \E request \in Request :
       /\ job' = [job EXCEPT ![w] = request]
       /\ step' = [step EXCEPT ![w] =
                     CASE request.type = "artifact" -> "getContract"
                       [] request.type = "request" -> "find"
                       [] request.type = "agreement" -> "compare"]
  /\ reply' = [reply EXCEPT ![w] = None]
  /\ UNCHANGED <<serving, found, storeVars>>

-----------------------------------------------------------------------------
(* ArtifactWithContractHandler.                                            *)

(* Without artifact.isPresent().                                           *)
GetContractUnchecked(w) ==
  /\ Continue(w, "getContract", "hasContract")
  /\ found' = [found EXCEPT ![w] = index[job[w].uri]]
  /\ Stay

GetContract(w) ==
  /\ \/ /\ Continue(w, "getContract", "hasContract")
        /\ exists(job[w].uri)
        /\ found' = [found EXCEPT ![w] = index[job[w].uri]]
     \/ /\ Continue(w, "getContract", "deliver")
        /\ ~exists(job[w].uri)
        /\ UNCHANGED found
  /\ Stay

HasContract(w) ==
  /\ \/ Continue(w, "hasContract", "contractId") /\ hasContract(found[w])
     \/ Continue(w, "hasContract", "deliver") /\ ~hasContract(found[w])
  /\ UNCHANGED found
  /\ Stay

(* The contract may be gone by now: a NullPointerException.                *)
ContractId(w) ==
  /\ \/ /\ Continue(w, "contractId", "target")
        /\ hasContract(found[w])
        /\ UNCHANGED found
     \/ /\ Reply(w, "contractId", "error")
        /\ ~hasContract(found[w])
  /\ Stay

Target(w) == LookUp(w, "target", "checkSigned") /\ Stay

(* Without the rejection at the end.                                       *)
CheckSignedInVain(w) ==
  /\ Continue(w, "checkSigned", "deliver")
  /\ UNCHANGED found
  /\ Stay

(* An agreement with anybody will do.                                      *)
CheckSignedByAnyone(w) ==
  LET signed == signedContractIndex[found[w]] # None IN
    /\ \/ /\ Continue(w, "checkSigned", "deliver")
          /\ signed
          /\ UNCHANGED found
       \/ /\ Reply(w, "checkSigned", "NOT_AUTHORIZED")
          /\ ~signed
    /\ Stay

CheckSigned(w) ==
  /\ \/ /\ Continue(w, "checkSigned", "deliver")
        /\ Store!hasSignedContract(found[w], job[w].party)
        /\ UNCHANGED found
     \/ /\ Reply(w, "checkSigned", "NOT_AUTHORIZED")
        /\ ~Store!hasSignedContract(found[w], job[w].party)
  /\ Stay

Deliver(w) ==
  /\ \/ Reply(w, "deliver", "artifact") /\ exists(job[w].uri)
     \/ Reply(w, "deliver", "NOT_FOUND") /\ ~exists(job[w].uri)
  /\ Stay

-----------------------------------------------------------------------------
(* ContractUtil.compareWithIndex, in the two other handlers.               *)

Compare(w) == LookUp(w, "compare", "compareOffer") /\ Stay

(* Agreements are not compared.                                            *)
CompareRequestsOnly(w) ==
  LET offer == contractIndex[found[w]]
      from == "compareOffer" IN
    /\ \/ /\ step[w] = from
          /\ offer # None
          /\ \/ FoundEqual(offer.text, job[w].terms)
             \/ job[w].type = "agreement"
          /\ Continue(w, from,
               IF job[w].type = "request" THEN "accept" ELSE "agree")
          /\ UNCHANGED found
       \/ /\ step[w] = from
          /\ offer # None
          /\ ~FoundEqual(offer.text, job[w].terms)
          /\ job[w].type = "request"
          /\ Continue(w, from, "decline")
          /\ UNCHANGED found
       \/ /\ Reply(w, from, "error")
          /\ offer = None
    /\ Stay

CompareOffer(w) ==
  LET offer == contractIndex[found[w]]
      from == "compareOffer" IN
    /\ \/ /\ step[w] = from
          /\ offer # None
          /\ FoundEqual(offer.text, job[w].terms)
          /\ Continue(w, from,
               IF job[w].type = "request" THEN "accept" ELSE "agree")
          /\ UNCHANGED found
       \/ /\ step[w] = from
          /\ offer # None
          /\ ~FoundEqual(offer.text, job[w].terms)
          /\ \/ /\ job[w].type = "request"
                /\ Continue(w, from, "decline")
                /\ UNCHANGED found
             \/ /\ job[w].type = "agreement"
                /\ \E answer \in {"rejection", "error"} :
                     Reply(w, from, answer)
       \/ /\ Reply(w, from, "error")
          /\ offer = None
    /\ Stay

-----------------------------------------------------------------------------
(* ContractRequestMessageHandler.                                          *)

Find(w) ==
  /\ \/ /\ Continue(w, "find", "compare")
        /\ exists(job[w].uri)
        /\ UNCHANGED found
     \/ /\ Reply(w, "find", "NOT_FOUND")
        /\ ~exists(job[w].uri)
  /\ Stay

Accept(w) == LookUp(w, "accept", "makeAgreement") /\ Stay

(* The agreement is made of the offer as it is now.                        *)
MakeAgreement(w) ==
  LET offer == contractIndex[found[w]] IN
    \/ /\ step[w] = "makeAgreement"
       /\ offer # None
       /\ Continue(w, "makeAgreement", "signing")
       /\ Store!addSignedContract(w, found[w], job[w].party,
            [text |-> offer.text, target |-> offer.target])
       /\ UNCHANGED <<serving, requests, found>>
    \/ /\ Reply(w, "makeAgreement", "error")
       /\ offer = None
       /\ Stay

(* The artifact is looked up twice in a row; the second result is used.    *)
Decline(w) == LookUp(w, "decline", "makeOffer") /\ Stay

MakeOffer(w) ==
  /\ \/ Reply(w, "makeOffer", "offer") /\ hasContract(found[w])
     \/ Reply(w, "makeOffer", "error") /\ ~hasContract(found[w])
  /\ Stay

-----------------------------------------------------------------------------
(* ContractAgreementMessageHandler.                                        *)

(* The agreement is entered under the artifact as it is now.               *)
Agree(w) ==
  \/ /\ Continue(w, "agree", "signing")
     /\ exists(job[w].uri)
     /\ Store!addSignedContract(w, index[job[w].uri], job[w].party,
          [text |-> job[w].terms, target |-> job[w].uri])
     /\ UNCHANGED <<serving, requests, found>>
  \/ /\ Reply(w, "agree", "error")
     /\ ~exists(job[w].uri)
     /\ Stay

-----------------------------------------------------------------------------
(* addSignedContract, and the answer after it.                             *)

Signing(w) ==
  /\ step[w] = "signing"
  /\ \/ Store!Check(w)
     \/ Store!Fresh(w)
     \/ Store!Put(w)
     \/ Store!PutThrows(w)
     \/ Store!Open(w)
     \/ Store!OpenFails(w)
     \/ Store!Write(w)
     \/ Store!Close(w)
  /\ UNCHANGED handlerVars

Signed(w) ==
  /\ Store!Leave(w)
  /\ \/ at[w] = "failed" /\ Reply(w, "signing", "error")
     \/ /\ at[w] = "done"
        /\ \/ /\ job[w].type = "request"
              /\ Reply(w, "signing", "agreement")
           \/ /\ job[w].type = "agreement"
              /\ Reply(w, "signing", "success")
  /\ UNCHANGED <<serving, requests>>

(* Every answer but a rejection thrown needs a security token, and fetches *)
(* it before it signs or sends anything.                                   *)
NoToken(w) ==
  /\ \E from \in {"deliver", "makeAgreement", "makeOffer", "agree"} :
       Reply(w, from, "error")
  /\ Stay

(* A look-up that goes through the artifacts while the change manager adds *)
(* or removes one ends in a ConcurrentModificationException, which a       *)
(* contract request that looks for its file takes for a file not found; a  *)
(* read of the agreement, to label the answer, in a NullPointerException   *)
(* if the map it was in has just been replaced.                            *)
Disturbed(w) ==
  /\ \/ /\ Disturbing
        /\ \/ \E from \in LookingUp \ {"find"} : Reply(w, from, "error")
           \/ Reply(w, "find", "NOT_FOUND")
     \/ /\ Reply(w, "target", "error")
        /\ \E v \in Workers \ {w} :
             at[v] = "put" /\ adding[v].target.file = job[w].uri
  /\ Stay

-----------------------------------------------------------------------------
Handler(w) ==
  \/ Accepting(w)
  \/ GetContract(w)
  \/ HasContract(w)
  \/ ContractId(w)
  \/ Target(w)
  \/ CheckSigned(w)
  \/ Deliver(w)
  \/ Find(w)
  \/ Compare(w)
  \/ CompareOffer(w)
  \/ Accept(w)
  \/ MakeAgreement(w)
  \/ Decline(w)
  \/ MakeOffer(w)
  \/ Agree(w)
  \/ Signing(w)
  \/ Signed(w)
  \/ NoToken(w)
  \/ Disturbed(w)

ConnectorNext ==
  /\ \/ SelfNext /\ UNCHANGED <<workerVars, storeVars>>
     \/ /\ \E w \in Workers : Handler(w)
        /\ UNCHANGED <<vars, listVars, readerVars, seen, kept>>
  /\ Observe

ConnectorSpec == ConnectorInit /\ [][ConnectorNext]_connectorVars

-----------------------------------------------------------------------------
(* An artifact is sent to a party without an agreement only if, at some    *)
(* moment since the request came, the index held no contract for it, or    *)
(* not the artifact itself, however the artifact, its contract and the     *)
(* agreements about it changed between the reads of                        *)
(* ArtifactWithContractHandler.handle.                                     *)
DeliveryHadReason ==
  \A w \in Workers :
    reply[w] = "artifact" => {"free", "agreed", "absent"} \cap reasons[w] # {}

(* A request for which one answer is right all the while, and for the same *)
(* reason, is given that answer, or an error: changes that leave the       *)
(* reason alone (of other files, of agreements of other parties, of what   *)
(* the index keeps of earlier artifacts) do not mislead any handler.  One  *)
(* exception is what the code does: a contract request may be told         *)
(* NOT_FOUND of a file that was there all along, but only if an artifact   *)
(* was added or removed meanwhile.                                         *)
SteadyAnswers ==
  \A w \in Workers :
    reply[w] # None =>
      \A reason \in Reasons :
        reasons[w] = {reason} =>
          \/ reply[w] \in RightAnswers[reason] \cup {"error"}
          \/ disturbed[w] /\ reply[w] = "NOT_FOUND"

SameTerms(text1, text2) ==
  Terms(LinesOf[text1.ver]) = Terms(LinesOf[text2.ver])

(* Whatever is signed about an artifact agrees, but for dates and the like, *)
(* with what was at some time offered for its file: no interleaving of     *)
(* compareWithIndex, createNewContractAgreement and addSignedContract with *)
(* changes of the directory enters terms nobody offered.                   *)
AgreedTermsWereOffered ==
  \A a \in Artifact, p \in Parties :
    Store!hasSignedContract(a, p) =>
      \E text \in Text :
        /\ <<a.file, text>> \in offered
        /\ SameTerms(text, Store!getSignedContract(a, p).text)
-----------------------------------------------------------------------------
(* What the documentation says, and the code does not do.                  *)

(* ArtifactWithContractHandler.java:74: "If Artifact has a Contract        *)
(* attached, search for a Contract Agreement or Reject".  There is a       *)
(* moment at which sending the artifact is what this says.                 *)
DeliveryWasRight ==
  \A w \in Workers :
    reply[w] = "artifact" => {"free", "agreed"} \cap reasons[w] # {}

(* README.md:133: "For contract negotiation acceptance it converts the   *)
(* request to final agreement".  The terms signed are those requested.     *)
AgreementFollowsRequest ==
  \A w \in Workers :
    step[w] = "signing" /\ job[w].type = "request" =>
      SameTerms(adding[w].agreement.text, job[w].terms)

(* README.md:121: "The generation of artifact response is dependent on     *)
(* whether the request has a valid contract or not".  An agreement that is *)
(* confirmed to its consumer is there when the artifact is requested.      *)
ConfirmedAgreementIsHeld ==
  [][\A w \in Workers :
       Store!Leave(w) /\ reply'[w] \in {"agreement", "success"} =>
         Store!hasSignedContract(adding[w].target, adding[w].party)
     ]_connectorVars
=============================================================================
