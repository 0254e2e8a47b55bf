------------------------ MODULE SelfDescription_proofs ------------------------
(***************************************************************************)
(* For every directory and any number of threads that ask for the          *)
(* description: what is proved of the change manager holds although its    *)
(* contracts are put back by listings; and a listing tells the truth       *)
(* although the index changes under it, because whoever changed it cannot  *)
(* go on before the listing is over.                                       *)
(***************************************************************************)
EXTENDS SelfDescription, ArtifactChangeManager_proofs

(* The types of what SelfDescription adds.                                 *)
ListTypeOK ==
  /\ serving \in BOOLEAN
  /\ requests \in 0..MaxRequests
  /\ known \in BOOLEAN
  /\ lock \in Readers \cup {None}
  /\ started \subseteq Artifact
  /\ upNext \in Artifact \cup {None}
  /\ carried \in [artifact : Artifact, offer : Offer] \cup {None}
  /\ resources \subseteq CatalogueEntry
  /\ lock = None => upNext = None /\ carried = None

ReaderTypeOK ==
  /\ place \in [Readers -> Places]
  /\ element \in [Readers -> Element \cup {None}]
  /\ result \in [Readers -> SUBSET CatalogueEntry]
  /\ outcome \in [Readers -> Outcomes \cup {None}]
  /\ lock # None => place[lock] # "idle"
  /\ \A r \in Readers : place[r] # "idle" => element[r] # None

HistoryTypeOK ==
  /\ seen \in [Readers -> SUBSET CatalogueEntry]
  /\ kept \in [Readers -> SUBSET CatalogueEntry]

SelfInv == ManagerInv /\ ListTypeOK /\ ReaderTypeOK /\ HistoryTypeOK

LEMMA ManagerInvTypes == ManagerInv => TypeOK
BY DEF ManagerInv, WatcherInv, ManagerTypeOK, StackTypeOK, BrokerTypeOK,
   PcInv, TypeOK

LEMMA SelfInvTypes == SelfInv => SelfTypeOK
BY ManagerInvTypes
   DEF SelfInv, ListTypeOK, ReaderTypeOK, HistoryTypeOK, SelfTypeOK

-----------------------------------------------------------------------------
(* Every step changes what the manager has as one of its steps does, or    *)
(* enters a contract.                                                      *)

PutsBack ==
  /\ \E r \in Readers : PutBack(r)
  /\ UNCHANGED <<watcherVars, pc, index, descriptionIndex, negotiationIndex,
                 stackVars, brokerVars>>

LEMMA ChangeIsStep == Change => Next
BY DEF Change, Environs, Work, Next

LEMMA DescribeKeeps ==
  ASSUME NEW r \in Readers, Reader(r)
  PROVE  UNCHANGED vars \/ PutsBack
<1>1. CASE Receive(r) /\ UNCHANGED vars
  BY <1>1
<1>2. CASE /\ Describe(r) /\ UNCHANGED contractIndex
           /\ UNCHANGED <<watcherVars, pc, index, descriptionIndex,
                          negotiationIndex, stackVars, brokerVars>>
  BY <1>2 DEF vars, managerVars, indexVars
<1>3. CASE /\ PutBack(r)
           /\ UNCHANGED <<watcherVars, pc, index, descriptionIndex,
                          negotiationIndex, stackVars, brokerVars>>
  BY <1>3 DEF PutsBack
<1> QED BY <1>1, <1>2, <1>3 DEF Reader

LEMMA SelfStepCases ==
  ASSUME [SelfNext]_selfVars
  PROVE  [Next]_vars \/ PutsBack
BY ChangeIsStep, DescribeKeeps DEF SelfNext, selfVars

LEMMA PutBackManagerInv ==
  ASSUME ManagerInv, ListTypeOK, PutsBack
  PROVE  ManagerInv'
<1> PICK r \in Readers : PutBack(r)
  BY DEF PutsBack
<1>1. /\ UNCHANGED <<watcherVars, pc, index, descriptionIndex,
                     negotiationIndex, stackVars, brokerVars>>
      /\ contractIndex' =
           [contractIndex EXCEPT ![carried.artifact] = carried.offer]
      /\ carried \in [artifact : Artifact, offer : Offer]
  BY DEF PutsBack, PutBack, addContract, ListTypeOK
<1>2. WatcherInv'
  BY <1>1, WatcherStepInv DEF ManagerInv
<1>3. ManagerTypeOK'
  BY <1>1 DEF ManagerInv, ManagerTypeOK, IndexTypeOK, StackTypeOK,
     BrokerTypeOK, stackVars, brokerVars
<1>4. PcInv' /\ FilesInv'
  BY <1>1 DEF ManagerInv, watcherVars, PcInv, FilesInv, FileInv, exists
<1> QED BY <1>2, <1>3, <1>4 DEF ManagerInv

LEMMA SelfManagerStep ==
  ASSUME ManagerInv, ListTypeOK, [SelfNext]_selfVars
  PROVE  ManagerInv'
BY SelfStepCases, ManagerStepInv, PutBackManagerInv

-----------------------------------------------------------------------------
(* Types.                                                                  *)

LEMMA HandedType ==
  ASSUME ManagerInv, NEW c \in [artifact : Artifact, offer : Offer] \cup {None}
  PROVE  Handed(c) \in [artifact : Artifact, offer : Offer] \cup {None}
<1>1. pc = "attach" => call.name \in Files
  BY DEF ManagerInv, PcInv
<1>2. CASE c = None
  BY <1>2 DEF Handed
<1>3. CASE c # None
  <2>1. c.artifact \in Artifact /\ c.offer \in Offer
    BY <1>3
  <2>2. c.offer.text \in Text /\ c.offer.target \in Files
        /\ c.offer.stacked \in BOOLEAN
    BY <2>1 DEF Offer
  <2>3. pc = "attach" =>
          [c EXCEPT !.offer.target = call.name]
            \in [artifact : Artifact, offer : Offer]
    BY <1>1, <1>3, <2>1, <2>2 DEF Offer
  <2>4. [c EXCEPT !.offer.stacked = FALSE]
          \in [artifact : Artifact, offer : Offer]
    BY <1>3, <2>1, <2>2 DEF Offer
  <2> QED BY <1>3, <2>3, <2>4 DEF Handed
<1> QED BY <1>2, <1>3

LEMMA ChangeTypes ==
  ASSUME SelfInv, Change
  PROVE  ListTypeOK' /\ ReaderTypeOK'
<1>1. /\ UNCHANGED <<requests, readerVars, lock, started, upNext, resources>>
      /\ serving' \in BOOLEAN
      /\ known' \in BOOLEAN
      /\ carried' \in {carried, Handed(carried)}
  BY DEF Change, Environs, Work, listVars, SelfInv, ListTypeOK
<1>2. carried' \in [artifact : Artifact, offer : Offer] \cup {None}
  BY <1>1, HandedType DEF SelfInv, ListTypeOK
<1>3. carried = None => carried' = None
  BY <1>1 DEF Handed
<1>4. ListTypeOK'
  BY <1>1, <1>2, <1>3 DEF SelfInv, ListTypeOK
<1>5. ReaderTypeOK'
  BY <1>1 DEF SelfInv, ReaderTypeOK, readerVars
<1> QED BY <1>4, <1>5

LEMMA ListableType ==
  ManagerInv =>
    Listable \subseteq Artifact /\ getAllArtifacts \subseteq Artifact
BY RelatedType DEF ManagerInv, Listable

LEMMA ShownType == ManagerInv => Shown \subseteq CatalogueEntry
BY CatalogueType DEF ManagerInv, Shown

LEMMA EnterTypes ==
  ASSUME SelfInv, NEW r \in Readers, Enter(r), UNCHANGED <<serving, requests>>
  PROVE  ListTypeOK' /\ ReaderTypeOK'
<1>1. ListTypeOK'
  <2>1. started' \subseteq Artifact /\ upNext' \in Artifact \cup {None}
    BY ListableType DEF SelfInv, Enter
  <2> QED BY <2>1, ReadersAssumption DEF SelfInv, Enter, ListTypeOK, readerVars
<1>2. ReaderTypeOK'
  BY DEF SelfInv, Enter, ReaderTypeOK, readerVars
<1> QED BY <1>1, <1>2

LEMMA VisitTypes ==
  ASSUME SelfInv, NEW r \in Readers, Visit(r), UNCHANGED <<serving, requests>>
  PROVE  ListTypeOK' /\ ReaderTypeOK'
<1>1. upNext \in Artifact /\ started \subseteq Artifact
  BY DEF SelfInv, Visit, ListTypeOK
<1>2. /\ descriptionIndex[upNext] \in Text \cup {None}
      /\ contractIndex[upNext] \in Offer \cup {None}
  BY <1>1 DEF SelfInv, ManagerInv, ManagerTypeOK, IndexTypeOK
<1>3. resources' \subseteq CatalogueEntry
  BY <1>1, <1>2 DEF SelfInv, ListTypeOK, Visit, CatalogueEntry
<1>4. carried' \in [artifact : Artifact, offer : Offer] \cup {None}
  BY <1>1, <1>2 DEF Visit, hasContract
<1>5. upNext' \in Artifact \cup {None}
  BY <1>1, ListableType DEF SelfInv, Visit, Following
<1>6. ListTypeOK'
  BY <1>3, <1>4, <1>5 DEF SelfInv, Visit, ListTypeOK
<1>7. ReaderTypeOK'
  BY DEF SelfInv, Visit, ReaderTypeOK, readerVars
<1> QED BY <1>6, <1>7

(* The steps that end a listing.                                           *)
LEMMA UnlockTypes ==
  ASSUME SelfInv, carried = None, Unlock, UNCHANGED <<serving, requests>>
  PROVE  ListTypeOK'
BY DEF SelfInv, Unlock, ListTypeOK

LEMMA MatchesType ==
  ASSUME SelfInv, NEW e, NEW entries \in Matches(e)
  PROVE  entries \subseteq resources
BY DEF Matches

LEMMA EndTypes ==
  ASSUME SelfInv, NEW r \in Readers,
         ThrowAtChange(r) \/ Search(r) \/ Whole(r) \/ Answer(r)
  PROVE  ReaderTypeOK'
<1>1. /\ lock' = None
      /\ UNCHANGED element
      /\ \E p \in Places : place' = [place EXCEPT ![r] = p]
      /\ element[r] # None
  <2>1. lock = r /\ r # None
    BY ReadersAssumption DEF ThrowAtChange, Search, Whole, Answer, Listing
  <2>2. element[r] # None
    BY <2>1 DEF SelfInv, ReaderTypeOK
  <2>3. lock' = None /\ UNCHANGED element
    BY DEF ThrowAtChange, Search, Whole, Answer, Unlock, Fail, AnswerWith
  <2>4. \/ place' = [place EXCEPT ![r] = "idle"]
        \/ place' = [place EXCEPT ![r] = "whole"]
        \/ place' = [place EXCEPT ![r] = "id"]
    BY DEF ThrowAtChange, Search, Whole, Answer, Fail, AnswerWith
  <2> QED BY <2>2, <2>3, <2>4 DEF Places
<1>2. \/ UNCHANGED outcome
      \/ \E answer \in {"description", "NOT_FOUND", "error"} :
           outcome' = [outcome EXCEPT ![r] = answer]
  BY DEF ThrowAtChange, Search, Whole, Answer, Fail, AnswerWith
<1>3. \/ UNCHANGED result
      \/ \E entries \in SUBSET resources :
           result' = [result EXCEPT ![r] = entries]
  BY MatchesType DEF ThrowAtChange, Search, Whole, Answer, Fail, AnswerWith
<1>4. result' \in [Readers -> SUBSET CatalogueEntry]
  BY <1>3 DEF SelfInv, ListTypeOK, ReaderTypeOK
<1>5. outcome' \in
        [Readers -> Outcomes \cup {None}]
  BY <1>2 DEF SelfInv, ReaderTypeOK, Outcomes
<1>6. place' \in [Readers -> Places]
  BY <1>1 DEF SelfInv, ReaderTypeOK
<1>7. \A q \in Readers : place'[q] # "idle" => element'[q] # None
  BY <1>1 DEF SelfInv, ReaderTypeOK
<1> QED BY <1>1, <1>4, <1>5, <1>6, <1>7 DEF SelfInv, ReaderTypeOK

LEMMA ReaderTypes ==
  ASSUME SelfInv, NEW r \in Readers, Reader(r)
  PROVE  ListTypeOK' /\ ReaderTypeOK'
<1>1. CASE Receive(r)
  <2>1. ListTypeOK'
    BY <1>1, ReadersAssumption DEF SelfInv, Receive, ListTypeOK, listVars
  <2>2. ReaderTypeOK'
    BY <1>1, ReadersAssumption
       DEF SelfInv, Receive, ReaderTypeOK, Places, listVars
  <2> QED BY <2>1, <2>2
<1>2. CASE (Enter(r) \/ Visit(r)) /\ UNCHANGED <<serving, requests>>
  BY <1>2, EnterTypes, VisitTypes
<1>3. CASE /\ ThrowAtChange(r) \/ Search(r) \/ Whole(r) \/ Answer(r)
           /\ UNCHANGED <<serving, requests>>
  <2>1. carried = None /\ Unlock
    BY <1>3 DEF ThrowAtChange, Search, Whole, Answer, Listing
  <2> QED BY <1>3, <2>1, UnlockTypes, EndTypes
<1>4. CASE PutBack(r) /\ UNCHANGED <<serving, requests>>
  BY <1>4 DEF SelfInv, PutBack, ListTypeOK, ReaderTypeOK, readerVars
<1> QED BY <1>1, <1>2, <1>3, <1>4 DEF Reader, Describe

LEMMA WitnessTypes ==
  ASSUME SelfInv, ManagerInv', Witness
  PROVE  HistoryTypeOK'
<1>1. (Shown \subseteq CatalogueEntry)'
  BY ShownType, PTL
<1> QED BY <1>1 DEF SelfInv, HistoryTypeOK, Witness

LEMMA SelfStepInv ==
  ASSUME SelfInv, [SelfNext]_selfVars
  PROVE  SelfInv'
<1>1. ManagerInv'
  BY SelfManagerStep DEF SelfInv
<1>2. CASE UNCHANGED selfVars
  BY <1>1, <1>2 DEF SelfInv, selfVars, listVars, readerVars, ListTypeOK,
     ReaderTypeOK, HistoryTypeOK
<1>3. CASE SelfNext
  <2>1. HistoryTypeOK'
    BY <1>1, <1>3, WitnessTypes DEF SelfNext
  <2>2. ListTypeOK' /\ ReaderTypeOK'
    BY <1>3, ChangeTypes, ReaderTypes DEF SelfNext
  <2> QED BY <1>1, <2>1, <2>2 DEF SelfInv
<1> QED BY <1>2, <1>3

LEMMA SelfInitInv == SelfInit => SelfInv
<1> SUFFICES ASSUME SelfInit PROVE SelfInv
  OBVIOUS
<1>1. ManagerInv
  BY WatcherInitInv, InitTypes, InitFiles DEF SelfInit, Init, ManagerInv
<1>2. ListTypeOK
  <2>1. 0 \in 0..MaxRequests
    BY ReadersAssumption
  <2> QED BY <2>1 DEF SelfInit, ListTypeOK
<1>3. ReaderTypeOK /\ HistoryTypeOK
  BY DEF SelfInit, ReaderTypeOK, HistoryTypeOK, Places
<1> QED BY <1>1, <1>2, <1>3 DEF SelfInv

(* The inductive invariant: that of the change manager, and the types of   *)
(* what the listings and the requests for descriptions hold.               *)
THEOREM SelfInvariant == SelfSpec => []SelfInv
BY SelfInitInv, SelfStepInv, PTL DEF SelfSpec

(* The change manager beside the listings stays within its types, and so   *)
(* does what the listings carry from one map to the next.                  *)
THEOREM SelfTypesHold == SelfSpec => []SelfTypeOK
BY SelfInvariant, SelfInvTypes, PTL

-----------------------------------------------------------------------------
(* The index changes at most once while a thread lists the artifacts: who  *)
(* changed it is on its way to setArtifacts, and waits there for the lock. *)
Waiting ==
  \/ pc = "attach"
  \/ pc = "publishRemoval"
  \/ pc = "publish" /\ call.name \in Files

LockInv == lock # None /\ Changed => Waiting

LEMMA ListableKept ==
  ASSUME UNCHANGED <<known, index>>
  PROVE  Listable' = Listable
BY DEF Listable, getAllArtifacts, exists

LEMMA FilesAreNoDescriptions ==
  ASSUME NEW n \in Files
  PROVE  n \notin OfKind("desc")
BY NamesAssumption DEF OfKind

(* Between two calls, and until the index changes in one, nothing is       *)
(* pending that a listing would have to end for.                           *)
LEMMA WorkUnderLock ==
  ASSUME SelfInv, LockInv, Work, lock # None
  PROVE  /\ UNCHANGED <<known, lock, started>>
         /\ index' # index => ~Changed /\ pc' \in {"attach", "publishRemoval"}
         /\ Changed => Waiting' /\ pc = "attach" /\ index' = index
<1>1. UNCHANGED <<lock, started>> /\ ~NeedsLock /\ Manager
  BY DEF Work
<1>2. ~SetsArtifacts /\ UNCHANGED known
  BY <1>1 DEF Work, NeedsLock, SelfInv, ListTypeOK
<1>3. pc # "publishRemoval"
  BY <1>2 DEF SetsArtifacts
<1>4. pc # "publish" \/ call.name \notin Files
  BY <1>2, FilesAreNoDescriptions DEF SetsArtifacts
<1>5. Changed => pc = "attach"
  BY <1>3, <1>4 DEF LockInv, Waiting
<1>6. CASE notifyRemove
  <2>1. pc # "attach"
    BY <1>6 DEF notifyRemove, RemoveContract, RemoveDescription,
       RemoveNegotiation, RemoveAttachments, RemoveArtifact, PublishRemoval,
       Removing
  <2>2. index' # index => pc' = "publishRemoval"
    BY <1>6 DEF notifyRemove, RemoveContract, RemoveDescription,
       RemoveNegotiation, RemoveAttachments, RemoveArtifact, PublishRemoval,
       indexVars, Goto
  <2> QED BY <1>1, <1>2, <1>5, <2>1, <2>2
<1>7. CASE notifyAdd
  <2>1. index' # index => pc # "attach" /\ pc' = "attach"
    BY <1>7 DEF notifyAdd, AddContract, AddDescription, AddNegotiation,
       AlreadyIndexed, AddArtifact, Attach, Publish, indexVars, Goto, Adding
  <2>2. pc = "attach" => Attach
    BY <1>7 DEF notifyAdd, AddContract, AddDescription, AddNegotiation,
       AlreadyIndexed, AddArtifact, Publish, Adding
  <2>3. Attach => Waiting'
    BY DEF Attach, Goto, watcherVars, SelfInv, ManagerInv, PcInv, Waiting
  <2> QED BY <1>1, <1>2, <1>5, <2>1, <2>2, <2>3
<1>8. CASE Throw
  BY <1>1, <1>2, <1>5, <1>8 DEF Throw, Adding, managerVars, indexVars
<1> QED BY <1>1, <1>6, <1>7, <1>8 DEF Manager

(* Neither the directory nor the watcher touches what is Waiting.          *)
LEMMA EnvironsWait ==
  ASSUME SelfInv, Environs
  PROVE  /\ UNCHANGED <<known, lock, started, index, pc>>
         /\ Waiting => Waiting'
<1>1. UNCHANGED <<known, lock, started, index, pc>>
  BY DEF Environs, managerVars, indexVars, listVars
<1>2. Waiting => call # None
  BY DEF SelfInv, ManagerInv, PcInv, Waiting
<1>3. call # None => UNCHANGED call
  BY ThreadCalls DEF SelfInv, ManagerInv, Environs
<1> QED BY <1>1, <1>2, <1>3 DEF Waiting

LEMMA LockStep ==
  ASSUME SelfInv, LockInv, [SelfNext]_selfVars
  PROVE  LockInv' /\ (lock # None /\ lock' = lock /\ Changed => index' = index)
<1>1. CASE Environs /\ Change
  BY <1>1, EnvironsWait, ListableKept DEF LockInv, Changed
<1>2. CASE Work /\ lock # None
  <2>1. index' = index /\ ~Changed => ~Changed'
    BY <1>2, WorkUnderLock, ListableKept DEF Changed
  <2>2. LockInv'
    BY <1>2, <2>1, WorkUnderLock DEF LockInv, Waiting
  <2> QED BY <1>2, <2>2, WorkUnderLock
<1>3. CASE Work /\ lock = None
  BY <1>3 DEF Work, LockInv
<1>4. ASSUME NEW r \in Readers, Reader(r)
      PROVE  LockInv' /\ index' = index
  <2>1. UNCHANGED <<index, known, pc, call>>
    BY <1>4 DEF Reader, Receive, Describe, Enter, Visit, PutBack, ThrowAtChange,
       Search, Whole, Answer, Unlock, vars, managerVars, indexVars, watcherVars,
       listVars
  <2>2. \/ lock' = None
        \/ UNCHANGED <<lock, started>>
        \/ started' = Listable
    BY <1>4 DEF Reader, Receive, Describe, Enter, Visit, PutBack, ThrowAtChange,
       Search, Whole, Answer, Unlock, listVars
  <2>3. Listable' = Listable
    BY <2>1, ListableKept
  <2> QED BY <2>1, <2>2, <2>3 DEF LockInv, Changed, Waiting
<1>5. CASE UNCHANGED selfVars
  <2>1. UNCHANGED <<lock, started, known, index, pc, call>>
    BY <1>5 DEF selfVars, listVars, vars, managerVars, indexVars, watcherVars
  <2> QED BY <2>1, ListableKept DEF LockInv, Changed, Waiting
<1> QED BY <1>1, <1>2, <1>3, <1>4, <1>5 DEF SelfNext, Change

LEMMA LockInitInv == SelfInit => LockInv
BY DEF SelfInit, LockInv

(* While a thread lists the artifacts the index changes at most once.      *)
THEOREM OneChange == SelfSpec => OneChangePerListing
<1>1. SelfInv /\ LockInv /\ [SelfNext]_selfVars => LockInv'
  BY LockStep
<1>2. SelfInv /\ LockInv /\ [SelfNext]_selfVars =>
        [lock # None /\ lock' = lock /\ Changed => index' = index]_selfVars
  BY LockStep
<1> QED BY <1>1, <1>2, LockInitInv, SelfInvariant, PTL
        DEF SelfSpec, OneChangePerListing

-----------------------------------------------------------------------------
(* What a listing puts back belongs to the artifact it was read of.        *)
CarriedIsOwn ==
  carried # None =>
    IsFor(carried.offer.text.of, "contract", carried.artifact)

OwnInv == AttachmentsAreOwn /\ CarriedIsOwn

LEMMA OwnNext ==
  ASSUME ManagerInv, AttachmentsAreOwn, [Next]_vars
  PROVE  AttachmentsAreOwn'
<1>1. CASE UNCHANGED managerVars
  BY <1>1 DEF managerVars, indexVars, stackVars, AttachmentsAreOwn,
     IndexIsOwn, StacksAreOwn, hasContract, hasDescription, hasNegotiation
<1> QED BY <1>1, OwnRemove, OwnAdd DEF Next, Manager, Throw, vars

LEMMA OwnPutBack ==
  ASSUME SelfInv, OwnInv, PutsBack
  PROVE  AttachmentsAreOwn'
<1> PICK r \in Readers : PutBack(r)
  BY DEF PutsBack
<1>1. /\ UNCHANGED <<descriptionIndex, negotiationIndex, stackVars>>
      /\ contractIndex' =
           [contractIndex EXCEPT ![carried.artifact] = carried.offer]
      /\ carried # None
  BY DEF PutsBack, PutBack, addContract
<1>2. contractIndex \in [Artifact -> Offer \cup {None}]
  BY DEF SelfInv, ManagerInv, ManagerTypeOK, IndexTypeOK
<1> QED BY <1>1, <1>2 DEF OwnInv, CarriedIsOwn, AttachmentsAreOwn, IndexIsOwn,
        StacksAreOwn, stackVars, hasContract, hasDescription, hasNegotiation

LEMMA HandedText ==
  ASSUME SelfInv, carried # None
  PROVE  /\ Handed(carried).artifact = carried.artifact
         /\ Handed(carried).offer.text = carried.offer.text
<1>1. carried \in [artifact : Artifact, offer : Offer]
  BY DEF SelfInv, ListTypeOK
<1>2. carried.offer \in [text : Text, target : Files, stacked : BOOLEAN]
  BY <1>1 DEF Offer
<1>3. ASSUME NEW x
      PROVE  /\ [carried EXCEPT !.offer.target = x].artifact = carried.artifact
             /\ [carried EXCEPT !.offer.target = x].offer.text
                  = carried.offer.text
  BY <1>1, <1>2
<1>4. /\ [carried EXCEPT !.offer.stacked = FALSE].artifact = carried.artifact
      /\ [carried EXCEPT !.offer.stacked = FALSE].offer.text
           = carried.offer.text
  BY <1>1, <1>2
<1> QED BY <1>3, <1>4 DEF Handed

LEMMA CarriedStep ==
  ASSUME SelfInv, OwnInv, [SelfNext]_selfVars
  PROVE  CarriedIsOwn'
<1>1. CASE UNCHANGED carried
  BY <1>1 DEF OwnInv, CarriedIsOwn
<1>2. CASE carried' = None
  BY <1>2 DEF CarriedIsOwn
<1>3. CASE Work
  BY <1>3, <1>2, HandedText DEF Work, OwnInv, CarriedIsOwn, Handed
<1>4. ASSUME NEW r \in Readers, Visit(r)
      PROVE  CarriedIsOwn'
  <2>1. upNext \in Artifact
    BY <1>4 DEF Visit, SelfInv, ListTypeOK
  <2>2. \/ carried' = None
        \/ /\ hasContract(upNext)
           /\ carried' = [artifact |-> upNext, offer |-> contractIndex[upNext]]
    BY <1>4 DEF Visit
  <2> QED BY <2>1, <2>2
          DEF CarriedIsOwn, OwnInv, AttachmentsAreOwn, IndexIsOwn
<1>5. \/ UNCHANGED carried
      \/ carried' = None
      \/ Work
      \/ \E r \in Readers : Visit(r)
  BY DEF SelfNext, Change, Environs, Reader, Receive, Describe, Enter, PutBack,
     ThrowAtChange, Search, Whole, Answer, Unlock, selfVars, listVars
<1> QED BY <1>1, <1>2, <1>3, <1>4, <1>5

(* What is attached to an artifact was read from a metadata file of the    *)
(* kind whose name, cut at one of the suffixes, is the artifact's base,    *)
(* also where a listing put it.                                            *)
THEOREM ListingsKeepOwn == SelfSpec => []AttachmentsAreOwn
<1>1. SelfInit => OwnInv
  BY DEF SelfInit, Init, IndexInit, OwnInv, CarriedIsOwn, AttachmentsAreOwn,
     IndexIsOwn, StacksAreOwn, hasContract, hasDescription, hasNegotiation
<1>2. SelfInv /\ OwnInv /\ [SelfNext]_selfVars => OwnInv'
  BY SelfStepCases, OwnNext, OwnPutBack, CarriedStep DEF SelfInv, OwnInv
<1>3. OwnInv => AttachmentsAreOwn
  BY DEF OwnInv
<1> QED BY <1>1, <1>2, <1>3, SelfInvariant, PTL DEF SelfSpec

-----------------------------------------------------------------------------
(* A listing and what it should list.  What is left of it when the index   *)
(* has changed: an artifact that was removed still has the description it  *)
(* was last shown with, as whoever removed it waits for the lock.          *)
Entry(a) == [artifact |-> a, description |-> descriptionIndex[a]]

ListInv ==
  /\ lock = None => resources = {}
  /\ lock # None =>
       /\ started # {} => known
       /\ upNext # None => upNext \in started \cup Listable
       /\ \A a \in started : Entry(a) \in seen[lock]
       /\ resources \subseteq seen[lock]
       /\ \A e \in kept[lock] : e.artifact \in started
       /\ \A e \in kept[lock], x \in resources :
            x.artifact = e.artifact => x = e
       /\ upNext = None => started \cap Listable \subseteq Listed

(* What an answer owes to the history of its request.                      *)
Complete(r) ==
  CASE element[r].kind \in {"none", "catalogue"} -> kept[r] \subseteq result[r]
    [] element[r].kind = "resource" -> result[r] # {}
    [] OTHER -> kept[r] = {}

RightlyMissing(r) ==
  \/ /\ element[r].kind = "resource"
     /\ \A e \in kept[r] :
          e.description # None => e.description.of # element[r].of
  \/ element[r].kind = "example" /\ seen[r] # {}

AnswerInv(r) ==
  /\ place[r] # "idle" =>
       /\ outcome[r] = None
       /\ Shown \subseteq seen[r]
       /\ kept[r] \subseteq Shown
  /\ place[r] = "whole" => element[r].kind = "none"
  /\ place[r] = "id" \/ outcome[r] = "description" =>
       result[r] \subseteq seen[r] /\ Complete(r)
  /\ outcome[r] = "NOT_FOUND" => RightlyMissing(r)

AnswersInv == \A r \in Readers : AnswerInv(r)

LEMMA ShownEntries == \A e : e \in Shown <=> \E a \in Listable : e = Entry(a)
BY DEF Shown, Catalogue, Listable, Entry

LEMMA ShownKept ==
  ASSUME UNCHANGED <<known, index, descriptionIndex>>
  PROVE  Shown' = Shown
BY CatalogueKept DEF Shown

LEMMA WitnessKeeps ==
  ASSUME Witness, NEW r \in Readers
  PROVE  /\ place'[r] = "idle" => seen'[r] = seen[r] /\ kept'[r] = kept[r]
         /\ place[r] # "idle" =>
              seen[r] \subseteq seen'[r] /\ kept'[r] \subseteq kept[r]
         /\ place'[r] # "idle" =>
              Shown' \subseteq seen'[r] /\ kept'[r] \subseteq Shown'
BY DEF Witness

(* A request whose thread does not move is answered as rightly as before.  *)
LEMMA AnswerKept ==
  ASSUME NEW r \in Readers, AnswerInv(r), Witness,
         place'[r] = place[r], element'[r] = element[r],
         result'[r] = result[r], outcome'[r] = outcome[r]
  PROVE  AnswerInv(r)'
<1>1. CASE place[r] = "idle"
  <2>1. seen'[r] = seen[r] /\ kept'[r] = kept[r]
    BY <1>1, WitnessKeeps
  <2> QED BY <1>1, <2>1 DEF AnswerInv, Complete, RightlyMissing
<1>2. CASE place[r] # "idle"
  <2>1. /\ seen[r] \subseteq seen'[r] /\ kept'[r] \subseteq kept[r]
        /\ Shown' \subseteq seen'[r] /\ kept'[r] \subseteq Shown'
    BY <1>2, WitnessKeeps
  <2>2. outcome'[r] = None
    BY <1>2 DEF AnswerInv
  <2>3. place[r] = "id" => result'[r] \subseteq seen'[r] /\ Complete(r)'
    BY <2>1 DEF AnswerInv, Complete
  <2> QED BY <2>1, <2>2, <2>3, ReadersAssumption DEF AnswerInv, Outcomes
<1> QED BY <1>1, <1>2

(* When the iterator is exhausted, what was shown all the while is listed. *)
LEMMA ListingIsComplete ==
  ASSUME SelfInv, ListInv, AnswersInv,
         NEW r \in Readers, NEW where, Listing(r, where)
  PROVE  kept[r] \subseteq resources /\ resources \subseteq seen[r]
<1>1. lock = r /\ lock # None /\ upNext = None /\ place[r] # "idle"
  BY ReadersAssumption DEF Listing, SelfInv, ReaderTypeOK
<1>2. resources \subseteq seen[r]
  BY <1>1 DEF ListInv
<1>3. ASSUME NEW e \in kept[r] PROVE e \in resources
  <2>1. e \in Shown
    BY <1>1 DEF AnswersInv, AnswerInv
  <2>2. e.artifact \in Listable
    BY <2>1, ShownEntries DEF Entry
  <2>3. e.artifact \in started
    BY <1>1 DEF ListInv
  <2>4. PICK x \in resources : x.artifact = e.artifact
    BY <1>1, <2>2, <2>3 DEF ListInv, Listed
  <2> QED BY <1>1, <2>4 DEF ListInv
<1> QED BY <1>2, <1>3

TruthInv == SelfInv /\ LockInv /\ ListInv /\ AnswersInv

(* A change while nobody lists.                                            *)
LEMMA ChangeUnlocked ==
  ASSUME TruthInv, Change, lock = None
  PROVE  ListInv'
<1>1. UNCHANGED <<lock, resources>>
  BY DEF Change, Environs, Work, listVars
<1> QED BY <1>1 DEF TruthInv, ListInv

(* The manager changes at most one description, of an artifact that is in  *)
(* the index, unless it changes the index.                                 *)
LEMMA DescriptionsUnderLock ==
  ASSUME SelfInv, Manager, index' # index
  PROVE  UNCHANGED descriptionIndex
BY DEF Manager, notifyRemove, notifyAdd, RemoveContract, RemoveDescription,
   RemoveNegotiation, RemoveAttachments, RemoveArtifact, PublishRemoval,
   AddContract, AddDescription, AddNegotiation, AlreadyIndexed, AddArtifact,
   Attach, Publish, Throw, managerVars, indexVars

LEMMA AttachDescribes ==
  ASSUME SelfInv, Manager, pc = "attach",
         NEW a \in Artifact, descriptionIndex'[a] # descriptionIndex[a]
  PROVE  a \in getAllArtifacts
<1>1. Attach
  BY DEF Manager, notifyRemove, notifyAdd, RemoveContract, RemoveDescription,
     RemoveNegotiation, RemoveAttachments, RemoveArtifact, PublishRemoval,
     AddContract, AddDescription, AddNegotiation, AlreadyIndexed, AddArtifact,
     Publish, Throw, Removing, Adding
<1>2. call.name \in Files /\ exists(call.name)
  BY DEF SelfInv, ManagerInv, PcInv, FilesInv, FileInv
<1>3. a = index[call.name]
  BY <1>1 DEF Attach, addDescription, SelfInv, ManagerInv, ManagerTypeOK,
     IndexTypeOK
<1> QED BY <1>2, <1>3 DEF getAllArtifacts

LEMMA WorkShows ==
  ASSUME TruthInv, Work, Witness, lock # None, readerVars' = readerVars,
         NEW a \in started
  PROVE  Entry(a)' \in seen'[lock]
<1>1. /\ lock \in Readers /\ place[lock] # "idle" /\ place' = place
      /\ known /\ known' /\ Manager
  BY WorkUnderLock
     DEF TruthInv, SelfInv, ListTypeOK, ReaderTypeOK, ListInv, readerVars, Work
<1>2. Shown' \subseteq seen'[lock] /\ seen[lock] \subseteq seen'[lock]
  BY <1>1, WitnessKeeps
<1>3. Entry(a) \in seen[lock]
  BY DEF TruthInv, ListInv
<1>4. CASE descriptionIndex'[a] = descriptionIndex[a]
  BY <1>2, <1>3, <1>4 DEF Entry
<1>5. CASE descriptionIndex'[a] # descriptionIndex[a]
  <2>1. index' = index
    BY <1>1, <1>5, DescriptionsUnderLock DEF TruthInv
  <2>2. a \in getAllArtifacts
    <3>1. CASE Changed
      BY <1>1, <1>5, <3>1, WorkUnderLock, AttachDescribes
         DEF TruthInv, SelfInv, ListTypeOK
    <3>2. CASE ~Changed
      BY <1>1, <3>2 DEF Changed, Listable
    <3> QED BY <3>1, <3>2
  <2>3. Entry(a)' \in Shown'
    BY <1>1, <2>1, <2>2
       DEF Shown, Catalogue, getAllArtifacts, exists, Entry
  <2> QED BY <1>2, <2>3
<1> QED BY <1>4, <1>5

LEMMA WorkListInv ==
  ASSUME TruthInv, Work, Witness, lock # None, readerVars' = readerVars
  PROVE  ListInv'
<1>1. /\ UNCHANGED <<known, lock, started, upNext, resources>>
      /\ index' # index => ~Changed
      /\ lock \in Readers /\ place[lock] # "idle" /\ place' = place
  BY WorkUnderLock
     DEF TruthInv, SelfInv, ListTypeOK, ReaderTypeOK, readerVars, Work
<1>2. seen[lock] \subseteq seen'[lock] /\ kept'[lock] \subseteq kept[lock]
  BY <1>1, WitnessKeeps
<1>3. index' = index => Listable' = Listable
  BY <1>1, ListableKept
<1>4. upNext # None => upNext \in started \cup Listable'
  BY <1>1, <1>3 DEF TruthInv, ListInv, Changed
<1>5. upNext = None => started \cap Listable' \subseteq Listed
  BY <1>1, <1>3 DEF TruthInv, ListInv, Changed
<1>6. \A a \in started : Entry(a)' \in seen'[lock]
  BY WorkShows
<1> QED BY <1>1, <1>2, <1>4, <1>5, <1>6 DEF TruthInv, ListInv, Listed

(* A step after which the manager, the lock, the iterator and the list are *)
(* as before.                                                              *)
LEMMA QuietListInv ==
  ASSUME TruthInv, Witness,
         UNCHANGED <<known, lock, started, upNext, resources, index,
                     descriptionIndex>>,
         lock # None => place'[lock] = place[lock]
  PROVE  ListInv'
<1>1. Listable' = Listable /\ \A a : Entry(a)' = Entry(a)
  BY ListableKept DEF Entry
<1>2. lock # None =>
        seen[lock] \subseteq seen'[lock] /\ kept'[lock] \subseteq kept[lock]
  BY WitnessKeeps DEF TruthInv, SelfInv, ListTypeOK, ReaderTypeOK
<1> QED BY <1>1, <1>2 DEF TruthInv, ListInv, Listed

LEMMA EnterListInv ==
  ASSUME TruthInv, NEW r \in Readers, Enter(r), Witness,
         UNCHANGED <<index, descriptionIndex>>
  PROVE  ListInv'
<1>1. Listable' = Listable /\ Shown' = Shown /\ \A a : Entry(a)' = Entry(a)
  BY ListableKept, ShownKept DEF Enter, Entry
<1>2. lock' = r /\ place' = place /\ place[r] # "idle" /\ resources' = {}
      /\ started' = Listable /\ known' = known
  BY DEF Enter, readerVars, TruthInv, ListInv
<1>3. Shown \subseteq seen'[r] /\ kept'[r] \subseteq Shown
  BY <1>1, <1>2, WitnessKeeps
<1>4. Listable # {} => known
  BY DEF Listable
<1>5. \A a \in Listable : Entry(a) \in seen'[r]
  BY <1>3, ShownEntries
<1>6. \A e \in kept'[r] : e.artifact \in Listable
  BY <1>3, ShownEntries DEF Entry
<1>7. upNext' \in IF Listable = {} THEN {None} ELSE Listable
  BY DEF Enter
<1>8. upNext' # None => upNext' \in Listable
  BY <1>7
<1>9. upNext' = None => Listable = {}
  BY <1>7, ListableType, IndexAssumption DEF TruthInv, SelfInv
<1> QED BY <1>1, <1>2, <1>4, <1>5, <1>6, <1>8, <1>9, ReadersAssumption
        DEF ListInv

LEMMA VisitListInv ==
  ASSUME TruthInv, NEW r \in Readers, Visit(r), Witness,
         UNCHANGED <<index, descriptionIndex>>
  PROVE  ListInv'
<1>1. /\ Listable' = Listable /\ Shown' = Shown
      /\ \A a : Entry(a)' = Entry(a)
  BY ListableKept, ShownKept DEF Visit, Entry
<1>2. /\ lock = r /\ lock # None /\ UNCHANGED <<known, lock, started>>
      /\ place' = place /\ place[r] # "idle"
      /\ resources' = resources \cup {Entry(upNext)}
      /\ upNext # None
  BY ReadersAssumption DEF Visit, readerVars, Entry, TruthInv, SelfInv, ReaderTypeOK
<1>3. /\ seen[r] \subseteq seen'[r] /\ kept'[r] \subseteq kept[r]
      /\ Shown \subseteq seen'[r] /\ kept'[r] \subseteq Shown
  BY <1>1, <1>2, WitnessKeeps
<1>4. Entry(upNext) \in seen'[r]
  BY <1>2, <1>3, ShownEntries DEF TruthInv, ListInv
<1>5. \A e \in kept'[r] : e.artifact = upNext => e = Entry(upNext)
  BY <1>3, ShownEntries DEF Entry
<1>6. Entry(upNext).artifact = upNext
  BY DEF Entry
<1>7. Listed' = Listed \cup {upNext}
  BY <1>2, <1>6 DEF Listed
<1>8. /\ upNext' # None => upNext' \in started \cup Listable
      /\ upNext' = None => started \cap Listable \subseteq Listed'
  <2>1. \/ upNext' \in Following(Listed')
        \/ Over(Listed') /\ upNext' = None
    BY <1>7 DEF Visit
  <2>2. Following(Listed') \subseteq Artifact
    BY ListableType DEF Following, TruthInv, SelfInv, ListTypeOK
  <2> QED BY <2>1, <2>2, IndexAssumption DEF Following, Over
<1> QED BY <1>1, <1>2, <1>3, <1>4, <1>5, <1>6, <1>8 DEF TruthInv, ListInv

LEMMA EnvironsShow ==
  ASSUME Environs
  PROVE  UNCHANGED <<listVars, index, descriptionIndex>>
BY DEF Environs, managerVars, indexVars

(* The steps that end a listing.                                           *)
LEMMA UnlockListInv == Unlock => ListInv'
BY DEF Unlock, ListInv

LEMMA ReaderKeeps ==
  ASSUME NEW r \in Readers, Reader(r)
  PROVE  UNCHANGED <<index, descriptionIndex>>
BY DEF Reader, vars, managerVars, indexVars

LEMMA ReceiveMoves ==
  ASSUME SelfInv, NEW r \in Readers, Receive(r)
  PROVE  /\ place[r] = "idle" /\ place'[r] = "search"
         /\ outcome'[r] = None
         /\ \A q \in Readers \ {r} :
              /\ place'[q] = place[q] /\ element'[q] = element[q]
              /\ result'[q] = result[q] /\ outcome'[q] = outcome[q]
         /\ UNCHANGED listVars
BY DEF SelfInv, ReaderTypeOK, Receive

LEMMA ListStep ==
  ASSUME TruthInv, SelfNext
  PROVE  ListInv'
<1>0. Witness
  BY DEF SelfNext
<1>1. CASE Change
  <2>1. readerVars' = readerVars
    BY <1>1 DEF Change
  <2>2. CASE Environs
    BY <1>0, <2>1, <2>2, EnvironsShow, QuietListInv DEF readerVars, listVars
  <2> QED BY <1>0, <1>1, <2>1, <2>2, ChangeUnlocked, WorkListInv DEF Change
<1>2. ASSUME NEW r \in Readers, Reader(r)
      PROVE  ListInv'
  <2>1. UNCHANGED <<index, descriptionIndex>>
    BY <1>2, ReaderKeeps
  <2>2. CASE Receive(r)
    <3>1. lock # None => lock # r /\ lock \in Readers
      BY <2>2 DEF Receive, TruthInv, SelfInv, ListTypeOK, ReaderTypeOK
    <3>2. lock # None => place'[lock] = place[lock]
      BY <2>2, <3>1, ReceiveMoves DEF TruthInv
    <3> QED BY <1>0, <2>1, <2>2, <3>2, ReceiveMoves, QuietListInv
            DEF listVars, TruthInv
  <2>3. CASE PutBack(r)
    BY <1>0, <2>1, <2>3, QuietListInv DEF PutBack, readerVars
  <2>4. CASE ThrowAtChange(r) \/ Search(r) \/ Whole(r) \/ Answer(r)
    BY <2>4, UnlockListInv DEF ThrowAtChange, Search, Whole, Answer
  <2>5. CASE Enter(r) \/ Visit(r)
    BY <1>0, <2>1, <2>5, EnterListInv, VisitListInv
  <2> QED BY <1>2, <2>2, <2>3, <2>4, <2>5 DEF Reader, Describe
<1> QED BY <1>1, <1>2 DEF SelfNext

-----------------------------------------------------------------------------
(* Answers.                                                                *)

(* A thread that fails, and one that moves on without an answer.           *)
LEMMA FailAnswerInv ==
  ASSUME SelfInv, Witness, NEW r \in Readers, NEW answer \in Outcomes,
         Fail(r, answer), answer # "description",
         answer = "NOT_FOUND" => RightlyMissing(r)
  PROVE  AnswerInv(r)'
<1>1. place'[r] = "idle" /\ outcome'[r] = answer /\ UNCHANGED element
  BY DEF Fail, SelfInv, ReaderTypeOK
<1>2. seen'[r] = seen[r] /\ kept'[r] = kept[r]
  BY <1>1, WitnessKeeps
<1> QED BY <1>1, <1>2 DEF AnswerInv, RightlyMissing

LEMMA AnswerWithInv ==
  ASSUME SelfInv, AnswersInv, Witness, NEW r \in Readers, place[r] # "idle",
         NEW entries, AnswerWith(r, entries), entries \subseteq seen[r],
         CASE element[r].kind \in {"none", "catalogue"} ->
                kept[r] \subseteq entries
           [] element[r].kind = "resource" -> entries # {}
           [] OTHER -> kept[r] = {}
  PROVE  AnswerInv(r)'
<1>1. /\ place'[r] = "id" /\ result'[r] = entries
      /\ UNCHANGED <<element, outcome>>
  BY DEF AnswerWith, SelfInv, ReaderTypeOK
<1>2. /\ Shown' \subseteq seen'[r] /\ kept'[r] \subseteq Shown'
      /\ seen[r] \subseteq seen'[r] /\ kept'[r] \subseteq kept[r]
  BY <1>1, WitnessKeeps
<1>3. outcome'[r] = None
  BY <1>1 DEF AnswersInv, AnswerInv
<1>4. Complete(r)'
  BY <1>1, <1>2 DEF Complete
<1> QED BY <1>1, <1>2, <1>3, <1>4, ReadersAssumption DEF AnswerInv, Outcomes

LEMMA SearchAnswers ==
  ASSUME TruthInv, Witness, NEW r \in Readers, Search(r)
  PROVE  AnswerInv(r)'
<1>1. kept[r] \subseteq resources /\ resources \subseteq seen[r]
  BY ListingIsComplete DEF TruthInv, Search
<1>2. /\ lock = r /\ lock # None /\ place[r] # "idle"
      /\ element[r] \in Element
  BY ReadersAssumption DEF Search, Listing, TruthInv, SelfInv, ReaderTypeOK
<1>3. ASSUME NEW entries \in Matches(element[r]), AnswerWith(r, entries)
      PROVE  AnswerInv(r)'
  <2>1. entries \subseteq seen[r]
    BY <1>1, <1>3, MatchesType DEF TruthInv
  <2>2. CASE element[r].kind = "catalogue"
    <3>1. entries = resources
      BY <1>3, <2>2 DEF Matches
    <3> QED BY <1>1, <1>2, <1>3, <2>1, <2>2, <3>1, AnswerWithInv DEF TruthInv
  <2>3. CASE element[r].kind = "resource"
    <3>1. entries # {}
      BY <1>3, <2>3 DEF Matches
    <3> QED BY <1>2, <1>3, <2>1, <2>3, <3>1, AnswerWithInv DEF TruthInv
  <2>4. CASE element[r].kind = "example"
    <3>1. resources = {}
      BY <1>3, <2>4 DEF Matches
    <3> QED BY <1>1, <1>2, <1>3, <2>1, <2>4, <3>1, AnswerWithInv DEF TruthInv
  <2>5. element[r].kind # "none"
    BY <1>3 DEF Matches
  <2> QED BY <1>2, <2>2, <2>3, <2>4, <2>5 DEF Element
<1>4. CASE /\ element[r].kind = "none"
           /\ place' = [place EXCEPT ![r] = "whole"]
           /\ UNCHANGED <<element, result, outcome>>
  <2>1. place'[r] = "whole"
    BY <1>4 DEF TruthInv, SelfInv, ReaderTypeOK
  <2>2. /\ Shown' \subseteq seen'[r] /\ kept'[r] \subseteq Shown'
    BY <2>1, WitnessKeeps
  <2>3. outcome'[r] = None
    BY <1>2, <1>4 DEF TruthInv, AnswersInv, AnswerInv
  <2> QED BY <1>4, <2>1, <2>2, <2>3, ReadersAssumption DEF AnswerInv, Outcomes
<1>5. CASE /\ element[r].kind # "none"
           /\ Matches(element[r]) = {}
           /\ Fail(r, "NOT_FOUND")
  <2>1. CASE element[r].kind = "catalogue"
    BY <1>5, <2>1 DEF Matches
  <2>2. CASE element[r].kind = "resource"
    <3>1. \A f \in resources :
            ~(f.description # None /\ f.description.of = element[r].of)
      BY <1>5, <2>2 DEF Matches
    <3> QED BY <1>1, <1>5, <2>2, <3>1, FailAnswerInv
            DEF RightlyMissing, TruthInv, Outcomes
  <2>3. CASE element[r].kind = "example"
    <3>1. resources # {}
      BY <1>5, <2>3 DEF Matches
    <3> QED BY <1>1, <1>5, <2>3, <3>1, FailAnswerInv
            DEF RightlyMissing, TruthInv, Outcomes
  <2> QED BY <1>2, <1>5, <2>1, <2>2, <2>3 DEF Element
<1> QED BY <1>3, <1>4, <1>5 DEF Search

LEMMA WholeAnswers ==
  ASSUME TruthInv, Witness, NEW r \in Readers, Whole(r)
  PROVE  AnswerInv(r)'
<1>1. kept[r] \subseteq resources /\ resources \subseteq seen[r]
  BY ListingIsComplete DEF TruthInv, Whole
<1>2. place[r] # "idle" /\ element[r].kind = "none"
  BY DEF Whole, Listing, TruthInv, AnswersInv, AnswerInv
<1> QED BY <1>1, <1>2, AnswerWithInv DEF Whole, TruthInv

LEMMA AnswerAnswers ==
  ASSUME TruthInv, Witness, NEW r \in Readers, Answer(r)
  PROVE  AnswerInv(r)'
<1>1. CASE Fail(r, "error")
  BY <1>1, FailAnswerInv DEF TruthInv, Outcomes
<1>2. CASE /\ place' = [place EXCEPT ![r] = "idle"]
           /\ outcome' = [outcome EXCEPT ![r] = "description"]
           /\ UNCHANGED <<element, result>>
  <2>1. place'[r] = "idle" /\ outcome'[r] = "description"
    BY <1>2 DEF TruthInv, SelfInv, ReaderTypeOK
  <2>2. seen'[r] = seen[r] /\ kept'[r] = kept[r]
    BY <2>1, WitnessKeeps
  <2>3. place[r] = "id"
    BY DEF Answer, Listing
  <2>4. result[r] \subseteq seen[r] /\ Complete(r)
    BY <2>3 DEF TruthInv, AnswersInv, AnswerInv
  <2> QED BY <1>2, <2>1, <2>2, <2>4 DEF AnswerInv, Complete
<1> QED BY <1>1, <1>2 DEF Answer

LEMMA ReceiveAnswers ==
  ASSUME TruthInv, Witness, NEW r \in Readers, Receive(r)
  PROVE  AnswerInv(r)'
<1>1. place'[r] = "search" /\ outcome'[r] = None
  BY ReceiveMoves DEF TruthInv
<1>2. Shown' \subseteq seen'[r] /\ kept'[r] \subseteq Shown'
  BY <1>1, WitnessKeeps
<1> QED BY <1>1, <1>2, ReadersAssumption DEF AnswerInv, Outcomes

LEMMA AnswersStep ==
  ASSUME TruthInv, SelfNext
  PROVE  AnswersInv'
<1> SUFFICES ASSUME NEW q \in Readers PROVE AnswerInv(q)'
  BY DEF AnswersInv
<1>0. Witness /\ AnswerInv(q)
  BY DEF SelfNext, TruthInv, AnswersInv
<1>1. CASE UNCHANGED readerVars
  BY <1>0, <1>1, AnswerKept DEF readerVars
<1>2. ASSUME NEW r \in Readers, Reader(r), ~UNCHANGED readerVars
      PROVE  AnswerInv(q)'
  <2>1. \/ Receive(r) \/ ThrowAtChange(r) \/ Search(r) \/ Whole(r) \/ Answer(r)
    BY <1>2 DEF Reader, Describe, Enter, Visit, PutBack, readerVars
  <2>2. CASE q = r
    <3>1. CASE ThrowAtChange(r)
      BY <1>0, <3>1, <2>2, FailAnswerInv
         DEF ThrowAtChange, TruthInv, Outcomes
    <3> QED BY <1>0, <2>1, <2>2, <3>1, ReceiveAnswers, SearchAnswers,
               WholeAnswers, AnswerAnswers
  <2>3. CASE q # r
    <3>1. /\ place'[q] = place[q] /\ element'[q] = element[q]
          /\ result'[q] = result[q] /\ outcome'[q] = outcome[q]
      BY <2>1, <2>3, ReceiveMoves
         DEF TruthInv, SelfInv, ReaderTypeOK, ThrowAtChange, Search, Whole,
         Answer, Fail, AnswerWith
    <3> QED BY <1>0, <3>1, AnswerKept
  <2> QED BY <2>2, <2>3
<1> QED BY <1>1, <1>2 DEF SelfNext, Change

LEMMA TruthStep ==
  ASSUME TruthInv, [SelfNext]_selfVars
  PROVE  TruthInv'
<1>1. SelfInv' /\ LockInv'
  BY SelfStepInv, LockStep DEF TruthInv
<1>2. CASE SelfNext
  BY <1>1, <1>2, ListStep, AnswersStep DEF TruthInv
<1>3. CASE UNCHANGED selfVars
  <2>1. /\ UNCHANGED <<known, lock, started, upNext, resources, index,
                       descriptionIndex, seen, kept>>
        /\ UNCHANGED readerVars
    BY <1>3 DEF selfVars, listVars, vars, managerVars, indexVars
  <2>2. /\ Listable' = Listable /\ Shown' = Shown
        /\ \A a : Entry(a)' = Entry(a)
    BY <2>1, ListableKept, ShownKept DEF Entry
  <2>3. ListInv'
    BY <2>1, <2>2 DEF TruthInv, ListInv, Listed
  <2>4. AnswersInv'
    BY <2>1, <2>2 DEF TruthInv, AnswersInv, AnswerInv, Complete,
       RightlyMissing, readerVars
  <2> QED BY <1>1, <2>3, <2>4 DEF TruthInv
<1> QED BY <1>2, <1>3

LEMMA TruthInit == SelfInit => TruthInv
<1> SUFFICES ASSUME SelfInit PROVE TruthInv
  OBVIOUS
<1>1. ListInv
  BY DEF SelfInit, ListInv
<1>2. AnswersInv
  BY ReadersAssumption DEF SelfInit, AnswersInv, AnswerInv, Outcomes
<1> QED BY <1>1, <1>2, SelfInitInv, LockInitInv DEF TruthInv

(* What a listing in progress has listed, and what it has yet to list,     *)
(* account for all that was shown during the request.                      *)
THEOREM TruthInvariant == SelfSpec => []TruthInv
BY TruthInit, TruthStep, PTL DEF SelfSpec

LEMMA AnswersInvListings == AnswersInv => ListedWasThere /\ KeptIsListed
BY DEF AnswersInv, AnswerInv, ListedWasThere, Complete, RightlyMissing,
   KeptIsListed

(* A description lists only what the index held at some moment of the      *)
(* request, with the description it had then.                              *)
THEOREM ListingsAreTrue == SelfSpec => []ListedWasThere
BY AnswersInvListings, TruthInvariant, PTL DEF TruthInv

(* What the index held all through the request is listed, or found.        *)
THEOREM ListingsAreComplete == SelfSpec => []KeptIsListed
BY AnswersInvListings, TruthInvariant, PTL DEF TruthInv
=============================================================================
