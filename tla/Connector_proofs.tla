--------------------------- MODULE Connector_proofs ---------------------------
(***************************************************************************)
(* Theorems about Connector, for every configuration and any number of     *)
(* restarts: what is proved of the handlers holds across restarts, and     *)
(* with one thread what was confirmed is held after them.                  *)
(***************************************************************************)
EXTENDS Connector, MessageHandlers_proofs, ArtifactFreshness_proofs

-----------------------------------------------------------------------------
(* What a restart leaves.                                                  *)

(* The process as it begins, with the directory and the broker as they     *)
(* are by then.                                                            *)
StartedWatcher ==
  /\ disk \in [Names -> AllContents]
  /\ \A n \in Names : disk[n] \in Contents(n)
  /\ edits \in 0..MaxEdits
  /\ pending = <<>> /\ batch = <<>>
  /\ phase = "registered"
  /\ toList = {}
  /\ call = None
  /\ told = [n \in Names |-> FALSE]
  /\ lost = FALSE

StartedManager ==
  /\ StartedWatcher
  /\ IndexInit
  /\ pc = "start"
  /\ contractStack = [b \in Bases |-> None]
  /\ descriptionStack = [b \in Bases |-> None]
  /\ negotiationStack = [b \in Bases |-> None]
  /\ broker \subseteq CatalogueEntry
  /\ brokerOk \in BOOLEAN

LEMMA StartedManagerInv == StartedManager => ManagerInv
<1> SUFFICES ASSUME StartedManager PROVE ManagerInv
  OBVIOUS
<1> USE DEF StartedManager, StartedWatcher
<1>1. WatcherTypeOK
  <2>1. <<>> \in Seq(Event) /\ Len(<<>>) = 0
    OBVIOUS
  <2>2. 0 <= MaxEvents
    BY WatcherAssumption
  <2> QED BY <2>1, <2>2 DEF WatcherTypeOK, Phases
<1>2. PhaseInv
  BY DEF PhaseInv
<1>3. QueueInv
  BY EmptySaysNothing DEF QueueInv
<1>4. NamesInv
  <2>1. ASSUME NEW n \in Names PROVE NameInv(n)
    <3>1. (disk[n] # Absent) \in BOOLEAN
      OBVIOUS
    <3>2. Settled(n)
      BY DEF Settled
    <3> QED BY <3>1, <3>2, EmptySaysNothing DEF NameInv
  <2> QED BY <2>1 DEF NamesInv
<1>5. ManagerTypeOK
  BY DEF IndexInit, ManagerTypeOK, IndexTypeOK, StackTypeOK, BrokerTypeOK
<1>6. PcInv
  BY DEF PcInv, PCs
<1>7. FilesInv
  BY DEF FilesInv, FileInv, IndexInit, exists, Names
<1> QED BY <1>1, <1>2, <1>3, <1>4, <1>5, <1>6, <1>7 DEF ManagerInv, WatcherInv

LEMMA RestartStarts ==
  ASSUME HandlerInv, Restart
  PROVE  StartedManager'
<1>1. WatcherTypeOK /\ broker \subseteq CatalogueEntry /\ brokerOk \in BOOLEAN
  BY DEF HandlerInv, SelfInv, ManagerInv, WatcherInv, ManagerTypeOK,
     BrokerTypeOK
<1>2. StartedWatcher'
  BY <1>1 DEF Restart, WatcherStarts, StartedWatcher, WatcherTypeOK, Contents
<1>3. broker' \subseteq CatalogueEntry /\ brokerOk' \in BOOLEAN
  BY <1>1 DEF Restart, ManagerStarts, brokerVars
<1>4. IndexInit'
  BY DEF Restart, ManagerStarts, IndexInit
<1> QED BY <1>2, <1>3, <1>4 DEF Restart, ManagerStarts, StartedManager

LEMMA RestartSelf ==
  ASSUME HandlerInv, Restart
  PROVE  SelfInv'
<1>1. ManagerInv'
  BY RestartStarts, StartedManagerInv, PTL
<1>2. ListTypeOK'
  BY DEF Restart, ReadersStart, ListTypeOK, HandlerInv, SelfInv
<1>3. ReaderTypeOK' /\ HistoryTypeOK'
  BY DEF Restart, ReadersStart, ReaderTypeOK, HistoryTypeOK, Places
<1> QED BY <1>1, <1>2, <1>3 DEF SelfInv

LEMMA LoadedMemory ==
  ASSUME HandlerInv
  PROVE  /\ Store!Loaded(file) \in Store!Memory
         /\ AllOffered(Store!Loaded(file))
         /\ file \in Store!Memory => Store!Loaded(file) = file
<1>1. Store!Empty \in Store!Memory /\ AllOffered(Store!Empty)
  BY DEF Store!Empty, Store!Memory, AllOffered
<1>2. file \in Store!Memory => file \notin {Missing, Torn} /\ AllOffered(file)
  BY EntriesAssumption DEF HandlerInv, OfferedInv
<1>3. file \in Store!Memory \cup {Missing, Torn}
  BY DEF HandlerInv, Store!StoreTypeOK
<1> QED BY <1>1, <1>2, <1>3 DEF Store!Loaded

LEMMA RestartInv ==
  ASSUME HandlerInv, Restart
  PROVE  HandlerInv'
<1>1. SelfInv'
  BY RestartSelf
<1>2. Store!StoreTypeOK'
  BY LoadedMemory DEF Restart, Store!Restart, HandlerInv, Store!StoreTypeOK
<1>3. WorkerTypeOK' /\ HistoryOK'
  BY DEF Restart, WorkersStart, WorkerTypeOK, HistoryOK, HandlerInv, Steps
<1>4. ASSUME NEW w \in Workers
      PROVE  Serves(w)' /\ Follows(w)' /\ Answered(w)'
  BY DEF Restart, WorkersStart, Store!Restart, Serves, Follows, Answered,
     Reading
<1>5. OfferedInv'
  <2>1. UNCHANGED offered
    BY DEF Restart
  <2>2. \A memory : AllOffered(memory) => AllOffered(memory)'
    BY <2>1 DEF AllOffered, WasOffered
  <2>3. AllOffered(signedContractIndex)' /\ (file' \in Store!Memory => AllOffered(file)')
    BY <2>2, LoadedMemory DEF Restart, Store!Restart, HandlerInv, OfferedInv
  <2>4. \A w \in Workers : step'[w] = "idle" /\ adding'[w] = None
    BY DEF Restart, WorkersStart, Store!Restart
  <2>5. \A a \in Artifact : ~hasContract(a)'
    BY DEF Restart, ManagerStarts, hasContract
  <2>6. \A w \in Workers : writing'[w] \notin Store!Memory
    BY EntriesAssumption DEF Restart, Store!Restart
  <2> QED BY <2>3, <2>4, <2>5, <2>6 DEF OfferedInv
<1> QED BY <1>1, <1>2, <1>3, <1>4, <1>5 DEF HandlerInv

-----------------------------------------------------------------------------
(* Types, terms and answers.                                               *)

ProcessInv ==
  /\ HandlerInv
  /\ restarts \in 0..MaxRestarts
  /\ confirmed \subseteq Artifact \X Parties

LEMMA ProcessInvInit == ProcessInit => ProcessInv
BY HandlerInvInit, RestartsAssumption DEF ProcessInit, ProcessInv

LEMMA ProcessInvStep ==
  ASSUME ProcessInv, [ProcessNext]_processVars
  PROVE  ProcessInv'
<1>1. CASE Run
  <2>1. HandlerInv'
    BY <1>1, HandlerInvStep DEF Run, ProcessInv
  <2>2. \A w \in Workers :
          adding[w] # None => <<adding[w].target, adding[w].party>> \in Artifact \X Parties
    BY DEF ProcessInv, HandlerInv, Store!StoreTypeOK, Store!Arguments
  <2> QED BY <1>1, <2>1, <2>2 DEF Run, ProcessInv
<1>2. CASE Restart
  <2>1. HandlerInv'
    BY <1>2, RestartInv DEF ProcessInv
  <2> QED BY <1>2, <2>1, RestartsAssumption DEF Restart, ProcessInv
<1>3. CASE UNCHANGED processVars
  <2>1. HandlerInv'
    BY <1>3, HandlerInvStep DEF processVars, ProcessInv
  <2> QED BY <1>3, <2>1 DEF processVars, ProcessInv
<1> QED BY <1>1, <1>2, <1>3 DEF ProcessNext

(* Restarts included: the types of all state, and the rest of HandlerInv.  *)
THEOREM ProcessInvariant == ProcessSpec => []ProcessInv
BY ProcessInvInit, ProcessInvStep, PTL DEF ProcessSpec

(* Whatever is in memory when the process ends, it starts again within its *)
(* types (Main, InMemoryArtifactIndex.load).                               *)
THEOREM ProcessTypesHold == ProcessSpec => []ProcessTypeOK
<1>1. ProcessInv => ProcessTypeOK
  BY HandlerInvTypes DEF ProcessInv, ProcessTypeOK
<1> QED BY <1>1, ProcessInvariant, PTL

(* What is signed was offered for the file at some time, also before the   *)
(* process was started again.                                              *)
THEOREM TermsOutlastRestarts == ProcessSpec => []AgreedTermsWereOffered
<1>1. ProcessInv => AgreedTermsWereOffered
  BY HandlerInvTerms DEF ProcessInv
<1> QED BY <1>1, ProcessInvariant, PTL

(* Restarts included, an artifact is sent and a request answered only for  *)
(* the reasons that DeliveryHadReason and SteadyAnswers admit: nothing a   *)
(* restart loses or reads back misleads a handler.                         *)
THEOREM DeliveriesOutlastRestarts ==
  ProcessSpec => [](DeliveryHadReason /\ SteadyAnswers)
<1>1. ProcessInv => DeliveryHadReason /\ SteadyAnswers
  BY HandlerInvAnswers DEF ProcessInv
<1> QED BY <1>1, ProcessInvariant, PTL

-----------------------------------------------------------------------------
(* The index and the broker.                                               *)

(* What holds of the directory, the index and the broker between the steps *)
(* of any component; with files renamed over others FreshInv does not.     *)
IndexInv == GoneInv /\ DescribedInv /\ BrokerInv /\ (~AtomicReplace => FreshInv)

LEMMA IndexInvNext ==
  ASSUME ManagerInv, ManagerInv', IndexInv, [Next]_vars
  PROVE  IndexInv'
BY GoneNext, DescribedNext, BrokerStep, FreshNext DEF IndexInv, GoneManager

(* A contract put back, and the handlers, leave alone what it speaks of.   *)
LEMMA IndexInvKept ==
  ASSUME IndexInv,
         UNCHANGED <<watcherVars, pc, index, descriptionIndex, stackVars,
                     brokerVars>>
  PROVE  IndexInv'
<1>1. GoneInv'
  BY DEF IndexInv, GoneInv, Queued, watcherVars
<1>2. DescribedInv'
  BY DEF IndexInv, DescribedInv, Describes, Awaited, Carries, Handled, Queued,
     exists, OfKind, Paired, SearchKeys, watcherVars, stackVars
<1>3. BrokerInv'
  BY CatalogueKept DEF IndexInv, BrokerInv, brokerVars
<1>4. FreshInv => FreshInv'
  BY DEF FreshInv, Outdated, Renewed, Leaving, Queued, exists, watcherVars
<1> QED BY <1>1, <1>2, <1>3, <1>4 DEF IndexInv

LEMMA IndexInvStart ==
  StartedManager /\ (BrokerIgnore \/ ~brokerOk \/ broker = {}) => IndexInv
<1> SUFFICES ASSUME StartedManager, BrokerIgnore \/ ~brokerOk \/ broker = {}
             PROVE  IndexInv
  OBVIOUS
<1> USE DEF StartedManager, StartedWatcher
<1>1. \A f \in Files : ~exists(f)
  BY DEF IndexInit, exists
<1>2. GoneInv /\ DescribedInv
  BY DEF GoneInv, DescribedInv, Awaited
<1>3. BrokerInv
  BY <1>1 DEF BrokerInv, Catalogue, getAllArtifacts
<1>4. FreshInv
  BY <1>1 DEF FreshInv, Outdated
<1> QED BY <1>2, <1>3, <1>4 DEF IndexInv

-----------------------------------------------------------------------------
(* The listings.                                                           *)

ListingInv == OwnInv /\ LockInv /\ ListInv /\ AnswersInv

LEMMA ListingInvSelf ==
  ASSUME SelfInv, ListingInv, [SelfNext]_selfVars
  PROVE  ListingInv'
<1>1. TruthInv'
  BY TruthStep DEF TruthInv, ListingInv
<1>2. OwnInv'
  BY SelfStepCases, OwnNext, OwnPutBack, CarriedStep
     DEF SelfInv, OwnInv, ListingInv
<1> QED BY <1>1, <1>2 DEF TruthInv, ListingInv

(* The handlers share nothing with the listings but the count of requests. *)
LEMMA ListingInvKept ==
  ASSUME ListingInv, UNCHANGED <<vars, listVars, readerVars, seen, kept>>
  PROVE  ListingInv'
<1>1. /\ UNCHANGED <<known, lock, started, upNext, carried, resources>>
      /\ UNCHANGED <<place, element, result, outcome>>
      /\ UNCHANGED <<indexVars, stackVars, pc, call>>
  BY DEF listVars, readerVars, vars, managerVars, watcherVars
<1>2. /\ Listable' = Listable /\ Shown' = Shown
      /\ \A a : Entry(a)' = Entry(a)
  BY <1>1, ListableKept, ShownKept DEF Entry, indexVars
<1>3. OwnInv'
  BY <1>1 DEF ListingInv, OwnInv, CarriedIsOwn, AttachmentsAreOwn, IndexIsOwn,
     StacksAreOwn, hasContract, hasDescription, hasNegotiation, indexVars,
     stackVars
<1>4. LockInv' /\ ListInv'
  BY <1>1, <1>2 DEF ListingInv, LockInv, Changed, Waiting, ListInv, Listed
<1>5. AnswersInv'
  BY <1>1, <1>2 DEF ListingInv, AnswersInv, AnswerInv, Complete, RightlyMissing
<1> QED BY <1>3, <1>4, <1>5 DEF ListingInv

(* No listing, and no request for one.                                     *)
StartedReaders ==
  /\ lock = None /\ carried = None /\ resources = {}
  /\ place = [r \in Readers |-> "idle"]
  /\ outcome = [r \in Readers |-> None]

LEMMA ListingInvStart == StartedManager /\ StartedReaders => ListingInv
<1> SUFFICES ASSUME StartedManager, StartedReaders PROVE ListingInv
  OBVIOUS
<1> USE DEF StartedReaders
<1>1. OwnInv
  BY DEF StartedManager, IndexInit, OwnInv, CarriedIsOwn, AttachmentsAreOwn,
     IndexIsOwn, StacksAreOwn, hasContract, hasDescription, hasNegotiation
<1>2. LockInv /\ ListInv
  BY DEF LockInv, ListInv
<1>3. AnswersInv
  BY ReadersAssumption DEF AnswersInv, AnswerInv, Outcomes
<1> QED BY <1>1, <1>2, <1>3 DEF ListingInv

-----------------------------------------------------------------------------
(* Both are kept by every step of the process.                             *)

LEMMA WholeInit == ProcessInit => IndexInv /\ ListingInv
<1> SUFFICES ASSUME ProcessInit PROVE IndexInv /\ ListingInv
  OBVIOUS
<1>1. SelfInit /\ Init
  BY DEF ProcessInit, ConnectorInit, SelfInit
<1>2. IndexInv
  <2>1. GoneInv /\ DescribedInv
    BY <1>1 DEF Init, WatcherInit, GoneInv, DescribedInv, Awaited
  <2>2. BrokerInv
    BY <1>1 DEF Init, IndexInit, BrokerInv, Catalogue, getAllArtifacts, exists
  <2>3. FreshInv
    BY <1>1 DEF Init, IndexInit, FreshInv, Outdated, exists
  <2> QED BY <2>1, <2>2, <2>3 DEF IndexInv
<1>3. OwnInv
  BY <1>1 DEF Init, IndexInit, SelfInit, OwnInv, CarriedIsOwn,
     AttachmentsAreOwn, IndexIsOwn, StacksAreOwn, hasContract, hasDescription,
     hasNegotiation
<1> QED BY <1>1, <1>2, <1>3, TruthInit DEF TruthInv, ListingInv

LEMMA WholeRestart ==
  ASSUME HandlerInv, Restart
  PROVE  IndexInv' /\ ListingInv'
<1>1. StartedManager'
  BY RestartStarts
<1>2. (BrokerIgnore \/ ~brokerOk \/ broker = {})'
  BY DEF Restart, ManagerStarts
<1>3. StartedReaders'
  BY DEF Restart, ReadersStart, StartedReaders
<1> QED BY <1>1, <1>2, <1>3, IndexInvStart, ListingInvStart, PTL

LEMMA WholeStep ==
  ASSUME ProcessInv, ProcessInv', IndexInv, ListingInv,
         [ProcessNext]_processVars
  PROVE  IndexInv' /\ ListingInv'
<1>0. SelfInv /\ ManagerInv /\ ManagerInv'
  BY DEF ProcessInv, HandlerInv, SelfInv
<1>1. CASE SelfNext
  <2>1. CASE [Next]_vars
    BY <1>0, <1>1, <2>1, IndexInvNext, ListingInvSelf
  <2>2. CASE PutsBack
    BY <1>0, <1>1, <2>2, IndexInvKept, ListingInvSelf DEF PutsBack
  <2> QED BY <1>1, <2>1, <2>2, SelfStepCases
<1>2. CASE UNCHANGED <<vars, listVars, readerVars, seen, kept>>
  <2>1. UNCHANGED <<watcherVars, pc, index, descriptionIndex, stackVars,
                    brokerVars>>
    BY <1>2 DEF vars, managerVars, indexVars
  <2> QED BY <1>2, <2>1, IndexInvKept, ListingInvKept
<1>3. CASE Restart
  BY <1>3, WholeRestart DEF ProcessInv
<1>4. UNCHANGED processVars =>
        UNCHANGED <<vars, listVars, readerVars, seen, kept>>
  BY DEF processVars, connectorVars, selfVars
<1> QED BY <1>1, <1>2, <1>3, <1>4 DEF ProcessNext, Run, ConnectorNext

WholeInv == ProcessInv /\ IndexInv /\ ListingInv

(* The invariants of the components hold of the process that is made of    *)
(* them, across restarts.                                                  *)
THEOREM WholeInvariant == ProcessSpec => []WholeInv
<1>1. ProcessInit => WholeInv
  BY ProcessInvInit, WholeInit DEF WholeInv
<1>2. WholeInv /\ [ProcessNext]_processVars => WholeInv'
  BY ProcessInvStep, WholeStep DEF WholeInv
<1> QED BY <1>1, <1>2, PTL DEF ProcessSpec

(* Started again, the process makes up its index from the directory as it  *)
(* is by then: once the watcher has caught up, what the listener was last  *)
(* told of a file is true, the index holds every file of the directory and *)
(* no name that is not there (setUp, then run and the listener).           *)
THEOREM DirectoryIsFollowedAgain ==
  ProcessSpec => [](LastWordIsTrue /\ IndexTracksDirectory)
<1>1. WholeInv => LastWordIsTrue /\ IndexTracksDirectory
  BY ManagerInvTracks, WatcherInvImplies
     DEF WholeInv, ProcessInv, HandlerInv, SelfInv, ManagerInv
<1> QED BY <1>1, WholeInvariant, PTL

(* And then, while handlers and listings read the index, every artifact is *)
(* described as its file is now, as long as no file is renamed over        *)
(* another.                                                                *)
THEOREM IndexIsFreshAgain ==
  ASSUME ~AtomicReplace
  PROVE  ProcessSpec => []IndexIsUpToDate
<1>1. WholeInv => IndexIsUpToDate
  BY FreshInvUpToDate DEF WholeInv, IndexInv
<1> QED BY <1>1, WholeInvariant, PTL

(* And carries the description that its metadata file holds, although what *)
(* listings put back, and restarts, come between: unless a third name is   *)
(* mistaken for one of the two.                                            *)
THEOREM DescriptionsAreFollowedAgain == ProcessSpec => []DescriptionTracksFile
<1>1. WholeInv => DescriptionTracksFile
  BY DescribedInvTracks DEF WholeInv, IndexInv, ProcessInv, HandlerInv, SelfInv
<1> QED BY <1>1, WholeInvariant, PTL

(* Between two calls the broker holds the catalogue of the index, also of  *)
(* a process that registered with an empty one where the broker still had  *)
(* that of the process before (setUp and updateBroker).                    *)
THEOREM BrokerIsInStepAgain == ProcessSpec => []BrokerInStep
<1>1. WholeInv => BrokerInStep
  BY BrokerInvInStep DEF WholeInv, IndexInv, ProcessInv, HandlerInv, SelfInv
<1> QED BY <1>1, WholeInvariant, PTL

(* What is attached to an artifact was read from a metadata file of the    *)
(* kind whose name, cut at one of the suffixes, is the artifact's base,    *)
(* also in the whole process.                                              *)
THEOREM AttachmentsAreOwnThroughout == ProcessSpec => []AttachmentsAreOwn
<1>1. WholeInv => AttachmentsAreOwn
  BY DEF WholeInv, ListingInv, OwnInv
<1> QED BY <1>1, WholeInvariant, PTL

(* No handler and no restart makes a description list what was not there,  *)
(* or leave out what was there all along.                                  *)
THEOREM ListingsAreTrueThroughout ==
  ProcessSpec => [](ListedWasThere /\ KeptIsListed)
<1>1. WholeInv => ListedWasThere /\ KeptIsListed
  BY AnswersInvListings DEF WholeInv, ListingInv
<1> QED BY <1>1, WholeInvariant, PTL

(* While a thread lists the artifacts the index changes at most once, and  *)
(* never by a restart: none is survived by a listing.                      *)
THEOREM OneChangeThroughout == ProcessSpec => OneChangePerListing
<1>1. WholeInv /\ [ProcessNext]_processVars =>
        [lock # None /\ lock' = lock /\ Changed => index' = index]_selfVars
  <2> SUFFICES ASSUME WholeInv, [ProcessNext]_processVars,
                      lock # None, lock' = lock, Changed
               PROVE  index' = index
    OBVIOUS
  <2>1. CASE SelfNext
    BY <2>1, LockStep DEF WholeInv, ListingInv, ProcessInv, HandlerInv
  <2>2. CASE UNCHANGED vars
    BY <2>2 DEF vars, managerVars, indexVars
  <2>3. ~Restart
    BY DEF Restart, ReadersStart
  <2>4. UNCHANGED processVars => UNCHANGED vars
    BY DEF processVars, connectorVars, selfVars
  <2> QED BY <2>1, <2>2, <2>3, <2>4 DEF ProcessNext, Run, ConnectorNext
<1> QED BY <1>1, WholeInvariant, PTL DEF ProcessSpec, OneChangePerListing

-----------------------------------------------------------------------------
(* The store of signed contracts.                                          *)

(* Whatever the handlers, the change manager and the restarts do to the    *)
(* signed contracts, a thread of the store on its own may do.              *)
LEMMA StoreStep ==
  ASSUME HandlerInv, [ProcessNext]_processVars
  PROVE  [Store!StoreNext]_(Store!storeVars)
<1>1. CASE UNCHANGED storeVars
  BY <1>1 DEF storeVars, Store!storeVars, Store!saveVars
<1>2. ASSUME NEW w \in Workers, Handler(w)
      PROVE  Store!StoreNext \/ UNCHANGED storeVars
  <2>1. CASE Signs(w)
    <3>1. job[w].party \in Parties
      BY <2>1, AtWork DEF Signs, Goes, Continue
    <3> QED BY <2>1, <3>1 DEF Signs, Store!StoreNext
  <2>2. CASE StoreSteps(w) \/ Store!Leave(w)
    BY <2>2 DEF StoreSteps, Store!StoreNext, Store!Add
  <2>3. Accepting(w) => UNCHANGED storeVars
    BY DEF Accepting
  <2> QED BY <1>2, <2>1, <2>2, <2>3, HandlerCases DEF HandlerCase, Stay
<1>3. CASE Restart
  BY <1>3 DEF Restart, Store!StoreNext
<1>4. UNCHANGED processVars => UNCHANGED storeVars
  BY DEF processVars, connectorVars
<1> QED BY <1>1, <1>2, <1>3, <1>4 DEF ProcessNext, Run, ConnectorNext

(* The threads of the handlers are threads of the store, whose theorems    *)
(* speak of them.                                                          *)
Signatures ==
  INSTANCE SignedContractStore_proofs WITH
    Targets <- Artifact, Agreements <- Agreement, Writers <- Workers

LEMMA StoreAssumed == Signatures!StoreAssumption
BY EntriesAssumption
   DEF Signatures!StoreAssumption, Signatures!Bucket, Signatures!Arguments,
       Signatures!Memory, Store!Bucket, Store!Arguments, Store!Memory

(* The handlers, the change manager and the restarts, as far as they touch *)
(* the signed contracts, do what SignedContractStore says and no more:     *)
(* addSignedContract is never entered twice by a thread, nor for an        *)
(* artifact, a consumer or a text the store does not know.                 *)
THEOREM ProcessKeepsStore == ProcessSpec => Store!StoreSpec
<1>1. ProcessInit => Store!StoreInit
  BY DEF ProcessInit, ConnectorInit
<1>2. ProcessInv /\ [ProcessNext]_processVars
        => [Store!StoreNext]_(Store!storeVars)
  BY StoreStep DEF ProcessInv
<1> QED BY <1>1, <1>2, ProcessInvariant, PTL DEF ProcessSpec, Store!StoreSpec

(* Store and Signatures are the same store.                                *)
LEMMA SameStore ==
  /\ Store!StoreInit <=> Signatures!StoreInit
  /\ [Store!StoreNext]_(Store!storeVars)
       <=> [Signatures!StoreNext]_(Signatures!storeVars)
<1>1. Store!StoreInit <=> Signatures!StoreInit
  BY DEF Store!StoreInit, Signatures!StoreInit, Store!Empty, Signatures!Empty
<1>2. [Store!StoreNext]_(Store!storeVars)
        <=> [Signatures!StoreNext]_(Signatures!storeVars)
  BY DEF Store!StoreNext, Store!addSignedContract, Store!Add, Store!Check,
         Store!Fresh, Store!Put, Store!PutThrows, Store!Open,
         Store!OpenFails, Store!Write, Store!Close, Store!Leave,
         Store!Restart, Store!saveVars,
         Store!Step, Store!Busy, Store!Saving, Store!Loaded, Store!Empty,
         Store!EmptyBucket, Store!hasSignedContract,
         Store!getSignedContract, Store!storeVars, Signatures!StoreNext,
         Signatures!addSignedContract, Signatures!Add, Signatures!Check,
         Signatures!Fresh, Signatures!Put, Signatures!PutThrows,
         Signatures!Open, Signatures!OpenFails, Signatures!Write,
         Signatures!Close, Signatures!Leave, Signatures!Restart,
         Signatures!Step, Signatures!saveVars,
         Signatures!Busy, Signatures!Saving, Signatures!Loaded,
         Signatures!Empty, Signatures!EmptyBucket,
         Signatures!hasSignedContract, Signatures!getSignedContract,
         Signatures!storeVars
<1> QED BY <1>1, <1>2

LEMMA SameRegister ==
  /\ Signatures!Register!RegisterInit <=> Store!Register!RegisterInit
  /\ [Signatures!Register!RegisterNext]_(Signatures!Register!registerVars)
       <=> [Store!Register!RegisterNext]_(Store!Register!registerVars)
BY DEF Store!Register!RegisterInit, Store!Register!RegisterNext,
         Store!Register!Begin, Store!Register!Sign, Store!Register!Finish,
         Store!Register!Crash, Store!Register!With, Store!Register!Nothing,
         Store!Register!registerVars, Store!Held, Store!InProgress,
         Store!getSignedContract, Store!hasSignedContract,
         Signatures!Register!RegisterInit,
         Signatures!Register!RegisterNext, Signatures!Register!Begin,
         Signatures!Register!Sign, Signatures!Register!Finish,
         Signatures!Register!Crash, Signatures!Register!With,
         Signatures!Register!Nothing, Signatures!Register!registerVars,
         Signatures!Held, Signatures!InProgress,
         Signatures!getSignedContract, Signatures!hasSignedContract

(* With any number of request threads, an agreement that was held while no *)
(* handler was adding one about its artifact is held until the process     *)
(* ends.                                                                   *)
THEOREM SettledStaysThroughout == ProcessSpec => []Store!SettledAgreementsStay
<1>1. Signatures!StoreSpec => []Signatures!SettledAgreementsStay
  BY Signatures!SettledStays, StoreAssumed
<1>2. Signatures!SettledAgreementsStay => Store!SettledAgreementsStay
  BY DEF Signatures!SettledAgreementsStay, Store!SettledAgreementsStay,
     Signatures!hasSignedContract, Store!hasSignedContract
<1> QED BY <1>1, <1>2, SameStore, ProcessKeepsStore, PTL
        DEF Store!StoreSpec, Signatures!StoreSpec

(* With any number of request threads, what is settled would be read back  *)
(* after a restart, unless the file shows damage, or a save failed or ran  *)
(* beside another and none has made up for it since.                       *)
THEOREM SettledIsSavedThroughout == ProcessSpec => []Store!SettledIsSaved
<1>1. Signatures!StoreSpec => []Signatures!SettledIsSaved
  BY Signatures!WhatIsSettledIsSaved, StoreAssumed
<1>2. Signatures!SettledIsSaved => Store!SettledIsSaved
  BY DEF Signatures!SettledIsSaved, Store!SettledIsSaved, Signatures!Covers,
     Store!Covers, Signatures!Loaded, Store!Loaded, Signatures!Empty,
     Store!Empty, Signatures!Busy, Store!Busy,
     Signatures!hasSignedContract, Store!hasSignedContract
<1> QED BY <1>1, <1>2, SameStore, ProcessKeepsStore, PTL
        DEF Store!StoreSpec, Signatures!StoreSpec

(* With one request thread, and a disk that works, the connector's signed  *)
(* contracts are a register of agreements: what a handler has added        *)
(* survives every restart, but for one that interrupts an addition.        *)
THEOREM SingleThreadKeepsRegister ==
  ASSUME NEW u, Workers = {u}, ~DiskFails
  PROVE  ProcessSpec => Store!IsRegister
<1>1. Signatures!StoreSpec => Signatures!IsRegister
  BY Signatures!SingleThreadIsRegister, StoreAssumed
<1> QED BY <1>1, SameStore, SameRegister, ProcessKeepsStore, PTL
        DEF Store!StoreSpec, Signatures!StoreSpec, Store!IsRegister,
            Signatures!IsRegister, Store!Register!RegisterSpec,
            Signatures!Register!RegisterSpec

-----------------------------------------------------------------------------
(* One thread: what is confirmed is held.                                  *)

InMemory(memory, t, p) == memory[t] # None /\ memory[t][p] # None

(* What the one thread has put is there until its call returns.            *)
AloneInv(u) ==
  at[u] \in {"open", "write", "close", "done"} =>
    InMemory(signedContractIndex, adding[u].target, adding[u].party)

(* An agreement confirmed is settled, or will be as soon as another one    *)
(* about its artifact is added.                                            *)
ConfirmedInv ==
  \A c \in confirmed :
    \/ settled[c[1]][c[2]]
    \/ Store!Busy(c[1]) = {} /\ InMemory(signedContractIndex, c[1], c[2])

LEMMA ConfirmedInvHolds ==
  ProcessInv /\ Store!SettledAgreementsStay /\ ConfirmedInv => ConfirmedStays
BY DEF ProcessInv, Store!SettledAgreementsStay, ConfirmedInv, ConfirmedStays,
   InMemory, Store!hasSignedContract

LEMMA SigningSteps ==
  ASSUME HandlerInv, NEW w \in Workers, Handler(w), step[w] = "signing"
  PROVE  Signing(w) \/ Signed(w)
BY DEF Handler, Accepting, GetContract, HasContract, ContractId, Target,
   CheckSigned, Deliver, Find, Compare, CompareOffer, Accept, MakeAgreement,
   Decline, MakeOffer, Agree, NoToken, Disturbed, LookUp, Continue, Reply,
   LookingUp

(* A step that confirms nothing and leaves the store alone.                *)
LEMMA NothingConfirmed ==
  ASSUME HandlerInv, Run, \A w \in Workers : adding[w] # None => reply'[w] = reply[w]
  PROVE  UNCHANGED confirmed
<1>1. ASSUME NEW w \in Workers, adding[w] # None
      PROVE  reply'[w] = None
  BY <1>1, AtWork DEF HandlerInv, Store!StoreTypeOK, Serves
<1>2. None \notin {"agreement", "success"}
  BY EntriesAssumption DEF Answers
<1> QED BY <1>1, <1>2 DEF Run

(* A put of the one thread keeps what is held, and adds what it enters.    *)
LEMMA PutHolds ==
  ASSUME Store!StoreTypeOK, NEW u \in Workers, Workers = {u}, Store!Put(u)
  PROVE  /\ InMemory(signedContractIndex', adding[u].target, adding[u].party)
         /\ \A t \in Artifact, p \in Parties :
              InMemory(signedContractIndex, t, p) =>
                InMemory(signedContractIndex', t, p)
<1> DEFINE s == adding[u].target
           q == adding[u].party
           g == adding[u].agreement
           bucket == [signedContractIndex[s] EXCEPT ![q] = g]
<1>1. s \in Artifact /\ q \in Parties /\ g \in Agreement
  BY StoreMove DEF Store!Put, Store!Arguments, Stations
<1>2. signedContractIndex[s] \in Store!Bucket
  BY <1>1 DEF Store!Put, Store!StoreTypeOK, Store!Memory
<1>3. signedContractIndex' = [signedContractIndex EXCEPT ![s] = bucket]
  BY DEF Store!Put, Store!Busy
<1>4. bucket \in Store!Bucket /\ bucket[q] = g
      /\ \A p \in Parties : p # q => bucket[p] = signedContractIndex[s][p]
  BY <1>1, <1>2 DEF Store!Bucket
<1>5. bucket # None /\ g # None
  BY <1>1, <1>4, EntriesAssumption
<1> HIDE DEF s, q, g, bucket
<1>6. signedContractIndex'[s] = bucket
      /\ \A t \in Artifact : t # s => signedContractIndex'[t] = signedContractIndex[t]
  BY <1>1, <1>3 DEF Store!StoreTypeOK, Store!Memory
<1> QED BY <1>1, <1>4, <1>5, <1>6 DEF InMemory, s, q

(* A step within addSignedContract changes one artifact's map, if any.     *)
LEMMA OtherMapsStay ==
  ASSUME Store!StoreTypeOK, NEW u \in Workers, StoreSteps(u),
         NEW t \in Artifact, t # adding[u].target
  PROVE  signedContractIndex'[t] = signedContractIndex[t]
<1>1. \/ UNCHANGED signedContractIndex
      \/ \E bucket : signedContractIndex' =
           [signedContractIndex EXCEPT ![adding[u].target] = bucket]
  BY DEF StoreSteps, Store!Check, Store!Fresh, Store!Put, Store!PutThrows,
     Store!Open, Store!OpenFails, Store!Write, Store!Close
<1> QED BY <1>1 DEF Store!StoreTypeOK, Store!Memory

LEMMA SigningConfirms ==
  ASSUME ProcessInv, NEW u \in Workers, Workers = {u}, AloneInv(u),
         ConfirmedInv, StoreSteps(u), UNCHANGED confirmed
  PROVE  AloneInv(u)' /\ ConfirmedInv'
<1>1. Store!StoreTypeOK
  BY DEF ProcessInv, HandlerInv
<1>2. /\ adding[u] \in Store!Arguments /\ UNCHANGED adding
  BY <1>1, StoreStepsMove
<1>3. \A c \in confirmed : c[1] \in Artifact /\ c[2] \in Parties
  BY DEF ProcessInv
<1>4. UNCHANGED settled
  BY DEF StoreSteps, Store!Check, Store!Fresh, Store!Put, Store!PutThrows,
     Store!Open, Store!OpenFails, Store!Write, Store!Close
<1>5. ConfirmedInv'
  <2> SUFFICES ASSUME NEW c \in confirmed, ~settled[c[1]][c[2]]
               PROVE  /\ Store!Busy(c[1])' = {}
                      /\ InMemory(signedContractIndex', c[1], c[2])
    BY <1>4 DEF ConfirmedInv
  <2>1. Store!Busy(c[1]) = {} /\ InMemory(signedContractIndex, c[1], c[2])
    BY DEF ConfirmedInv
  <2>2. Store!Busy(c[1])' = {}
    BY <1>2, <2>1 DEF Store!Busy
  <2>3. adding[u].target # c[1]
    BY <1>2, <2>1, EntriesAssumption DEF Store!Busy
  <2> QED BY <1>1, <1>3, <2>1, <2>2, <2>3, OtherMapsStay DEF InMemory
<1>6. AloneInv(u)'
  <2>1. CASE Store!Put(u)
    BY <1>1, <1>2, <2>1, PutHolds DEF AloneInv
  <2>2. CASE Store!Check(u) \/ Store!Fresh(u) \/ Store!PutThrows(u)
    BY <1>1, <2>2 DEF AloneInv, Store!Check, Store!Fresh, Store!PutThrows,
       Store!Step, Store!StoreTypeOK
  <2>3. CASE \/ Store!Open(u) \/ Store!OpenFails(u)
             \/ Store!Write(u) \/ Store!Close(u)
    <3>1. at[u] \in {"open", "write", "close"} /\ UNCHANGED signedContractIndex
      BY <2>3 DEF Store!Open, Store!OpenFails, Store!Write, Store!Close,
         Store!Step
    <3> QED BY <1>2, <3>1 DEF AloneInv
  <2> QED BY <2>1, <2>2, <2>3 DEF StoreSteps
<1> QED BY <1>5, <1>6

(* The one thread comes to addSignedContract and settles what is held.     *)
LEMMA EnteringConfirms ==
  ASSUME ProcessInv, NEW u \in Workers, Workers = {u}, ConfirmedInv,
         NEW t \in Artifact, NEW p \in Parties, NEW a \in Agreement,
         Store!addSignedContract(u, t, p, a), UNCHANGED confirmed
  PROVE  AloneInv(u)' /\ ConfirmedInv'
<1>1. Store!StoreTypeOK
  BY DEF ProcessInv, HandlerInv
<1>2. /\ at'[u] = "check" /\ adding'[u].target = t
      /\ UNCHANGED signedContractIndex
  BY <1>1, StoreAddType
<1>3. settled' =
        [settled EXCEPT ![t] =
           [q \in Parties |->
              settled[t][q] \/ (Store!Busy(t) = {}
                                /\ Store!hasSignedContract(t, q))]]
  BY DEF Store!addSignedContract
<1>4. AloneInv(u)'
  BY <1>2 DEF AloneInv
<1>5. ASSUME NEW c \in confirmed
      PROVE  \/ settled'[c[1]][c[2]]
             \/ Store!Busy(c[1])' = {}
                /\ InMemory(signedContractIndex', c[1], c[2])
  <2>1. c[1] \in Artifact /\ c[2] \in Parties
    BY DEF ProcessInv
  <2>2. \/ settled[c[1]][c[2]]
        \/ Store!Busy(c[1]) = {} /\ InMemory(signedContractIndex, c[1], c[2])
    BY DEF ConfirmedInv
  <2>3. CASE c[1] = t
    BY <1>1, <1>3, <2>1, <2>2, <2>3
       DEF InMemory, Store!hasSignedContract, Store!StoreTypeOK
  <2>4. CASE c[1] # t
    <3>1. settled'[c[1]] = settled[c[1]]
      BY <1>1, <1>3, <2>1, <2>4 DEF Store!StoreTypeOK
    <3>2. Store!Busy(c[1])' = {}
      BY <1>2, <2>4 DEF Store!Busy
    <3> QED BY <1>2, <2>2, <3>1, <3>2
  <2> QED BY <2>3, <2>4
<1> QED BY <1>4, <1>5 DEF ConfirmedInv

(* A step that leaves alone all the two invariants speak of.               *)
LEMMA StoreKept ==
  ASSUME NEW u, AloneInv(u), ConfirmedInv,
         UNCHANGED <<signedContractIndex, at, adding, settled, confirmed>>
  PROVE  AloneInv(u)' /\ ConfirmedInv'
<1>1. AloneInv(u)'
  BY DEF AloneInv, InMemory
<1>2. ConfirmedInv'
  BY DEF ConfirmedInv, InMemory, Store!Busy
<1> QED BY <1>1, <1>2

LEMMA HandlerConfirms ==
  ASSUME ProcessInv, NEW u \in Workers, Workers = {u}, AloneInv(u),
         ConfirmedInv, Run, Handler(u)
  PROVE  AloneInv(u)' /\ ConfirmedInv'
<1>1. HandlerInv /\ Store!StoreTypeOK
  BY DEF ProcessInv, HandlerInv
<1>2. CASE Signed(u)
  <2>1. /\ at[u] \in {"done", "failed"} /\ at' = [at EXCEPT ![u] = "idle"]
        /\ adding' = [adding EXCEPT ![u] = None]
        /\ UNCHANGED <<signedContractIndex, settled>>
    BY <1>2 DEF Signed, Store!Leave
  <2>2. at'[u] = "idle" /\ adding'[u] = None
    BY <1>1, <2>1 DEF Store!StoreTypeOK
  <2>3. AloneInv(u)'
    BY <2>2 DEF AloneInv
  <2>4. at[u] = "failed" => reply'[u] = "error"
    BY <1>1, <1>2 DEF Signed, Reply, HandlerInv, WorkerTypeOK
  <2>5. \A c \in confirmed' :
          \/ c \in confirmed
          \/ at[u] = "done" /\ c = <<adding[u].target, adding[u].party>>
    BY <2>1, <2>4 DEF Run
  <2>6. at[u] = "done" =>
          InMemory(signedContractIndex, adding[u].target, adding[u].party)
    BY DEF AloneInv
  <2>7. \A t : Store!Busy(t)' = {}
    BY <2>2 DEF Store!Busy
  <2>8. ConfirmedInv'
    BY <2>1, <2>5, <2>6, <2>7 DEF ConfirmedInv
  <2> QED BY <2>3, <2>8
<1>3. CASE Signing(u)
  <2>1. StoreSteps(u) /\ UNCHANGED reply
    BY <1>3 DEF Signing, StoreSteps, handlerVars, workerVars
  <2>2. UNCHANGED confirmed
    BY <1>1, <2>1, NothingConfirmed
  <2> QED BY <2>1, <2>2, SigningConfirms
<1>4. CASE step[u] # "signing"
  <2>1. adding[u] = None
    BY <1>1, <1>4 DEF HandlerInv, Serves, Store!StoreTypeOK
  <2>2. UNCHANGED confirmed
    BY <1>1, <2>1, NothingConfirmed
  <2>3. CASE UNCHANGED storeVars
    BY <2>2, <2>3, StoreKept DEF storeVars
  <2>4. CASE Signs(u)
    <3>1. job[u].party \in Parties
      BY <1>1, <2>4, AtWork DEF Signs, Goes, Continue
    <3> QED BY <2>2, <2>4, <3>1, EnteringConfirms DEF Signs
  <2> QED BY <1>1, <1>4, <2>3, <2>4, HandlerCases
          DEF HandlerCase, Accepting, Stay
<1> QED BY <1>1, <1>2, <1>3, <1>4, SigningSteps

(* What a restart does not take out of "confirmed" it reads back.          *)
LEMMA RestartConfirms ==
  ASSUME ProcessInv, NEW u \in Workers, Workers = {u}, ConfirmedInv,
         Store!SettledAgreementsStay, Store!SettledIsSaved, Restart
  PROVE  AloneInv(u)' /\ ConfirmedInv'
<1>1. AloneInv(u)'
  BY DEF Restart, Store!Restart, AloneInv
<1>2. CASE file = Torn \/ spoilt
  <2>1. confirmed' = {}
    BY <1>2 DEF Restart
  <2> QED BY <1>1, <2>1 DEF ConfirmedInv
<1>3. CASE file # Torn /\ ~spoilt
  <2>1. /\ UNCHANGED confirmed
        /\ signedContractIndex' = Store!Loaded(file)
        /\ \A t : Store!Busy(t)' = {}
    BY <1>3 DEF Restart, Store!Restart, Store!Busy
  <2>2. ASSUME NEW c \in confirmed
        PROVE  InMemory(signedContractIndex', c[1], c[2])
    <3>1. c[1] \in Artifact /\ c[2] \in Parties
      BY DEF ProcessInv
    <3>2. \/ settled[c[1]][c[2]]
          \/ Store!Busy(c[1]) = {} /\ Store!hasSignedContract(c[1], c[2])
      BY DEF ConfirmedInv, InMemory, Store!hasSignedContract
    <3>3. Store!Covers(Store!Loaded(file), c[1], c[2])
      BY <1>3, <3>1, <3>2 DEF Store!SettledIsSaved
    <3> QED BY <2>1, <3>3 DEF InMemory, Store!Covers
  <2> QED BY <1>1, <2>1, <2>2 DEF ConfirmedInv
<1> QED BY <1>1, <1>2, <1>3

LEMMA ConfirmedStep ==
  ASSUME ProcessInv, NEW u, Workers = {u}, AloneInv(u), ConfirmedInv,
         Store!SettledAgreementsStay, Store!SettledIsSaved,
         [ProcessNext]_processVars
  PROVE  AloneInv(u)' /\ ConfirmedInv'
<1>1. CASE Run /\ UNCHANGED <<workerVars, storeVars>>
  <2>1. UNCHANGED confirmed
    BY <1>1, NothingConfirmed DEF ProcessInv, workerVars
  <2> QED BY <1>1, <2>1, StoreKept DEF storeVars
<1>2. CASE Run /\ Handler(u)
  BY <1>2, HandlerConfirms
<1>3. CASE Restart
  BY <1>3, RestartConfirms
<1>4. CASE UNCHANGED processVars
  BY <1>4, StoreKept DEF processVars, connectorVars, storeVars
<1>5. Run => UNCHANGED <<workerVars, storeVars>> \/ Handler(u)
  BY DEF Run, ConnectorNext
<1> QED BY <1>1, <1>2, <1>3, <1>4, <1>5 DEF ProcessNext

(* With one thread, an agreement confirmed to its consumer is held from    *)
(* then on, across any number of restarts, whether or not the disk works:  *)
(* unless the process ends while the file of signed contracts is being     *)
(* written or cannot be read back, or while a save that failed is the last *)
(* to have read the maps (addSignedContract, save and load of              *)
(* InMemoryArtifactIndex with the handlers that call them).                *)
THEOREM ConfirmedIsHeld ==
  ASSUME NEW u, Workers = {u}
  PROVE  ProcessSpec => []ConfirmedStays
<1>1. ProcessInit => AloneInv(u) /\ ConfirmedInv
  BY DEF ProcessInit, ConnectorInit, Store!StoreInit, AloneInv, ConfirmedInv
<1>2. /\ ProcessInv /\ AloneInv(u) /\ ConfirmedInv
      /\ Store!SettledAgreementsStay /\ Store!SettledIsSaved
      /\ [ProcessNext]_processVars
      => AloneInv(u)' /\ ConfirmedInv'
  BY ConfirmedStep
<1>3. ProcessSpec => [](AloneInv(u) /\ ConfirmedInv)
  BY <1>1, <1>2, ProcessInvariant, SettledStaysThroughout,
     SettledIsSavedThroughout, PTL DEF ProcessSpec
<1> QED BY <1>3, ConfirmedInvHolds, ProcessInvariant, SettledStaysThroughout,
        PTL

=============================================================================
