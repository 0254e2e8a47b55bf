-------------------- MODULE ArtifactChangeManager_proofs --------------------
(***************************************************************************)
(* For every directory, every set of names and whatever the broker does:   *)
(* the change manager is a listener in the sense of DirectoryWatcher, and  *)
(* the index and the broker follow the directory.                          *)
(*                                                                         *)
(* The argument for the index: outside of a call about f, f is in the      *)
(* index exactly if the last call about f said so; the steps of a call     *)
(* bring this about before they return.  What the calls say about f is     *)
(* true by the theorem about the watcher.                                  *)
(***************************************************************************)
EXTENDS ArtifactChangeManager, DirectoryWatcher_proofs

(* Where the steps of a call stand.                                        *)
PcInv ==
  /\ pc \in PCs
  /\ call = None /\ phase # "stopped" => pc = "start"
  /\ call # None => phase # "stopped"
  /\ call # None => told[call.name] = (call.op # "remove")
  /\ pc \in {"unlink", "attach"} => call # None /\ call.name \in Files
  /\ pc = "publishRemoval" => call # None /\ call.op \in {"remove", "change"}
  /\ pc \in {"attach", "publish"} => call # None /\ call.op \in {"add", "change"}
  /\ pc = "unlink" => call.op \in {"remove", "change"}
  /\ pc = "add" => phase = "stopped" \/ (call # None /\ call.op = "change")

(* What the index says about f, during a call about f and otherwise.       *)
FileInv(f) ==
  IF call # None /\ call.name = f
    THEN /\ pc \in {"attach", "publish"} => exists(f)
         /\ pc = "publishRemoval" => ~exists(f)
    ELSE exists(f) <=> told[f]

FilesInv == phase # "stopped" => \A f \in Files : FileInv(f)

StackTypeOK ==
  /\ contractStack \in [Bases -> Text \cup {None}]
  /\ descriptionStack \in [Bases -> Text \cup {None}]
  /\ negotiationStack \in [Bases -> Text \cup {None}]

BrokerTypeOK == broker \subseteq CatalogueEntry /\ brokerOk \in BOOLEAN

ManagerTypeOK == IndexTypeOK /\ StackTypeOK /\ BrokerTypeOK

-----------------------------------------------------------------------------
(* Every step of the manager is a step of the watcher, or none.            *)

LEMMA RemovalDoneRefines ==
  RemovalDone => ListenerReturns \/ UNCHANGED watcherVars
BY DEF RemovalDone, Return, Goto

LEMMA ManagerRefines ==
  ASSUME Manager
  PROVE  ListenerReturns \/ ListenerThrows \/ UNCHANGED watcherVars
<1>1. CASE notifyRemove
  <2>1. CASE RemoveContract
    BY <2>1, RemovalDoneRefines DEF RemoveContract, Goto
  <2>2. CASE RemoveDescription
    BY <2>2, RemovalDoneRefines DEF RemoveDescription, Goto
  <2>3. CASE RemoveNegotiation
    BY <2>3, RemovalDoneRefines DEF RemoveNegotiation
  <2>4. CASE RemoveAttachments \/ RemoveArtifact
    BY <2>4 DEF RemoveAttachments, RemoveArtifact, Goto
  <2>5. CASE PublishRemoval
    BY <2>5, RemovalDoneRefines DEF PublishRemoval
  <2> QED BY <1>1, <2>1, <2>2, <2>3, <2>4, <2>5 DEF notifyRemove
<1>2. CASE notifyAdd
  <2>1. CASE AddContract
    BY <2>1 DEF AddContract, Goto, Return
  <2>2. CASE AddDescription
    BY <2>2 DEF AddDescription, Goto, Return
  <2>3. CASE AddNegotiation \/ AlreadyIndexed \/ Publish
    BY <2>3 DEF AddNegotiation, AlreadyIndexed, Publish, Return
  <2>4. CASE AddArtifact \/ Attach
    BY <2>4 DEF AddArtifact, Attach, Goto
  <2> QED BY <1>2, <2>1, <2>2, <2>3, <2>4 DEF notifyAdd
<1>3. CASE Throw
  BY <1>3 DEF Throw
<1> QED BY <1>1, <1>2, <1>3 DEF Manager

LEMMA StepRefines == [Next]_vars => [WatcherNext]_watcherVars
BY ManagerRefines DEF Next, WatcherNext, vars

(* The change manager with the watcher is an instance of the watcher with  *)
(* a listener of which only the returns and exceptions are known.          *)
LEMMA ManagerIsListener == Spec => WatcherSpec
<1>1. Init => WatcherInit
  BY DEF Init
<1> QED BY <1>1, StepRefines, PTL DEF Spec, WatcherSpec

(* What holds of the watcher holds of the watcher with the change manager. *)
THEOREM ManagerKeepsWatcherInv == Spec => []WatcherInv
BY ManagerIsListener, WatcherInvariant, PTL

-----------------------------------------------------------------------------
(* The steps of the main and the watcher's thread outside of a call.       *)

LEMMA ThreadCalls ==
  ASSUME WatcherInv, User \/ Thread \/ StopWatching
  PROVE  \/ UNCHANGED <<call, told>> /\ (phase' = phase \/ call = None)
         \/ /\ phase \in {"listing", "watching"} /\ phase' = phase
            /\ call = None
            /\ \E op \in {"add", "change", "remove"}, n \in Names :
                 Notify(op, n)
<1>1. CASE User
  BY <1>1 DEF User, Create, Write, Delete, Replace, Edit, threadVars
<1>2. CASE ListDirectory \/ StartWatching \/ Poll \/ StopWatching
  <2>1. phase = "registered" => call = None
    BY DEF WatcherInv, PhaseInv
  <2> QED BY <1>2, <2>1 DEF ListDirectory, StartWatching, Poll, StopWatching
<1>3. CASE ListNext
  BY <1>3 DEF ListNext, WatcherInv, WatcherTypeOK
<1>4. CASE Dispatch
  <2> DEFINE event == Head(batch)
  <2>1. event \in Event
    BY <1>4 DEF Dispatch, WatcherInv, WatcherTypeOK
  <2>2. CASE Notifies(event)
    <3>1. event.kind \in {"CREATE", "MODIFY", "DELETE"} /\ event.name \in Names
      BY <2>1, <2>2 DEF Notifies, Event, Overflow
    <3>2. Operation[event.kind] \in {"add", "change", "remove"}
      BY <3>1 DEF Operation
    <3> QED BY <1>4, <2>2, <3>1, <3>2 DEF Dispatch
  <2>3. CASE ~Notifies(event)
    BY <1>4, <2>3 DEF Dispatch
  <2> QED BY <2>2, <2>3
<1> QED BY <1>1, <1>2, <1>3, <1>4 DEF Thread

-----------------------------------------------------------------------------
(* Types.                                                                  *)

LEMMA InitTypes == Init => ManagerTypeOK
BY DEF Init, IndexInit, ManagerTypeOK, IndexTypeOK, StackTypeOK, BrokerTypeOK

LEMMA RelatedType ==
  ASSUME ManagerTypeOK, NEW n
  PROVE  Related(n) \subseteq Artifact /\ getAllArtifacts \subseteq Artifact
BY DEF ManagerTypeOK, IndexTypeOK, Related, getAllArtifacts, exists

LEMMA CatalogueType ==
  ASSUME ManagerTypeOK
  PROVE  Catalogue \subseteq CatalogueEntry
<1>1. getAllArtifacts \subseteq Artifact
  BY RelatedType
<1>2. \A a \in Artifact : descriptionIndex[a] \in Text \cup {None}
  BY DEF ManagerTypeOK, IndexTypeOK
<1> QED BY <1>1, <1>2 DEF Catalogue, CatalogueEntry

LEMMA UpdateBrokerTypes ==
  ASSUME ManagerTypeOK, UpdateBroker
  PROVE  BrokerTypeOK'
BY CatalogueType DEF UpdateBroker, ManagerTypeOK, BrokerTypeOK, brokerVars

(* In a call about a file of the directory, the name is of its kind.       *)
LEMMA CallName ==
  ASSUME WatcherTypeOK, call # None
  PROVE  /\ call.name \in Names
         /\ disk[call.name] \in Contents(call.name)
         /\ call.name \in MetaFiles => call.name.base \in Bases
BY NamesAssumption DEF WatcherTypeOK, Call

LEMMA RemoveTypes ==
  ASSUME ManagerTypeOK, WatcherTypeOK, PcInv, notifyRemove
  PROVE  ManagerTypeOK'
<1>1. Related(call.name) \subseteq Artifact
  BY RelatedType
<1>2. CASE RemoveContract
  BY <1>1, <1>2 DEF RemoveContract, removeContract, ManagerTypeOK, IndexTypeOK,
     StackTypeOK, BrokerTypeOK, stackVars, brokerVars
<1>3. CASE RemoveDescription
  BY <1>1, <1>3 DEF RemoveDescription, removeDescription, ManagerTypeOK,
     IndexTypeOK, StackTypeOK, BrokerTypeOK, stackVars, brokerVars
<1>4. CASE RemoveNegotiation
  BY <1>1, <1>4 DEF RemoveNegotiation, removeNegotiation, ManagerTypeOK,
     IndexTypeOK, StackTypeOK, BrokerTypeOK, stackVars, brokerVars
<1>5. CASE RemoveAttachments
  BY <1>1, <1>5 DEF RemoveAttachments, removeContract, removeNegotiation,
     removeDescription, ManagerTypeOK, IndexTypeOK, StackTypeOK, BrokerTypeOK,
     stackVars, brokerVars
<1>6. CASE RemoveArtifact
  BY <1>6, IndexAssumption DEF RemoveArtifact, removeArtifact, ManagerTypeOK,
     IndexTypeOK, StackTypeOK, BrokerTypeOK, stackVars, brokerVars
<1>7. CASE PublishRemoval
  <2>1. BrokerTypeOK'
    BY <1>7, UpdateBrokerTypes DEF PublishRemoval
  <2> QED BY <1>7, <2>1 DEF PublishRemoval, ManagerTypeOK, IndexTypeOK,
          StackTypeOK, indexVars, stackVars
<1> QED BY <1>2, <1>3, <1>4, <1>5, <1>6, <1>7 DEF notifyRemove

LEMMA UnstackType ==
  ASSUME ManagerTypeOK, NEW b
  PROVE  Unstack(b) \in [Artifact -> Offer \cup {None}]
<1> SUFFICES ASSUME NEW a \in Artifact, hasContract(a)
             PROVE  [contractIndex[a] EXCEPT !.stacked = FALSE] \in Offer
  BY DEF Unstack, ManagerTypeOK, IndexTypeOK
<1>1. contractIndex[a] \in Offer
  BY DEF ManagerTypeOK, IndexTypeOK, hasContract
<1> QED BY <1>1 DEF Offer

LEMMA AttachOfferType ==
  ASSUME ManagerTypeOK, NEW f \in Files, AttachOffer(f)
  PROVE  contractIndex' \in [Artifact -> Offer \cup {None}]
<1>1. BaseOf[f] \in Bases
  BY NamesAssumption
<1>2. contractStack[BaseOf[f]] \in Text \cup {None}
  BY <1>1 DEF ManagerTypeOK, StackTypeOK
<1>3. contractStack[BaseOf[f]] # None =>
        [text |-> contractStack[BaseOf[f]], target |-> f, stacked |-> TRUE]
          \in Offer
  BY <1>2 DEF Offer
<1>4. ASSUME NEW a \in Artifact, hasContract(a)
      PROVE  [contractIndex[a] EXCEPT !.target = f] \in Offer
  <2>1. contractIndex[a] \in Offer
    BY <1>4 DEF ManagerTypeOK, IndexTypeOK, hasContract
  <2> QED BY <2>1 DEF Offer
<1>5. \A a \in Artifact : contractIndex[a] \in Offer \cup {None}
  BY DEF ManagerTypeOK, IndexTypeOK
<1> QED BY <1>3, <1>4, <1>5 DEF AttachOffer

LEMMA AddTypes ==
  ASSUME ManagerTypeOK, WatcherTypeOK, PcInv, notifyAdd
  PROVE  ManagerTypeOK'
<1>1. Related(call.name) \subseteq Artifact
  BY RelatedType
<1>2. CASE AddContract
  <2> DEFINE text == disk[call.name]
  <2>1. contractIndex' \in [Artifact -> Offer \cup {None}]
    <3>1. ASSUME text \in Text, NEW a \in Related(call.name)
          PROVE  [text |-> text, target |-> a.file, stacked |-> FALSE] \in Offer
      BY <1>1, <3>1 DEF Offer, Artifact
    <3>2. ASSUME text \in Text, NEW a \in Related(call.name),
                 addContract(a, [text |-> text, target |-> a.file,
                                 stacked |-> FALSE])
          PROVE  contractIndex' \in [Artifact -> Offer \cup {None}]
      BY <3>1, <3>2 DEF addContract, ManagerTypeOK, IndexTypeOK
    <3>3. contractIndex' = Unstack(call.name.base) =>
            contractIndex' \in [Artifact -> Offer \cup {None}]
      BY UnstackType
    <3>4. contractIndex' = contractIndex =>
            contractIndex' \in [Artifact -> Offer \cup {None}]
      BY DEF ManagerTypeOK, IndexTypeOK
    <3> QED BY <1>2, <3>2, <3>3, <3>4 DEF AddContract
  <2>2. StackTypeOK'
    BY <1>2 DEF AddContract, ManagerTypeOK, StackTypeOK
  <2> QED BY <1>2, <2>1, <2>2 DEF AddContract, ManagerTypeOK, IndexTypeOK,
          BrokerTypeOK, brokerVars
<1>3. CASE AddDescription
  <2>1. descriptionIndex' \in [Artifact -> Text \cup {None}]
    BY <1>1, <1>3 DEF AddDescription, addDescription, ManagerTypeOK, IndexTypeOK
  <2>2. StackTypeOK'
    BY <1>3 DEF AddDescription, ManagerTypeOK, StackTypeOK
  <2> QED BY <1>3, <2>1, <2>2 DEF AddDescription, ManagerTypeOK, IndexTypeOK,
          BrokerTypeOK, brokerVars
<1>4. CASE AddNegotiation
  <2>1. negotiationIndex' \in [Artifact -> Text \cup {None}]
    BY <1>1, <1>4 DEF AddNegotiation, addNegotiation, ManagerTypeOK, IndexTypeOK
  <2>2. StackTypeOK'
    BY <1>4 DEF AddNegotiation, ManagerTypeOK, StackTypeOK
  <2> QED BY <1>4, <2>1, <2>2 DEF AddNegotiation, ManagerTypeOK, IndexTypeOK,
          BrokerTypeOK, brokerVars
<1>5. CASE AlreadyIndexed
  BY <1>5 DEF AlreadyIndexed, ManagerTypeOK, IndexTypeOK, StackTypeOK,
     BrokerTypeOK, indexVars, stackVars, brokerVars
<1>6. CASE AddArtifact
  <2> DEFINE f == call.name
  <2>1. f \in Files /\ disk[f] \in Contents(f) /\ disk[f] # Oversize
    BY <1>6, CallName DEF AddArtifact, Adding
  <2>2. [file |-> f, stamp |-> disk[f]] \in Artifact
    BY <2>1 DEF Contents, Artifact
  <2>3. index' = [index EXCEPT ![f] = [file |-> f, stamp |-> disk[f]]]
    BY <1>6 DEF AddArtifact, addArtifact
  <2> HIDE DEF f
  <2> QED BY <1>6, <2>1, <2>2, <2>3 DEF AddArtifact, ManagerTypeOK, IndexTypeOK,
          StackTypeOK, BrokerTypeOK, stackVars, brokerVars
<1>7. CASE Attach
  <2> DEFINE f == call.name
             b == BaseOf[f]
  <2>1. f \in Files /\ b \in Bases
    BY <1>7, NamesAssumption DEF Attach, PcInv
  <2>2. /\ AttachOffer(f)
        /\ IF descriptionStack[b] # None
             THEN addDescription(index[f], descriptionStack[b])
             ELSE UNCHANGED descriptionIndex
        /\ IF negotiationStack[b] # None
             THEN addNegotiation(index[f], negotiationStack[b])
             ELSE UNCHANGED negotiationIndex
        /\ UNCHANGED <<index, stackVars, brokerVars>>
    BY <1>7 DEF Attach
  <2> HIDE DEF f, b
  <2>3. contractIndex' \in [Artifact -> Offer \cup {None}]
    BY <2>1, <2>2, AttachOfferType
  <2>4. /\ descriptionStack[b] \in Text \cup {None}
        /\ negotiationStack[b] \in Text \cup {None}
    BY <2>1 DEF ManagerTypeOK, StackTypeOK
  <2>5. descriptionIndex' \in [Artifact -> Text \cup {None}]
    BY <2>2, <2>4 DEF addDescription, ManagerTypeOK, IndexTypeOK
  <2>6. negotiationIndex' \in [Artifact -> Text \cup {None}]
    BY <2>2, <2>4 DEF addNegotiation, ManagerTypeOK, IndexTypeOK
  <2> QED BY <2>2, <2>3, <2>5, <2>6 DEF ManagerTypeOK, IndexTypeOK,
          StackTypeOK, BrokerTypeOK, stackVars, brokerVars
<1>8. CASE Publish
  <2>1. BrokerTypeOK'
    BY <1>8, UpdateBrokerTypes DEF Publish
  <2> QED BY <1>8, <2>1 DEF Publish, ManagerTypeOK, IndexTypeOK,
          StackTypeOK, indexVars, stackVars
<1> QED BY <1>2, <1>3, <1>4, <1>5, <1>6, <1>7, <1>8 DEF notifyAdd

-----------------------------------------------------------------------------
(* Where a call stands, and what the index says about each file.           *)

LEMMA InitFiles == Init => PcInv /\ FilesInv
<1> SUFFICES ASSUME Init PROVE PcInv /\ FilesInv
  OBVIOUS
<1>1. pc = "start" /\ call = None /\ phase = "registered"
  BY DEF Init, WatcherInit
<1>2. \A f \in Files : ~exists(f) /\ ~told[f]
  BY DEF Init, WatcherInit, IndexInit, exists, Names
<1> QED BY <1>1, <1>2 DEF PcInv, PCs, FilesInv, FileInv

LEMMA ThreadFiles ==
  ASSUME WatcherInv, PcInv, FilesInv,
         User \/ Thread \/ StopWatching, UNCHANGED managerVars
  PROVE  PcInv' /\ FilesInv'
<1> USE DEF managerVars, indexVars
<1>0. WatcherTypeOK
  BY DEF WatcherInv
<1>1. CASE UNCHANGED <<call, told>> /\ (phase' = phase \/ call = None)
  <2>1. phase = "stopped" => phase' = "stopped"
    <3>1. CASE User
      BY <3>1 DEF User, Create, Write, Delete, Replace, Edit, threadVars
    <3>2. CASE Thread \/ StopWatching
      BY <3>2 DEF Thread, ListDirectory, ListNext, StartWatching, Poll,
         Dispatch, StopWatching
    <3> QED BY <3>1, <3>2
  <2>2. PcInv'
    BY <1>1, <2>1 DEF PcInv
  <2>3. FilesInv'
    BY <1>1, <2>1 DEF FilesInv, FileInv, exists
  <2> QED BY <2>2, <2>3
<1>2. ASSUME phase \in {"listing", "watching"}, phase' = phase, call = None,
             NEW op \in {"add", "change", "remove"}, NEW n \in Names,
             Notify(op, n)
      PROVE  PcInv' /\ FilesInv'
  <2>1. /\ call' = [op |-> op, name |-> n]
        /\ told'[n] = (op # "remove")
        /\ \A m \in Names : m # n => told'[m] = told[m]
    BY <1>0, <1>2, NotifyType DEF Notify
  <2>2. call' # None
    BY <1>2, <2>1, CallAssumption DEF Call
  <2>3. pc = "start" /\ pc' = pc /\ index' = index
    BY <1>2 DEF PcInv
  <2>4. PcInv'
    BY <1>2, <2>1, <2>2, <2>3 DEF PcInv, PCs
  <2>5. ASSUME NEW f \in Files PROVE FileInv(f)'
    <3>1. FileInv(f) /\ f \in Names
      BY <1>2 DEF FilesInv, Names
    <3> QED BY <1>2, <2>1, <2>2, <2>3, <3>1 DEF FileInv, exists
  <2> QED BY <2>4, <2>5 DEF FilesInv
<1> QED BY <1>1, <1>2, ThreadCalls

(* A step of a call that leaves the index alone, before it returns.        *)
LEMMA GotoFiles ==
  ASSUME PcInv, FilesInv, NEW label, Goto(label)
  PROVE  UNCHANGED <<call, told, phase>> /\ pc' = label
BY DEF Goto, watcherVars

LEMMA ReturnFiles ==
  ASSUME PcInv, FilesInv, Return
  PROVE  PcInv' /\ call' = None /\ phase' = phase /\ told' = told
BY DEF Return, ListenerReturns, PcInv, PCs

LEMMA MetaFileStep ==
  ASSUME WatcherTypeOK, PcInv, FilesInv,
         call # None, call.name \in MetaFiles,
         UNCHANGED index,
         \/ Return
         \/ Goto("publishRemoval") /\ call.op \in {"remove", "change"}
         \/ Goto("add") /\ call.op = "change"
         \/ Goto("publish") /\ call.op \in {"add", "change"}
  PROVE  PcInv' /\ FilesInv'
<1>1. call.name \notin Files
  BY NamesAssumption
<1>2. CASE Return
  BY <1>1, <1>2, ReturnFiles DEF FilesInv, FileInv, exists
<1>3. CASE ~Return
  <2>1. /\ UNCHANGED <<call, told, phase>>
        /\ pc' \in {"publishRemoval", "add", "publish"}
        /\ pc' = "publishRemoval" => call.op \in {"remove", "change"}
        /\ pc' = "add" => call.op = "change"
        /\ pc' = "publish" => call.op \in {"add", "change"}
    BY <1>3, GotoFiles
  <2>2. PcInv'
    BY <2>1 DEF PcInv, PCs
  <2>3. FilesInv'
    BY <1>1, <2>1 DEF FilesInv, FileInv, exists
  <2> QED BY <2>2, <2>3
<1> QED BY <1>2, <1>3

(* A step of a call about the file f = call.name, as seen by the others.   *)
LEMMA FileStep ==
  ASSUME WatcherTypeOK, PcInv, FilesInv,
         NEW f \in Files, call # None, call.name = f,
         \A g \in Files : g # f => (exists(g)' <=> exists(g)),
         \/ /\ Return
            /\ exists(f)' <=> call.op # "remove"
         \/ Goto("unlink") /\ call.op \in {"remove", "change"}
         \/ /\ Goto("publishRemoval")
            /\ call.op \in {"remove", "change"}
            /\ ~exists(f)'
         \/ Goto("add") /\ call.op = "change"
         \/ /\ Goto("attach") \/ Goto("publish")
            /\ call.op \in {"add", "change"}
            /\ exists(f)'
  PROVE  PcInv' /\ FilesInv'
<1>1. CASE Return
  <2>1. told[f] = (call.op # "remove")
    BY DEF PcInv
  <2>2. exists(f)' <=> call.op # "remove"
    BY <1>1, CallAssumption DEF Return, ListenerReturns, Goto, watcherVars
  <2>3. ASSUME NEW g \in Files, phase # "stopped" PROVE FileInv(g)'
    BY <1>1, <2>1, <2>2, <2>3, ReturnFiles DEF FilesInv, FileInv
  <2> QED BY <1>1, <2>3, ReturnFiles DEF FilesInv
<1>2. CASE ~Return
  <2>1. /\ UNCHANGED <<call, told, phase>>
        /\ pc' \in {"unlink", "publishRemoval", "add", "attach", "publish"}
        /\ pc' \in {"unlink", "publishRemoval"} =>
             call.op \in {"remove", "change"}
        /\ pc' = "publishRemoval" => ~exists(f)'
        /\ pc' = "add" => call.op = "change"
        /\ pc' \in {"attach", "publish"} =>
             call.op \in {"add", "change"} /\ exists(f)'
    BY <1>2, GotoFiles
  <2>2. PcInv'
    BY <2>1 DEF PcInv, PCs
  <2>3. FilesInv'
    BY <2>1 DEF FilesInv, FileInv
  <2> QED BY <2>2, <2>3
<1> QED BY <1>1, <1>2

LEMMA CallOps ==
  ASSUME WatcherTypeOK, call # None
  PROVE  call.op \in {"add", "change", "remove"} /\ call.name \in Names
BY DEF WatcherTypeOK, Call

LEMMA RemovalDoneCases ==
  RemovalDone => \/ Return /\ call.op = "remove"
                 \/ Goto("add") /\ call.op = "change"
BY DEF RemovalDone

LEMMA RemoveFiles ==
  ASSUME WatcherTypeOK, ManagerTypeOK, PcInv, FilesInv, notifyRemove
  PROVE  PcInv' /\ FilesInv'
<1>1. CASE RemoveContract
  <2>1. /\ call # None /\ call.name \in MetaFiles
        /\ call.op \in {"remove", "change"}
        /\ UNCHANGED index
        /\ Goto("publishRemoval") \/ RemovalDone
    BY <1>1 DEF RemoveContract, Removing, OfKind
  <2> QED BY <2>1, RemovalDoneCases, MetaFileStep
<1>2. CASE RemoveDescription
  <2>1. /\ call # None /\ call.name \in MetaFiles
        /\ call.op \in {"remove", "change"}
        /\ UNCHANGED index
        /\ Goto("publishRemoval") \/ RemovalDone
    BY <1>2 DEF RemoveDescription, Removing, OfKind
  <2> QED BY <2>1, RemovalDoneCases, MetaFileStep
<1>3. CASE RemoveNegotiation
  <2>1. /\ call # None /\ call.name \in MetaFiles
        /\ UNCHANGED index
        /\ RemovalDone
    BY <1>3 DEF RemoveNegotiation, Removing, OfKind
  <2> QED BY <2>1, RemovalDoneCases, MetaFileStep
<1>4. CASE RemoveAttachments
  <2>1. /\ call # None /\ call.name \in Files
        /\ call.op \in {"remove", "change"}
        /\ UNCHANGED index
        /\ Goto("unlink")
    BY <1>4 DEF RemoveAttachments, Removing
  <2>2. PICK f \in Files : f = call.name
    BY <2>1
  <2>3. \A g \in Files : g # f => (exists(g)' <=> exists(g))
    BY <2>1 DEF exists
  <2> QED BY <2>1, <2>2, <2>3, FileStep
<1>5. CASE RemoveArtifact
  <2>1. /\ call # None /\ call.name \in Files
        /\ call.op \in {"remove", "change"}
        /\ Goto("publishRemoval")
        /\ index' = [index EXCEPT ![call.name] = None]
    BY <1>5 DEF RemoveArtifact, removeArtifact, PcInv
  <2>2. index \in [Files -> Artifact \cup {None}]
    BY DEF ManagerTypeOK, IndexTypeOK
  <2>3. PICK f \in Files : f = call.name
    BY <2>1
  <2>4. /\ ~exists(f)'
        /\ \A g \in Files : g # f => (exists(g)' <=> exists(g))
    BY <2>1, <2>2, <2>3 DEF exists
  <2> QED BY <2>1, <2>3, <2>4, FileStep
<1>6. CASE PublishRemoval
  <2>1. /\ call # None
        /\ UNCHANGED index
        /\ RemovalDone
        /\ pc = "publishRemoval"
    BY <1>6 DEF PublishRemoval, PcInv, indexVars
  <2>2. call.name \in Files \/ call.name \in MetaFiles
    BY <2>1, CallOps DEF Names
  <2>3. CASE call.name \in MetaFiles
    BY <2>1, <2>3, RemovalDoneCases, MetaFileStep
  <2>4. CASE call.name \in Files
    <3>1. PICK f \in Files : f = call.name
      BY <2>4
    <3>2. ~exists(f)
      BY <2>1, <3>1 DEF PcInv, FilesInv, FileInv
    <3>3. \A g \in Files : exists(g)' <=> exists(g)
      BY <2>1 DEF exists
    <3>4. \/ Return /\ call.op = "remove"
          \/ Goto("add") /\ call.op = "change"
      BY <2>1, RemovalDoneCases
    <3> QED BY <2>1, <3>1, <3>2, <3>3, <3>4, FileStep
  <2> QED BY <2>2, <2>3, <2>4
<1> QED BY <1>1, <1>2, <1>3, <1>4, <1>5, <1>6 DEF notifyRemove

LEMMA AddFiles ==
  ASSUME WatcherTypeOK, ManagerTypeOK, PcInv, FilesInv, notifyAdd
  PROVE  PcInv' /\ FilesInv'
<1>1. ASSUME NEW names, Adding(names)
      PROVE  call # None /\ call.name \in names /\ call.op \in {"add", "change"}
  BY <1>1 DEF Adding, PcInv
<1>2. CASE AddContract
  <2>1. /\ Adding(OfKind("contract"))
        /\ UNCHANGED index
        /\ Goto("publish") \/ Return
    BY <1>2 DEF AddContract
  <2> QED BY <1>1, <2>1, MetaFileStep DEF OfKind
<1>3. CASE AddDescription
  <2>1. /\ Adding(OfKind("desc"))
        /\ UNCHANGED index
        /\ Goto("publish") \/ Return
    BY <1>3 DEF AddDescription
  <2> QED BY <1>1, <2>1, MetaFileStep DEF OfKind
<1>4. CASE AddNegotiation
  <2>1. Adding(OfKind("negotiation")) /\ UNCHANGED index /\ Return
    BY <1>4 DEF AddNegotiation
  <2> QED BY <1>1, <2>1, MetaFileStep DEF OfKind
<1>5. CASE AlreadyIndexed
  <2>1. Adding(Files) /\ exists(call.name) /\ Return /\ UNCHANGED index
    BY <1>5 DEF AlreadyIndexed, indexVars
  <2>2. PICK f \in Files : f = call.name
    BY <1>1, <2>1
  <2>3. exists(f)' /\ \A g \in Files : (exists(g)' <=> exists(g))
    BY <2>1, <2>2 DEF exists
  <2> QED BY <1>1, <2>1, <2>2, <2>3, FileStep
<1>6. CASE AddArtifact
  <2>1. /\ Adding(Files)
        /\ Goto("attach")
        /\ disk[call.name] # Oversize
        /\ index' = [index EXCEPT ![call.name] =
                       [file |-> call.name, stamp |-> disk[call.name]]]
    BY <1>6 DEF AddArtifact, addArtifact
  <2>2. PICK f \in Files : f = call.name
    BY <1>1, <2>1
  <2>3. [file |-> f, stamp |-> disk[f]] \in Artifact
    BY <1>1, <2>1, <2>2, CallName DEF Contents, Artifact
  <2>4. index \in [Files -> Artifact \cup {None}]
    BY DEF ManagerTypeOK, IndexTypeOK
  <2>5. exists(f)' /\ \A g \in Files : g # f => (exists(g)' <=> exists(g))
    BY <2>1, <2>2, <2>3, <2>4, IndexAssumption DEF exists
  <2> QED BY <1>1, <2>1, <2>2, <2>5, FileStep
<1>7. CASE Attach
  <2>1. /\ call # None /\ call.name \in Files
        /\ call.op \in {"add", "change"}
        /\ pc = "attach"
        /\ Goto("publish")
        /\ UNCHANGED index
    BY <1>7 DEF Attach, PcInv
  <2>2. PICK f \in Files : f = call.name
    BY <2>1
  <2>3. exists(f)
    BY <2>1, <2>2 DEF PcInv, FilesInv, FileInv
  <2>4. exists(f)' /\ \A g \in Files : (exists(g)' <=> exists(g))
    BY <2>1, <2>3 DEF exists
  <2> QED BY <2>1, <2>2, <2>4, FileStep
<1>8. CASE Publish
  <2>1. /\ call # None /\ call.op \in {"add", "change"}
        /\ pc = "publish"
        /\ Return
        /\ UNCHANGED index
    BY <1>8 DEF Publish, PcInv, indexVars
  <2>2. call.name \in Files \/ call.name \in MetaFiles
    BY <2>1, CallOps DEF Names
  <2>3. CASE call.name \in MetaFiles
    BY <2>1, <2>3, MetaFileStep
  <2>4. CASE call.name \in Files
    <3>1. PICK f \in Files : f = call.name
      BY <2>4
    <3>2. exists(f)
      BY <2>1, <3>1 DEF PcInv, FilesInv, FileInv
    <3>3. exists(f)' /\ \A g \in Files : (exists(g)' <=> exists(g))
      BY <2>1, <3>2 DEF exists
    <3> QED BY <2>1, <3>1, <3>3, FileStep
  <2> QED BY <2>2, <2>3, <2>4
<1> QED BY <1>2, <1>3, <1>4, <1>5, <1>6, <1>7, <1>8 DEF notifyAdd

LEMMA ThrowFiles ==
  ASSUME WatcherTypeOK, PcInv, FilesInv, Throw
  PROVE  PcInv' /\ FilesInv'
<1>1. pc \in {"start", "add"} /\ pc' = pc /\ call' = None /\ phase' = "stopped"
  BY DEF Throw, Adding, ListenerThrows, managerVars
<1> QED BY <1>1 DEF PcInv, PCs, FilesInv

-----------------------------------------------------------------------------
ManagerInv == WatcherInv /\ ManagerTypeOK /\ PcInv /\ FilesInv

LEMMA ManagerStepInv ==
  ASSUME ManagerInv, [Next]_vars
  PROVE  ManagerInv'
<1> USE DEF ManagerInv
<1>1. WatcherInv' /\ WatcherTypeOK
  BY StepRefines, WatcherStepInv DEF WatcherInv
<1>2. CASE notifyRemove
  BY <1>1, <1>2, RemoveTypes, RemoveFiles
<1>3. CASE notifyAdd
  BY <1>1, <1>3, AddTypes, AddFiles
<1>4. CASE Throw
  BY <1>1, <1>4, ThrowFiles DEF Throw, managerVars, indexVars, stackVars,
     brokerVars, ManagerTypeOK, IndexTypeOK, StackTypeOK, BrokerTypeOK
<1>5. CASE (User \/ Thread \/ StopWatching) /\ UNCHANGED managerVars
  BY <1>1, <1>5, ThreadFiles DEF managerVars, indexVars, stackVars,
     brokerVars, ManagerTypeOK, IndexTypeOK, StackTypeOK, BrokerTypeOK
<1>6. CASE UNCHANGED vars
  <2>1. ManagerTypeOK'
    BY <1>6 DEF vars, managerVars, indexVars, stackVars,
       brokerVars, ManagerTypeOK, IndexTypeOK, StackTypeOK, BrokerTypeOK
  <2>2. PcInv' /\ FilesInv'
    BY <1>6 DEF vars, managerVars, watcherVars, indexVars, PcInv, FilesInv,
       FileInv, exists
  <2> QED BY <1>1, <2>1, <2>2
<1> QED BY <1>2, <1>3, <1>4, <1>5, <1>6 DEF Next, Manager

(* The inductive invariant: the watcher's, the types, and for each file    *)
(* what a call about it has done so far.                                   *)
THEOREM ManagerInvariant == Spec => []ManagerInv
<1>1. Init => ManagerInv
  BY WatcherInitInv, InitTypes, InitFiles DEF Init, ManagerInv
<1>2. ManagerInv /\ [Next]_vars => ManagerInv'
  BY ManagerStepInv
<1> QED BY <1>1, <1>2, PTL DEF Spec

(* Every state of the watcher, the index, the stacks and the broker is     *)
(* within its types; in particular an index entry describes the file it is *)
(* filed under, and whatever has no description is None.                   *)
THEOREM TypesHold == Spec => []TypeOK
<1>1. ManagerInv => TypeOK
  BY DEF ManagerInv, WatcherInv, ManagerTypeOK, StackTypeOK, BrokerTypeOK,
     PcInv, TypeOK
<1> QED BY <1>1, ManagerInvariant, PTL

LEMMA ManagerInvTracks == ManagerInv => IndexTracksDirectory
<1> SUFFICES ASSUME ManagerInv, Quiescent, ~lost, NEW f \in Files
             PROVE  /\ IsFile(disk[f]) => exists(f)
                    /\ disk[f] = Absent => ~exists(f)
  BY DEF IndexTracksDirectory
<1>1. exists(f) <=> told[f]
  BY DEF ManagerInv, FilesInv, FileInv, Quiescent
<1>2. /\ IsFile(disk[f]) => told[f]
      /\ disk[f] = Absent => ~told[f]
  BY WatcherInvImplies DEF ManagerInv, LastWordIsTrue, Names
<1> QED BY <1>1, <1>2

(* Once the watcher has caught up, and unless its key dropped events, the  *)
(* index holds every file of the directory and no name that is not there.  *)
THEOREM IndexFollowsDirectory == Spec => []IndexTracksDirectory
BY ManagerInvTracks, ManagerInvariant, PTL

-----------------------------------------------------------------------------
(* The broker.  A call changes what the catalogue lists only on its way to *)
(* an update.                                                              *)
BrokerInv ==
  ~BrokerIgnore /\ brokerOk /\ pc \in {"start", "add"} => broker = Catalogue

LEMMA CatalogueKept ==
  ASSUME UNCHANGED <<index, descriptionIndex>>
  PROVE  Catalogue' = Catalogue
BY DEF Catalogue, getAllArtifacts, exists

LEMMA BrokerStep ==
  ASSUME ManagerInv, BrokerInv, [Next]_vars
  PROVE  BrokerInv'
<1>1. ASSUME UNCHANGED <<index, descriptionIndex, brokerVars>>,
             pc \in {"start", "add"}
      PROVE  BrokerInv'
  BY <1>1, CatalogueKept DEF BrokerInv, brokerVars
<1>2. ASSUME pc' \notin {"start", "add"} PROVE BrokerInv'
  BY <1>2 DEF BrokerInv
<1>3. ASSUME UpdateBroker, UNCHANGED indexVars PROVE BrokerInv'
  BY <1>3, CatalogueKept DEF UpdateBroker, BrokerInv, indexVars
<1>4. CASE notifyRemove
  <2>1. CASE RemoveContract \/ RemoveNegotiation
    BY <1>1, <2>1 DEF RemoveContract, RemoveNegotiation, Removing
  <2>2. CASE RemoveDescription
    BY <1>1, <1>2, <2>2 DEF RemoveDescription, Removing, Goto
  <2>3. CASE RemoveAttachments \/ RemoveArtifact
    BY <1>2, <2>3 DEF RemoveAttachments, RemoveArtifact, Goto
  <2>4. CASE PublishRemoval
    BY <1>3, <2>4 DEF PublishRemoval
  <2> QED BY <1>4, <2>1, <2>2, <2>3, <2>4 DEF notifyRemove
<1>5. CASE notifyAdd
  <2>1. CASE AddContract \/ AddNegotiation \/ AlreadyIndexed
    BY <1>1, <2>1 DEF AddContract, AddNegotiation, AlreadyIndexed, Adding,
       indexVars
  <2>2. CASE AddDescription
    BY <1>1, <1>2, <2>2 DEF AddDescription, Adding, Goto
  <2>3. CASE AddArtifact \/ Attach
    BY <1>2, <2>3 DEF AddArtifact, Attach, Goto
  <2>4. CASE Publish
    BY <1>3, <2>4 DEF Publish
  <2> QED BY <1>5, <2>1, <2>2, <2>3, <2>4 DEF notifyAdd
<1>6. CASE UNCHANGED managerVars
  BY <1>6, CatalogueKept DEF managerVars, indexVars, brokerVars, BrokerInv
<1> QED BY <1>4, <1>5, <1>6 DEF Next, Manager, Throw, vars

LEMMA BrokerInvInStep == ManagerInv /\ BrokerInv => BrokerInStep
BY DEF ManagerInv, PcInv, PCs, BrokerInv, BrokerInStep

(* Between two calls the broker holds the catalogue of the index, unless   *)
(* its last update failed: whatever changes the catalogue is published.    *)
THEOREM BrokerKeepsStep == Spec => []BrokerInStep
<1>1. Init => BrokerInv
  BY DEF Init, IndexInit, BrokerInv, Catalogue, getAllArtifacts, exists
<1>2. ManagerInv /\ BrokerInv /\ [Next]_vars => BrokerInv'
  BY BrokerStep
<1> QED BY <1>1, <1>2, BrokerInvInStep, ManagerInvariant, PTL DEF Spec

-----------------------------------------------------------------------------
(* Attachments come from metadata files that name their artifact.          *)

LEMMA TextOfCall ==
  ASSUME WatcherTypeOK, NEW kind, call # None,
         call.name \in OfKind(kind), disk[call.name] \in Text
  PROVE  /\ disk[call.name].of = call.name
         /\ disk[call.name].of = MetaFile(kind, call.name.base)
         /\ call.name.base \in Bases
<1>1. /\ call.name \in MetaFiles /\ call.name.kind = kind
      /\ call.name \in [kind : Kinds, base : Bases]
  BY NamesAssumption DEF OfKind
<1>2. disk[call.name] \in Contents(call.name) /\ call.name \notin Files
  BY <1>1, CallName, NamesAssumption
<1>3. disk[call.name] \notin NoFile \cup {Broken, NonObject}
  BY ContentsAssumption
<1>4. disk[call.name].of = call.name
  BY <1>2, <1>3 DEF Contents
<1> QED BY <1>1, <1>4 DEF MetaFile

(* A metadata file is for the artifacts it is related to ...               *)
LEMMA RelatedIsFor ==
  ASSUME ManagerTypeOK, NEW kind, NEW m \in OfKind(kind), NEW a \in Related(m)
  PROVE  a \in Artifact /\ IsFor(m, kind, a)
BY RelatedType DEF Related, IsFor

(* ... and for those of its base.                                          *)
LEMMA BaseIsFor ==
  ASSUME NEW text \in Text, NEW kind, NEW a \in Artifact,
         text.of = MetaFile(kind, BaseOf[a.file])
  PROVE  IsFor(text.of, kind, a)
<1>1. text.of \in MetaFiles
  BY DEF Text
<1>2. text.of.kind = kind /\ text.of.base = BaseOf[a.file]
  BY DEF MetaFile
<1> QED BY <1>1, <1>2 DEF IsFor, OfKind, SearchKeys

LEMMA OwnRemove ==
  ASSUME ManagerInv, AttachmentsAreOwn, notifyRemove
  PROVE  AttachmentsAreOwn'
<1>1. ManagerTypeOK
  BY DEF ManagerInv
<1>2. /\ UNCHANGED stackVars
      /\ \A a \in Artifact : /\ contractIndex'[a] \in {contractIndex[a], None}
                             /\ descriptionIndex'[a] \in {descriptionIndex[a], None}
                             /\ negotiationIndex'[a] \in {negotiationIndex[a], None}
  BY <1>1 DEF notifyRemove, RemoveContract, RemoveDescription, RemoveNegotiation,
     RemoveAttachments, RemoveArtifact, PublishRemoval, removeContract,
     removeDescription, removeNegotiation, indexVars, ManagerTypeOK, IndexTypeOK
<1> QED BY <1>2 DEF AttachmentsAreOwn, IndexIsOwn, StacksAreOwn, hasContract, hasDescription,
        hasNegotiation, stackVars

LEMMA OwnAdd ==
  ASSUME ManagerInv, AttachmentsAreOwn, notifyAdd
  PROVE  AttachmentsAreOwn'
<1>0. ManagerTypeOK /\ WatcherTypeOK /\ PcInv
  BY DEF ManagerInv, WatcherInv
<1>1. CASE AddContract
  <2> DEFINE m == call.name
             own(offer, a) == IsFor(offer.text.of, "contract", a)
  <2>1. call # None /\ m \in OfKind("contract") /\ m \in MetaFiles
    BY <1>1 DEF AddContract, Adding, OfKind
  <2>2. disk[m] \in Text =>
          /\ disk[m].of = m
          /\ disk[m].of = MetaFile("contract", m.base) /\ m.base \in Bases
    BY <1>0, <2>1, TextOfCall
  <2>3. \A a \in Related(m) : a \in Artifact /\ IsFor(m, "contract", a)
    BY <1>0, <2>1, RelatedIsFor
  <2>4. \A a \in Artifact : contractIndex'[a] # None =>
          own(contractIndex'[a], a)
    <3> SUFFICES ASSUME NEW a \in Artifact, contractIndex'[a] # None
                 PROVE  own(contractIndex'[a], a)
      OBVIOUS
    <3>1. contractIndex[a] # None => own(contractIndex[a], a)
      BY DEF AttachmentsAreOwn, IndexIsOwn, StacksAreOwn, hasContract
    <3>2. CASE UNCHANGED contractIndex
      BY <3>1, <3>2
    <3>3. CASE contractIndex' = Unstack(m.base)
      <4>1. contractIndex'[a] =
              IF hasContract(a) /\ contractIndex[a].text.of.base = m.base
                THEN [contractIndex[a] EXCEPT !.stacked = FALSE]
                ELSE contractIndex[a]
        BY <3>3 DEF Unstack
      <4>2. contractIndex[a] # None => contractIndex[a] \in Offer
        BY <1>0 DEF ManagerTypeOK, IndexTypeOK
      <4>3. hasContract(a) => [contractIndex[a] EXCEPT !.stacked = FALSE].text
                                = contractIndex[a].text
        BY <4>2 DEF hasContract, Offer
      <4> QED BY <3>1, <4>1, <4>3 DEF hasContract
    <3>4. ASSUME NEW x \in Related(m), disk[m] \in Text,
                 addContract(x, [text |-> disk[m], target |-> x.file,
                                 stacked |-> FALSE])
          PROVE  own(contractIndex'[a], a)
      BY <1>0, <2>2, <2>3, <3>1, <3>4 DEF addContract, ManagerTypeOK, IndexTypeOK
    <3> QED BY <1>1, <3>2, <3>3, <3>4 DEF AddContract
  <2>5. \A b \in Bases : contractStack'[b] # None =>
          contractStack'[b].of = MetaFile("contract", b)
    <3>1. \/ UNCHANGED contractStack
          \/ /\ disk[m] \in Text
             /\ contractStack' = [contractStack EXCEPT ![m.base] = disk[m]]
      BY <1>1 DEF AddContract
    <3>2. contractStack \in [Bases -> Text \cup {None}]
      BY <1>0 DEF ManagerTypeOK, StackTypeOK
    <3>3. \A b \in Bases : contractStack[b] # None =>
            contractStack[b].of = MetaFile("contract", b)
      BY DEF AttachmentsAreOwn, IndexIsOwn, StacksAreOwn
    <3> HIDE DEF m
    <3> QED BY <2>2, <3>1, <3>2, <3>3
  <2>6. UNCHANGED <<descriptionIndex, negotiationIndex,
                    descriptionStack, negotiationStack>>
    BY <1>1 DEF AddContract
  <2> QED BY <2>4, <2>5, <2>6 DEF AttachmentsAreOwn, IndexIsOwn, StacksAreOwn, hasContract,
          hasDescription, hasNegotiation
<1>2. CASE AddDescription
  <2> DEFINE m == call.name
  <2>1. call # None /\ m \in OfKind("desc") /\ m \in MetaFiles
    BY <1>2 DEF AddDescription, Adding, OfKind
  <2>2. disk[m] \in Text =>
          /\ disk[m].of = m
          /\ disk[m].of = MetaFile("desc", m.base) /\ m.base \in Bases
    BY <1>0, <2>1, TextOfCall
  <2>3. \A a \in Related(m) : a \in Artifact /\ IsFor(m, "desc", a)
    BY <1>0, <2>1, RelatedIsFor
  <2>4. \/ UNCHANGED descriptionIndex
        \/ /\ disk[m] \in Text
           /\ \E a \in Related(m) :
                descriptionIndex' = [descriptionIndex EXCEPT ![a] = disk[m]]
    BY <1>2 DEF AddDescription, addDescription
  <2>5. \/ UNCHANGED descriptionStack
        \/ /\ disk[m] \in Text
           /\ descriptionStack' = [descriptionStack EXCEPT ![m.base] = disk[m]]
    BY <1>2 DEF AddDescription
  <2>6. /\ descriptionIndex \in [Artifact -> Text \cup {None}]
        /\ descriptionStack \in [Bases -> Text \cup {None}]
    BY <1>0 DEF ManagerTypeOK, IndexTypeOK, StackTypeOK
  <2>7. UNCHANGED <<contractIndex, negotiationIndex,
                    contractStack, negotiationStack>>
    BY <1>2 DEF AddDescription
  <2> HIDE DEF m
  <2>8. /\ \A a \in Artifact : descriptionIndex'[a] # None =>
             IsFor(descriptionIndex'[a].of, "desc", a)
        /\ \A b \in Bases : descriptionStack'[b] # None =>
             descriptionStack'[b].of = MetaFile("desc", b)
    BY <2>2, <2>3, <2>4, <2>5, <2>6 DEF AttachmentsAreOwn, IndexIsOwn, StacksAreOwn, hasDescription
  <2> QED BY <2>7, <2>8 DEF AttachmentsAreOwn, IndexIsOwn, StacksAreOwn, hasContract, hasDescription,
          hasNegotiation
<1>3. CASE AddNegotiation
  <2> DEFINE m == call.name
  <2>1. call # None /\ m \in OfKind("negotiation") /\ m \in MetaFiles
    BY <1>3 DEF AddNegotiation, Adding, OfKind
  <2>2. disk[m] \in Text =>
          /\ disk[m].of = m
          /\ disk[m].of = MetaFile("negotiation", m.base) /\ m.base \in Bases
    BY <1>0, <2>1, TextOfCall
  <2>3. \A a \in Related(m) : a \in Artifact /\ IsFor(m, "negotiation", a)
    BY <1>0, <2>1, RelatedIsFor
  <2>4. \/ UNCHANGED negotiationIndex
        \/ /\ disk[m] \in Text
           /\ \E a \in Related(m) :
                negotiationIndex' = [negotiationIndex EXCEPT ![a] = disk[m]]
    BY <1>3 DEF AddNegotiation, addNegotiation
  <2>5. \/ UNCHANGED negotiationStack
        \/ /\ disk[m] \in Text
           /\ negotiationStack' = [negotiationStack EXCEPT ![m.base] = disk[m]]
    BY <1>3 DEF AddNegotiation
  <2>6. /\ negotiationIndex \in [Artifact -> Text \cup {None}]
        /\ negotiationStack \in [Bases -> Text \cup {None}]
    BY <1>0 DEF ManagerTypeOK, IndexTypeOK, StackTypeOK
  <2>7. UNCHANGED <<contractIndex, descriptionIndex,
                    contractStack, descriptionStack>>
    BY <1>3 DEF AddNegotiation
  <2> HIDE DEF m
  <2>8. /\ \A a \in Artifact : negotiationIndex'[a] # None =>
             IsFor(negotiationIndex'[a].of, "negotiation", a)
        /\ \A b \in Bases : negotiationStack'[b] # None =>
             negotiationStack'[b].of = MetaFile("negotiation", b)
    BY <2>2, <2>3, <2>4, <2>5, <2>6 DEF AttachmentsAreOwn, IndexIsOwn, StacksAreOwn, hasNegotiation
  <2> QED BY <2>7, <2>8 DEF AttachmentsAreOwn, IndexIsOwn, StacksAreOwn, hasContract, hasDescription,
          hasNegotiation
<1>4. CASE Attach
  <2> PICK f \in Files : f = call.name
    BY <1>4 DEF Attach, PcInv, ManagerInv
  <2> DEFINE b == BaseOf[f]
  <2>1. exists(f)
    BY <1>4 DEF Attach, ManagerInv, PcInv, FilesInv, FileInv
  <2>2. index[f] \in Artifact /\ index[f].file = f /\ b \in Bases
    BY <1>0, <2>1, NamesAssumption DEF ManagerTypeOK, IndexTypeOK, exists
  <2>3. /\ contractStack[b] # None =>
             IsFor(contractStack[b].of, "contract", index[f])
        /\ descriptionStack[b] # None =>
             IsFor(descriptionStack[b].of, "desc", index[f])
        /\ negotiationStack[b] # None =>
             IsFor(negotiationStack[b].of, "negotiation", index[f])
    <3>1. /\ contractStack[b] # None =>
               contractStack[b].of = MetaFile("contract", b)
          /\ descriptionStack[b] # None =>
               descriptionStack[b].of = MetaFile("desc", b)
          /\ negotiationStack[b] # None =>
               negotiationStack[b].of = MetaFile("negotiation", b)
      BY <2>2 DEF AttachmentsAreOwn, StacksAreOwn
    <3>2. {contractStack[b], descriptionStack[b], negotiationStack[b]}
            \subseteq Text \cup {None}
      BY <1>0, <2>2 DEF ManagerTypeOK, StackTypeOK
    <3> QED BY <2>2, <3>1, <3>2, BaseIsFor
  <2>4. /\ AttachOffer(f)
        /\ \/ UNCHANGED descriptionIndex
           \/ /\ descriptionStack[b] # None
              /\ descriptionIndex' =
                   [descriptionIndex EXCEPT ![index[f]] = descriptionStack[b]]
        /\ \/ UNCHANGED negotiationIndex
           \/ /\ negotiationStack[b] # None
              /\ negotiationIndex' =
                   [negotiationIndex EXCEPT ![index[f]] = negotiationStack[b]]
        /\ UNCHANGED stackVars
    BY <1>4 DEF Attach, addDescription, addNegotiation
  <2> HIDE DEF b
  <2>5. \A a \in Artifact : contractIndex'[a] # None =>
          IsFor(contractIndex'[a].text.of, "contract", a)
    <3> SUFFICES ASSUME NEW a \in Artifact, contractIndex'[a] # None
                 PROVE  IsFor(contractIndex'[a].text.of, "contract", a)
      OBVIOUS
    <3>1. contractIndex[a] # None =>
            /\ contractIndex[a] \in Offer
            /\ IsFor(contractIndex[a].text.of, "contract", a)
      BY <1>0 DEF AttachmentsAreOwn, IndexIsOwn, StacksAreOwn, hasContract, ManagerTypeOK, IndexTypeOK
    <3>2. CASE a = index[f] /\ contractStack[b] # None
      <4>1. contractIndex'[a] =
              [text |-> contractStack[b], target |-> f, stacked |-> TRUE]
        BY <2>4, <3>2 DEF AttachOffer, b
      <4> QED BY <2>2, <2>3, <3>2, <4>1 DEF b
    <3>3. CASE ~(a = index[f] /\ contractStack[b] # None)
      <4>1. \/ contractIndex'[a] = contractIndex[a]
            \/ /\ contractIndex[a] # None
               /\ contractIndex'[a] = [contractIndex[a] EXCEPT !.target = f]
        BY <2>4, <3>3 DEF AttachOffer, hasContract, b
      <4>2. contractIndex[a] # None =>
              [contractIndex[a] EXCEPT !.target = f].text = contractIndex[a].text
        BY <3>1 DEF Offer
      <4> QED BY <3>1, <4>1, <4>2
    <3> QED BY <3>2, <3>3
  <2>6. \A a \in Artifact : descriptionIndex'[a] # None =>
          IsFor(descriptionIndex'[a].of, "desc", a)
    BY <1>0, <2>2, <2>3, <2>4 DEF AttachmentsAreOwn, IndexIsOwn, StacksAreOwn, hasDescription,
       ManagerTypeOK, IndexTypeOK, b
  <2>7. \A a \in Artifact : negotiationIndex'[a] # None =>
          IsFor(negotiationIndex'[a].of, "negotiation", a)
    BY <1>0, <2>2, <2>3, <2>4 DEF AttachmentsAreOwn, IndexIsOwn, StacksAreOwn, hasNegotiation,
       ManagerTypeOK, IndexTypeOK, b
  <2> QED BY <2>4, <2>5, <2>6, <2>7 DEF AttachmentsAreOwn, IndexIsOwn, StacksAreOwn, hasContract,
          hasDescription, hasNegotiation, stackVars
<1>5. CASE AlreadyIndexed \/ AddArtifact \/ Publish
  BY <1>5 DEF AlreadyIndexed, AddArtifact, Publish, indexVars, stackVars,
     AttachmentsAreOwn, IndexIsOwn, StacksAreOwn, hasContract, hasDescription, hasNegotiation
<1> QED BY <1>1, <1>2, <1>3, <1>4, <1>5 DEF notifyAdd

(* What is attached to an artifact was read from a metadata file of the    *)
(* kind whose name leads to it, and what is stacked from one of its base.  *)
THEOREM AttachmentsStayOwn == Spec => []AttachmentsAreOwn
<1>1. Init => AttachmentsAreOwn
  BY DEF Init, IndexInit, AttachmentsAreOwn, IndexIsOwn, StacksAreOwn,
     hasContract, hasDescription,
     hasNegotiation
<1>2. ManagerInv /\ AttachmentsAreOwn /\ [Next]_vars => AttachmentsAreOwn'
  <2> SUFFICES ASSUME ManagerInv, AttachmentsAreOwn, [Next]_vars
               PROVE  AttachmentsAreOwn'
    OBVIOUS
  <2>1. CASE UNCHANGED managerVars
    BY <2>1 DEF managerVars, indexVars, stackVars, AttachmentsAreOwn,
       IndexIsOwn, StacksAreOwn,
       hasContract, hasDescription, hasNegotiation
  <2> QED BY <2>1, OwnRemove, OwnAdd DEF Next, Manager, Throw, vars
<1> QED BY <1>1, <1>2, ManagerInvariant, PTL DEF Spec
=============================================================================
