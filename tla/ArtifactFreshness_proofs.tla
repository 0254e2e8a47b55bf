----------------------- MODULE ArtifactFreshness_proofs -----------------------
(***************************************************************************)
(* What the index says of a file is what the directory holds: artifacts    *)
(* are described as they are, and carry the description their metadata     *)
(* file holds.                                                             *)
(*                                                                         *)
(* The argument: whatever in the index is outdated will be renewed, as an  *)
(* event that leads to it is queued, or the call that does it in progress. *)
(* For the description the queued event may be any: one that deletes a     *)
(* file that is there now is followed by one that creates it.              *)
(***************************************************************************)
EXTENDS ArtifactChangeManager_proofs

(* The queue has an event about n of one of these kinds.                   *)
HasKind(queue, n, kinds) ==
  \E i \in DOMAIN queue : queue[i].name = n /\ queue[i].kind \in kinds

Queued(n, kinds) == HasKind(batch, n, kinds) \/ HasKind(pending, n, kinds)

-----------------------------------------------------------------------------
(* The queues.                                                             *)

LEMMA SignalKeepsKind ==
  ASSUME NEW queue \in Seq(Event), NEW event \in Event,
         Signal(queue, event) # <<Overflow>>, NEW n, NEW kinds,
         HasKind(queue, n, kinds)
  PROVE  HasKind(Signal(queue, event), n, kinds)
<1>1. CASE Counted(queue, event)
  BY <1>1 DEF Signal
<1>2. CASE ~Counted(queue, event)
  <2>1. Signal(queue, event) = Append(queue, event)
    BY <1>2 DEF Signal
  <2>2. PICK i \in DOMAIN queue : queue[i].name = n /\ queue[i].kind \in kinds
    BY DEF HasKind
  <2>3. i \in DOMAIN Append(queue, event) /\ Append(queue, event)[i] = queue[i]
    OBVIOUS
  <2> QED BY <2>1, <2>2, <2>3 DEF HasKind
<1> QED BY <1>1, <1>2

LEMMA SignalQueues ==
  ASSUME NEW queue \in Seq(Event), NoOverflow(queue), NEW n,
         NEW kind \in {"CREATE", "MODIFY", "DELETE"},
         Signal(queue, [kind |-> kind, name |-> n]) # <<Overflow>>
  PROVE  HasKind(Signal(queue, [kind |-> kind, name |-> n]), n, {kind})
<1> DEFINE event == [kind |-> kind, name |-> n]
<1>1. CASE queue # <<>> /\ queue[Len(queue)] \in {event, Overflow}
  <2>1. Len(queue) \in DOMAIN queue
    BY <1>1
  <2>2. queue[Len(queue)] = event
    BY <1>1, <2>1 DEF NoOverflow
  <2>3. Signal(queue, event) = queue
    BY <1>1 DEF Signal, Counted
  <2> QED BY <2>1, <2>2, <2>3 DEF HasKind
<1>2. CASE event.kind = "MODIFY" /\ ModifyQueued(queue, event.name)
  <2>1. Signal(queue, event) = queue
    BY <1>2 DEF Signal, Counted
  <2>2. PICK i \in DOMAIN queue : queue[i] = [kind |-> "MODIFY", name |-> n]
    BY <1>2 DEF ModifyQueued
  <2> QED BY <1>2, <2>1, <2>2 DEF HasKind
<1>3. CASE ~Counted(queue, event)
  <2>1. Signal(queue, event) = Append(queue, event)
    BY <1>3 DEF Signal
  <2>2. /\ Len(queue) + 1 \in DOMAIN Append(queue, event)
        /\ Append(queue, event)[Len(queue) + 1] = event
    OBVIOUS
  <2>3. event.name = n /\ event.kind \in {kind}
    OBVIOUS
  <2> HIDE DEF event
  <2> QED BY <2>1, <2>2, <2>3 DEF HasKind, event
<1> QED BY <1>1, <1>2, <1>3 DEF Counted

LEMMA TailKeepsKind ==
  ASSUME NEW queue \in Seq(Event), queue # <<>>, NEW n, NEW kinds,
         HasKind(queue, n, kinds)
  PROVE  \/ HasKind(Tail(queue), n, kinds)
         \/ Head(queue).name = n /\ Head(queue).kind \in kinds
<1>1. PICK i \in DOMAIN queue : queue[i].name = n /\ queue[i].kind \in kinds
  BY DEF HasKind
<1>2. CASE i = 1
  BY <1>1, <1>2
<1>3. CASE i # 1
  <2>1. i - 1 \in DOMAIN Tail(queue) /\ Tail(queue)[i - 1] = queue[i]
    BY <1>3
  <2> QED BY <1>1, <2>1 DEF HasKind
<1> QED BY <1>2, <1>3

LEMMA EmptyHasNone ==
  ASSUME NEW n, NEW kinds
  PROVE  ~HasKind(<<>>, n, kinds)
BY DEF HasKind

(* A change of the directory of which the key keeps the event.             *)
LEMMA EditQueues ==
  ASSUME WatcherInv, NEW n \in Names, NEW content,
         NEW kind \in {"CREATE", "MODIFY", "DELETE"},
         Edit(n, content, kind), ~lost'
  PROVE  /\ ~lost
         /\ Queued(n, {kind})'
         /\ \A m, kinds : Queued(m, kinds) => Queued(m, kinds)'
         /\ UNCHANGED threadVars
         /\ disk'[n] = content
         /\ \A m \in Names \ {n} : disk'[m] = disk[m]
<1> DEFINE event == [kind |-> kind, name |-> n]
<1>1. /\ pending' = Signal(pending, event)
      /\ ~lost /\ pending' # <<Overflow>>
      /\ UNCHANGED threadVars
      /\ disk' = [disk EXCEPT ![n] = content]
  BY DEF Edit
<1>2. event \in Event /\ pending \in Seq(Event) /\ disk \in [Names -> AllContents]
  BY DEF Event, WatcherInv, WatcherTypeOK
<1>3. NoOverflow(pending)
  BY <1>1 DEF WatcherInv, QueueInv
<1>4. HasKind(pending', n, {kind})
  BY <1>1, <1>2, <1>3, SignalQueues
<1>5. \A m, kinds : HasKind(pending, m, kinds) => HasKind(pending', m, kinds)
  BY <1>1, <1>2, SignalKeepsKind
<1>6. batch' = batch
  BY <1>1 DEF threadVars
<1> QED BY <1>1, <1>2, <1>4, <1>5, <1>6 DEF Queued

(* The event that is dispatched is about n, or what is queued about n      *)
(* stays queued.                                                           *)
LEMMA DispatchKeeps ==
  ASSUME WatcherInv, Dispatch, NEW n, NEW kinds, Queued(n, kinds)
  PROVE  \/ Queued(n, kinds)'
         \/ Head(batch).name = n /\ Head(batch).kind \in kinds
<1>1. batch \in Seq(Event) /\ batch # <<>> /\ batch' = Tail(batch)
      /\ pending' = pending
  BY DEF WatcherInv, WatcherTypeOK, Dispatch
<1> QED BY <1>1, TailKeepsKind DEF Queued

LEMMA PollKeeps ==
  ASSUME Poll, NEW n, NEW kinds
  PROVE  Queued(n, kinds)' <=> Queued(n, kinds)
BY EmptyHasNone DEF Poll, Queued

-----------------------------------------------------------------------------
(* A name that the listener was told of, or will be, and that is gone, has *)
(* a deletion queued.                                                      *)
GoneInv ==
  ~lost /\ phase # "stopped" =>
    \A n \in Names :
      (told[n] \/ n \in toList) /\ disk[n] = Absent => Queued(n, {"DELETE"})

(* How the directory changes.                                              *)
LEMMA UserEdits ==
  ASSUME WatcherInv, User, ~lost'
  PROVE  \E n \in Names, kind \in {"CREATE", "MODIFY", "DELETE"} :
           /\ Edit(n, disk'[n], kind)
           /\ kind = "DELETE" <=> disk'[n] = Absent
           /\ kind = "MODIFY" => IsFile(disk'[n])
           /\ kind = "CREATE" => disk[n] = Absent \/ (AtomicReplace /\ IsFile(disk[n]))
<1> PICK n \in Names : Create(n) \/ Write(n) \/ Delete(n) \/ Replace(n)
  BY DEF User
<1>0. disk \in [Names -> AllContents]
  BY DEF WatcherInv, WatcherTypeOK
<1>1. CASE Create(n)
  <2>1. PICK c \in Contents(n) \ {Absent} : Edit(n, c, "CREATE")
    BY <1>1 DEF Create
  <2>2. disk'[n] = c
    BY <1>0, <2>1 DEF Edit
  <2> QED BY <1>1, <2>1, <2>2 DEF Create
<1>2. CASE Write(n)
  <2>1. PICK c \in Contents(n) \ NoFile : Edit(n, c, "MODIFY")
    BY <1>2 DEF Write
  <2>2. disk'[n] = c
    BY <1>0, <2>1 DEF Edit
  <2> QED BY <2>1, <2>2 DEF NoFile, IsFile
<1>3. CASE Delete(n)
  <2>1. disk'[n] = Absent
    BY <1>0, <1>3 DEF Delete, Edit
  <2> QED BY <1>3, <2>1 DEF Delete
<1>4. CASE Replace(n)
  <2>1. PICK c \in Contents(n) \ NoFile : Edit(n, c, "CREATE")
    BY <1>4 DEF Replace
  <2>2. disk'[n] = c
    BY <1>0, <2>1 DEF Edit
  <2> QED BY <1>4, <2>1, <2>2 DEF Replace, NoFile
<1> QED BY <1>1, <1>2, <1>3, <1>4

LEMMA GoneStep ==
  ASSUME WatcherInv, GoneInv, [WatcherNext]_watcherVars
  PROVE  GoneInv'
<1> SUFFICES ASSUME ~lost', phase' # "stopped", NEW m \in Names,
                    told'[m] \/ m \in toList', disk'[m] = Absent
             PROVE  Queued(m, {"DELETE"})'
  BY DEF GoneInv
<1>0. WatcherTypeOK
  BY DEF WatcherInv
<1>1. CASE User
  <2>1. PICK n \in Names, kind \in {"CREATE", "MODIFY", "DELETE"} :
          /\ Edit(n, disk'[n], kind)
          /\ kind = "DELETE" <=> disk'[n] = Absent
    BY <1>1, UserEdits
  <2>2. /\ ~lost /\ Queued(n, {kind})'
        /\ Queued(m, {"DELETE"}) => Queued(m, {"DELETE"})'
        /\ UNCHANGED threadVars
        /\ m # n => disk'[m] = disk[m]
    BY <2>1, EditQueues
  <2> QED BY <2>1, <2>2 DEF GoneInv, threadVars
<1>2. CASE ListDirectory
  <2>1. ~told[m] /\ m \notin toList'
    BY <1>2 DEF ListDirectory, WatcherInv, PhaseInv
  <2> QED BY <1>2, <2>1 DEF ListDirectory
<1>3. CASE ListNext
  <2>1. /\ UNCHANGED <<batch, pending, disk, lost, phase>>
        /\ told[m] \/ m \in toList
    BY <1>3, <1>0, NotifyType DEF ListNext, Notify, WatcherTypeOK
  <2> QED BY <2>1 DEF GoneInv, Queued
<1>4. CASE StartWatching \/ StopWatching
  BY <1>4 DEF StartWatching, StopWatching, GoneInv, Queued
<1>5. CASE Poll
  BY <1>5, PollKeeps DEF Poll, GoneInv
<1>6. CASE Dispatch
  <2> DEFINE event == Head(batch)
  <2>1. /\ UNCHANGED <<disk, pending, phase, toList, lost>>
        /\ phase = "watching" /\ toList = {}
        /\ event \in Event
    BY <1>0, <1>6 DEF Dispatch, WatcherInv, PhaseInv, WatcherTypeOK
  <2>2. CASE Notifies(event)
    <3>1. /\ event.name \in Names /\ event.kind \in {"CREATE", "MODIFY", "DELETE"}
          /\ told' = [told EXCEPT ![event.name] =
                        Operation[event.kind] # "remove"]
      BY <1>6, <2>1, <2>2 DEF Dispatch, Notify, Notifies, Event, Overflow
    <3>2. event.name # m
      <4>1. event.name = m => event.kind # "DELETE"
        BY <1>0, <2>1, <3>1 DEF WatcherTypeOK, Operation
      <4>2. event.name = m => event.kind = "DELETE"
        BY <2>1, <2>2, <3>1 DEF Notifies, IsFile, NoFile
      <4> QED BY <4>1, <4>2
    <3>3. told[m]
      BY <1>0, <2>1, <3>1, <3>2 DEF WatcherTypeOK
    <3>4. Queued(m, {"DELETE"})
      BY <2>1, <3>3 DEF GoneInv
    <3> QED BY <1>6, <3>2, <3>4, DispatchKeeps
  <2>3. CASE ~Notifies(event)
    <3>1. event.kind # "DELETE"
      BY <2>3 DEF Notifies
    <3>2. told' = told
      BY <1>6, <2>3 DEF Dispatch
    <3>3. Queued(m, {"DELETE"})
      BY <2>1, <3>2 DEF GoneInv
    <3> QED BY <1>6, <3>1, <3>3, DispatchKeeps
  <2> QED BY <2>2, <2>3
<1>7. CASE ListenerReturns \/ ListenerThrows
  BY <1>7 DEF ListenerReturns, ListenerThrows, GoneInv, Queued
<1>8. CASE UNCHANGED watcherVars
  BY <1>8 DEF watcherVars, GoneInv, Queued
<1> QED BY <1>1, <1>2, <1>3, <1>4, <1>5, <1>6, <1>7, <1>8
        DEF WatcherNext, Thread

-----------------------------------------------------------------------------
(* What a step of a call leaves alone.                                     *)
LEMMA ManagerQuiet ==
  ASSUME PcInv, Manager
  PROVE  /\ UNCHANGED <<disk, batch, pending, lost, told, toList>>
         /\ phase' = phase \/ phase' = "stopped"
         /\ call # None
         /\ call' = call \/ call' = None
<1>1. call # None
  BY DEF PcInv, Manager, notifyRemove, notifyAdd, RemoveContract, RemoveDescription,
     RemoveNegotiation, RemoveAttachments, RemoveArtifact, PublishRemoval,
     AddContract, AddDescription, AddNegotiation, AlreadyIndexed, AddArtifact,
     Attach, Publish, Throw, Removing, Adding
<1> QED BY <1>1, ManagerRefines DEF ListenerReturns, ListenerThrows, watcherVars

(* An artifact that is not described as it is, or whose file is gone.      *)
Outdated(f) == exists(f) /\ (index[f].stamp # disk[f] \/ disk[f] = Absent)

(* It is about to be taken from the index, or an event will see to it.     *)
Leaving(n) ==
  /\ call # None
  /\ call.name = n
  /\ call.op \in {"change", "remove"}
  /\ pc \in {"start", "unlink"}

Renewed(f) ==
  \/ Leaving(f)
  \/ Queued(f, {"DELETE"})
  \/ Queued(f, {"MODIFY"}) /\ IsFile(disk[f])

FreshInv ==
  ~lost /\ phase # "stopped" => \A f \in Files : Outdated(f) => Renewed(f)

LEMMA FreshThread ==
  ASSUME WatcherInv, PcInv, FilesInv, GoneInv, FreshInv, ~AtomicReplace,
         User \/ Thread \/ StopWatching, UNCHANGED managerVars
  PROVE  FreshInv'
<1> SUFFICES ASSUME ~lost', phase' # "stopped", NEW f \in Files, Outdated(f)'
             PROVE  Renewed(f)'
  BY DEF FreshInv
<1>0. WatcherTypeOK /\ f \in Names
  BY DEF WatcherInv, Names
<1>1. UNCHANGED <<index, pc>>
  BY DEF managerVars, indexVars
<1>2. CASE User
  <2>1. PICK n \in Names, kind \in {"CREATE", "MODIFY", "DELETE"} :
          /\ Edit(n, disk'[n], kind)
          /\ kind = "DELETE" <=> disk'[n] = Absent
          /\ kind = "MODIFY" => IsFile(disk'[n])
          /\ kind = "CREATE" => disk[n] = Absent
    BY <1>2, UserEdits
  <2>2. /\ ~lost /\ Queued(n, {kind})'
        /\ \A m, kinds : Queued(m, kinds) => Queued(m, kinds)'
        /\ UNCHANGED threadVars
        /\ \A m \in Names \ {n} : disk'[m] = disk[m]
    BY <2>1, EditQueues
  <2>3. FreshInv => (Outdated(f) => Renewed(f))
    BY <2>2 DEF FreshInv, threadVars
  <2>4. Leaving(f) => Leaving(f)'
    BY <1>1, <2>2 DEF Leaving, threadVars
  <2>5. CASE n # f
    <3>1. disk'[f] = disk[f]
      BY <1>0, <2>2, <2>5
    <3>2. Renewed(f)
      BY <1>1, <2>3, <3>1 DEF Outdated, exists
    <3> QED BY <2>2, <2>4, <3>1, <3>2 DEF Renewed
  <2>6. CASE n = f /\ kind = "CREATE"
    <3>1. disk[f] = Absent
      BY <2>1, <2>6
    <3>2. Renewed(f)
      BY <1>1, <2>3, <3>1 DEF Outdated, exists
    <3>3. ~IsFile(disk[f])
      BY <3>1 DEF IsFile, NoFile
    <3> QED BY <2>2, <2>4, <3>2, <3>3 DEF Renewed
  <2>7. CASE n = f /\ kind \in {"MODIFY", "DELETE"}
    BY <2>1, <2>2, <2>7 DEF Renewed
  <2> QED BY <2>5, <2>6, <2>7
<1>3. CASE ~User
  <2>1. UNCHANGED <<disk, lost>>
    BY <1>3 DEF Thread, ListDirectory, ListNext, StartWatching, Poll, Dispatch,
       StopWatching
  <2>2. phase # "stopped"
    BY <1>3 DEF Thread, ListDirectory, ListNext, StartWatching, Poll, Dispatch,
       StopWatching
  <2>3. Renewed(f)
    BY <1>1, <2>1, <2>2 DEF FreshInv, Outdated, exists
  <2>4. CASE ListDirectory
    <3>1. UNCHANGED <<batch, pending, call>>
      BY <2>4 DEF ListDirectory
    <3> QED BY <1>1, <2>1, <2>3, <3>1 DEF Renewed, Leaving, Queued
  <2>5. CASE ListNext
    <3>1. UNCHANGED <<batch, pending>> /\ call = None
      BY <2>5 DEF ListNext
    <3> QED BY <2>1, <2>3, <3>1 DEF Renewed, Leaving, Queued
  <2>6. CASE StartWatching \/ StopWatching
    <3>1. UNCHANGED <<batch, pending, call>>
      BY <2>6 DEF StartWatching, StopWatching
    <3> QED BY <1>1, <2>1, <2>3, <3>1 DEF Renewed, Leaving, Queued
  <2>7. CASE Poll
    <3>1. call = None
      BY <2>7 DEF Poll
    <3> QED BY <2>1, <2>3, <2>7, <3>1, PollKeeps DEF Renewed, Leaving
  <2>8. CASE Dispatch
    <3> DEFINE event == Head(batch)
    <3>1. call = None /\ phase = "watching" /\ event \in Event
      BY <1>0, <2>8 DEF Dispatch, WatcherTypeOK
    <3>2. pc' = "start"
      BY <1>1, <3>1 DEF PcInv
    <3>3. PICK kind \in {"DELETE", "MODIFY"} :
            Queued(f, {kind}) /\ (kind = "MODIFY" => IsFile(disk[f]))
      BY <2>3, <3>1 DEF Renewed, Leaving
    <3>4. CASE Queued(f, {kind})'
      BY <2>1, <3>3, <3>4 DEF Renewed
    <3>5. CASE event.name = f /\ event.kind = kind
      <4>1. Notifies(event)
        BY <3>3, <3>5 DEF Notifies
      <4>2. call' = [op |-> Operation[kind], name |-> f]
        BY <2>8, <3>5, <4>1 DEF Dispatch, Notify
      <4>3. Operation[kind] \in {"change", "remove"}
        BY DEF Operation
      <4>4. call' # None
        BY <1>0, <4>2, <4>3, CallAssumption DEF Call
      <4> QED BY <3>2, <4>2, <4>3, <4>4 DEF Renewed, Leaving
    <3> QED BY <2>8, <3>3, <3>4, <3>5, DispatchKeeps
  <2> QED BY <1>3, <2>4, <2>5, <2>6, <2>7, <2>8 DEF Thread
<1> QED BY <1>2, <1>3

LEMMA FreshManager ==
  ASSUME WatcherInv, PcInv, PcInv', FilesInv, FilesInv', ManagerTypeOK,
         GoneInv, FreshInv, Manager
  PROVE  FreshInv'
<1> SUFFICES ASSUME ~lost', phase' # "stopped", NEW f \in Files, Outdated(f)'
             PROVE  Renewed(f)'
  BY DEF FreshInv
<1>0. WatcherTypeOK /\ f \in Names
  BY DEF WatcherInv, Names
<1>1. /\ UNCHANGED <<disk, batch, pending, lost, phase, told>>
      /\ call # None /\ (call' = call \/ call' = None)
      /\ \A kinds : Queued(f, kinds)' <=> Queued(f, kinds)
  BY ManagerQuiet DEF Queued
<1>2. Outdated(f) => Renewed(f)
  BY <1>1 DEF FreshInv
<1>3. CASE RemoveArtifact
  <2>1. index' = [index EXCEPT ![call.name] = None]
        /\ pc = "unlink" /\ call.name \in Files
    BY <1>3 DEF RemoveArtifact, removeArtifact, PcInv
  <2>2. call.name # f
    BY <2>1 DEF Outdated, exists, ManagerTypeOK, IndexTypeOK
  <2>3. ~Leaving(f) /\ index'[f] = index[f]
    BY <2>1, <2>2 DEF Leaving, ManagerTypeOK, IndexTypeOK
  <2> QED BY <1>1, <1>2, <2>3 DEF Outdated, Renewed, exists
<1>4. CASE AddArtifact
  <2>1. /\ index' = [index EXCEPT ![call.name] =
                       [file |-> call.name, stamp |-> disk[call.name]]]
        /\ call.op = "add" \/ pc = "add"
        /\ call.name \in Files
    BY <1>4 DEF AddArtifact, addArtifact, Adding
  <2>2. CASE call.name = f
    <3>1. disk[f] = Absent
      BY <1>1, <2>1, <2>2 DEF Outdated, ManagerTypeOK, IndexTypeOK
    <3>2. told[f]
      BY <1>1, <2>1, <2>2 DEF PcInv
    <3>3. Queued(f, {"DELETE"})
      BY <1>0, <1>1, <3>1, <3>2 DEF GoneInv
    <3> QED BY <1>1, <3>3 DEF Renewed
  <2>3. CASE call.name # f
    <3>1. ~Leaving(f) /\ index'[f] = index[f]
      BY <2>1, <2>3 DEF Leaving, ManagerTypeOK, IndexTypeOK
    <3> QED BY <1>1, <1>2, <3>1 DEF Outdated, Renewed, exists
  <2> QED BY <2>2, <2>3
<1>5. CASE ~(RemoveArtifact \/ AddArtifact)
  <2>1. UNCHANGED index
    BY <1>5 DEF Manager, notifyRemove, notifyAdd, RemoveContract,
       RemoveDescription, RemoveNegotiation, RemoveAttachments, PublishRemoval,
       AddContract, AddDescription, AddNegotiation, AlreadyIndexed, Attach,
       Publish, Throw, indexVars, managerVars
  <2>2. Renewed(f)
    BY <1>1, <1>2, <2>1 DEF Outdated, exists
  <2>3. ASSUME Leaving(f) PROVE Leaving(f)'
    <3>1. call.name \in Files /\ call.name \notin MetaFiles
      BY <2>3, NamesAssumption DEF Leaving
    <3>2. RemoveAttachments \/ AlreadyIndexed \/ Throw
      BY <1>5, <2>3, <3>1 DEF Leaving, Manager, notifyRemove, notifyAdd,
         RemoveContract, RemoveDescription, RemoveNegotiation, PublishRemoval,
         AddContract, AddDescription, AddNegotiation, Attach, Publish,
         Removing, Adding, OfKind
    <3>3. ~AlreadyIndexed
      BY <2>3 DEF Leaving, AlreadyIndexed, Adding
    <3>4. ~Throw
      BY <1>1 DEF Throw, ListenerThrows, PcInv
    <3>5. RemoveAttachments
      BY <3>2, <3>3, <3>4
    <3>6. UNCHANGED call /\ pc' = "unlink"
      BY <3>5 DEF RemoveAttachments, Goto, watcherVars
    <3> QED BY <2>3, <3>6 DEF Leaving
  <2> QED BY <1>1, <2>2, <2>3 DEF Renewed
<1> QED BY <1>3, <1>4, <1>5

-----------------------------------------------------------------------------
GoneManager == ManagerInv /\ GoneInv

LEMMA GoneNext ==
  ASSUME GoneManager, [Next]_vars
  PROVE  GoneManager'
BY StepRefines, GoneStep, ManagerStepInv DEF GoneManager, ManagerInv

LEMMA GoneInit == Init => GoneManager
<1> SUFFICES ASSUME Init PROVE GoneManager
  OBVIOUS
<1>1. ManagerInv
  BY WatcherInitInv, InitTypes, InitFiles DEF Init, ManagerInv
<1>2. GoneInv
  BY DEF Init, WatcherInit, GoneInv
<1> QED BY <1>1, <1>2 DEF GoneManager

LEMMA FreshNext ==
  ASSUME GoneManager, FreshInv, ~AtomicReplace, [Next]_vars
  PROVE  FreshInv'
<1>1. GoneManager'
  BY GoneNext
<1>2. CASE (User \/ Thread \/ StopWatching) /\ UNCHANGED managerVars
  BY <1>2, FreshThread DEF GoneManager, ManagerInv
<1>3. CASE Manager
  BY <1>1, <1>3, FreshManager DEF GoneManager, ManagerInv
<1>4. CASE UNCHANGED vars
  BY <1>4 DEF vars, watcherVars, managerVars, indexVars, FreshInv, Outdated,
     Renewed, Leaving, Queued, exists
<1> QED BY <1>2, <1>3, <1>4 DEF Next

LEMMA FreshInvUpToDate == FreshInv => IndexIsUpToDate
BY EmptyHasNone DEF FreshInv, IndexIsUpToDate, Quiescent, Outdated, Renewed,
   Leaving, Queued

(* Once the watcher has caught up, and unless its key dropped events, every *)
(* artifact is described as its file is now, whatever was written, deleted *)
(* and created anew before, during and after the calls about it, as long   *)
(* as no file is renamed over another.                                     *)
THEOREM IndexStaysFresh ==
  ASSUME ~AtomicReplace
  PROVE  Spec => []IndexIsUpToDate
<1> DEFINE I == GoneManager /\ FreshInv
<1>1. Init => I
  <2>1. Init => FreshInv
    BY DEF Init, IndexInit, FreshInv, Outdated, exists
  <2> QED BY <2>1, GoneInit
<1>2. I /\ [Next]_vars => I'
  BY GoneNext, FreshNext
<1>3. I => IndexIsUpToDate
  BY FreshInvUpToDate
<1> HIDE DEF I
<1> QED BY <1>1, <1>2, <1>3, PTL DEF Spec

-----------------------------------------------------------------------------
(* The description of a file that nothing else is mistaken for.            *)
AnyKind == {"CREATE", "MODIFY", "DELETE"}

(* What the file m holds is going to be looked at.                         *)
Awaited(m) ==
  \/ phase = "registered"
  \/ m \in toList
  \/ Queued(m, AnyKind)
  \/ /\ call # None
     /\ call.name = m
     /\ call.op \in {"add", "change"}
     /\ pc \in {"start", "publishRemoval", "add"}

(* Between these labels the artifact has no description of its own yet, or *)
(* no more.                                                                *)
Handled(f) == call # None /\ call.name = f /\ pc \in {"attach", "unlink"}

Carries(f, m) ==
  /\ descriptionStack[m.base] = disk[m]
  /\ exists(f) /\ ~Handled(f) => descriptionIndex[index[f]] = disk[m]

Describes(m, f) ==
  /\ f \in Files
  /\ m \in OfKind("desc")
  /\ Paired(f, m)

DescribedInv ==
  ~lost /\ phase # "stopped" =>
    \A f, m : Describes(m, f) /\ disk[m] \in Text =>
      Awaited(m) \/ Carries(f, m)

(* A file that is there and that the listener was last told is gone has an *)
(* event queued.                                                           *)
LEMMA UntoldIsAwaited ==
  ASSUME WatcherInv, ~lost, phase # "stopped",
         NEW m \in Names, IsFile(disk[m]), ~told[m]
  PROVE  phase = "registered" \/ m \in toList \/ Queued(m, AnyKind)
<1>1. NameInv(m)
  BY DEF WatcherInv, NamesInv
<1>2. ASSUME NEW queue, HasDecisive(queue, m) PROVE HasKind(queue, m, AnyKind)
  BY <1>2 DEF HasDecisive, Decisive, HasKind, AnyKind
<1> QED BY <1>1, <1>2 DEF NameInv, Settled, Queued

(* The same of the state a step leads to.                                  *)
LEMMA UntoldAfter ==
  ASSUME WatcherInv', ~lost', phase' # "stopped",
         NEW m \in Names, IsFile(disk'[m]), ~told'[m]
  PROVE  phase' = "registered" \/ m \in toList' \/ Queued(m, AnyKind)'
<1>1. NameInv(m)'
  BY DEF WatcherInv, NamesInv
<1>2. ASSUME NEW queue, HasDecisive(queue, m) PROVE HasKind(queue, m, AnyKind)
  BY <1>2 DEF HasDecisive, Decisive, HasKind, AnyKind
<1>3. /\ HasDecisive(batch', m) => HasKind(batch', m, AnyKind)
      /\ HasDecisive(pending', m) => HasKind(pending', m, AnyKind)
  BY <1>2
<1> QED BY <1>1, <1>3 DEF NameInv, Settled, Queued, HasDecisive, HasKind

LEMMA TextIsFile == \A c \in Text : IsFile(c) /\ c # Absent /\ c # None
BY ContentsAssumption, NoneAssumption DEF IsFile, NoFile

LEMMA DescribesTypes ==
  ASSUME NEW f, NEW m, Describes(m, f)
  PROVE  /\ f \in Files /\ m \in MetaFiles /\ m \in Names /\ m \notin Files
         /\ m.kind = "desc" /\ m.base \in Bases
         /\ \A n \in OfKind("desc") : n.base = m.base => n = m
<1>1. m \in MetaFiles /\ m.kind = "desc"
  BY DEF Describes, OfKind
<1>2. \A n \in MetaFiles :
        n \in [kind : Kinds, base : Bases] /\ n = [kind |-> n.kind, base |-> n.base]
  BY NamesAssumption
<1> QED BY <1>1, <1>2, NamesAssumption DEF Describes, Paired, OfKind, Names

(* No other call about an artifact or a description finds the artifact.    *)
LEMMA OtherRelated ==
  ASSUME ManagerTypeOK, NEW f, NEW m, Describes(m, f), exists(f),
         NEW n \in Names, n # m, n # f, n \in Files \/ n \in OfKind("desc")
  PROVE  index[f] \notin Related(n)
<1>1. index[f].file = f
  BY DescribesTypes DEF ManagerTypeOK, IndexTypeOK, exists
<1>2. n \in Files \cup OfKind(m.kind)
  BY DescribesTypes
<1>3. BaseOf[f] \notin SearchKeys(n)
  BY <1>2 DEF Describes, Paired
<1> QED BY <1>1, <1>3 DEF Related

(* A call about the description finds the artifact, if any.                *)
LEMMA OwnRelated ==
  ASSUME ManagerTypeOK, NEW f, NEW m, Describes(m, f)
  PROVE  Related(m) = IF exists(f) THEN {index[f]} ELSE {}
<1>1. \A g \in Files : exists(g) => index[g].file = g
  BY DEF ManagerTypeOK, IndexTypeOK, exists
<1>2. /\ f \in Files /\ f \notin Api
      /\ BaseOf[f] \in SearchKeys(m)
      /\ \A g \in Files : BaseOf[g] \in SearchKeys(m) => g = f
  BY DescribesTypes DEF Describes, Paired, SearchKeys
<1>3. \A a \in getAllArtifacts : \E g \in Files : exists(g) /\ a = index[g]
  BY DEF getAllArtifacts
<1>4. exists(f) => index[f] \in getAllArtifacts
  BY <1>2 DEF getAllArtifacts
<1>5. ASSUME NEW a \in Related(m) PROVE exists(f) /\ a = index[f]
  <2>1. PICK g \in Files : exists(g) /\ a = index[g]
    BY <1>3 DEF Related
  <2>2. BaseOf[a.file] \in SearchKeys(m)
    BY DEF Related
  <2>3. g = f
    BY <1>1, <1>2, <2>1, <2>2
  <2> QED BY <2>1, <2>3
<1>6. exists(f) => index[f] \in Related(m)
  <2> SUFFICES ASSUME exists(f) PROVE index[f] \in Related(m)
    OBVIOUS
  <2>1. index[f].file = f
    BY <1>1, <1>2
  <2> QED BY <1>2, <1>4, <2>1 DEF Related
<1> QED BY <1>5, <1>6

LEMMA DescribedThread ==
  ASSUME WatcherInv, WatcherInv', PcInv, PcInv', DescribedInv,
         User \/ Thread \/ StopWatching, UNCHANGED managerVars
  PROVE  DescribedInv'
<1> SUFFICES ASSUME ~lost', phase' # "stopped", NEW f, NEW m,
                    Describes(m, f), disk'[m] \in Text
             PROVE  Awaited(m)' \/ Carries(f, m)'
  BY DEF DescribedInv, Describes, OfKind, Paired, SearchKeys
<1>0. WatcherTypeOK /\ m \in Names
  BY DescribesTypes DEF WatcherInv
<1>1. UNCHANGED <<index, pc, descriptionIndex, descriptionStack>>
  BY DEF managerVars, indexVars, stackVars
<1>2. ASSUME UNCHANGED call \/ (call = None /\ pc = "start"),
             disk'[m] = disk[m], Carries(f, m)
      PROVE  Carries(f, m)'
  BY <1>1, <1>2 DEF Carries, Handled, exists
<1>3. CASE User
  <2>1. PICK n \in Names, kind \in AnyKind : Edit(n, disk'[n], kind)
    BY <1>3, UserEdits DEF AnyKind
  <2>2. /\ ~lost /\ Queued(n, {kind})'
        /\ \A l, kinds : Queued(l, kinds) => Queued(l, kinds)'
        /\ UNCHANGED threadVars
        /\ \A l \in Names \ {n} : disk'[l] = disk[l]
    BY <2>1, EditQueues DEF AnyKind
  <2>3. CASE n = m
    <3>1. Queued(m, AnyKind)'
      BY <2>2, <2>3 DEF Queued, HasKind
    <3> QED BY <3>1 DEF Awaited
  <2>4. CASE n # m
    <3>1. disk'[m] = disk[m]
      BY <1>0, <2>2, <2>4
    <3>2. UNCHANGED <<phase, toList, call>>
      BY <2>2 DEF threadVars
    <3>3. Awaited(m) \/ Carries(f, m)
      BY <2>2, <3>1, <3>2 DEF DescribedInv
    <3> QED BY <1>1, <1>2, <2>2, <3>1, <3>2, <3>3 DEF Awaited
  <2> QED BY <2>3, <2>4
<1>4. CASE ~User
  <2>1. UNCHANGED <<disk, lost>> /\ phase # "stopped"
    BY <1>4 DEF Thread, ListDirectory, ListNext, StartWatching, Poll, Dispatch,
       StopWatching
  <2>2. Awaited(m) \/ Carries(f, m)
    BY <2>1 DEF DescribedInv
  <2>3. IsFile(disk[m]) /\ disk[m] # Absent
    BY <2>1, TextIsFile
  <2>4. CASE ListDirectory
    <3>1. m \in toList'
      BY <1>0, <2>3, <2>4 DEF ListDirectory
    <3> QED BY <3>1 DEF Awaited
  <2>5. CASE ListNext
    <3>1. call = None /\ pc = "start" /\ UNCHANGED <<batch, pending>>
          /\ phase = "listing"
      BY <2>5 DEF ListNext, PcInv
    <3>2. PICK n \in toList : /\ toList' = toList \ {n}
                              /\ call' = [op |-> "add", name |-> n]
      BY <2>5 DEF ListNext, Notify
    <3>3. n \in Names /\ call' # None
      BY <1>0, <3>2, CallAssumption DEF WatcherTypeOK, Call
    <3>4. m = n => Awaited(m)'
      BY <1>1, <3>1, <3>2, <3>3 DEF Awaited
    <3>5. Awaited(m) => Awaited(m)'
      BY <3>1, <3>2, <3>4 DEF Awaited, Queued
    <3> QED BY <1>2, <2>1, <2>2, <3>1, <3>5
  <2>6. CASE StartWatching \/ StopWatching
    <3>1. /\ UNCHANGED <<batch, pending, call, toList>>
          /\ phase # "registered"
      BY <2>6 DEF StartWatching, StopWatching
    <3> QED BY <1>1, <1>2, <2>1, <2>2, <3>1 DEF Awaited, Queued
  <2>7. CASE Poll
    <3>1. call = None /\ pc = "start" /\ UNCHANGED <<call, toList, phase>>
      BY <2>7 DEF Poll, PcInv
    <3> QED BY <1>1, <1>2, <2>1, <2>2, <2>7, <3>1, PollKeeps DEF Awaited
  <2>8. CASE Dispatch
    <3> DEFINE event == Head(batch)
    <3>1. /\ call = None /\ pc = "start" /\ pc' = "start"
          /\ event \in Event /\ toList = {}
          /\ UNCHANGED <<toList, phase>> /\ phase = "watching"
      BY <1>0, <1>1, <2>8 DEF Dispatch, PcInv, WatcherInv, WatcherTypeOK, PhaseInv
    <3>2. CASE Carries(f, m)
      BY <1>2, <2>1, <3>1, <3>2
    <3>3. CASE Queued(m, AnyKind)'
      BY <3>3 DEF Awaited
    <3>4. CASE event.name = m /\ event.kind \in {"CREATE", "MODIFY"}
      <4>1. Notifies(event)
        BY <2>3, <3>4 DEF Notifies
      <4>2. call' = [op |-> Operation[event.kind], name |-> m]
        BY <2>8, <3>4, <4>1 DEF Dispatch, Notify
      <4>3. Operation[event.kind] \in {"add", "change"}
        BY <3>4 DEF Operation
      <4>4. call' # None
        BY <1>0, <4>2, <4>3, CallAssumption DEF Call
      <4> QED BY <3>1, <4>2, <4>3, <4>4 DEF Awaited
    <3>5. CASE event.name = m /\ event.kind = "DELETE"
      <4>1. told' = [told EXCEPT ![m] = Operation["DELETE"] # "remove"]
        BY <2>8, <3>5 DEF Dispatch, Notify, Notifies
      <4>2. ~told'[m]
        BY <1>0, <4>1 DEF WatcherTypeOK, Operation
      <4> QED BY <1>0, <2>1, <2>3, <4>2, UntoldAfter DEF Awaited
    <3>6. Queued(m, AnyKind) =>
            \/ Queued(m, AnyKind)'
            \/ event.name = m /\ event.kind \in AnyKind
      BY <2>8, DispatchKeeps
    <3>7. Awaited(m) => Queued(m, AnyKind)
      BY <3>1 DEF Awaited
    <3> QED BY <2>2, <3>2, <3>3, <3>4, <3>5, <3>6, <3>7 DEF AnyKind
  <2> QED BY <1>4, <2>4, <2>5, <2>6, <2>7, <2>8 DEF Thread
<1> QED BY <1>3, <1>4

(* The steps of a call about the metadata file itself.                     *)
LEMMA DescribedOwnCall ==
  ASSUME WatcherInv, PcInv, ManagerTypeOK, NEW f, NEW m, Describes(m, f),
         disk[m] \in Text, ~lost, phase' # "stopped",
         Manager, call.name = m,
         Awaited(m) \/ Carries(f, m)
  PROVE  Awaited(m)' \/ Carries(f, m)'
<1>0. WatcherTypeOK /\ m \in MetaFiles /\ m \in Names /\ m \notin Files
      /\ m.kind = "desc"
  BY DescribesTypes DEF WatcherInv
<1>1. /\ UNCHANGED <<disk, batch, pending, lost, phase, toList>>
      /\ call # None /\ (call' = call \/ call' = None)
      /\ Queued(m, AnyKind)' <=> Queued(m, AnyKind)
  BY ManagerQuiet DEF Queued
<1>2. phase # "registered"
  BY <1>1 DEF WatcherInv, PhaseInv
<1>3. ~IsFile(Absent) /\ IsFile(disk[m])
  BY TextIsFile DEF IsFile, NoFile
<1>4. ASSUME call.op = "remove" PROVE Awaited(m)'
  <2>1. ~told[m]
    BY <1>1, <1>4 DEF PcInv
  <2>2. m \in toList \/ Queued(m, AnyKind)
    BY <1>0, <1>1, <1>2, <1>3, <2>1, UntoldIsAwaited
  <2> QED BY <1>1, <2>2 DEF Awaited
<1>5. ASSUME call.op \in {"add", "change"}, UNCHANGED call,
             pc' \in {"publishRemoval", "add"}
      PROVE  Awaited(m)'
  BY <1>1, <1>5 DEF Awaited
<1>6. call.op \in {"add", "change", "remove"}
  BY <1>0, <1>1 DEF WatcherTypeOK, Call
<1>7. CASE RemoveDescription \/ PublishRemoval
  <2>1. \/ Goto("publishRemoval")
        \/ RemovalDone
    BY <1>7 DEF RemoveDescription, PublishRemoval
  <2>2. CASE Goto("publishRemoval")
    BY <1>4, <1>5, <1>6, <2>2 DEF Goto, watcherVars
  <2>3. CASE RemovalDone
    BY <1>4, <1>5, <2>3 DEF RemovalDone, Goto, watcherVars
  <2> QED BY <2>1, <2>2, <2>3
<1>8. CASE AddDescription
  <2>1. descriptionStack' = [descriptionStack EXCEPT ![m.base] = disk[m]]
    BY <1>8, TextIsFile DEF AddDescription
  <2>2. descriptionStack'[m.base] = disk[m]
    BY <2>1, DescribesTypes DEF ManagerTypeOK, StackTypeOK
  <2>3. exists(f) => descriptionIndex' =
                       [descriptionIndex EXCEPT ![index[f]] = disk[m]]
    <3>1. exists(f) => Related(m) = {index[f]}
      BY OwnRelated
    <3>2. \/ \E a \in Related(m) : addDescription(a, disk[m])
          \/ Related(m) = {}
      BY <1>8, TextIsFile DEF AddDescription
    <3> QED BY <3>1, <3>2 DEF addDescription
  <2>4. exists(f) => descriptionIndex'[index[f]] = disk[m]
    BY <2>3, DescribesTypes DEF ManagerTypeOK, IndexTypeOK, exists
  <2>5. index' = index
    BY <1>8 DEF AddDescription
  <2> QED BY <1>1, <2>2, <2>4, <2>5 DEF Carries, exists
<1>9. CASE Publish
  <2>1. pc = "publish" /\ UNCHANGED <<indexVars, stackVars>>
        /\ call' = None
    BY <1>9 DEF Publish, Return, ListenerReturns
  <2>2. Awaited(m) => Awaited(m)'
    BY <1>1, <2>1 DEF Awaited
  <2>3. Carries(f, m) => Carries(f, m)'
    BY <1>1, <2>1 DEF Carries, Handled, exists, indexVars, stackVars
  <2> QED BY <2>2, <2>3
<1>10. RemoveDescription \/ PublishRemoval \/ AddDescription \/ Publish
  <2>1. ~Throw
    BY <1>1 DEF Throw, ListenerThrows, PcInv
  <2>2. \A n \in OfKind("contract") \cup OfKind("negotiation") : n # m
    BY <1>0 DEF OfKind
  <2> QED BY <1>0, <2>1, <2>2 DEF Manager, notifyRemove, notifyAdd,
          RemoveContract, RemoveNegotiation, RemoveAttachments,
          RemoveArtifact, AddContract, AddNegotiation, AlreadyIndexed,
          AddArtifact, Attach, Removing, Adding, PcInv
<1> QED BY <1>7, <1>8, <1>9, <1>10

(* The steps of a call about another name.                                 *)
LEMMA DescribedOtherCall ==
  ASSUME WatcherInv, PcInv, FilesInv, ManagerTypeOK,
         NEW f, NEW m, Describes(m, f),
         disk[m] \in Text, phase' # "stopped",
         Manager, call.name # m, Carries(f, m)
  PROVE  Carries(f, m)'
<1>0. /\ m \in MetaFiles /\ f \in Files /\ m.base = BaseOf[f] /\ m.base \in Bases
      /\ \A n \in OfKind("desc") : n # m => n.base # m.base
      /\ WatcherTypeOK
  BY DescribesTypes DEF WatcherInv, Describes, Paired
<1>1. /\ UNCHANGED disk /\ call # None /\ call.name \in Names
      /\ call' = call \/ call' = None
  BY <1>0, ManagerQuiet, CallName
<1>2. ASSUME UNCHANGED <<index, descriptionIndex>>,
             pc \notin {"attach", "unlink"} \/ call.name # f
      PROVE  exists(f)' => descriptionIndex'[index'[f]] = disk[m]
  BY <1>1, <1>2 DEF Carries, Handled, exists
<1>3. CASE AddDescription
  <2>1. call.name \in OfKind("desc") /\ call.name # f
        /\ call.name.base # m.base
    BY <1>0, <1>3, NamesAssumption DEF AddDescription, Adding, OfKind
  <2>2. descriptionStack'[m.base] = descriptionStack[m.base]
    BY <1>0, <1>3, <2>1 DEF AddDescription, ManagerTypeOK, StackTypeOK
  <2>3. exists(f) => index[f] \notin Related(call.name)
    BY <1>1, <2>1, OtherRelated
  <2>4. exists(f) => descriptionIndex'[index[f]] = descriptionIndex[index[f]]
    <3>1. \/ \E a \in Related(call.name) :
               addDescription(a, disk[call.name])
          \/ UNCHANGED descriptionIndex
      BY <1>3 DEF AddDescription
    <3> QED BY <1>0, <2>3, <3>1 DEF addDescription, ManagerTypeOK, IndexTypeOK,
            exists
  <2>5. UNCHANGED index
    BY <1>3 DEF AddDescription
  <2> QED BY <1>1, <2>1, <2>2, <2>4, <2>5 DEF Carries, Handled, exists
<1>4. CASE RemoveDescription
  <2>1. call.name \in OfKind("desc") /\ call.name # f
    BY <1>0, <1>4, NamesAssumption DEF RemoveDescription, Removing, OfKind
  <2>2. exists(f) => index[f] \notin Related(call.name)
    BY <1>1, <2>1, OtherRelated
  <2>3. exists(f) => descriptionIndex'[index[f]] = descriptionIndex[index[f]]
    <3>1. \/ \E a \in Related(call.name) : removeDescription(a)
          \/ UNCHANGED descriptionIndex
      BY <1>4 DEF RemoveDescription
    <3> QED BY <1>0, <2>2, <3>1 DEF removeDescription, ManagerTypeOK,
            IndexTypeOK, exists
  <2>4. UNCHANGED <<index, descriptionStack>>
    BY <1>4 DEF RemoveDescription, stackVars
  <2> QED BY <1>1, <2>1, <2>3, <2>4 DEF Carries, Handled, exists
<1>5. CASE RemoveAttachments
  <2>1. /\ call.name \in Files /\ pc' = "unlink" /\ call' = call
        /\ pc = "start"
        /\ UNCHANGED <<index, descriptionStack>>
    BY <1>5 DEF RemoveAttachments, Removing, Goto, watcherVars, stackVars
  <2>2. CASE call.name = f
    BY <1>1, <2>1, <2>2 DEF Carries, Handled, exists
  <2>3. CASE call.name # f
    <3>1. exists(f) => index[f] \notin Related(call.name)
      BY <1>1, <2>1, <2>3, OtherRelated
    <3>2. \/ \E a \in Related(call.name) : removeDescription(a)
          \/ UNCHANGED descriptionIndex
      BY <1>5 DEF RemoveAttachments
    <3>3. exists(f) => descriptionIndex'[index[f]] = descriptionIndex[index[f]]
      BY <1>0, <3>1, <3>2 DEF removeDescription, ManagerTypeOK,
         IndexTypeOK, exists
    <3> QED BY <1>1, <2>1, <2>3, <3>3 DEF Carries, Handled, exists
  <2> QED BY <2>2, <2>3
<1>6. CASE RemoveArtifact
  <2>1. /\ call.name \in Files /\ pc = "unlink"
        /\ index' = [index EXCEPT ![call.name] = None]
        /\ UNCHANGED <<descriptionIndex, descriptionStack>>
    BY <1>6 DEF RemoveArtifact, removeArtifact, PcInv, stackVars
  <2>2. call.name = f => ~exists(f)'
    BY <1>0, <2>1 DEF exists, ManagerTypeOK, IndexTypeOK
  <2>3. call.name # f => index'[f] = index[f]
    BY <1>0, <2>1 DEF ManagerTypeOK, IndexTypeOK
  <2> QED BY <1>1, <2>1, <2>2, <2>3 DEF Carries, Handled, exists
<1>7. CASE AddArtifact
  <2>1. /\ pc' = "attach" /\ call' = call
        /\ \A g \in Files : g # call.name => index'[g] = index[g]
        /\ UNCHANGED <<descriptionIndex, descriptionStack>>
        /\ pc \in {"start", "add"}
    BY <1>7 DEF AddArtifact, addArtifact, Goto, watcherVars, stackVars, Adding,
       ManagerTypeOK, IndexTypeOK
  <2> QED BY <1>0, <1>1, <2>1 DEF Carries, Handled, exists
<1>8. CASE Attach
  <2> DEFINE g == call.name
  <2>1. /\ pc = "attach" /\ g \in Files
        /\ UNCHANGED <<index, descriptionStack>> /\ exists(g)
        /\ IF descriptionStack[BaseOf[g]] # None
             THEN addDescription(index[g], descriptionStack[BaseOf[g]])
             ELSE UNCHANGED descriptionIndex
    BY <1>1, <1>8 DEF Attach, PcInv, FilesInv, FileInv, stackVars
  <2>2. CASE g = f
    <3>1. descriptionStack[BaseOf[f]] = disk[m] /\ disk[m] # None
      BY <1>0, TextIsFile DEF Carries
    <3>2. descriptionIndex' = [descriptionIndex EXCEPT ![index[f]] = disk[m]]
      BY <2>1, <2>2, <3>1 DEF addDescription
    <3>3. descriptionIndex'[index[f]] = disk[m]
      BY <1>0, <2>1, <2>2, <3>2 DEF ManagerTypeOK, IndexTypeOK, exists
    <3> QED BY <1>1, <2>1, <3>3 DEF Carries, exists
  <2>3. CASE g # f
    <3>1. exists(f) => index[f] # index[g]
      BY <1>0, <2>1, <2>3 DEF ManagerTypeOK, IndexTypeOK, exists
    <3>2. exists(f) => descriptionIndex'[index[f]] = descriptionIndex[index[f]]
      BY <1>0, <2>1, <3>1 DEF addDescription, ManagerTypeOK, IndexTypeOK, exists
    <3> QED BY <1>1, <2>1, <2>3, <3>2 DEF Carries, Handled, exists
  <2> QED BY <2>2, <2>3
<1>9. CASE RemoveContract \/ RemoveNegotiation \/ AddContract \/ AddNegotiation
           \/ AlreadyIndexed \/ PublishRemoval \/ Publish
  <2>1. UNCHANGED <<index, descriptionIndex, descriptionStack>>
    BY <1>9 DEF RemoveContract, RemoveNegotiation, AddContract, AddNegotiation,
       AlreadyIndexed, PublishRemoval, Publish, indexVars, stackVars
  <2>2. pc \notin {"attach", "unlink"}
    BY <1>9 DEF RemoveContract, RemoveNegotiation, AddContract, AddNegotiation,
       AlreadyIndexed, PublishRemoval, Publish, Removing, Adding
  <2> QED BY <1>1, <1>2, <2>1, <2>2 DEF Carries
<1>10. ~Throw
  BY ManagerQuiet DEF Throw, ListenerThrows
<1> QED BY <1>3, <1>4, <1>5, <1>6, <1>7, <1>8, <1>9, <1>10
        DEF Manager, notifyRemove, notifyAdd

LEMMA DescribedNext ==
  ASSUME ManagerInv, ManagerInv', DescribedInv, [Next]_vars
  PROVE  DescribedInv'
<1>1. CASE (User \/ Thread \/ StopWatching) /\ UNCHANGED managerVars
  BY <1>1, DescribedThread DEF ManagerInv
<1>2. CASE Manager
  <2> SUFFICES ASSUME ~lost', phase' # "stopped", NEW f, NEW m,
                      Describes(m, f), disk'[m] \in Text
               PROVE  Awaited(m)' \/ Carries(f, m)'
    BY DEF DescribedInv, Describes, OfKind, Paired, SearchKeys
  <2>1. /\ UNCHANGED <<disk, batch, pending, lost, phase, toList>>
        /\ Queued(m, AnyKind)' <=> Queued(m, AnyKind)
    BY <1>2, ManagerQuiet DEF Queued, ManagerInv
  <2>2. Awaited(m) \/ Carries(f, m)
    BY <2>1 DEF DescribedInv
  <2>3. CASE call.name = m
    BY <1>2, <2>1, <2>2, <2>3, DescribedOwnCall DEF ManagerInv
  <2>4. CASE call.name # m
    <3>1. Awaited(m) => Awaited(m)'
      BY <2>1, <2>4 DEF Awaited
    <3>2. Carries(f, m) => Carries(f, m)'
      BY <1>2, <2>1, <2>4, DescribedOtherCall DEF ManagerInv
    <3> QED BY <2>2, <3>1, <3>2
  <2> QED BY <2>3, <2>4
<1>3. CASE UNCHANGED vars
  <2>1. \A f, m : Describes(m, f)' <=> Describes(m, f)
    BY DEF Describes, OfKind, Paired, SearchKeys
  <2> QED BY <1>3, <2>1 DEF vars, watcherVars, managerVars, indexVars,
      stackVars, DescribedInv, Awaited, Carries, Handled, Queued, exists
<1> QED BY <1>1, <1>2, <1>3 DEF Next

LEMMA DescribedInvTracks == ManagerInv /\ DescribedInv => DescriptionTracksFile
<1> SUFFICES ASSUME ManagerInv, DescribedInv, Quiescent, ~lost,
                    NEW f \in Files, NEW m \in OfKind("desc"),
                    Paired(f, m), exists(f), disk[m] \in Text
             PROVE  descriptionIndex[index[f]] = disk[m]
  BY DEF DescriptionTracksFile
<1>1. Awaited(m) \/ Carries(f, m)
  BY DEF DescribedInv, Quiescent, Describes
<1>2. ~Awaited(m) /\ ~Handled(f)
  BY EmptyHasNone DEF Awaited, Handled, Quiescent, Queued, ManagerInv,
     WatcherInv, PhaseInv
<1> QED BY <1>1, <1>2 DEF Carries

(* Once the watcher has caught up, and unless its key dropped events, a    *)
(* file carries the description that its "-desc.jsonld" file holds now, in *)
(* whatever order the two files came, were rewritten and deleted, and with *)
(* files renamed over them, too: unless a third name of the directory is   *)
(* such that findRelatedArtifact mistakes it for one of the two.           *)
THEOREM DescriptionsFollowFiles == Spec => []DescriptionTracksFile
<1>1. Init => DescribedInv
  BY DEF Init, WatcherInit, DescribedInv, Awaited
<1>2. ManagerInv /\ ManagerInv' /\ DescribedInv /\ [Next]_vars => DescribedInv'
  BY DescribedNext
<1> QED BY <1>1, <1>2, DescribedInvTracks, ManagerInvariant, PTL DEF Spec

=============================================================================
