# A TLA+ model of the IDS Enterprise Integration Connector

The connector offers the files of a directory as IDS artifacts. Contract offers
and descriptions are files beside them. Consumers ask for artifacts, ask for
contracts and send agreements; a broker holds a copy of the connector's
catalogue. All the state lives in a few unsynchronised hash maps, filled by one
thread that watches the directory and read by the threads that answer requests.
This directory models that core: TLC checks it on small instances, TLAPS proves
what matters most for all of them.

Paths below are relative to
`src/src/main/java/de/fraunhofer/iais/eis/ids/connector/`.

## 1. The system

| Component | State | Operations | Talks to |
|---|---|---|---|
| `artifact/DirectoryWatcher` | the watch key's queue, the events drained from it | constructor (registers the watch), `setArtifactListeners` (lists the directory, in the main thread), `run` (the watcher thread) | calls `notifyAdd`, `notifyChange`, `notifyRemove` of its listener |
| `artifact/ArtifactChangeManager` | three stacks: contracts, descriptions and negotiation parameters by base name | the three listener methods, `updateBroker` | writes the index, publishes at the broker |
| `artifact/ArtifactFactory` | none | `createArtifact`: name, date and size of a file | called by the change manager |
| `artifact/InMemoryArtifactIndex` | maps File -> Artifact, Artifact -> contract, description, negotiation parameters; Artifact -> party -> agreement, kept in a file | one method per access; `save`, `load` | written by the change manager and by two handlers, read by all |
| `handlers/standard/ArtifactWithContractHandler` | none of its own | `handle`: contract? agreement? file | reads the index several times per request |
| `handlers/standard/ContractRequestMessageHandler` | none | `handle`: agreement if the request equals the offer, else the offer | reads the index, adds agreements |
| `handlers/standard/ContractAgreementMessageHandler` | none | `handle`: accepts an agreement that equals the offer | reads the index, adds agreements |
| `components/ContractUtil` | none | comparison with the offer, agreement and offer for a consumer | reads the index |
| `infrastructure/DynamicConnectorSelfDescription` | a reference to the index | `setArtifacts`; `getSelfDescription`: the catalogue, made anew by every call in `createResources`; both synchronized | reads the index and writes contracts back; called by the change manager and by description requests |
| `handlers/standard/DescriptionRequestHandler` | none | `handle`: searches the description for an element, or answers all of it | calls `getSelfDescription` two or three times |
| `handlers/standard/ContractOfferMessageHandler` | none | rejects | |
| `components/RemoteBrokerLogging`, `logging/LoggingInteractor` | none | an update that may fail; logging | the broker |
| `main/AppConfig`, `main/Main` | wiring | startup order: watch, broker registration, `load`, listing, watcher thread, requests | |

### Threads

The main thread constructs the watcher, lists the directory and calls the
listener for every name; then it submits the watcher thread, which calls it from
there on. So listener calls never overlap each other. Requests are answered by
the server's threads, and overlap each other and the calls. The only lock is the
monitor of the self description, which excludes listings from each other and
from the change manager's broker update, not from its changes of the index.

### What is hard, and what would be correct

* **Watching.** The directory changes before, during and after the listing;
  events repeat, are counted together, describe a past the directory has left,
  and are dropped in bulk when the key is full. Correct: once the watcher has
  caught up, the last call about every name was true.
* **Change manager.** Files and their metadata come in any order; a change is a
  removal and an addition; what comes early is stacked. Correct: the index
  follows the directory, attachments belong to their artifact and are the
  newest, the broker has what the index has.
* **Signed contracts.** Check-then-act on a map without lock; a file truncated
  before it is written; a load that fails silently. Correct: a confirmed
  agreement stays.
* **Self description.** It lists the index while the index changes: an iterator
  over a map that is modified, a contract read and entered again. Correct: a
  description lists nothing that was not there, nothing that was there all the
  time is missing, the request ends, and nothing is put back where it does not
  belong.
* **Comparison of contracts.** Two printed texts are compared line by line, with
  exceptions for dates. Correct: equal are those with the same terms.
* **Handlers.** Each reads the index several times. Correct: a file is sent
  without an agreement only if at some moment of the request the index held no
  contract for it, or not the artifact itself; an answer that is right all the
  while is given, or an error; and what is signed was offered.
* **Restart.** The process may end anywhere; the index, the stacks and the
  requests are lost, the directory, the agreements' file and the broker's copy
  stay. Correct: an agreement confirmed before is found again after, if its save
  did not fail.

`PROJECT.json` lists each hazard at its line, with the properties about it.

## 2. The modules

| Module | Models | Uses |
|---|---|---|
| `ArtifactFiles` | names and contents of the directory | |
| `DirectoryWatcher` | the watch key, the listing, the watcher thread; a listener that does anything | `ArtifactFiles` |
| `ArtifactIndex` | the index, without signed contracts | `ArtifactFiles` |
| `ArtifactChangeManager` | the listener, the index, the broker | `DirectoryWatcher`, `ArtifactIndex` |
| `SelfDescription` | `getSelfDescription`, `setArtifacts` and description requests beside the change manager | `ArtifactChangeManager` |
| `ContractComparison` | `compareWithIndex` on the lines of two contracts | |
| `AgreementRegister` | abstract: what a store of agreements promises a careful caller | |
| `SignedContractStore` | `addSignedContract`, `save`, `load`, several threads, crashes | refines `AgreementRegister` |
| `MessageHandlers` | the three other handlers beside the change manager, the listings and the store | `SelfDescription`, `ContractComparison`, an instance of `SignedContractStore` |
| `Connector` | the whole process, which may end at any moment and start again | `MessageHandlers` |
| `DirectoryWatcher_proofs`, `ArtifactChangeManager_proofs`, `SelfDescription_proofs`, `ContractComparison_proofs`, `SignedContractStore_proofs`, `MessageHandlers_proofs`, `Connector_proofs` | theorems about the module they are named after | |
| `ArtifactFreshness_proofs` | theorems on what the change manager's index says of the files | `ArtifactChangeManager_proofs` |
| `MC*` | small constants for TLC | |

One abstract specification is implemented: `AgreementRegister`, by the store with
one thread and a working disk (`IsRegister`). Each module of the chain
`DirectoryWatcher`, `ArtifactChangeManager`, `SelfDescription`,
`MessageHandlers`, `Connector` adds actors to the one before (to the watcher,
whose listener may do anything, the listener), so that a theorem about one is
used in the proofs of the next.

### State and actions

*ArtifactFiles.* Names are not spelled out. Of a name the code asks: is it a
metadata file, of which kind and base; what precedes its first dot (`BaseOf`);
has it a dot; does it end in `.api`; and what precedes `-contract`, `-desc` or
`-negotiation` in it (`Cuts`). A content is a stamp (the modification time and
length an artifact records), a text, or one of the special cases the code can
meet: a directory, a file of 2 GiB, a file that does not parse, a negotiation
file that is not a JSON object. Base names of metadata files have no dots, and
do not contain the suffix of their own kind once more.

*DirectoryWatcher.* `phase` is where the main or watcher thread is: `registered`
(constructor done), `listing`, `watching`, `stopped`. `Create`, `Write`,
`Delete`, `Replace` change the directory, each with its event. `Signal` is the
JDK's `AbstractWatchKey.signalEvent`: repetitions of the last event and of a
name's last `MODIFY` are only counted, a full key keeps one `OVERFLOW`. `Poll`
is `take` and `pollEvents`; `Dispatch` looks at one event, and at `isFile()` as
it is now. `call` is the listener call in progress; `ListenerReturns` and
`ListenerThrows` (an exception nobody catches) end it. `StopWatching` is
`key.reset()` returning false. `told` and `lost` are history: what the last call
about a name said, and whether the key ever overflowed. An overflow of the
kernel's queue has the same effect and is not modelled apart.

*ArtifactChangeManager.* A call is a sequence of steps, `pc` says which is next;
between them files change and requests are served.

| Action | Code |
|---|---|
| `RemoveContract`, `RemoveDescription`, `RemoveNegotiation` | `notifyRemove` of a metadata file |
| `RemoveAttachments`, `RemoveArtifact` | `notifyRemove` of an artifact |
| `AddContract`, `AddDescription`, `AddNegotiation` | `notifyAdd` of a metadata file: attached or stacked |
| `AlreadyIndexed`, `AddArtifact`, `Attach` | `notifyAdd` of an artifact, `Attach` taking from the stacks |
| `PublishRemoval`, `Publish` | `updateBroker`, at the end of either |
| `Throw` | the two exceptions nobody catches |

`Related(n)` is `findRelatedArtifact`. It cuts the name it is asked about, be it
of a metadata file or of an artifact, in three places, and takes the first
artifact in a hash map's order whose base is one of the three (`SearchKeys`); the
model takes any. So a name may be mistaken for another's: `demo-desc.ttl`, an
artifact file, is related to `demo.xml`, and `my-contract-desc.jsonld` to
`my.xml`. `DescriptionTracksFile` speaks of a file and its description file for
which there is no such third name (`Paired`), and `AttachmentsAreOwn` allows what
is attached to be of any metadata file whose name leads to the artifact
(`IsFor`). An artifact is a value, its file and stamp: the
map of agreements is keyed by `Artifact` and read back from a file, which only
makes sense if keys are compared by value. `Offer.stacked` says that an attached
offer is the object on the stack, because `addArtifactIdToContract` changes
that object. The catalogue has no contracts: the code computes them and drops
them.

*SelfDescription.* `lock` is the thread that holds the monitor for a request;
the change manager's own use of it is one step, which waits while another holds
it (`NeedsLock`).

| Action | Code |
|---|---|
| `Receive` | a `DescriptionRequestMessage` comes in, for an element or for none |
| `Enter` | `getSelfDescription` is entered and the iterator of `createResources` made |
| `Visit`, `PutBack` | one round of its loop: description and contract read; the contract entered again |
| `ThrowAtChange` | `ConcurrentModificationException` of the iterator |
| `Search`, `Whole`, `Answer` | what `handle` does with the result of each call |
| `Work` | a step of the change manager, under the lock where it publishes |

The iterator of a hash map throws when it sees another modification count; that
is looked at when the next element is fetched, so a listing whose last element
has been fetched ends normally (`upNext`, `Over`). `carried` is the contract
between its reading and its re-entering; it may be an object that the change
manager retargets meanwhile (`Handed`). Resources are named by the URI in their
description's text; one without description has the URI of the catalogue.

*ContractComparison.* A contract is a set of lines, as `removeAll` sees it. Which
lines name values of the ids code lists, literals, dates and durations are
constants. `LinesOf` of `MessageHandlers` gives a text its lines.

*SignedContractStore.* `at[w]` is where thread `w` is in `addSignedContract`:
`check`, `fresh`, `put`, `open`, `write`, `close`. With `DiskFails` the file may
not be opened (`OpenFails`) or not be written: `save` swallows both, and its
caller goes on as if the agreement were kept. Two puts into one hash map may
lose one of them; `Open` truncates the file; `Write` reads the maps into the
stream, which makes something unreadable if the maps are being changed or the
disk fails; `Close` has what was read in the file. The streams of two saves have
positions of their own in the same file, and the one that read the maps first may
be the last to write: a save that ran beside another leaves what it had read, be
it out of date, or a file that cannot be read back. `Restart` ends the process
anywhere and loads what the file has. History: `settled`, the agreements seen
while nobody was adding about the artifact, and `spoilt`, that a save could not
open the file or ran beside another, and no save made alone has read the maps
since.

*MessageHandlers.* `step[w]` is the next access to the index of the thread
answering request `job[w]`; `found[w]` is the artifact it looked up last. An
artifact is asked for by URI, which its file name
fixes. `Signing` is a step of a handler in `addSignedContract`, a failed save among them. `Disturbed` is a look-up that goes
through the map while the change manager adds or removes an artifact: the
exception becomes a rejection with an error, except that a contract request that
looks for its file answers NOT_FOUND; or a read of an agreement whose map is
replaced. History: `disturbed[w]` (an artifact was being added or removed at some
moment of a contract request), `offered` (every offer any artifact had),
`reasons[w]` (what spoke for an answer at each moment since the request came: no
artifact, no contract, an agreement, none, an offer equal to the request or
not). Requests come in once the watcher thread has been submitted.

*Connector.* `Run` is a step of the running process, `Restart` its end and the
start of the next: `WatcherStarts`, `ManagerStarts`, `ReadersStart`,
`WorkersStart` set what is in memory as Main and AppConfig do, `Store!Restart`
loads the file. `confirmed` is history: the artifacts and parties for which an
agreement was confirmed; it is emptied by an end of the process that finds the
file damaged, or a failed save that no later one has made up for, after which
nothing can be promised.

## 3. Runs

Model values stand for files, stamps, texts, lines, parties and threads.
Deadlock is checked in `store_single` and `store_race`; elsewhere changes and
requests are bounded and the threads may stop.

| Run | Instance | Shows |
|---|---|---|
| `manager` | one artifact, its contract, description and negotiation file, two stamps, two texts, 3 changes, a key of 3, a broker that fails | `TypeOK`, `LastWordIsTrue`, `IndexTracksDirectory`, `IndexIsUpToDate`, `DescriptionTracksFile`, `BrokerInStep` |
| `self_description` | three artifact files, `demo`, `demo.xml` and `demo-desc.ttl`, at most two at a time: the first two share a base, the third is related to them; a contract and a description of `demo`, one description request, 1 change | `SelfTypeOK`, `ListedWasThere`, `KeptIsListed`, `AttachmentsAreOwn`, `OneChangePerListing` |
| `manager_live` | an `.api` file, a sibling, negotiation parameters, renames, a description request, 1 change | `RequestsAreAnswered` and `CatchesUp` under fairness |
| `store_single` | one thread, restarts, a disk that works | `StoreTypeOK`; refines `AgreementRegister` (`IsRegister`) |
| `store_race` | two threads, restarts, a disk that fails | `SettledAgreementsStay`, `SettledIsSaved` |
| `handlers` | one artifact with two stamps, two texts of its contract, one thread, two requests, 1 change, 1 restart, a disk that fails | `ProcessTypeOK`, `DeliveryHadReason`, `AgreedTermsWereOffered`, `ConfirmedStays` |
| `handlers_two` | two threads, two parties, two requests, 1 change, a disk that works | `ConnectorTypeOK`, `SteadyAnswers` |

Bounds: `MaxEdits` (changes of the directory, on top of an arbitrary initial
directory), `MaxEvents` (events before the key overflows, which in the JDK takes
512), `MaxRequests` (requests accepted, of either kind), `MaxRestarts`. A change
makes an artifact or its contract appear, go or be rewritten during or after the
startup, which lists what was there; a rewritten artifact leaves the index and
comes back, with steps of requests in between, so that one change is enough to
race with a request. Three changes, with a key of three, let an artifact come, be
rewritten and go while the events about it and its metadata are queued or
drained. Two requests are an agreement and its
use, or two that race; one restart separates an agreement from its use. The
safety properties of all these runs are also theorems (section 5), so that no
bound matters for them beyond what the theorem assumes.

Constraints and identifications. `manager` explores directories with at most one
metadata file at a time, of whichever kind (`CONSTRAINT OneMetaFile`):
`self_description` has two side by side, but no directories, no texts that do
not parse, and at most two artifact files at a time (`CONSTRAINT FewFiles`). In
`self_description` and the runs of
the handlers the two ways in which a metadata file may not parse are one model
value, since a contract or description file treats them alike. The runs of the
handlers leave out the states in which the watcher has stopped
(`CONSTRAINT Watching`): to the threads that answer requests a stopped watcher
is one that is never scheduled again, which the runs have anyway. `handlers_two`
also leaves out what becomes neither artifact nor contract: directories, files of
2 GiB, texts that do not parse (`CONSTRAINT Ordinary`); `handlers` has them. The
runs of the handlers have no description requests (`Readers` is empty), nor a broker; the
theorems have both.

Symmetry is used for stamps, texts, agreements, parties and threads, which no
definition tells apart, and only in runs of invariants. In `handlers` the two
texts have lines of their own, so that only stamps are symmetric there.

### Where the code differs from what is said of it

Each of these runs violates one property, which states a sentence of the
repository; the trace is the shortest TLC finds.

| Run | Property | Trace in a sentence |
|---|---|---|
| `contract_lost` | `ContractTracksFile` | contract found after its artifact, so attached but not stacked; artifact modified, so removed with its contract and entered without: contract gone, its file there |
| `contract_target` | `OfferTargetsItsArtifact` | `demo.xml` and `demo.json` share the offer, which targets the later |
| `delivery_race` | `DeliveryWasRight` | no artifact when the contract is looked up, a protected one when the file is |
| `agreement_terms` | `AgreementFollowsRequest` | the offer changes between comparison and agreement |
| `agreement_lost` | `ConfirmedAgreementIsHeld` | two first agreements about one artifact |

Further behaviour the model has because the code has it, and which properties
therefore leave open: a deleted contract comes back from the stack with the next
modification of its artifact; removing `demo` removes the contract of
`demo.xml`; removing or changing the artifact `demo-desc.ttl` or
`demo-contract.pdf` removes contract, description and negotiation parameters of
`demo.xml`; the description `my-contract-desc.jsonld` may be attached to
`my.xml`; an overflow is ignored; a directory present at startup becomes an
artifact; a rename over a file leaves the old stamp in the index; a 2 GiB file,
or a negotiation file that is no JSON object, ends the thread; a consumer may be
turned away for want of an agreement although the contract is gone; an accepted
agreement may be entered for a later stamp of the file than it was compared
with; a contract request for an artifact without contract file fails; a contract
request may be told NOT_FOUND of a file that is there all the while, when another
artifact comes or goes; an agreement is confirmed although its save failed, and
is lost at a restart unless a later save works; of two
saves at once the older may win, so that an agreement is missing from a file that
looks sound.

## 4. Fairness

`FairSelfSpec` has weak fairness of two kinds of actions. One is a step of the
main or watcher thread, in or outside a listener call: the code gives each of
the two a thread of its own, one after the other. The other is, for each thread
that answers description requests, a step of its handler. Both may have to wait
for the monitor of the self description. The monitors of the JVM are not fair,
but a thread only waits for ever if others take the monitor again and again;
requests are taken to pause, which the bound on them (`MaxRequests`) stands for,
and a listing ends because the change manager can change the index at most once
under it (`OneChangePerListing`). Nothing is assumed of whoever changes the
directory or sends requests, nor of `StopWatching`, nor of which of several
outcomes (a failing update, an exception) comes about. Only `manager_live` checks
liveness: `RequestsAreAnswered` and `CatchesUp`.

## 5. Theorems

Assumptions: those named in the modules (`NamesAssumption`,
`ContentsAssumption`, `NoneAssumption`, `WatcherAssumption`, `CallAssumption`,
`IndexAssumption`, `BrokerAssumption`, `ReadersAssumption`, `LinesAssumption`,
`HandlersAssumption`, `EntriesAssumption`, `StoreAssumption`,
`RestartsAssumption`), which say that names are of one kind, that special
contents are no ordinary ones, that `None` is nothing else, that kinds of lines
are sets of lines and that bounds are numbers. TLC evaluates them in the runs.
Every safety property a passing run checks is a theorem, for any files, texts,
threads and bounds.

*DirectoryWatcher_proofs.* `LastWordIsTrue` is not inductive: while events are
queued, the last word may be wrong. `WatcherInv` adds that as long as no event
was dropped, the last queued `CREATE` or `DELETE` of a name says whether the
name is there; that when `pending` has none, the last one of `batch` does; and
that when neither has one, the last word is right already, or the name is still
to be listed. Coalesced `MODIFY` events do not disturb this, and an event
dispatched about a file that is gone has a later one behind it.
`WatcherInvariant` proves it, `WatcherTypes` and `LastWordHolds` follow.

*ArtifactChangeManager_proofs.* The change manager is a listener by construction
(the lemma `ManagerIsListener`), which carries the watcher's invariant over.
`ManagerInvariant` adds for each file what the call in
progress has done so far; outside of a call about it, a file is in the index
exactly when the listener was last told so. `IndexFollowsDirectory` combines
this with `LastWordIsTrue`. `BrokerKeepsStep` and `AttachmentsStayOwn` have
invariants of their own: the catalogue may differ from the broker's only on the
way to an update; a stack holds texts of its own base, an artifact those of
metadata files whose names lead to it.

*ArtifactFreshness_proofs.* `IndexStaysFresh` (`IndexIsUpToDate`) assumes that
files are not renamed over others, since a rename leaves the old stamp in the
code, too. Its invariant (`FreshInv`) says of an entry that differs from its
file that it is about to leave: the call in progress will remove it, or a
`DELETE`, or a `MODIFY` with the file there, is queued or drained. `GoneInv`,
that a name which is gone and of which the listener was told has a `DELETE` on
its way, is what keeps the events in step with the directory.
`DescriptionsFollowFiles` (`DescriptionTracksFile`) follows the description from
its file over the stack to the artifact in the same way, for a file and a
metadata file that no third name is mistaken for (`Paired`): its removal is then
the only one that takes it away. There renames are allowed, since a renamed
metadata file is read again.

*SelfDescription_proofs.* `SelfInvariant` carries the manager's invariants over
to a manager that waits for the lock and beside threads that write contracts. A
contract carried by a listing is of a file whose name leads to the artifact it
goes back to (`ListingsKeepOwn`). `OneChange` (`OneChangePerListing`): once the
index has changed under a listing, the change manager is at or before a step
that needs the lock. `ListingsAreTrue` and `ListingsAreComplete`
(`ListedWasThere`, `KeptIsListed`) follow a listing in progress: what it has
listed was in `seen` when it was visited; what has been there all the while is
listed or still before the iterator, until the listing ends, throws, or has its
list taken.

*ContractComparison_proofs.* `ComparesTerms`: two contracts are equal for
`compareWithIndex` exactly when they have the same `Terms`, so that it is an
equivalence, though it is defined by exceptions for single lines;
`NegotiationComparesTerms` says the same of the comparison for negotiations.
Texts that differ only in dates are covered by the theorem, for any lines, and
by no run.

*SignedContractStore_proofs.* `SettledStays`, for any number of threads: no
thread on its way to replace an artifact's map may coexist with a settled
agreement about it, because it must have found no map. `WhatIsSettledIsSaved`
(`SettledIsSaved`): what is settled, or held about an artifact nobody is adding
about, would be read back if the process ended at this moment, unless the file
cannot be read back, which shows, or saves are `spoilt`. Its invariant
(`SavedInv`, an invariant that TLC found to hold in `store_race` before it was
proved) says that the file covers what is held except for what a thread at
`open` is about to save; that a save nothing ran beside is the only one, with the
file empty; and that what it has read covers the same. It needs `SettledInv`: a
save may only write a settled agreement because no one can have removed it
meanwhile. `SingleThreadIsRegister`: with one thread and a working disk the store
implements `AgreementRegister`; the invariant says what map and file hold at each
place of the thread.

*MessageHandlers_proofs.* The invariant of `HandlerInvariant` relates what a
thread has read to what may have changed since. An artifact is replaced in the
index only by way of its absence, so that a thread whose request has never had
the reason `absent` has in its hands the artifact that is still in the index. If
a single reason held all the while, it is one that leads to the step the thread
is at (`Follows`, `Leading`: at `makeAgreement` the offer equals the request, at
`makeOffer` it does not, and so on); at `deliver` one of `free`, `agreed` and
`absent` has held whatever else has. `Serves` says which artifact and which call
of the store belong to which step.
`DeliveriesHaveReasons` and `AnswersAreSteady` follow; a NOT_FOUND that no reason
speaks for is only given to a request in whose time an artifact came or went
(`disturbed`). `TermsWereOffered` adds
that whatever is in the map, in the file and in the hands of a thread has the
terms of an offer made for the file; for an agreement sent in by a consumer this
is where `ComparesTerms` is used. It holds for any number of threads and of
files, with description requests and broker.

*Connector_proofs.* `ProcessInvariant`: the start of a process establishes the
invariants of its parts again, with the directory as it is and the agreements
the file has; so types, terms and reasons outlast any number of restarts.

`WholeInvariant`: the invariants of the index and of the listings hold of the
process, too, although they were proved of smaller systems. A step of the change
manager or of a listing is one of the smaller system; a step of a handler leaves
alone what they speak of (`IndexInvKept`, `ListingInvKept`); a restart is, to
them, an initial state with another directory (`RestartStarts`, `IndexInvStart`,
`ListingInvStart`), for the broker one with whatever catalogue it had. So what
TLC checks of the parts is a theorem of the whole: `DirectoryIsFollowedAgain`
(`LastWordIsTrue`, `IndexTracksDirectory`), `IndexIsFreshAgain` (again without
renames over files), `DescriptionsAreFollowedAgain`, `BrokerIsInStepAgain`,
`AttachmentsAreOwnThroughout`, `ListingsAreTrueThroughout` (`ListedWasThere`,
`KeptIsListed`) and `OneChangeThroughout`; no run has all these threads at once.

`ProcessKeepsStore`: every step of the process is one that
`SignedContractStore` allows, or leaves its variables alone (`StoreStep`), where
the invariant of the handlers is needed to know that what they enter is an
artifact, a consumer and an agreement of the store. The theorems of the store,
instantiated with the handlers' threads (`Signatures`), then hold of the process:
`SettledStaysThroughout`, `SettledIsSavedThroughout`, and, with one request
thread and a disk that works, `SingleThreadKeepsRegister`.

`ConfirmedIsHeld` is about one thread, since `agreement_lost` shows that with
two it does not hold (`SettledStaysThroughout` and `SettledIsSavedThroughout` say
what does), and about any disk. Its invariant (`ConfirmedInv`) says that what was
confirmed is settled or, while no one has read it yet, in memory with nobody
adding about its artifact. So `SettledIsSaved` applies to it at a restart: it is
read back unless the file is damaged or saves are `spoilt`, which are the
exceptions the property has.

Only model-checked: liveness (`RequestsAreAnswered`, `CatchesUp`), which is out
of the prover's reach.

## 6. What is left out, and the plan

Not modelled, and why:

* What the handlers check of a message's form, `getSignedContract` of
  `ArtifactWithContractHandler`, which only labels the answer,
  `LoggingInteractor`, which changes no state, and `ContractOfferMessageHandler`,
  which rejects every message.
* `cleanUp` of `ContractUtil` character by character: the lines it leaves are
  constants. `replaceStrategy` only changes names.
* Representations of descriptions, their URIs, and the default contract, which is
  computed and dropped: no property tells them apart.
* Readers of a hash map that is being resized: every map stays in its first
  table.
* DAPS, certificates, configuration, and failures at startup before the watch
  exists: the process ends with nothing for a property to relate.
* `removeSignedContract` and `acceptContractNegotiation`, which have no caller.
* Docker files and reverse proxy: deployment.
* The JavaScript in the repository. All of it is under `documentation/JavaDoc/`:
  the jQuery libraries that the javadoc tool bundles and the search scripts and
  indexes it writes. It is third-party and generated code, runs in the browser
  of someone reading the documentation, and is no part of the connector, which
  is written in Java; a model of it would say nothing about the connector. A count of
  covered lines that looks at JavaScript only is therefore zero.

What could come next:

1. Hash maps that grow past their first table, with entries a concurrent reader
   misses: it weakens `KeptIsListed`, and the question is by how much.
2. `SelfDescription` and `MessageHandlers` in one run, for the runs as for the
   theorems, once an instance small enough is found.
3. What survives of `ConfirmedStays` with several threads in the words of the
   consumer, from `SettledIsSaved`: agreements about artifacts that already have
   a map, as long as saves do not overlap.
