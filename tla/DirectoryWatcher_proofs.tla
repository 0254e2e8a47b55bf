---------------------- MODULE DirectoryWatcher_proofs ----------------------
(***************************************************************************)
(* For every directory, every capacity of the watch key and any number of  *)
(* changes: the last word about a name is true once the watcher is         *)
(* quiescent.                                                              *)
(*                                                                         *)
(* The argument: a queued CREATE or DELETE event of a name is decisive.    *)
(* As long as no event was dropped, the last decisive event of a name in   *)
(* the queues says whether the name is in the directory now, and where no  *)
(* decisive event is queued the listener's last word, or the list of the   *)
(* startup, already agrees with the directory.                             *)
(***************************************************************************)
EXTENDS DirectoryWatcher, TLAPS

Decisive(event, n) == event.name = n /\ event.kind \in {"CREATE", "DELETE"}

HasDecisive(queue, n) == \E i \in DOMAIN queue : Decisive(queue[i], n)

(* The last decisive event of n in the queue, if any, says whether n is    *)
(* there.                                                                  *)
LastSays(queue, n, present) ==
  \A i \in DOMAIN queue :
    /\ Decisive(queue[i], n)
    /\ \A j \in DOMAIN queue : j > i => ~Decisive(queue[j], n)
    => (queue[i].kind = "CREATE" <=> present)

NoOverflow(queue) == \A i \in DOMAIN queue : queue[i] # Overflow

Settled(n) ==
  phase # "registered" =>
    /\ disk[n] = Absent => ~told[n] /\ n \notin toList
    /\ IsFile(disk[n]) => told[n] \/ n \in toList

PhaseInv ==
  /\ phase = "registered" =>
       /\ batch = <<>>
       /\ call = None
       /\ toList = {}
       /\ \A n \in Names : ~told[n]
  /\ phase = "listing" => batch = <<>>
  /\ phase = "watching" => toList = {}

QueueInv ==
  ~lost => NoOverflow(pending)

NameInv(n) ==
  /\ LastSays(pending, n, disk[n] # Absent)
  /\ ~HasDecisive(pending, n) => LastSays(batch, n, disk[n] # Absent)
  /\ ~HasDecisive(pending, n) /\ ~HasDecisive(batch, n) => Settled(n)

NamesInv ==
  ~lost /\ phase # "stopped" => \A n \in Names : NameInv(n)

WatcherInv ==
  /\ WatcherTypeOK
  /\ PhaseInv
  /\ QueueInv
  /\ NamesInv

-----------------------------------------------------------------------------
(* The watch key.                                                          *)

LEMMA OverflowIsEvent == Overflow \in Event
BY DEF Event

LEMMA SignalType ==
  ASSUME NEW queue \in Seq(Event), Len(queue) <= MaxEvents,
         NEW event \in Event
  PROVE  /\ Signal(queue, event) \in Seq(Event)
         /\ Len(Signal(queue, event)) <= MaxEvents
<1>1. CASE Counted(queue, event)
  BY <1>1 DEF Signal
<1>2. CASE ~Counted(queue, event) /\ Len(queue) >= MaxEvents
  <2>1. Signal(queue, event) = <<Overflow>>
    BY <1>2 DEF Signal
  <2>2. Len(<<Overflow>>) = 1 /\ <<Overflow>> \in Seq(Event)
    BY OverflowIsEvent
  <2> QED BY <2>1, <2>2, WatcherAssumption
<1>3. CASE ~Counted(queue, event) /\ ~(Len(queue) >= MaxEvents)
  <2>1. Signal(queue, event) = Append(queue, event)
    BY <1>3 DEF Signal
  <2>2. Len(Append(queue, event)) = Len(queue) + 1
    OBVIOUS
  <2>3. Len(queue) \in Nat
    OBVIOUS
  <2> QED BY <1>3, <2>1, <2>2, <2>3, WatcherAssumption
<1> QED BY <1>1, <1>2, <1>3

(* A decisive event that does not overflow the key is the last one in it.  *)
LEMMA SignalIsLast ==
  ASSUME NEW queue \in Seq(Event), NoOverflow(queue),
         NEW event \in Event, event.kind \in {"CREATE", "DELETE"},
         Signal(queue, event) # <<Overflow>>
  PROVE  LET after == Signal(queue, event) IN
         /\ after # <<>>
         /\ after[Len(after)] = event
         /\ NoOverflow(after)
<1>1. CASE Counted(queue, event)
  <2>1. Signal(queue, event) = queue
    BY <1>1 DEF Signal
  <2>2. queue # <<>> /\ queue[Len(queue)] \in {event, Overflow}
    BY <1>1 DEF Counted
  <2>3. Len(queue) \in DOMAIN queue
    BY <2>2
  <2> QED BY <2>1, <2>2, <2>3 DEF NoOverflow
<1>2. CASE ~Counted(queue, event)
  <2>1. Signal(queue, event) = Append(queue, event)
    BY <1>2 DEF Signal
  <2>2. event # Overflow
    BY DEF Overflow
  <2>3. /\ Len(Append(queue, event)) = Len(queue) + 1
        /\ \A i \in 1..Len(queue) : Append(queue, event)[i] = queue[i]
        /\ Append(queue, event)[Len(queue) + 1] = event
        /\ DOMAIN Append(queue, event) = 1..(Len(queue) + 1)
        /\ Append(queue, event) # <<>>
    OBVIOUS
  <2> QED BY <2>1, <2>2, <2>3 DEF NoOverflow
<1> QED BY <1>1, <1>2

(* An event that is not decisive for m leaves what the key says about m.   *)
LEMMA SignalOther ==
  ASSUME NEW queue \in Seq(Event), NEW event \in Event, NEW m,
         NEW present \in BOOLEAN,
         NoOverflow(queue), event # Overflow,
         ~Decisive(event, m),
         Signal(queue, event) # <<Overflow>>
  PROVE  LET after == Signal(queue, event) IN
         /\ NoOverflow(after)
         /\ HasDecisive(after, m) <=> HasDecisive(queue, m)
         /\ LastSays(queue, m, present) => LastSays(after, m, present)
<1>1. CASE Counted(queue, event)
  BY <1>1 DEF Signal
<1>2. CASE ~Counted(queue, event)
  <2> DEFINE after == Append(queue, event)
  <2>1. Signal(queue, event) = after
    BY <1>2 DEF Signal
  <2>2. /\ DOMAIN queue = 1..Len(queue)
        /\ Len(queue) \in Nat
        /\ \A i \in 1..Len(queue) : after[i] = queue[i]
        /\ after[Len(queue) + 1] = event
        /\ DOMAIN after = 1..(Len(queue) + 1)
    OBVIOUS
  <2> HIDE DEF after
  <2>3. NoOverflow(after)
    BY <2>2 DEF NoOverflow
  <2>4. HasDecisive(after, m) <=> HasDecisive(queue, m)
    BY <2>2 DEF HasDecisive
  <2>5. LastSays(queue, m, present) => LastSays(after, m, present)
    BY <2>2 DEF LastSays
  <2> QED BY <2>1, <2>3, <2>4, <2>5
<1> QED BY <1>1, <1>2

(* A decisive event at the end of the key is the last word about its name. *)
LEMMA LastIsDecisive ==
  ASSUME NEW queue \in Seq(Event), queue # <<>>,
         NEW n, NEW present \in BOOLEAN,
         Decisive(queue[Len(queue)], n),
         queue[Len(queue)].kind = "CREATE" <=> present
  PROVE  HasDecisive(queue, n) /\ LastSays(queue, n, present)
<1>1. Len(queue) \in DOMAIN queue /\ DOMAIN queue = 1..Len(queue)
      /\ Len(queue) \in Nat
  OBVIOUS
<1>2. HasDecisive(queue, n)
  BY <1>1 DEF HasDecisive
<1>3. ASSUME NEW i \in DOMAIN queue, Decisive(queue[i], n),
             \A j \in DOMAIN queue : j > i => ~Decisive(queue[j], n)
      PROVE  queue[i].kind = "CREATE" <=> present
  <2>1. ~(Len(queue) > i)
    BY <1>1, <1>3
  <2>2. i = Len(queue)
    BY <1>1, <2>1
  <2> QED BY <2>2
<1> QED BY <1>2, <1>3 DEF LastSays

(* Taking an event off the batch.                                          *)
LEMMA TailSays ==
  ASSUME NEW queue \in Seq(Event), queue # <<>>,
         NEW n, NEW present \in BOOLEAN,
         LastSays(queue, n, present)
  PROVE  /\ LastSays(Tail(queue), n, present)
         /\ HasDecisive(queue, n) <=>
              Decisive(Head(queue), n) \/ HasDecisive(Tail(queue), n)
         /\ ~HasDecisive(Tail(queue), n) /\ Decisive(Head(queue), n) =>
              (Head(queue).kind = "CREATE" <=> present)
<1> DEFINE rest == Tail(queue)
<1>1. /\ Len(queue) \in Nat \ {0}
      /\ DOMAIN queue = 1..Len(queue)
      /\ DOMAIN rest = 1..(Len(queue) - 1)
      /\ \A i \in 1..(Len(queue) - 1) : rest[i] = queue[i + 1]
      /\ Head(queue) = queue[1]
  OBVIOUS
<1> HIDE DEF rest
<1>2. \A i \in DOMAIN queue : i # 1 => i - 1 \in DOMAIN rest
                                      /\ queue[i] = rest[i - 1]
  BY <1>1
<1>3. HasDecisive(queue, n) <=> Decisive(Head(queue), n) \/ HasDecisive(rest, n)
  <2>1. ASSUME HasDecisive(queue, n), ~Decisive(Head(queue), n)
        PROVE  HasDecisive(rest, n)
    BY <2>1, <1>1, <1>2 DEF HasDecisive
  <2>2. Decisive(Head(queue), n) => HasDecisive(queue, n)
    BY <1>1 DEF HasDecisive
  <2>3. HasDecisive(rest, n) => HasDecisive(queue, n)
    <3>1. \A i \in DOMAIN rest : i + 1 \in DOMAIN queue /\ rest[i] = queue[i + 1]
      BY <1>1
    <3> QED BY <3>1 DEF HasDecisive
  <2> QED BY <2>1, <2>2, <2>3
<1>4. LastSays(rest, n, present)
  <2> SUFFICES ASSUME NEW i \in DOMAIN rest, Decisive(rest[i], n),
                      \A j \in DOMAIN rest : j > i => ~Decisive(rest[j], n)
               PROVE  rest[i].kind = "CREATE" <=> present
    BY DEF LastSays
  <2>1. i + 1 \in DOMAIN queue /\ rest[i] = queue[i + 1]
    BY <1>1
  <2>2. ASSUME NEW j \in DOMAIN queue, j > i + 1
        PROVE  ~Decisive(queue[j], n)
    <3>1. j - 1 \in DOMAIN rest /\ j - 1 > i /\ queue[j] = rest[j - 1]
      BY <1>1, <1>2, <2>2
    <3> QED BY <3>1
  <2> QED BY <2>1, <2>2 DEF LastSays
<1>5. ASSUME ~HasDecisive(rest, n), Decisive(Head(queue), n)
      PROVE  Head(queue).kind = "CREATE" <=> present
  <2>1. ASSUME NEW j \in DOMAIN queue, j > 1
        PROVE  ~Decisive(queue[j], n)
    BY <1>1, <1>2, <1>5, <2>1 DEF HasDecisive
  <2>2. 1 \in DOMAIN queue
    BY <1>1
  <2> QED BY <1>1, <1>5, <2>1, <2>2 DEF LastSays
<1> QED BY <1>3, <1>4, <1>5 DEF rest

LEMMA EmptySaysNothing ==
  ASSUME NEW n, NEW present \in BOOLEAN
  PROVE  ~HasDecisive(<<>>, n) /\ LastSays(<<>>, n, present) /\ NoOverflow(<<>>)
BY DEF HasDecisive, LastSays, NoOverflow

-----------------------------------------------------------------------------
(* The invariant holds initially and every step preserves it.              *)

LEMMA ContentsType == \A n \in Names : Contents(n) \subseteq AllContents
BY DEF Contents, AllContents

LEMMA WatcherInitInv == WatcherInit => WatcherInv
<1> SUFFICES ASSUME WatcherInit PROVE WatcherInv
  OBVIOUS
<1> USE DEF WatcherInit
<1>1. WatcherTypeOK
  <2>1. <<>> \in Seq(Event) /\ Len(<<>>) = 0
    OBVIOUS
  <2>2. 0 <= MaxEvents /\ 0 \in 0..MaxEdits
    BY WatcherAssumption
  <2> QED BY <2>1, <2>2 DEF WatcherTypeOK, Phases
<1>2. PhaseInv
  BY DEF PhaseInv
<1>3. QueueInv
  BY EmptySaysNothing DEF QueueInv
<1>4. NamesInv
  <2>1. ASSUME NEW n \in Names PROVE NameInv(n)
    <3>1. (disk[n] # Absent) \in BOOLEAN
      OBVIOUS
    <3>2. Settled(n)
      BY DEF Settled
    <3> QED BY <3>1, <3>2, EmptySaysNothing DEF NameInv
  <2> QED BY <2>1 DEF NamesInv
<1> QED BY <1>1, <1>2, <1>3, <1>4 DEF WatcherInv

LEMMA EditInv ==
  ASSUME WatcherInv,
         NEW n \in Names, NEW c \in Contents(n),
         NEW kind \in {"CREATE", "MODIFY", "DELETE"},
         kind = "CREATE" => c # Absent,
         kind = "MODIFY" => IsFile(disk[n]) /\ IsFile(c),
         kind = "DELETE" => c = Absent,
         Edit(n, c, kind)
  PROVE  WatcherInv'
<1> DEFINE event == [kind |-> kind, name |-> n]
<1>1. event \in Event /\ event # Overflow
  BY DEF Event, Overflow
<1>2. WatcherTypeOK /\ PhaseInv /\ QueueInv /\ NamesInv
  BY DEF WatcherInv
<1>3. /\ pending' = Signal(pending, event)
      /\ lost' = (lost \/ pending' = <<Overflow>>)
      /\ disk' = [disk EXCEPT ![n] = c]
      /\ UNCHANGED <<batch, phase, toList, call, told>>
      /\ edits < MaxEdits /\ edits' = edits + 1
  BY DEF Edit, threadVars
<1> HIDE DEF event
<1>4. WatcherTypeOK'
  <2>1. pending' \in Seq(Event) /\ Len(pending') <= MaxEvents
    BY <1>1, <1>2, <1>3, SignalType DEF WatcherTypeOK
  <2>2. edits' \in 0..MaxEdits
    BY <1>2, <1>3, WatcherAssumption DEF WatcherTypeOK
  <2>3. /\ disk' \in [Names -> AllContents]
        /\ \A m \in Names : disk'[m] \in Contents(m)
    BY <1>2, <1>3, ContentsType DEF WatcherTypeOK
  <2>4. lost' \in BOOLEAN
    BY <1>3
  <2> QED BY <1>2, <1>3, <2>1, <2>2, <2>3, <2>4 DEF WatcherTypeOK
<1>5. PhaseInv'
  BY <1>2, <1>3 DEF PhaseInv
<1>6. ASSUME ~lost', NEW m \in Names, ~Decisive(event, m)
      PROVE  /\ NoOverflow(pending')
             /\ HasDecisive(pending', m) <=> HasDecisive(pending, m)
             /\ \A present \in BOOLEAN :
                  LastSays(pending, m, present) => LastSays(pending', m, present)
  <2>1. ~lost /\ Signal(pending, event) # <<Overflow>> /\ pending \in Seq(Event)
        /\ NoOverflow(pending)
    BY <1>2, <1>3, <1>6 DEF WatcherTypeOK, QueueInv
  <2> QED BY <1>1, <1>3, <1>6, <2>1, SignalOther
<1>7. ASSUME ~lost', Decisive(event, n)
      PROVE  /\ NoOverflow(pending')
             /\ HasDecisive(pending', n)
             /\ LastSays(pending', n, disk'[n] # Absent)
  <2>1. ~lost /\ Signal(pending, event) # <<Overflow>> /\ pending \in Seq(Event)
        /\ NoOverflow(pending)
    BY <1>2, <1>3, <1>7 DEF WatcherTypeOK, QueueInv
  <2>2. event.kind \in {"CREATE", "DELETE"} /\ event.name = n /\ event.kind = kind
    BY <1>7 DEF Decisive, event
  <2>3. pending' # <<>> /\ pending'[Len(pending')] = event /\ NoOverflow(pending')
    BY <1>1, <1>3, <2>1, <2>2, SignalIsLast
  <2>4. pending' \in Seq(Event)
    BY <1>4 DEF WatcherTypeOK
  <2>5. disk'[n] = c
    BY <1>2, <1>3 DEF WatcherTypeOK
  <2>6. event.kind = "CREATE" <=> disk'[n] # Absent
    BY <2>2, <2>5
  <2>7. (disk'[n] # Absent) \in BOOLEAN
    OBVIOUS
  <2> QED BY <1>7, <2>3, <2>4, <2>6, <2>7, LastIsDecisive
<1>8. QueueInv'
  <2>1. ~Decisive(event, n) \/ Decisive(event, n)
    OBVIOUS
  <2> QED BY <1>6, <1>7, <2>1 DEF QueueInv
<1>9. NamesInv'
  <2> SUFFICES ASSUME ~lost', phase' # "stopped", NEW m \in Names
               PROVE  NameInv(m)'
    BY DEF NamesInv
  <2>1. NameInv(m)
    BY <1>2, <1>3 DEF NamesInv
  <2>2. CASE Decisive(event, m)
    <3>1. m = n
      BY <2>2 DEF Decisive, event
    <3> QED BY <1>7, <2>2, <3>1 DEF NameInv
  <2>3. CASE ~Decisive(event, m)
    <3>1. /\ HasDecisive(pending', m) <=> HasDecisive(pending, m)
          /\ \A present \in BOOLEAN :
               LastSays(pending, m, present) => LastSays(pending', m, present)
      BY <1>6, <2>3
    <3>2. (disk'[m] = Absent <=> disk[m] = Absent)
          /\ (IsFile(disk'[m]) => IsFile(disk[m]))
      <4>1. CASE m = n
        <5>1. kind = "MODIFY"
          BY <2>3, <4>1 DEF Decisive, event
        <5>2. disk'[m] = c
          BY <1>2, <1>3, <4>1 DEF WatcherTypeOK
        <5> QED BY <4>1, <5>1, <5>2 DEF IsFile, NoFile
      <4>2. CASE m # n
        BY <1>2, <1>3, <4>2 DEF WatcherTypeOK
      <4> QED BY <4>1, <4>2
    <3>3. LastSays(pending', m, disk'[m] # Absent)
      BY <2>1, <3>1, <3>2 DEF NameInv
    <3>4. ~HasDecisive(pending', m) => LastSays(batch', m, disk'[m] # Absent)
      BY <1>3, <2>1, <3>1, <3>2 DEF NameInv
    <3>5. ~HasDecisive(pending', m) /\ ~HasDecisive(batch', m) => Settled(m)'
      BY <1>3, <2>1, <3>1, <3>2 DEF NameInv, Settled
    <3> QED BY <3>3, <3>4, <3>5 DEF NameInv
  <2> QED BY <2>2, <2>3
<1> QED BY <1>4, <1>5, <1>8, <1>9 DEF WatcherInv

LEMMA UserInv ==
  ASSUME WatcherInv, User
  PROVE  WatcherInv'
<1> PICK n \in Names : Create(n) \/ Write(n) \/ Delete(n) \/ Replace(n)
  BY DEF User
<1>1. CASE Create(n)
  <2>1. PICK c \in Contents(n) \ {Absent} : Edit(n, c, "CREATE")
    BY <1>1 DEF Create
  <2> QED BY <2>1, EditInv
<1>2. CASE Write(n)
  <2>1. PICK c \in Contents(n) \ NoFile : Edit(n, c, "MODIFY")
    BY <1>2 DEF Write
  <2>2. IsFile(disk[n]) /\ IsFile(c)
    BY <1>2, <2>1 DEF Write, IsFile
  <2> QED BY <2>1, <2>2, EditInv
<1>3. CASE Delete(n)
  <2>1. Edit(n, Absent, "DELETE")
    BY <1>3 DEF Delete
  <2>2. Absent \in Contents(n)
    BY DEF Contents, NoFile
  <2> QED BY <2>1, <2>2, EditInv
<1>4. CASE Replace(n)
  <2>1. PICK c \in Contents(n) \ NoFile : Edit(n, c, "CREATE")
    BY <1>4 DEF Replace
  <2>2. c # Absent
    BY <2>1 DEF NoFile
  <2> QED BY <2>1, <2>2, EditInv
<1> QED BY <1>1, <1>2, <1>3, <1>4

LEMMA ListDirectoryInv ==
  ASSUME WatcherInv, ListDirectory
  PROVE  WatcherInv'
<1> USE DEF ListDirectory
<1>1. WatcherTypeOK /\ PhaseInv /\ QueueInv /\ NamesInv
  BY DEF WatcherInv
<1>2. WatcherTypeOK'
  BY <1>1 DEF WatcherTypeOK, Phases
<1>3. PhaseInv' /\ QueueInv'
  BY <1>1 DEF PhaseInv, QueueInv
<1>4. ASSUME ~lost', NEW n \in Names PROVE NameInv(n)'
  <2>1. NameInv(n) /\ ~told[n]
    BY <1>1, <1>4 DEF NamesInv, PhaseInv
  <2>2. Settled(n)'
    BY <2>1 DEF Settled, IsFile, NoFile
  <2> QED BY <2>1, <2>2 DEF NameInv
<1> QED BY <1>2, <1>3, <1>4 DEF WatcherInv, NamesInv

LEMMA NotifyType ==
  ASSUME WatcherTypeOK, NEW op \in {"add", "change", "remove"},
         NEW n \in Names, Notify(op, n)
  PROVE  /\ call' \in Call \cup {None}
         /\ told' \in [Names -> BOOLEAN]
         /\ told'[n] = (op # "remove")
         /\ \A m \in Names : m # n => told'[m] = told[m]
BY DEF WatcherTypeOK, Notify, Call

LEMMA ListNextInv ==
  ASSUME WatcherInv, ListNext
  PROVE  WatcherInv'
<1>1. WatcherTypeOK /\ PhaseInv /\ QueueInv /\ NamesInv
  BY DEF WatcherInv
<1>2. PICK n \in toList : toList' = toList \ {n} /\ Notify("add", n)
  BY DEF ListNext
<1>3. /\ phase = "listing"
      /\ UNCHANGED <<disk, edits, pending, batch, phase, lost>>
  BY DEF ListNext
<1>4. n \in Names
  BY <1>1, <1>2 DEF WatcherTypeOK
<1>5. /\ call' \in Call \cup {None}
      /\ told' \in [Names -> BOOLEAN]
      /\ told'[n]
      /\ \A m \in Names : m # n => told'[m] = told[m]
  BY <1>1, <1>2, <1>4, NotifyType
<1>6. WatcherTypeOK'
  BY <1>1, <1>2, <1>3, <1>5 DEF WatcherTypeOK
<1>7. PhaseInv' /\ QueueInv'
  BY <1>1, <1>3 DEF PhaseInv, QueueInv
<1>8. ASSUME ~lost', NEW m \in Names PROVE NameInv(m)'
  <2>1. NameInv(m)
    BY <1>1, <1>3, <1>8 DEF NamesInv
  <2>2. ASSUME ~HasDecisive(pending, m), ~HasDecisive(batch, m)
        PROVE  Settled(m)'
    <3>1. /\ disk[m] = Absent => ~told[m] /\ m \notin toList
          /\ IsFile(disk[m]) => told[m] \/ m \in toList
      BY <1>3, <2>1, <2>2 DEF NameInv, Settled
    <3>2. CASE m = n
      BY <1>2, <1>3, <1>5, <3>1, <3>2 DEF Settled
    <3>3. CASE m # n
      BY <1>2, <1>3, <1>5, <3>1, <3>3 DEF Settled
    <3> QED BY <3>2, <3>3
  <2> QED BY <1>3, <2>1, <2>2 DEF NameInv
<1> QED BY <1>6, <1>7, <1>8 DEF WatcherInv, NamesInv

LEMMA StartWatchingInv ==
  ASSUME WatcherInv, StartWatching
  PROVE  WatcherInv'
<1> USE DEF StartWatching
<1>1. WatcherTypeOK /\ PhaseInv /\ QueueInv /\ NamesInv
  BY DEF WatcherInv
<1>2. WatcherTypeOK'
  BY <1>1 DEF WatcherTypeOK, Phases
<1>3. PhaseInv' /\ QueueInv'
  BY <1>1 DEF PhaseInv, QueueInv
<1>4. NamesInv'
  BY <1>1 DEF NamesInv, NameInv, Settled
<1> QED BY <1>2, <1>3, <1>4 DEF WatcherInv

LEMMA PollInv ==
  ASSUME WatcherInv, Poll
  PROVE  WatcherInv'
<1> USE DEF Poll
<1>1. WatcherTypeOK /\ PhaseInv /\ QueueInv /\ NamesInv
  BY DEF WatcherInv
<1>2. WatcherTypeOK'
  <2>1. <<>> \in Seq(Event) /\ Len(<<>>) = 0 /\ 0 <= MaxEvents
    BY WatcherAssumption
  <2> QED BY <1>1, <2>1 DEF WatcherTypeOK
<1>3. PhaseInv'
  BY <1>1 DEF PhaseInv
<1>4. QueueInv'
  BY EmptySaysNothing DEF QueueInv
<1>5. ASSUME ~lost', NEW n \in Names PROVE NameInv(n)'
  <2>1. NameInv(n)
    BY <1>1, <1>5 DEF NamesInv
  <2>2. (disk[n] # Absent) \in BOOLEAN
    OBVIOUS
  <2>3. ~HasDecisive(<<>>, n) /\ LastSays(<<>>, n, disk[n] # Absent)
    BY <2>2, EmptySaysNothing
  <2>4. batch = <<>> /\ batch' = pending /\ pending' = <<>>
    OBVIOUS
  <2>5. LastSays(pending', n, disk'[n] # Absent)
    BY <2>3
  <2>6. LastSays(batch', n, disk'[n] # Absent)
    BY <2>1 DEF NameInv
  <2>7. ~HasDecisive(batch', n) => Settled(n)'
    BY <2>1, <2>3, <2>4 DEF NameInv, Settled
  <2> QED BY <2>5, <2>6, <2>7 DEF NameInv
<1> QED BY <1>2, <1>3, <1>4, <1>5 DEF WatcherInv, NamesInv

LEMMA DispatchInv ==
  ASSUME WatcherInv, Dispatch
  PROVE  WatcherInv'
<1> DEFINE event == Head(batch)
<1>1. WatcherTypeOK /\ PhaseInv /\ QueueInv /\ NamesInv
  BY DEF WatcherInv
<1>2. /\ phase = "watching"
      /\ batch # <<>>
      /\ batch' = Tail(batch)
      /\ UNCHANGED <<disk, edits, pending, phase, toList, lost>>
      /\ IF Notifies(event) THEN Notify(Operation[event.kind], event.name)
                            ELSE UNCHANGED <<call, told>>
  BY DEF Dispatch
<1>3. /\ batch \in Seq(Event)
      /\ event \in Event
      /\ Tail(batch) \in Seq(Event)
      /\ Len(Tail(batch)) <= MaxEvents
  <2>1. batch \in Seq(Event) /\ Len(batch) <= MaxEvents
    BY <1>1 DEF WatcherTypeOK
  <2>2. event \in Event /\ Tail(batch) \in Seq(Event)
        /\ Len(Tail(batch)) = Len(batch) - 1 /\ Len(batch) \in Nat
    BY <1>2, <2>1
  <2> QED BY <2>1, <2>2, WatcherAssumption
<1> HIDE DEF event
<1>4. ASSUME Notifies(event)
      PROVE  /\ event.name \in Names
             /\ call' \in Call \cup {None}
             /\ told' \in [Names -> BOOLEAN]
             /\ told'[event.name] = (event.kind # "DELETE")
             /\ \A m \in Names : m # event.name => told'[m] = told[m]
  <2>1. event.kind \in {"CREATE", "MODIFY", "DELETE"} /\ event.name \in Names
    BY <1>3, <1>4 DEF Notifies, Event, Overflow
  <2>2. Notify(Operation[event.kind], event.name)
    BY <1>2, <1>4
  <2>3. /\ Operation[event.kind] \in {"add", "change", "remove"}
        /\ Operation[event.kind] # "remove" <=> event.kind # "DELETE"
    BY <2>1 DEF Operation
  <2> HIDE DEF Operation
  <2> QED BY <1>1, <2>1, <2>2, <2>3, NotifyType
<1>5. WatcherTypeOK'
  <2>1. CASE Notifies(event)
    BY <1>1, <1>2, <1>3, <1>4, <2>1 DEF WatcherTypeOK
  <2>2. CASE ~Notifies(event)
    BY <1>1, <1>2, <1>3, <2>2 DEF WatcherTypeOK
  <2> QED BY <2>1, <2>2
<1>6. PhaseInv' /\ QueueInv'
  BY <1>1, <1>2 DEF PhaseInv, QueueInv
<1>7. ASSUME ~lost', NEW m \in Names PROVE NameInv(m)'
  <2>1. NameInv(m)
    BY <1>1, <1>2, <1>7 DEF NamesInv
  <2>2. (disk[m] # Absent) \in BOOLEAN
    OBVIOUS
  <2>3. ASSUME LastSays(batch, m, disk[m] # Absent)
        PROVE  /\ LastSays(batch', m, disk[m] # Absent)
               /\ HasDecisive(batch, m) <=>
                    Decisive(event, m) \/ HasDecisive(batch', m)
               /\ ~HasDecisive(batch', m) /\ Decisive(event, m) =>
                    (event.kind = "CREATE" <=> disk[m] # Absent)
    BY <1>2, <1>3, <2>2, <2>3, TailSays DEF event
  <2>4. ASSUME ~HasDecisive(pending, m), ~HasDecisive(batch', m)
        PROVE  Settled(m)'
    <3>1. LastSays(batch, m, disk[m] # Absent)
      BY <2>1, <2>4 DEF NameInv
    <3>2. CASE ~Decisive(event, m)
      <4>1. Settled(m)
        BY <2>1, <2>3, <2>4, <3>1, <3>2 DEF NameInv
      <4>2. CASE Notifies(event) /\ event.name = m
        <5>1. IsFile(disk[m]) /\ told'[m]
          BY <1>4, <3>2, <4>2 DEF Notifies, Decisive
        <5> QED BY <1>2, <5>1 DEF Settled, IsFile, NoFile
      <4>3. CASE ~(Notifies(event) /\ event.name = m)
        <5>1. told'[m] = told[m]
          BY <1>2, <1>4, <4>3
        <5> QED BY <1>2, <4>1, <5>1 DEF Settled
      <4> QED BY <4>2, <4>3
    <3>3. CASE Decisive(event, m)
      <4>1. event.kind = "CREATE" <=> disk[m] # Absent
        BY <2>3, <2>4, <3>1, <3>3
      <4>2. CASE event.kind = "CREATE"
        <5>1. IsFile(disk[m]) => told'[m]
          BY <1>4, <3>3, <4>2 DEF Notifies, Decisive
        <5> QED BY <1>2, <4>1, <4>2, <5>1 DEF Settled
      <4>3. CASE event.kind = "DELETE"
        <5>1. ~told'[m]
          BY <1>4, <3>3, <4>3 DEF Notifies, Decisive
        <5>2. disk[m] = Absent /\ toList = {}
          BY <1>1, <1>2, <4>1, <4>3 DEF PhaseInv
        <5> QED BY <1>2, <5>1, <5>2 DEF Settled, IsFile, NoFile
      <4> QED BY <3>3, <4>2, <4>3 DEF Decisive
    <3> QED BY <3>2, <3>3
  <2> QED BY <1>2, <2>1, <2>3, <2>4 DEF NameInv
<1> QED BY <1>5, <1>6, <1>7 DEF WatcherInv, NamesInv

LEMMA ReturnInv ==
  ASSUME WatcherInv,
         call' \in Call \cup {None},
         phase' \in {phase, "stopped"},
         phase = "registered" => call' = None,
         UNCHANGED <<disk, edits, pending, batch, toList, told, lost>>
  PROVE  WatcherInv'
<1>1. WatcherTypeOK /\ PhaseInv /\ QueueInv /\ NamesInv
  BY DEF WatcherInv
<1>2. WatcherTypeOK'
  BY <1>1 DEF WatcherTypeOK, Phases
<1>3. PhaseInv' /\ QueueInv'
  BY <1>1 DEF PhaseInv, QueueInv
<1>4. NamesInv'
  BY <1>1 DEF NamesInv, NameInv, Settled
<1> QED BY <1>2, <1>3, <1>4 DEF WatcherInv

LEMMA WatcherStepInv ==
  ASSUME WatcherInv, [WatcherNext]_watcherVars
  PROVE  WatcherInv'
<1>1. CASE User
  BY <1>1, UserInv
<1>2. CASE Thread
  BY <1>2, ListDirectoryInv, ListNextInv, StartWatchingInv, PollInv,
     DispatchInv DEF Thread
<1>3. CASE StopWatching
  BY <1>3, ReturnInv DEF StopWatching
<1>4. CASE ListenerReturns
  BY <1>4, ReturnInv DEF ListenerReturns
<1>5. CASE ListenerThrows
  BY <1>5, ReturnInv DEF ListenerThrows
<1>6. CASE UNCHANGED watcherVars
  <2>1. call' \in Call \cup {None} /\ (phase = "registered" => call' = None)
    BY <1>6 DEF watcherVars, WatcherInv, WatcherTypeOK, PhaseInv
  <2> QED BY <1>6, <2>1, ReturnInv DEF watcherVars
<1> QED BY <1>1, <1>2, <1>3, <1>4, <1>5, <1>6 DEF WatcherNext

LEMMA WatcherInvImplies == WatcherInv => WatcherTypeOK /\ LastWordIsTrue
<1> SUFFICES ASSUME WatcherInv, Quiescent, ~lost, NEW n \in Names
             PROVE  /\ IsFile(disk[n]) => told[n]
                    /\ disk[n] = Absent => ~told[n]
  BY DEF WatcherInv, LastWordIsTrue
<1>1. NameInv(n) /\ toList = {} /\ phase = "watching"
  BY DEF WatcherInv, NamesInv, PhaseInv, Quiescent
<1>2. pending = <<>> /\ batch = <<>>
  BY DEF Quiescent
<1>3. ~HasDecisive(pending, n) /\ ~HasDecisive(batch, n)
  BY <1>2, EmptySaysNothing
<1> QED BY <1>1, <1>3 DEF NameInv, Settled

(* Every state the watcher reaches satisfies the inductive invariant.      *)
THEOREM WatcherInvariant == WatcherSpec => []WatcherInv
<1>1. WatcherInit => WatcherInv
  BY WatcherInitInv
<1>2. WatcherInv /\ [WatcherNext]_watcherVars => WatcherInv'
  BY WatcherStepInv
<1> QED BY <1>1, <1>2, PTL DEF WatcherSpec

(* The state stays within its types; in particular neither the watch key   *)
(* nor a drained batch ever holds more than MaxEvents events.              *)
THEOREM WatcherTypes == WatcherSpec => []WatcherTypeOK
<1>1. WatcherInv => WatcherTypeOK
  BY WatcherInvImplies
<1> QED BY <1>1, WatcherInvariant, PTL

(* Once the watcher has caught up, and unless the key dropped events, the  *)
(* last thing the listener was told about a name is true.                  *)
THEOREM LastWordHolds == WatcherSpec => []LastWordIsTrue
<1>1. WatcherInv => LastWordIsTrue
  BY WatcherInvImplies
<1> QED BY <1>1, WatcherInvariant, PTL
=============================================================================
