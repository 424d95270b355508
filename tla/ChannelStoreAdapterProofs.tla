--------------------- MODULE ChannelStoreAdapterProofs ---------------------
(***************************************************************************)
(* Proofs about ChannelStoreAdapter, for any callers, closures and credit, *)
(* whatever fails, is dropped or crashes.                                  *)
(***************************************************************************)
EXTENDS ChannelStoreAdapter, TLAPS

\* Every call under way has its closure and a mutex; what it is about to do is
\* what the closure made of what it has read.
CallsPrepared ==
  \A c \in Callers :
    /\ pc[c] # "idle" => call[c] \in Updaters /\ handle[c] \in Locks
    /\ pc[c] \in {"put", "write"} => Updated(call[c], read[c]) \in Records
    /\ pc[c] = "delete" => call[c] = "delete"

\* All calls under way have the one mutex that is in the table.
OneMutex == \A c \in Callers : pc[c] # "idle" => handle[c] = channel_locks

\* A call past the mutex holds it.
HolderOnly == \A c \in Callers : pc[c] \in Critical => owner[handle[c]] = c

\* What a call is about to write is made of what the store still holds.
ReadIsCurrent ==
  \A c \in Callers :
    /\ pc[c] = "put" => read[c] = backend
    /\ pc[c] = "write" => backend = Torn

\* While a file is rewritten, what is acknowledged is in what the writer read.
AckedWhileWriting == \A c \in Callers : pc[c] = "write" => AckedIn(read[c])

\* What holds until a deletion evicts a mutex that another call has taken.
Serial ==
  /\ OneMutex
  /\ HolderOnly
  /\ ReadIsCurrent
  /\ AckedIn(backend)
  /\ AckedWhileWriting

Evicted == "evicted" \in mishaps

Inv ==
  /\ TypeOK
  /\ CallsPrepared
  /\ TornOnlyWhileWriting
  /\ Evicted \/ Serial

-----------------------------------------------------------------------------

\* A closure refuses, deletes, or gives a record.
LEMMA UpdatedRecord ==
  ASSUME NEW u \in Updaters, NEW v \in Records \cup {Absent}, Updated(u, v) # Refused
  PROVE  /\ u = "delete" => Updated(u, v) = Absent
         /\ u # "delete" => Updated(u, v) \in Records /\ Updated(u, v) # Absent
         /\ u = "deduct" => v \in Records /\ Updated(u, v) = v + 1
         /\ u \notin {"deduct", "delete"} => Updated(u, v) = IF v = Absent THEN 0 ELSE v
BY UpdaterAssumption DEF Updated, Records, Absent, Refused

\* The mutex keeps the calls apart.
LEMMA KeptApart ==
  ASSUME CallsPrepared, OneMutex, HolderOnly
  PROVE  Serialized
BY DEF CallsPrepared, OneMutex, HolderOnly, Serialized, Critical

\* What a return does to the calls.
LEMMA ReturnStep ==
  ASSUME TypeOK, NEW c \in Callers, Return(c)
  PROVE  /\ owner' \in [Locks -> Callers \cup {Nobody}]
         /\ handle' \in [Callers -> Locks \cup {NoLock}]
         /\ pc' \in [Callers -> Phases]
         /\ call' \in [Callers -> Updaters \cup {"none"}]
         /\ read' \in [Callers -> Records \cup {Absent}]
         /\ \A d \in Callers : d # c => /\ pc'[d] = pc[d]
                                        /\ handle'[d] = handle[d]
                                        /\ call'[d] = call[d]
                                        /\ read'[d] = read[d]
         /\ pc'[c] = "idle"
         /\ \A l \in Locks : owner[l] # c => owner'[l] = owner[l]
<1>1. owner' \in [Locks -> Callers \cup {Nobody}]
  BY DEF Return, Released, TypeOK
<1> QED
  BY <1>1 DEF Return, Released, TypeOK, Phases

\* A call that returns leaves the others prepared.
LEMMA ReturnPrepared ==
  ASSUME TypeOK, CallsPrepared, NEW c \in Callers, Return(c)
  PROVE  CallsPrepared'
BY ReturnStep DEF CallsPrepared

\* Nor does it take their mutex from them.
LEMMA ReturnHolders ==
  ASSUME TypeOK, CallsPrepared, HolderOnly, NEW c \in Callers, Return(c)
  PROVE  HolderOnly'
<1>1. SUFFICES ASSUME NEW d \in Callers, pc'[d] \in Critical
               PROVE  owner'[handle'[d]] = d
  BY DEF HolderOnly
<1>2. d # c /\ pc[d] \in Critical
  BY <1>1, ReturnStep DEF Critical
<1>3. handle[d] \in Locks /\ owner[handle[d]] = d
  BY <1>2 DEF HolderOnly, CallsPrepared, Critical
<1> QED
  BY <1>2, <1>3, ReturnStep

\* A return that leaves record, table and histories as they are.
LEMMA QuietReturn ==
  ASSUME Inv, NEW c \in Callers, Return(c), pc[c] # "write",
         UNCHANGED <<backend, channel_locks, acked, mishaps>>
  PROVE  Inv'
<1>0. TypeOK /\ CallsPrepared
  BY DEF Inv
<1>1. TypeOK' /\ CallsPrepared'
  BY <1>0, ReturnStep, ReturnPrepared DEF TypeOK
<1>2. TornOnlyWhileWriting'
  BY <1>0, ReturnStep DEF Inv, TornOnlyWhileWriting
<1>3. ASSUME Serial
      PROVE  Serial'
  <2>1. OneMutex' /\ HolderOnly'
    BY <1>0, <1>3, ReturnStep, ReturnHolders DEF Serial, OneMutex
  <2>2. ReadIsCurrent' /\ AckedIn(backend)' /\ AckedWhileWriting'
    BY <1>0, <1>3, ReturnStep DEF Serial, ReadIsCurrent, AckedWhileWriting, AckedIn
  <2> QED
    BY <2>1, <2>2 DEF Serial
<1> QED
  BY <1>1, <1>2, <1>3 DEF Inv, Evicted

\* A call that writes what its closure made.
LEMMA WriteStep ==
  ASSUME Inv, NEW c \in Callers, Return(c), pc[c] \in {"put", "write"},
         backend' = Written(c), acked' \in {acked, Acknowledged(c)},
         UNCHANGED <<channel_locks, mishaps>>
  PROVE  Inv'
<1> DEFINE u == call[c]  v == read[c]
<1>0. TypeOK /\ CallsPrepared
  BY DEF Inv
<1>1. u \in Updaters /\ v \in Records \cup {Absent} /\ Updated(u, v) \in Records
  BY <1>0 DEF CallsPrepared, TypeOK
<1>2. Updated(u, v) # Refused /\ Updated(u, v) # Absent /\ Updated(u, v) # Torn
  BY <1>1, UpdaterAssumption DEF Records, Refused, Absent, Torn
<1>3. TypeOK' /\ CallsPrepared'
  BY <1>0, <1>1, ReturnStep, ReturnPrepared DEF TypeOK, Written, Acknowledged
<1>4. TornOnlyWhileWriting'
  BY <1>2 DEF TornOnlyWhileWriting, Written
<1>5. ASSUME Serial
      PROVE  Serial'
  <2>0. Serialized
    BY <1>0, <1>5, KeptApart DEF Serial
  <2>1. \A d \in Callers : pc'[d] \notin Critical
    BY <1>0, <2>0, ReturnStep DEF Serialized, Critical
  <2>2. AckedIn(v)
    BY <1>5 DEF Serial, ReadIsCurrent, AckedWhileWriting
  <2>3. acked' <= backend'
    <3>1. /\ u = "deduct" => v \in Records /\ Updated(u, v) = v + 1
          /\ u # "deduct" => Updated(u, v) = IF v = Absent THEN 0 ELSE v
      BY <1>1, <1>2, UpdatedRecord
    <3>2. acked \in Nat /\ Credit \in Nat
      BY <1>0, UpdaterAssumption DEF TypeOK
    <3>3. CASE u = "deduct"
      BY <1>1, <2>2, <3>1, <3>2, <3>3 DEF Written, Acknowledged, AckedIn, Records
    <3>4. CASE u # "deduct"
      BY <1>1, <2>2, <3>1, <3>2, <3>4
      DEF Written, Acknowledged, AckedIn, Records, Absent
    <3> QED
      BY <3>3, <3>4
  <2>4. AckedIn(backend)'
    BY <1>2, <2>3 DEF AckedIn, Written
  <2>5. OneMutex'
    BY <1>0, <1>5, ReturnStep DEF Serial, OneMutex
  <2> QED
    BY <2>1, <2>4, <2>5
    DEF Serial, HolderOnly, ReadIsCurrent, AckedWhileWriting, Critical
<1> QED
  BY <1>3, <1>4, <1>5 DEF Inv, Evicted

\* A deletion that returns: with its entry evicted, no other call may be left.
LEMMA DeleteStep ==
  ASSUME Inv, NEW c \in Callers, Delete(c)
  PROVE  Inv'
<1>0. TypeOK /\ CallsPrepared /\ Return(c) /\ pc[c] = "delete"
  BY DEF Inv, Delete
<1>1. CASE UNCHANGED <<backend, channel_locks, acked, mishaps>>
  BY <1>0, <1>1, QuietReturn
<1>2. CASE /\ backend' = Absent /\ acked' = 0
           /\ mishaps \subseteq mishaps' /\ mishaps' \subseteq mishaps \cup {"evicted"}
           /\ channel_locks' \in {channel_locks, NoLock}
           /\ channel_locks' # channel_locks /\ Contended(c) =>
                "evicted" \in mishaps'
  <2>1. TypeOK' /\ CallsPrepared'
    BY <1>0, <1>2, ReturnStep, ReturnPrepared DEF TypeOK, Mishaps
  <2>2. TornOnlyWhileWriting'
    BY <1>2 DEF TornOnlyWhileWriting, Absent, Torn
  <2>3. ASSUME Serial, ~Evicted'
        PROVE  Serial'
    <3>0. Serialized
      BY <1>0, <2>3, KeptApart DEF Serial
    <3>1. \A d \in Callers : pc'[d] \notin Critical
      BY <1>0, <3>0, ReturnStep DEF Serialized, Critical
    <3>2. OneMutex'
      <4>1. CASE channel_locks' = channel_locks
        BY <1>0, <2>3, <4>1, ReturnStep DEF Serial, OneMutex
      <4>2. CASE channel_locks' # channel_locks
        <5>1. \A d \in Callers : d # c => handle[d] = NoLock
          BY <1>2, <2>3, <4>2 DEF Contended, Evicted
        <5>2. \A d \in Callers : d # c => pc[d] = "idle"
          BY <1>0, <5>1, AdapterAssumption DEF CallsPrepared
        <5> QED
          BY <1>0, <5>2, ReturnStep DEF OneMutex
      <4> QED
        BY <4>1, <4>2
    <3>3. AckedIn(backend)'
      BY <1>2, UpdaterAssumption DEF AckedIn, Records, Absent
    <3> QED
      BY <3>1, <3>2, <3>3
      DEF Serial, HolderOnly, ReadIsCurrent, AckedWhileWriting, Critical
  <2> QED
    BY <1>2, <2>1, <2>2, <2>3 DEF Inv, Evicted
<1> QED
  BY <1>1, <1>2 DEF Delete

\* Taking the mutex from the table.
LEMMA CallStep ==
  ASSUME Inv, NEW c \in Callers, Call(c)
  PROVE  Inv'
<1>0. TypeOK /\ CallsPrepared /\ pc[c] = "idle"
  BY DEF Inv, Call
<1>1. PICK l \in Locks : /\ Entry(l) /\ channel_locks' = l
                         /\ handle' = [handle EXCEPT ![c] = l]
  BY DEF Call
<1>2. TypeOK'
  BY <1>0 DEF TypeOK, Call, Phases
<1>3. \A d \in Callers : d # c => /\ pc'[d] = pc[d] /\ handle'[d] = handle[d]
                                  /\ call'[d] = call[d]
  BY <1>0 DEF Call, TypeOK
<1>4. pc'[c] = "waiting" /\ handle'[c] = l /\ call'[c] \in Updaters
  BY <1>0, <1>1 DEF Call, TypeOK
<1>5. /\ read' = read /\ backend' = backend /\ acked' = acked
      /\ mishaps' = mishaps /\ owner' = owner
  BY DEF Call
<1>6. CallsPrepared' /\ TornOnlyWhileWriting'
  BY <1>0, <1>3, <1>4, <1>5 DEF Inv, CallsPrepared, TornOnlyWhileWriting
<1>7. ASSUME Serial
      PROVE  Serial'
  <2>1. OneMutex'
    <3>1. ASSUME NEW d \in Callers, d # c, pc[d] # "idle"
          PROVE  handle[d] = l
      BY <1>0, <1>1, <1>7, <3>1, AdapterAssumption
      DEF Serial, OneMutex, CallsPrepared, Entry
    <3> QED
      BY <1>1, <1>3, <1>4, <3>1 DEF OneMutex
  <2>2. HolderOnly'
    BY <1>3, <1>4, <1>5, <1>7 DEF Serial, HolderOnly, Critical
  <2>3. ReadIsCurrent' /\ AckedIn(backend)' /\ AckedWhileWriting'
    BY <1>3, <1>4, <1>5, <1>7 DEF Serial, ReadIsCurrent, AckedWhileWriting, AckedIn
  <2> QED
    BY <2>1, <2>2, <2>3 DEF Serial
<1> QED
  BY <1>2, <1>5, <1>6, <1>7 DEF Inv, Evicted

\* Waiting for it.
LEMMA AcquireStep ==
  ASSUME Inv, NEW c \in Callers, Acquire(c)
  PROVE  Inv'
<1>0. TypeOK /\ CallsPrepared
  BY DEF Inv
<1>1. TypeOK' /\ CallsPrepared'
  BY <1>0 DEF TypeOK, CallsPrepared, Acquire, Phases, Critical
<1>2. TornOnlyWhileWriting'
  BY <1>0 DEF Inv, TornOnlyWhileWriting, Acquire, TypeOK
<1>3. ASSUME Serial
      PROVE  Serial'
  <2>1. OneMutex' /\ HolderOnly'
    BY <1>0, <1>3, AdapterAssumption
    DEF Serial, OneMutex, HolderOnly, CallsPrepared, Critical, Acquire, TypeOK
  <2>2. ReadIsCurrent' /\ AckedIn(backend)' /\ AckedWhileWriting'
    BY <1>0, <1>3
    DEF Serial, ReadIsCurrent, AckedWhileWriting, AckedIn, Acquire, TypeOK
  <2> QED
    BY <2>1, <2>2 DEF Serial
<1> QED
  BY <1>1, <1>2, <1>3 DEF Inv, Evicted, Acquire

\* Reading the record and applying the closure.
LEMMA GetStep ==
  ASSUME Inv, NEW c \in Callers, Get(c)
  PROVE  Inv'
<1>0. /\ TypeOK /\ CallsPrepared /\ pc[c] = "get"
      /\ UNCHANGED <<backend, channel_locks, acked, mishaps>>
  BY DEF Inv, Get
<1>1. CASE Return(c)
  BY <1>0, <1>1, QuietReturn
<1>2. CASE /\ backend # Torn
           /\ Updated(call[c], backend) # Refused
           /\ read' = [read EXCEPT ![c] = backend]
           /\ pc' = [pc EXCEPT ![c] =
                IF Updated(call[c], backend) = Absent THEN "delete" ELSE "put"]
           /\ UNCHANGED <<owner, handle, call>>
  <2>1. backend \in Records \cup {Absent} /\ call[c] \in Updaters
    BY <1>0, <1>2 DEF TypeOK, CallsPrepared
  <2>2. /\ pc'[c] \in {"put", "delete"} /\ read'[c] = backend
        /\ pc'[c] = "put" => Updated(call[c], backend) \in Records
        /\ pc'[c] = "delete" => call[c] = "delete"
    BY <1>0, <1>2, <2>1, UpdatedRecord DEF TypeOK
  <2>3. \A d \in Callers : d # c => pc'[d] = pc[d] /\ read'[d] = read[d]
    BY <1>0, <1>2 DEF TypeOK
  <2>4. TypeOK' /\ CallsPrepared'
    BY <1>0, <1>2, <2>1, <2>2, <2>3 DEF TypeOK, CallsPrepared, Phases, Critical
  <2>5. TornOnlyWhileWriting'
    BY <1>0, <1>2 DEF TornOnlyWhileWriting
  <2>6. ASSUME Serial
        PROVE  Serial'
    <3>1. OneMutex' /\ HolderOnly'
      BY <1>0, <1>2, <2>2, <2>3, <2>6 DEF Serial, OneMutex, HolderOnly, Critical
    <3>2. ReadIsCurrent' /\ AckedIn(backend)' /\ AckedWhileWriting'
      BY <1>0, <2>2, <2>3, <2>6
      DEF Serial, ReadIsCurrent, AckedWhileWriting, AckedIn
    <3> QED
      BY <3>1, <3>2 DEF Serial
  <2> QED
    BY <1>0, <2>4, <2>5, <2>6 DEF Inv, Evicted
<1> QED
  BY <1>1, <1>2 DEF Get

\* Truncating the file: what is acknowledged is in what was read before.
LEMMA TruncateStep ==
  ASSUME Inv, NEW c \in Callers, PutTruncate(c)
  PROVE  Inv'
<1>0. /\ TypeOK /\ CallsPrepared /\ pc[c] = "put" /\ backend' = Torn
      /\ pc' = [pc EXCEPT ![c] = "write"]
      /\ UNCHANGED <<channel_locks, owner, handle, call, read, acked, mishaps>>
  BY DEF Inv, PutTruncate
<1>1. TypeOK' /\ CallsPrepared' /\ TornOnlyWhileWriting'
  BY <1>0 DEF TypeOK, CallsPrepared, TornOnlyWhileWriting, Phases, Critical
<1>2. ASSUME Serial
      PROVE  Serial'
  <2>0. \A d \in Callers : d # c => pc[d] \notin Critical
    BY <1>0, <1>2, KeptApart DEF Serial, Serialized, Critical
  <2>1. OneMutex' /\ HolderOnly'
    BY <1>0, <1>2 DEF Serial, OneMutex, HolderOnly, Critical, TypeOK
  <2>2. ReadIsCurrent' /\ AckedWhileWriting'
    BY <1>0, <1>2, <2>0
    DEF Serial, ReadIsCurrent, AckedWhileWriting, AckedIn, Critical, TypeOK
  <2>3. AckedIn(backend)'
    BY <1>0, UpdaterAssumption DEF AckedIn, Torn, Absent, Records
  <2> QED
    BY <2>1, <2>2, <2>3 DEF Serial
<1> QED
  BY <1>0, <1>1, <1>2 DEF Inv, Evicted

\* A write that fails leaves the file truncated, and says so.
LEMMA FailedWriteStep ==
  ASSUME Inv, NEW c \in Callers, Return(c), pc[c] = "write",
         mishaps' = mishaps \cup {"torn"}, UNCHANGED <<backend, acked, channel_locks>>
  PROVE  Inv'
<1>0. TypeOK /\ CallsPrepared
  BY DEF Inv
<1>1. TypeOK' /\ CallsPrepared' /\ TornOnlyWhileWriting'
  BY <1>0, ReturnStep, ReturnPrepared DEF TypeOK, TornOnlyWhileWriting, Mishaps
<1>2. ASSUME Serial
      PROVE  Serial'
  <2>1. \A d \in Callers : pc'[d] \notin Critical
    BY <1>0, <1>2, KeptApart, ReturnStep DEF Serial, Serialized, Critical
  <2>2. OneMutex' /\ AckedIn(backend)'
    BY <1>0, <1>2, ReturnStep DEF Serial, OneMutex, AckedIn
  <2> QED
    BY <2>1, <2>2
    DEF Serial, HolderOnly, ReadIsCurrent, AckedWhileWriting, Critical
<1> QED
  BY <1>1, <1>2 DEF Inv, Evicted

\* A restart leaves nobody in the middle of anything.
LEMMA CrashStep ==
  ASSUME Inv, Crash
  PROVE  Inv'
<1>1. TypeOK'
  BY DEF Inv, TypeOK, Crash, Phases, Mishaps
<1>2. (\A d \in Callers : pc'[d] = "idle") /\ UNCHANGED <<backend, acked>>
  BY DEF Crash
<1>3. CallsPrepared' /\ TornOnlyWhileWriting'
  BY <1>2 DEF CallsPrepared, TornOnlyWhileWriting, Crash
<1>4. Serial => Serial'
  BY <1>2
  DEF Serial, OneMutex, HolderOnly, ReadIsCurrent, AckedIn, AckedWhileWriting, Critical
<1>5. Evicted => Evicted'
  BY DEF Evicted, Crash
<1> QED
  BY <1>1, <1>3, <1>4, <1>5 DEF Inv

\* Every step keeps the invariant.
LEMMA InvStep ==
  ASSUME Inv, [Next]_vars
  PROVE  Inv'
<1>1. ASSUME NEW c \in Callers, Put(c)
      PROVE  Inv'
  <2>1. CASE backend' = backend /\ acked' = acked
    BY <1>1, <2>1, QuietReturn DEF Put
  <2>2. CASE backend' = Written(c) /\ acked' \in {acked, Acknowledged(c)}
    BY <1>1, <2>2, WriteStep DEF Put
  <2> QED
    BY <1>1, <2>1, <2>2 DEF Put
<1>2. ASSUME NEW c \in Callers, PutWrite(c)
      PROVE  Inv'
  BY <1>2, WriteStep, FailedWriteStep DEF PutWrite
<1>3. ASSUME NEW c \in Callers, Cancel(c)
      PROVE  Inv'
  BY <1>3, QuietReturn DEF Cancel, Awaits
<1>4. CASE UNCHANGED vars
  BY <1>4
  DEF Inv, vars, TypeOK, CallsPrepared, TornOnlyWhileWriting, Evicted, Serial,
      OneMutex, HolderOnly, ReadIsCurrent, AckedIn, AckedWhileWriting
<1> QED
  BY <1>1, <1>2, <1>3, <1>4, CallStep, AcquireStep, GetStep, TruncateStep,
     DeleteStep, CrashStep
  DEF Next, UpdateChannel

\* Initially there is no record and no call.
LEMMA InitInv == Init => Inv
BY UpdaterAssumption
DEF Init, Inv, TypeOK, CallsPrepared, TornOnlyWhileWriting, Serial, OneMutex,
    HolderOnly, ReadIsCurrent, AckedIn, AckedWhileWriting, Critical, Phases,
    Mishaps, Records, Absent, Torn

\* The invariant holds in every behaviour.
LEMMA Invariance == Spec => []Inv
<1>1. Inv /\ [Next]_vars => Inv'
  BY InvStep
<1> QED
  BY <1>1, InitInv, PTL DEF Spec

-----------------------------------------------------------------------------

\* The state stays well typed: no interleaving writes anything but a record.
THEOREM TypeCorrect == Spec => []TypeOK
BY Invariance, PTL DEF Inv

\* Any number of calls are serialized, whatever fails, is dropped or crashes,
\* until a deletion evicts a mutex that another call has taken.
THEOREM CallsSerialized == Spec => []UpdatesSerialized
<1>1. Inv => UpdatesSerialized
  BY KeptApart DEF Inv, Serial, Evicted, UpdatesSerialized
<1> QED
  BY <1>1, Invariance, PTL

\* Until then an acknowledged deduction stays in the record.
THEOREM DeductionsKept == Spec => []NoDeductionLost
<1>1. Inv => NoDeductionLost
  BY DEF Inv, Serial, Evicted, NoDeductionLost
<1> QED
  BY <1>1, Invariance, PTL

\* Only failed writes and crashes leave a truncated file behind.
THEOREM TornFilesExplained == Spec => []TornOnlyWhileWriting
BY Invariance, PTL DEF Inv

-----------------------------------------------------------------------------
(* The refinement.                                                         *)

\* The record behind a truncated file is what its one writer has read.
LEMMA ContentOfWriter ==
  ASSUME Serialized, NEW c \in Callers, pc[c] = "write", backend = Torn
  PROVE  Content = read[c]
<1> DEFINE w == CHOOSE d \in Callers : pc[d] = "write"
<1>1. w \in Callers /\ pc[w] = "write"
  OBVIOUS
<1>2. w = c
  BY <1>1 DEF Serialized, Critical
<1> QED
  BY <1>2 DEF Content

\* A step that leaves the store and every writer alone leaves the record alone.
LEMMA ContentKept ==
  ASSUME Serialized, Serialized', UNCHANGED backend,
         backend = Torn => \E c \in Callers : pc[c] = "write",
         \A c \in Callers : pc[c] = "write" => pc'[c] = "write" /\ read'[c] = read[c]
  PROVE  Content' = Content
<1>1. CASE backend # Torn
  BY <1>1 DEF Content
<1>2. CASE backend = Torn
  <2>1. PICK c \in Callers : pc[c] = "write"
    BY <1>2
  <2>2. Content = read[c]
    BY <1>2, <2>1, ContentOfWriter
  <2> DEFINE w == CHOOSE d \in Callers : pc'[d] = "write"
  <2>3. pc'[c] = "write" /\ backend' = Torn
    BY <1>2, <2>1
  <2>4. w \in Callers /\ pc'[w] = "write"
    BY <2>3
  <2>5. w = c
    BY <2>3, <2>4 DEF Serialized, Critical
  <2> QED
    BY <2>1, <2>2, <2>3, <2>5 DEF Content
<1> QED
  BY <1>1, <1>2

\* The abstract record has the same closures.
LEMMA SameUpdaters ==
  /\ Atomic!Absent = Absent /\ Atomic!Refused = Refused
  /\ \A u, v : Atomic!Updated(u, v) = Updated(u, v)
BY DEF Atomic!Absent, Atomic!Refused, Atomic!Updated, Absent, Refused, Updated

\* A call that is about to write has read the record.
LEMMA ContentRead ==
  ASSUME TypeOK, CallsPrepared, Serial, NEW c \in Callers, pc[c] \in {"put", "write"}
  PROVE  Content = read[c]
<1>1. CASE pc[c] = "put"
  <2>1. backend = read[c] /\ backend # Torn
    BY <1>1, UpdaterAssumption DEF Serial, ReadIsCurrent, TypeOK, Records, Absent, Torn
  <2> QED
    BY <2>1 DEF Content
<1>2. CASE pc[c] = "write"
  BY <1>2, KeptApart, ContentOfWriter DEF Serial, ReadIsCurrent
<1> QED
  BY <1>1, <1>2

\* The write of a call is the atomic update of its closure.
LEMMA WriteIsUpdate ==
  ASSUME TypeOK, CallsPrepared, Serial, NEW c \in Callers, pc[c] \in {"put", "write"},
         backend' = Written(c), acked' \in {acked, Acknowledged(c)}
  PROVE  Atomic!Next
<1>1. /\ call[c] \in Updaters /\ read[c] \in Records \cup {Absent}
      /\ Updated(call[c], read[c]) \in Records
  BY DEF CallsPrepared, TypeOK
<1>2. Updated(call[c], read[c]) # Refused /\ backend' # Torn /\ call[c] # "delete"
  BY <1>1, UpdatedRecord, UpdaterAssumption DEF Records, Refused, Torn, Written, Absent
<1>3. Content = read[c] /\ Content' = Updated(call[c], Content)
  BY <1>2, ContentRead DEF Content, Written
<1>4. Atomic!Update(call[c])
  <2>1. /\ Atomic!Updated(call[c], Content) # Atomic!Refused
        /\ Content' = Atomic!Updated(call[c], Content)
    BY <1>2, <1>3, SameUpdaters
  <2>2. acked' \in CASE call[c] = "deduct" -> {acked, acked + 1}
                     [] call[c] = "delete" -> {0}
                     [] OTHER -> {acked}
    BY <1>2 DEF Acknowledged
  <2> QED
    BY <2>1, <2>2 DEF Atomic!Update
<1> QED
  BY <1>1, <1>4 DEF Atomic!Next

\* So is a deletion.
LEMMA DeleteIsUpdate ==
  ASSUME CallsPrepared, NEW c \in Callers, pc[c] = "delete",
         backend' = Absent, acked' = 0
  PROVE  Atomic!Next
<1>1. call[c] = "delete" /\ "delete" \in Updaters
  BY DEF CallsPrepared
<1>2. Content' = Absent
  BY DEF Content, Absent, Torn
<1>3. Updated("delete", Content) = Absent /\ Absent # Refused
  BY DEF Updated, Absent, Refused
<1>4. Atomic!Update("delete")
  BY <1>2, <1>3, SameUpdaters DEF Atomic!Update
<1> QED
  BY <1>1, <1>4 DEF Atomic!Next

\* Without mishaps, every step of the adapter is an atomic update or leaves the
\* record alone.
LEMMA RefinementStep ==
  ASSUME Inv, Inv', [Next]_vars, mishaps' = {}
  PROVE  Atomic!Next \/ UNCHANGED <<Content, acked>>
<1>0. mishaps = {} /\ TypeOK /\ CallsPrepared /\ Serial /\ Serialized
  <2>1. mishaps = {}
    BY DEF Next, UpdateChannel, vars, Call, Acquire, Get, Put, PutTruncate, PutWrite,
           Delete, Cancel, Crash
  <2> QED
    BY <2>1, KeptApart DEF Inv, Evicted, Serial
<1>1. Serialized'
  <2>1. CallsPrepared' /\ OneMutex' /\ HolderOnly'
    BY DEF Inv, Evicted, Serial
  <2> QED
    BY <2>1 DEF CallsPrepared, OneMutex, HolderOnly, Serialized, Critical
<1>2. backend = Torn => \E c \in Callers : pc[c] = "write"
  BY <1>0 DEF Inv, TornOnlyWhileWriting
<1>3. ASSUME NEW c \in Callers, Return(c), pc[c] # "write", UNCHANGED <<backend, acked>>
      PROVE  UNCHANGED <<Content, acked>>
  BY <1>0, <1>1, <1>2, <1>3, ReturnStep, ContentKept
<1>4. ASSUME NEW c \in Callers, Call(c) \/ Acquire(c)
      PROVE  UNCHANGED <<Content, acked>>
  BY <1>0, <1>1, <1>2, <1>4, ContentKept DEF Call, Acquire, TypeOK
<1>5. ASSUME NEW c \in Callers, Get(c)
      PROVE  UNCHANGED <<Content, acked>>
  <2>1. CASE Return(c)
    BY <1>3, <1>5, <2>1 DEF Get
  <2>2. CASE ~Return(c)
    BY <1>0, <1>1, <1>2, <1>5, <2>2, ContentKept DEF Get, TypeOK
  <2> QED
    BY <2>1, <2>2
<1>6. ASSUME NEW c \in Callers, Put(c)
      PROVE  Atomic!Next \/ UNCHANGED <<Content, acked>>
  BY <1>0, <1>3, <1>6, WriteIsUpdate DEF Put
<1>7. ASSUME NEW c \in Callers, PutTruncate(c)
      PROVE  UNCHANGED <<Content, acked>>
  <2>1. Content = read[c]
    BY <1>0, <1>7, ContentRead DEF PutTruncate
  <2> DEFINE w == CHOOSE d \in Callers : pc'[d] = "write"
  <2>2. pc'[c] = "write" /\ backend' = Torn /\ read' = read /\ acked' = acked
    BY <1>0, <1>7 DEF PutTruncate, TypeOK
  <2>3. w \in Callers /\ pc'[w] = "write"
    BY <2>2
  <2>4. w = c
    BY <1>1, <2>2, <2>3 DEF Serialized, Critical
  <2> QED
    BY <2>1, <2>2, <2>4 DEF Content
<1>8. ASSUME NEW c \in Callers, PutWrite(c)
      PROVE  Atomic!Next
  BY <1>0, <1>8, WriteIsUpdate DEF PutWrite
<1>9. ASSUME NEW c \in Callers, Delete(c)
      PROVE  Atomic!Next \/ UNCHANGED <<Content, acked>>
  <2>1. CASE UNCHANGED <<backend, acked>>
    BY <1>3, <1>9, <2>1 DEF Delete
  <2>2. CASE backend' = Absent /\ acked' = 0
    BY <1>0, <1>9, <2>2, DeleteIsUpdate DEF Delete
  <2> QED
    BY <1>9, <2>1, <2>2 DEF Delete
<1>10. ASSUME NEW c \in Callers, Cancel(c)
       PROVE  UNCHANGED <<Content, acked>>
  BY <1>3, <1>10 DEF Cancel, Awaits
<1>11. CASE Crash
  <2>1. backend # Torn
    BY <1>11 DEF Crash
  <2> QED
    BY <1>11, <2>1 DEF Crash, Content
<1>12. CASE UNCHANGED vars
  BY <1>0, <1>1, <1>2, <1>12, ContentKept DEF vars
<1> QED
  BY <1>4, <1>5, <1>6, <1>7, <1>8, <1>9, <1>10, <1>11, <1>12 DEF Next, UpdateChannel

\* Without mishaps the adapter provides the atomic update the trait asks for,
\* over stores of either kind, deletions included.
THEOREM Refinement == Spec => ImplementsAtomicRecord
<1>1. Init => Atomic!Init
  BY UpdaterAssumption, SameUpdaters
  DEF Init, Atomic!Init, Content, Absent, Torn
<1>2. Inv /\ Inv' /\ [Next]_vars =>
        [mishaps' = {} => Atomic!Next]_<<Content, acked>>
  BY RefinementStep
<1> QED
  BY <1>1, <1>2, Invariance, PTL DEF Spec, ImplementsAtomicRecord
=============================================================================
