------------------------ MODULE ChannelStoreAdapter ------------------------
(***************************************************************************)
(* ChannelStoreAdapter: update_channel for one channel over a plain Store. *)
(*                                                                         *)
(* A call takes the channel's mutex out of `channel_locks', waits for it,  *)
(* reads the record, applies the closure and writes the result.  The table *)
(* entry is evicted when the record is deleted.  A store's put is atomic   *)
(* or, as FileStore's, truncates the file first and then writes it.        *)
(***************************************************************************)
EXTENDS ChannelUpdaters

CONSTANTS
  Callers,   \* slots for concurrent calls of update_channel
  Locks,     \* identities of the mutexes
  NoLock,    \* no entry in the table, or no mutex taken from it
  Nobody,    \* a mutex nobody holds
  Stores,    \* how a put may behave: "atomic", "file"
  Faults     \* "store": a store call fails; "cancel": a call's future is
             \* dropped; "crash": the process restarts

ASSUME AdapterAssumption ==
  /\ NoLock \notin Locks
  /\ Nobody \notin Callers
  /\ Stores \subseteq {"atomic", "file"}
  /\ Faults \subseteq {"store", "cancel", "crash"}

Torn == -3   \* a truncated file

VARIABLES
  backend,         \* the record in the store
  channel_locks,   \* the channel's entry in the table
  owner,           \* who holds each mutex
  handle,          \* the mutex each call has taken from the table
  pc,              \* where each call is
  call,            \* the closure of each call
  read,            \* what each call has read
  acked,           \* history: deductions acknowledged since the record's creation
  mishaps          \* history: what the adapter's promise does not survive

vars == <<backend, channel_locks, owner, handle, pc, call, read, acked, mishaps>>

\* evicted: a deletion has evicted a mutex that another call had taken.
\* torn: a file was left truncated by a failed write or by a crash.
Mishaps == {"evicted", "torn"}

\* The phases of a call that holds its mutex.
Critical == {"get", "put", "write", "delete"}
Phases == {"idle", "waiting"} \cup Critical

TypeOK ==
  /\ backend \in Records \cup {Absent, Torn}
  /\ channel_locks \in Locks \cup {NoLock}
  /\ owner \in [Locks -> Callers \cup {Nobody}]
  /\ handle \in [Callers -> Locks \cup {NoLock}]
  /\ pc \in [Callers -> Phases]
  /\ call \in [Callers -> Updaters \cup {"none"}]
  /\ read \in [Callers -> Records \cup {Absent}]
  /\ acked \in Nat
  /\ mishaps \in SUBSET Mishaps

-----------------------------------------------------------------------------

\* Mutant: the table is not looked up, every call gets a mutex of its own.
EntryFresh(l) == \A c \in Callers : handle[c] # l

\* channel_lock: the entry, or a mutex that is in nobody's hands.
Entry(l) ==
  IF channel_locks # NoLock THEN l = channel_locks
                            ELSE \A c \in Callers : handle[c] # l

\* The mutex is taken from the table when update_channel is called, before the
\* future it returns is polled.
Call(c) ==
  /\ pc[c] = "idle"
  /\ \E l \in Locks, u \in Updaters :
       /\ Entry(l)
       /\ channel_locks' = l
       /\ handle' = [handle EXCEPT ![c] = l]
       /\ call' = [call EXCEPT ![c] = u]
  /\ pc' = [pc EXCEPT ![c] = "waiting"]
  /\ UNCHANGED <<backend, owner, read, acked, mishaps>>

Acquire(c) ==
  /\ pc[c] = "waiting"
  /\ owner[handle[c]] = Nobody
  /\ owner' = [owner EXCEPT ![handle[c]] = c]
  /\ pc' = [pc EXCEPT ![c] = "get"]
  /\ UNCHANGED <<backend, channel_locks, handle, call, read, acked, mishaps>>

\* Mutant: the guard outlives the call.
ReleasedNever(c) == owner

\* The guard is dropped, if the call holds it.
Released(c) == [l \in Locks |-> IF owner[l] = c THEN Nobody ELSE owner[l]]

\* The call returns, or its future is dropped.
Return(c) ==
  /\ owner' = Released(c)
  /\ pc' = [pc EXCEPT ![c] = "idle"]
  /\ handle' = [handle EXCEPT ![c] = NoLock]
  /\ call' = [call EXCEPT ![c] = "none"]
  /\ read' = [read EXCEPT ![c] = Absent]

\* The closure runs on what was read: it refuses, deletes or gives a record.
Get(c) ==
  /\ pc[c] = "get"
  /\ \/ /\ backend # Torn
        /\ Updated(call[c], backend) # Refused
        /\ read' = [read EXCEPT ![c] = backend]
        /\ pc' = [pc EXCEPT ![c] =
             IF Updated(call[c], backend) = Absent THEN "delete" ELSE "put"]
        /\ UNCHANGED <<owner, handle, call>>
     \/ /\ backend = Torn \/ Updated(call[c], backend) = Refused \/ "store" \in Faults
        /\ Return(c)
  /\ UNCHANGED <<backend, channel_locks, acked, mishaps>>

Acknowledged(c) == IF call[c] = "deduct" THEN acked + 1 ELSE acked

Written(c) == Updated(call[c], read[c])

\* A put that is atomic: a failed one may have been carried out.
Put(c) ==
  /\ pc[c] = "put"
  /\ "atomic" \in Stores
  /\ Return(c)
  /\ \/ backend' = Written(c) /\ acked' = Acknowledged(c)
     \/ /\ "store" \in Faults
        /\ backend' \in {backend, Written(c)}
        /\ UNCHANGED acked
  /\ UNCHANGED <<channel_locks, mishaps>>

\* std::fs::write, which is no await: the file is truncated, then written.
PutTruncate(c) ==
  /\ pc[c] = "put"
  /\ "file" \in Stores
  /\ backend' = Torn
  /\ pc' = [pc EXCEPT ![c] = "write"]
  /\ UNCHANGED <<channel_locks, owner, handle, call, read, acked, mishaps>>

PutWrite(c) ==
  /\ pc[c] = "write"
  /\ Return(c)
  /\ \/ /\ backend' = Written(c)
        /\ acked' = Acknowledged(c)
        /\ UNCHANGED mishaps
     \/ /\ "store" \in Faults
        /\ mishaps' = mishaps \cup {"torn"}
        /\ UNCHANGED <<backend, acked>>
  /\ UNCHANGED channel_locks

\* Some other call has taken a mutex and not returned yet.
Contended(c) == \E d \in Callers \ {c} : handle[d] # NoLock

\* The entry is evicted, whoever else has taken the mutex from it.
Delete(c) ==
  /\ pc[c] = "delete"
  /\ Return(c)
  /\ \/ /\ backend' = Absent /\ acked' = 0
        /\ channel_locks' = NoLock
        /\ mishaps' = mishaps \cup {m \in {"evicted"} : Contended(c)}
     \/ /\ "store" \in Faults
        /\ \/ backend' = Absent /\ acked' = 0
           \/ UNCHANGED <<backend, acked>>
        /\ UNCHANGED <<channel_locks, mishaps>>

-----------------------------------------------------------------------------

\* Mutant: the file is written by a future that can be dropped as well.
AwaitsInWrite == {"waiting", "get", "put", "write", "delete"}

\* The awaits of the future, where it can be dropped.
Awaits == {"waiting", "get", "put", "delete"}

Cancel(c) ==
  /\ "cancel" \in Faults
  /\ pc[c] \in Awaits
  /\ Return(c)
  /\ UNCHANGED <<backend, channel_locks, acked, mishaps>>

\* The store survives; the table and the calls do not.
Crash ==
  /\ "crash" \in Faults
  /\ channel_locks' = NoLock
  /\ owner' = [l \in Locks |-> Nobody]
  /\ handle' = [c \in Callers |-> NoLock]
  /\ pc' = [c \in Callers |-> "idle"]
  /\ call' = [c \in Callers |-> "none"]
  /\ read' = [c \in Callers |-> Absent]
  /\ mishaps' = mishaps \cup {m \in {"torn"} : backend = Torn}
  /\ UNCHANGED <<backend, acked>>

-----------------------------------------------------------------------------

Init ==
  /\ backend = Absent
  /\ channel_locks = NoLock
  /\ owner = [l \in Locks |-> Nobody]
  /\ handle = [c \in Callers |-> NoLock]
  /\ pc = [c \in Callers |-> "idle"]
  /\ call = [c \in Callers |-> "none"]
  /\ read = [c \in Callers |-> Absent]
  /\ acked = 0
  /\ mishaps = {}

UpdateChannel(c) ==
  Get(c) \/ Put(c) \/ PutTruncate(c) \/ PutWrite(c) \/ Delete(c)

Next ==
  \/ \E c \in Callers : Call(c) \/ Acquire(c) \/ UpdateChannel(c) \/ Cancel(c)
  \/ Crash

Spec == Init /\ [][Next]_vars

\* The runtime polls every call; tokio's mutex serves its waiters in order.
FairSpec ==
  Spec /\ \A c \in Callers : WF_vars(UpdateChannel(c)) /\ SF_vars(Acquire(c))

-----------------------------------------------------------------------------
(* Properties.                                                             *)

Serialized ==
  \A c, d \in Callers : pc[c] \in Critical /\ pc[d] \in Critical => c = d

\* update_channel calls for the channel are serialized, between the read and
\* the write of one no other reads or writes, as long as no deletion evicts a
\* mutex that another call has taken.
UpdatesSerialized == "evicted" \notin mishaps => Serialized

\* Deductions acknowledged are in the record: v holds them.
AckedIn(v) ==
  /\ v \in Records => acked <= v
  /\ v = Absent => acked = 0

\* Until then no acknowledged deduction is overwritten by another call, by a
\* refresh, or by a call that failed or was dropped half way.
NoDeductionLost == "evicted" \notin mishaps => AckedIn(backend)

\* A dropped call never leaves a truncated file behind: only a failed write or
\* a crash does.
TornOnlyWhileWriting ==
  backend = Torn => "torn" \in mishaps \/ \E c \in Callers : pc[c] = "write"

\* The record before the write that is under way.
Content ==
  IF backend = Torn
    THEN read[CHOOSE c \in Callers : pc[c] = "write"]
    ELSE backend

Atomic == INSTANCE AtomicRecord WITH value <- Content

\* Without these mishaps the adapter provides the atomic update that the trait
\* asks for.
ImplementsAtomicRecord ==
  Atomic!Init /\ [][mishaps' = {} => Atomic!Next]_<<Content, acked>>

\* Whatever fails, is dropped or evicted, no call waits for ever: the mutex
\* comes back.
EveryCallReturns == \A c \in Callers : pc[c] # "idle" ~> pc[c] = "idle"
=============================================================================
