-------------------------- MODULE WsTranslatorProofs --------------------------
(***************************************************************************)
(* Proofs about WsTranslator, for any number of requests, frames and       *)
(* connections, and whatever goes wrong.                                   *)
(***************************************************************************)
EXTENDS WsTranslator, SequenceTheorems, TLAPS

\* The link's state is of its types; the queues and what the frontend knows matter
\* to no property below.
LinkTypes ==
  /\ task \in [Requests -> {"none", "running", "ready", "failed"}]
  /\ asked \subseteq Requests

\* The server has seen a credential once the translator calls the handshake complete.
HandshakeSeen == handshake => welcomed

\* The flag on which the end of a connection is judged is what the server knows.
AwaitingIsOwed == awaiting <=> owed

\* A task in flight is for a request the server made and waits for.
TasksAsked == \A k \in Requests : task[k] # "none" => k \in asked

Inv ==
  /\ LinkTypes
  /\ HandshakeSeen /\ AwaitingIsOwed /\ TasksAsked
  /\ CredentialFirst /\ RetriesOnlyUnowed /\ FatalHasCause

-----------------------------------------------------------------------------
(* Steps.                                                                  *)

LEMMA InitInv == Init => Inv
  BY DEF Init, Inv, LinkTypes, HandshakeSeen, AwaitingIsOwed, TasksAsked,
         CredentialFirst, RetriesOnlyUnowed, FatalHasCause, Idle, Requests

\* A connection that ends leaves nothing to be judged.
LEMMA ResetInv ==
  Reset => LinkTypes' /\ HandshakeSeen' /\ AwaitingIsOwed' /\ TasksAsked' /\ CredentialFirst'
  BY DEF Reset, LinkTypes, HandshakeSeen, AwaitingIsOwed, TasksAsked, CredentialFirst,
         Idle, Requests

\* Alloy may come back when nothing is owed, or when our own side has failed.
LEMMA TransientInv ==
  ASSUME Inv, NEW ours \in BOOLEAN, EndTransient(ours), ours \/ ~awaiting, conn = "on"
  PROVE  Inv'
<1>1. LinkTypes' /\ HandshakeSeen' /\ AwaitingIsOwed' /\ TasksAsked' /\ CredentialFirst'
  BY ResetInv DEF EndTransient
<1>2. RetriesOnlyUnowed'
  BY DEF EndTransient, Inv, AwaitingIsOwed, RetriesOnlyUnowed
<1>3. FatalHasCause'
  BY DEF EndTransient, Inv, FatalHasCause
<1> QED BY <1>1, <1>2, <1>3 DEF Inv

\* The latch is set with a cause.
LEMMA FatalInv ==
  ASSUME Inv, NEW cause \in BOOLEAN, EndFatal(cause), cause
  PROVE  Inv'
<1>1. LinkTypes' /\ HandshakeSeen' /\ AwaitingIsOwed' /\ TasksAsked' /\ CredentialFirst'
  BY ResetInv DEF EndFatal
<1>2. RetriesOnlyUnowed'
  BY DEF EndFatal, Inv, RetriesOnlyUnowed
<1>3. FatalHasCause'
  BY DEF EndFatal, Inv, FatalHasCause
<1> QED BY <1>1, <1>2, <1>3 DEF Inv

\* A credential that was written.
LEMMA CredentialInv ==
  ASSUME Inv, NEW k \in Requests, SendCredential(k), conn = "on"
  PROVE  Inv'
<1>1. CASE "send" \in Mishaps /\ WriteFails
  BY <1>1, TransientInv DEF WriteFails
<1>2. CASE EndFatal(TRUE)
  BY <1>2, FatalInv
<1>3. ASSUME task' = [task EXCEPT ![k] = "none"], handshake' = TRUE, awaiting' = TRUE,
             asked' = asked \ {k}, welcomed' = TRUE, owed' = TRUE,
             UNCHANGED <<fatal, conn, expecting, outbound, wire, frontVars,
                         connects, abandoned, excused, blamed>>
      PROVE  Inv'
  BY <1>3 DEF Inv, LinkTypes, HandshakeSeen, AwaitingIsOwed, TasksAsked, CredentialFirst,
              RetriesOnlyUnowed, FatalHasCause, Requests
<1> QED BY <1>1, <1>2, <1>3 DEF SendCredential

\* A request of the server: a second one while the first is in flight is its fault.
LEMMA AsksInv ==
  ASSUME Inv, NEW k \in Requests, ServerAsks(k)
  PROVE  Inv'
<1>1. CASE task[k] # "none" /\ EndFatal(k \in asked)
  <2>1. k \in asked BY <1>1 DEF Inv, TasksAsked
  <2> QED BY <1>1, <2>1, FatalInv
<1>2. CASE EndFatal(TRUE)
  BY <1>2, FatalInv
<1>3. ASSUME task' = [task EXCEPT ![k] = "running"], asked' = asked \cup {k},
             UNCHANGED <<fatal, conn, handshake, awaiting, expecting, outbound, wire,
                         welcomed, frontVars, connects, historyVars>>
      PROVE  Inv'
  BY <1>3 DEF Inv, LinkTypes, HandshakeSeen, AwaitingIsOwed, TasksAsked, CredentialFirst,
              RetriesOnlyUnowed, FatalHasCause, Requests, historyVars
<1> QED BY <1>1, <1>2, <1>3 DEF ServerAsks

\* The peer is gone: final, or not.
LEMMA GoneInv ==
  ASSUME Inv, NEW final \in BOOLEAN, ServerGone(final), conn = "on"
  PROVE  Inv'
<1>1. CASE PeerGone(final) /\ EndFatal(owed \/ final)
  <2>1. owed \/ final BY <1>1 DEF PeerGone, Inv, AwaitingIsOwed
  <2> QED BY <1>1, <2>1, FatalInv
<1>2. CASE ~PeerGone(final) /\ EndTransient(FALSE)
  BY <1>2, TransientInv DEF PeerGone
<1> QED BY <1>1, <1>2 DEF ServerGone

\* What arrives from the socket.
LEMMA SocketInv == ASSUME Inv, FromSocket PROVE Inv'
<1>1. ASSUME NEW k \in Requests, ServerAsks(k) PROVE Inv'
  BY <1>1, AsksInv
<1>2. CASE ServerAnswers
  <2>1. CASE HandleGone
    BY <2>1, ResetInv DEF HandleGone, Inv, RetriesOnlyUnowed, FatalHasCause
  <2>2. CASE UNCHANGED <<fatal, conn, linkVars, issued, connects, historyVars>>
    BY <2>2 DEF Inv, LinkTypes, HandshakeSeen, AwaitingIsOwed, TasksAsked,
                CredentialFirst, RetriesOnlyUnowed, FatalHasCause, linkVars, historyVars
  <2> QED BY <1>2, <2>1, <2>2 DEF ServerAnswers
<1>3. CASE ServerReceipt
  BY <1>3 DEF ServerReceipt, ReceiptEndsWait, Inv, LinkTypes, HandshakeSeen, AwaitingIsOwed,
              TasksAsked, CredentialFirst, RetriesOnlyUnowed, FatalHasCause
<1>4. CASE ServerPong
  BY <1>4 DEF ServerPong, Inv, LinkTypes, HandshakeSeen, AwaitingIsOwed, TasksAsked,
              CredentialFirst, RetriesOnlyUnowed, FatalHasCause, historyVars
<1>5. ASSUME NEW final \in BOOLEAN, ServerGone(final) PROVE Inv'
  BY <1>5, GoneInv DEF FromSocket
<1>6. CASE Junk
  BY <1>6, FatalInv DEF Junk
<1> QED
  BY <1>1, <1>2, <1>3, <1>4, <1>5, <1>6 DEF FromSocket, Challenge, NeedVoucher, Requests

LEMMA NextInv == Inv /\ [Next]_vars => Inv'
<1> SUFFICES ASSUME Inv, [Next]_vars PROVE Inv'
  OBVIOUS
<1> USE DEF Inv, LinkTypes, HandshakeSeen, AwaitingIsOwed, TasksAsked, CredentialFirst,
            RetriesOnlyUnowed, FatalHasCause
<1>1. CASE Connect
  BY <1>1 DEF Connect, frontVars, historyVars
<1>2. CASE FrontendSends
  BY <1>2 DEF FrontendSends, historyVars
<1>3. CASE Shutdown
  BY <1>3, ResetInv DEF Shutdown
<1>4. CASE Flush
  <2>1. CASE "send" \in Mishaps /\ WriteFails
    BY <1>4, <2>1, TransientInv DEF Flush, WriteFails
  <2>2. CASE UNCHANGED <<fatal, conn, handshake, awaiting, task, expecting, asked,
                         welcomed, frontVars, connects, historyVars>>
    <3>1. welcomed BY <1>4 DEF Flush, Open
    <3> QED BY <2>2, <3>1 DEF historyVars
  <2> QED BY <1>4, <2>1, <2>2 DEF Flush
<1>5. CASE Keepalive
  <2>1. CASE EndTransient(TRUE)
    BY <1>5, <2>1, TransientInv DEF Keepalive
  <2>2. CASE UNCHANGED <<fatal, conn, handshake, awaiting, task, outbound, wire,
                         asked, welcomed, frontVars, connects, historyVars>>
    BY <2>2 DEF historyVars
  <2> QED BY <1>5, <2>1, <2>2 DEF Keepalive, WriteFails
<1>6. CASE Deadline
  BY <1>6, FatalInv DEF Deadline
<1>7. CASE FromSocket
  BY <1>7, SocketInv
<1>8. ASSUME NEW k \in Requests, ProviderDone(k) PROVE Inv'
  BY <1>8 DEF ProviderDone, historyVars, Requests
<1>9. ASSUME NEW k \in Requests, Settle(k) PROVE Inv'
  BY <1>9, CredentialInv, FatalInv DEF Settle
<1>10. CASE UNCHANGED vars
  BY <1>10 DEF vars, linkVars, historyVars
<1> QED
  BY <1>1, <1>2, <1>3, <1>4, <1>5, <1>6, <1>7, <1>8, <1>9, <1>10 DEF Next

LEMMA AlwaysInv == Spec => []Inv
  BY InitInv, NextInv, PTL DEF Spec

-----------------------------------------------------------------------------
(* Sequences.                                                              *)

\* A request that is new comes last, whatever it is appended to.
LEMMA AppendNew ==
  ASSUME NEW n \in Nat, NEW s \in Seq(1..n), Ascending(s)
  PROVE  /\ Append(s, n + 1) \in Seq(1..(n + 1))
         /\ Ascending(Append(s, n + 1))
         /\ ToSet(Append(s, n + 1)) = ToSet(s) \cup {n + 1}
<1>1. s \in Seq(1..(n + 1))
  BY SeqMonotonic
<1>2. /\ Append(s, n + 1) \in Seq(1..(n + 1))
      /\ Len(Append(s, n + 1)) = Len(s) + 1
      /\ \A i \in 1..Len(s) : Append(s, n + 1)[i] = s[i]
      /\ Append(s, n + 1)[Len(s) + 1] = n + 1
  BY <1>1, AppendProperties
<1>3. Len(s) \in Nat /\ \A i \in 1..Len(s) : s[i] \in 1..n
  BY LenProperties, ElementOfSeq
<1>4. Ascending(Append(s, n + 1))
  <2>1. SUFFICES ASSUME NEW i \in 1..Len(Append(s, n + 1)),
                        NEW j \in 1..Len(Append(s, n + 1)), i < j
                 PROVE  Append(s, n + 1)[i] < Append(s, n + 1)[j]
    BY DEF Ascending
  <2>2. i \in 1..Len(s) /\ Append(s, n + 1)[i] = s[i] /\ s[i] \in 1..n
    BY <1>2, <1>3, <2>1
  <2>3. CASE j = Len(s) + 1
    BY <1>2, <2>2, <2>3
  <2>4. CASE j # Len(s) + 1
    <3>1. j \in 1..Len(s) BY <1>2, <1>3, <2>4
    <3> QED BY <1>2, <2>1, <2>2, <3>1 DEF Ascending
  <2> QED BY <2>3, <2>4
<1>5. DOMAIN s = 1..Len(s) /\ DOMAIN Append(s, n + 1) = 1..(Len(s) + 1)
  BY <1>2, LenProperties
<1>6. ToSet(Append(s, n + 1)) = ToSet(s) \cup {n + 1}
  BY <1>2, <1>3, <1>5 DEF ToSet
<1> QED BY <1>2, <1>4, <1>6

\* What is queued last is last of all.
LEMMA ConcatAppend ==
  ASSUME NEW S, NEW s \in Seq(S), NEW t \in Seq(S), NEW e \in S
  PROVE  s \o Append(t, e) = Append(s \o t, e)
<1>1. Append(t, e) = t \o <<e>> /\ <<e>> \in Seq(S)
  BY AppendIsConcat
<1>2. s \o t \in Seq(S)
  BY ConcatProperties
<1>3. Append(s \o t, e) = (s \o t) \o <<e>>
  BY <1>2, AppendIsConcat
<1> QED BY <1>1, <1>3, ConcatAssociative

\* What is sent moves from the one queue to the other.
LEMMA HeadMoves ==
  ASSUME NEW S, NEW s \in Seq(S), NEW t \in Seq(S), t # <<>>
  PROVE  /\ Append(s, Head(t)) \in Seq(S) /\ Tail(t) \in Seq(S)
         /\ Append(s, Head(t)) \o Tail(t) = s \o t
<1>1. Head(t) \in S /\ Tail(t) \in Seq(S)
  BY HeadTailProperties
<1>2. Append(s, Head(t)) = s \o <<Head(t)>> /\ <<Head(t)>> \in Seq(S)
  BY <1>1, AppendIsConcat
<1>3. t = <<Head(t)>> \o Tail(t)
  <2>1. /\ <<Head(t)>> \o Tail(t) \in Seq(S)
        /\ Len(<<Head(t)>> \o Tail(t)) = 1 + Len(Tail(t))
        /\ \A i \in 1..(1 + Len(Tail(t))) :
             (<<Head(t)>> \o Tail(t))[i] = IF i <= 1 THEN <<Head(t)>>[i] ELSE Tail(t)[i - 1]
    BY <1>1, <1>2, ConcatProperties
  <2>2. /\ Len(Tail(t)) = Len(t) - 1 /\ Len(t) \in Nat
        /\ \A i \in 1..Len(Tail(t)) : Tail(t)[i] = t[i + 1]
        /\ Head(t) = t[1]
    BY HeadTailProperties, LenProperties
  <2>3. \A i \in 1..Len(t) : t[i] = (<<Head(t)>> \o Tail(t))[i]
    BY <2>1, <2>2
  <2> QED BY <2>1, <2>2, <2>3, SeqEqual
<1> QED BY <1>1, <1>2, <1>3, ConcatAssociative, AppendProperties

-----------------------------------------------------------------------------
(* The queues.                                                             *)

\* A queue holds requests the frontend has made.
QueueTypes ==
  issued \in Nat /\ outbound \in Seq(1..issued) /\ wire \in Seq(1..issued)

\* Without a translator there are no queues.
QueuesOfConnection == conn # "on" => wire = <<>> /\ outbound = <<>>

Queues == TypeOK /\ QueueTypes /\ QueuesOfConnection /\ RpcOrder

LEMMA InitQueues == Init => Queues
<1> SUFFICES ASSUME Init PROVE Queues
  OBVIOUS
<1>1. <<>> \in Seq(Nat) /\ <<>> \in Seq(1..issued)
  BY EmptySeq
<1>2. TypeOK
  BY <1>1, TranslatorAssumption DEF Init, TypeOK, Idle, Requests
<1>3. QueueTypes
  BY <1>1 DEF Init, QueueTypes
<1>4. QueuesOfConnection /\ RpcOrder
  BY DEF Init, QueuesOfConnection, RpcOrder
<1> QED BY <1>2, <1>3, <1>4 DEF Queues

\* The end of a connection, of whatever kind, leaves it without queues.
LEMMA ResetQueues ==
  ASSUME Queues, Reset, conn' \in {"off", "gone"}, UNCHANGED frontVars,
         fatal' \in BOOLEAN, frames' \in Nat, connects' \in Nat,
         abandoned' \in BOOLEAN, excused' \in BOOLEAN, blamed' \in BOOLEAN
  PROVE  Queues'
<1>1. <<>> \in Seq(1..issued) /\ <<>> \in Seq(Nat)
  BY EmptySeq
<1> QED
  BY <1>1 DEF Queues, Reset, TypeOK, QueueTypes, QueuesOfConnection, RpcOrder, Idle,
              Requests, frontVars

LEMMA TransientQueues ==
  ASSUME Queues, NEW ours \in BOOLEAN, EndTransient(ours), frames' \in Nat
  PROVE  Queues'
  BY ResetQueues DEF EndTransient, Queues, TypeOK

LEMMA FatalQueues ==
  ASSUME Queues, NEW cause \in BOOLEAN, EndFatal(cause), frames' \in Nat
  PROVE  Queues'
  BY ResetQueues DEF EndFatal, Queues, TypeOK

\* A step that leaves the queues alone and the link well typed.
LEMMA SameQueues ==
  ASSUME Queues, TypeOK', UNCHANGED <<conn, outbound, wire, issued>>,
         answered \subseteq answered'
  PROVE  Queues'
  BY DEF Queues, QueueTypes, QueuesOfConnection, RpcOrder

\* Requests in flight are issued again, in order, on the next connection.
LEMMA ConnectQueues == ASSUME Queues, Connect PROVE Queues'
<1>1. TypeOK' /\ QueueTypes'
  <2>1. CASE outbound' \in Reissued
    <3>1. PICK n \in 0..issued : outbound' \in [1..n -> 1..issued]
      BY <2>1 DEF Reissued
    <3>2. n \in Nat BY <3>1 DEF Queues, QueueTypes
    <3>3. outbound' \in Seq(1..issued) BY <3>1, <3>2, SeqDef
    <3>4. outbound' \in Seq(Nat) BY <3>3, SeqMonotonic, 1..issued \subseteq Nat
    <3> QED BY <3>3, <3>4 DEF Connect, Queues, TypeOK, QueueTypes, frontVars, historyVars
  <2>2. CASE UNCHANGED outbound
    BY <2>2 DEF Connect, Queues, TypeOK, QueueTypes, frontVars, historyVars
  <2> QED BY <2>1, <2>2 DEF Connect
<1>2. QueuesOfConnection'
  BY DEF Connect, Queues, QueuesOfConnection
<1>3. RpcOrder'
  <2>1. SUFFICES ASSUME conn' = "on"
                 PROVE  /\ Ascending((wire \o outbound)')
                        /\ (1..issued') \ answered' \subseteq ToSet((wire \o outbound)')
    BY DEF RpcOrder, Ascending
  <2>2. outbound' \in Reissued
    BY <2>1 DEF Connect
  <2>3. wire' = <<>> /\ (wire \o outbound)' = outbound'
    BY <1>1, ConcatEmptySeq DEF Connect, Queues, QueuesOfConnection, QueueTypes
  <2> QED BY <2>2, <2>3 DEF Reissued, Connect, frontVars
<1> QED BY <1>1, <1>2, <1>3 DEF Queues

\* A request the frontend makes goes behind all others, or waits for a connection.
LEMMA FrontendQueues == ASSUME Queues, FrontendSends PROVE Queues'
<1>1. issued \in Nat /\ issued' = issued + 1 /\ wire' = wire /\ conn' = conn
      /\ answered' = answered
  BY DEF FrontendSends, Queues, QueueTypes
<1>2. wire \in Seq(1..(issued + 1)) /\ outbound \in Seq(1..(issued + 1))
  BY <1>1, SeqMonotonic, 1..issued \subseteq 1..(issued + 1) DEF Queues, QueueTypes
<1>3. Append(outbound, issued + 1) \in Seq(1..(issued + 1))
  BY <1>1, <1>2, AppendProperties
<1>4. outbound' = IF conn = "on" THEN Append(outbound, issued + 1) ELSE outbound
  BY DEF FrontendSends, Buffered
<1>5. QueueTypes'
  <2>1. outbound' \in Seq(1..(issued + 1))
    BY <1>2, <1>3, <1>4, Zenon
  <2>2. issued' \in Nat
    BY <1>1
  <2> QED BY <1>1, <1>2, <2>1, <2>2, Zenon DEF QueueTypes
<1>6. TypeOK'
  <2>1. outbound' \in Seq(Nat)
    BY <1>1, <1>5, SeqMonotonic, 1..issued' \subseteq Nat DEF QueueTypes
  <2> QED BY <2>1 DEF FrontendSends, Queues, TypeOK, historyVars
<1>7. QueuesOfConnection'
  BY <1>1, <1>4 DEF Queues, QueuesOfConnection
<1>8. RpcOrder'
  <2>1. SUFFICES ASSUME conn = "on"
                 PROVE  /\ Ascending((wire \o outbound)')
                        /\ (1..issued') \ answered' \subseteq ToSet((wire \o outbound)')
    BY <1>1 DEF RpcOrder, Ascending
  <2>2. wire \o outbound \in Seq(1..issued)
    BY ConcatProperties DEF Queues, QueueTypes
  <2>3. (wire \o outbound)' = Append(wire \o outbound, issued + 1)
    BY <1>1, <1>2, <1>4, <2>1, ConcatAppend
  <2>4. Ascending(wire \o outbound) /\ (1..issued) \ answered \subseteq ToSet(wire \o outbound)
    BY <2>1 DEF Queues, RpcOrder
  <2>5. /\ Ascending(Append(wire \o outbound, issued + 1))
        /\ ToSet(Append(wire \o outbound, issued + 1)) = ToSet(wire \o outbound) \cup {issued + 1}
    BY <1>1, <2>2, <2>4, AppendNew
  <2>6. 1..issued' = (1..issued) \cup {issued + 1}
    BY <1>1
  <2>7. Ascending((wire \o outbound)')
    BY <2>3, <2>5, Zenon
  <2>8. (1..issued') \ answered' \subseteq ToSet((wire \o outbound)')
    BY <1>1, <2>3, <2>4, <2>5, <2>6, Zenon
  <2> QED BY <2>7, <2>8
<1> QED BY <1>5, <1>6, <1>7, <1>8 DEF Queues

\* What is flushed is next in order.
LEMMA FlushQueues == ASSUME Queues, Flush PROVE Queues'
<1>1. CASE WriteFails
  BY <1>1, TransientQueues DEF WriteFails, Flush, Queues, TypeOK
<1>2. ASSUME outbound' = Tail(outbound), wire' = Append(wire, Head(outbound)),
             UNCHANGED <<fatal, conn, handshake, awaiting, task, expecting, asked,
                         welcomed, frontVars, connects, historyVars>>
      PROVE  Queues'
  <2>1. /\ outbound' \in Seq(1..issued) /\ wire' \in Seq(1..issued)
        /\ (wire \o outbound)' = wire \o outbound
    <3>1. outbound # <<>> /\ outbound \in Seq(1..issued) /\ wire \in Seq(1..issued)
      BY DEF Flush, Queues, QueueTypes
    <3>2. /\ Append(wire, Head(outbound)) \in Seq(1..issued) /\ Tail(outbound) \in Seq(1..issued)
          /\ Append(wire, Head(outbound)) \o Tail(outbound) = wire \o outbound
      BY <3>1, HeadMoves, Zenon
    <3> QED BY <1>2, <3>2, Zenon
  <2>2. QueueTypes'
    <3>1. issued' = issued /\ issued \in Nat
      BY <1>2 DEF Queues, QueueTypes, frontVars
    <3> QED BY <2>1, <3>1 DEF QueueTypes
  <2>3. TypeOK'
    <3>1. outbound' \in Seq(Nat) /\ wire' \in Seq(Nat)
      BY <2>1, SeqMonotonic, 1..issued \subseteq Nat
    <3> QED BY <1>2, <3>1 DEF Flush, Queues, TypeOK, frontVars, historyVars
  <2>4. QueuesOfConnection'
    BY <1>2 DEF Flush, QueuesOfConnection
  <2>5. RpcOrder'
    BY <1>2, <2>1 DEF Queues, RpcOrder, Ascending, frontVars
  <2> QED BY <2>2, <2>3, <2>4, <2>5 DEF Queues
<1> QED BY <1>1, <1>2 DEF Flush

LEMMA SocketQueues == ASSUME Queues, FromSocket PROVE Queues'
<1>1. frames' \in Nat /\ frames \in Nat
  BY DEF FromSocket, Queues, TypeOK
<1>2. ASSUME NEW k \in Requests, ServerAsks(k) PROVE Queues'
  <2>1. CASE EndFatal(k \in asked)
    <3>1. CASE k \in asked
      BY <1>1, <2>1, <3>1, FatalQueues DEF EndFatal
    <3>2. CASE k \notin asked
      BY <1>1, <2>1, <3>2, FatalQueues DEF EndFatal
    <3> QED BY <3>1, <3>2
  <2>2. CASE EndFatal(TRUE)
    BY <1>1, <2>2, FatalQueues
  <2>3. ASSUME task' = [task EXCEPT ![k] = "running"], asked' = asked \cup {k},
               UNCHANGED <<fatal, conn, handshake, awaiting, expecting, outbound, wire,
                           welcomed, frontVars, connects, historyVars>>
        PROVE  Queues'
    <3>1. TypeOK' BY <1>1, <1>2, <2>3 DEF Queues, TypeOK, frontVars, historyVars, Requests
    <3> QED BY <2>3, <3>1, SameQueues DEF frontVars
  <2> QED BY <1>2, <2>1, <2>2, <2>3 DEF ServerAsks
<1>8. CASE HandleGone
  BY <1>1, <1>8, ResetQueues DEF HandleGone, Queues, TypeOK
<1>3. CASE ServerAnswers /\ ~HandleGone
  <2>1. PICK r \in ToSet(wire) \ answered : answered' = answered \cup {r}
    BY <1>3 DEF ServerAnswers
  <2>2. r \in Nat
    <3>1. DOMAIN wire = 1..Len(wire) /\ \A i \in 1..Len(wire) : wire[i] \in Nat
      BY LenProperties, ElementOfSeq DEF Queues, TypeOK
    <3> QED BY <2>1, <3>1 DEF ToSet
  <2>3. TypeOK'
    BY <1>1, <1>3, <2>1, <2>2 DEF ServerAnswers, Queues, TypeOK, linkVars, historyVars
  <2> QED BY <1>3, <2>1, <2>3, SameQueues DEF ServerAnswers, linkVars
<1>4. CASE ServerReceipt
  <2>1. TypeOK'
    BY <1>1, <1>4 DEF ServerReceipt, ReceiptEndsWait, Queues, TypeOK, frontVars
  <2> QED BY <1>4, <2>1, SameQueues DEF ServerReceipt, frontVars
<1>5. CASE ServerPong
  <2>1. TypeOK'
    BY <1>1, <1>5 DEF ServerPong, Queues, TypeOK, frontVars, historyVars
  <2> QED BY <1>5, <2>1, SameQueues DEF ServerPong, frontVars
<1>6. ASSUME NEW final \in BOOLEAN, ServerGone(final) PROVE Queues'
  <2>1. CASE EndFatal(owed \/ final)
    BY <1>1, <2>1, FatalQueues DEF Queues, TypeOK
  <2>2. CASE EndTransient(FALSE)
    BY <1>1, <2>2, TransientQueues
  <2> QED BY <1>6, <2>1, <2>2 DEF ServerGone
<1>7. CASE Junk
  BY <1>1, <1>7, FatalQueues DEF Junk
<1> QED
  BY <1>2, <1>3, <1>4, <1>5, <1>6, <1>7, <1>8
     DEF FromSocket, Challenge, NeedVoucher, Requests

LEMMA SettleQueues == ASSUME Queues, NEW k \in Requests, Settle(k) PROVE Queues'
<1>1. frames' = frames /\ frames \in Nat
  BY DEF Settle, Queues, TypeOK
<1>2. CASE WriteFails
  BY <1>1, <1>2, TransientQueues DEF WriteFails
<1>3. CASE EndFatal(TRUE)
  BY <1>1, <1>3, FatalQueues
<1>4. ASSUME task' = [task EXCEPT ![k] = "none"], handshake' = TRUE, awaiting' = TRUE,
             asked' = asked \ {k}, welcomed' = TRUE, owed' = TRUE,
             UNCHANGED <<fatal, conn, expecting, outbound, wire, frontVars,
                         connects, abandoned, excused, blamed>>
      PROVE  Queues'
  <2>1. TypeOK' BY <1>1, <1>4 DEF Queues, TypeOK, frontVars, Requests
  <2> QED BY <1>4, <2>1, SameQueues DEF frontVars
<1> QED BY <1>2, <1>3, <1>4 DEF Settle, SendCredential

LEMMA NextQueues == Queues /\ [Next]_vars => Queues'
<1> SUFFICES ASSUME Queues, [Next]_vars PROVE Queues'
  OBVIOUS
<1>1. CASE Shutdown
  BY <1>1, ResetQueues DEF Shutdown, Queues, TypeOK
<1>2. CASE Keepalive
  <2>1. frames' = frames /\ frames \in Nat
    BY <1>2 DEF Keepalive, Queues, TypeOK
  <2>2. CASE EndTransient(TRUE)
    BY <2>1, <2>2, TransientQueues
  <2>3. ASSUME expecting' = TRUE,
               UNCHANGED <<fatal, conn, handshake, awaiting, task, outbound, wire,
                           asked, welcomed, frontVars, connects, historyVars>>
        PROVE  Queues'
    <3>1. TypeOK' BY <2>1, <2>3 DEF Queues, TypeOK, frontVars, historyVars
    <3> QED BY <2>3, <3>1, SameQueues DEF frontVars
  <2> QED BY <1>2, <2>2, <2>3 DEF Keepalive, WriteFails
<1>3. CASE Deadline
  BY <1>3, FatalQueues DEF Deadline, Queues, TypeOK
<1>4. ASSUME NEW k \in Requests, ProviderDone(k) PROVE Queues'
  <2>1. TypeOK' BY <1>4 DEF ProviderDone, Queues, TypeOK, frontVars, historyVars, Requests
  <2> QED BY <1>4, <2>1, SameQueues DEF ProviderDone, frontVars
<1>5. CASE UNCHANGED vars
  <2>1. TypeOK' BY <1>5 DEF vars, linkVars, frontVars, historyVars, Queues, TypeOK
  <2> QED BY <1>5, <2>1, SameQueues DEF vars, linkVars, frontVars
<1> QED
  BY <1>1, <1>2, <1>3, <1>4, <1>5, ConnectQueues, FrontendQueues, FlushQueues,
     SocketQueues, SettleQueues DEF Next

-----------------------------------------------------------------------------
(* Theorems.                                                               *)

\* On no connection does an application request overtake the first credential.
THEOREM CredentialsFirst == Spec => []CredentialFirst
  BY AlwaysInv, PTL DEF Inv

\* However many connections are tried, one that a peer has left with a credential
\* unanswered is the last: only our own failed writes and missed pongs are retried.
THEOREM VanishedPeersNotPaidAgain == Spec => []RetriesOnlyUnowed
  BY AlwaysInv, PTL DEF Inv

\* The latch that stops all reconnections is never set without a cause: somebody else's
\* doing, or the application's own leaving as an answer comes.
THEOREM FatalEndsExplained == Spec => []FatalHasCause
  BY AlwaysInv, PTL DEF Inv

\* The state stays well typed, over any number of connections.
THEOREM TypeCorrect == Spec => []TypeOK
  BY InitQueues, NextQueues, PTL DEF Spec, Queues

\* Every connection carries what is not answered, each request once and in order: the
\* buffer behind a payment, the socket and the frontend's second issue never mix up.
THEOREM RequestsInOrder == Spec => []RpcOrder
  BY InitQueues, NextQueues, PTL DEF Spec, Queues
===============================================================================
