---------------------- MODULE ChargeVerificationProofs ----------------------
(***************************************************************************)
(* Proofs about ChargeVerification, for any number of calls, transactions, *)
(* encodings, challenges and faults, and every kind of store.              *)
(***************************************************************************)
EXTENDS ChargeVerification, TLAPS

\* What has been shown of a credential whose key is being claimed.
Earned(c) ==
  \/ /\ c.kind \in {"hash", "transaction"}
     /\ c.challenge \notin ZeroAmount
     /\ chain[TxOf(c)] = "success"
     /\ Matches(TxOf(c), c.challenge)
  \/ ProofAdmitted(c)

\* What a suspended call relies on.
JobsAdmitted ==
  \A v \in Verifiers :
    /\ pc[v] = "receipt" => HashAdmitted(cred[v])
    /\ pc[v] \in {"submit", "broadcast"} => TransactionAdmitted(cred[v])
    /\ pc[v] = "access_key" => ProofAdmitted(cred[v])
    /\ pc[v] \in {"claim", "grant"} => Earned(cred[v])

EarnedInv == TypeOK /\ JobsAdmitted /\ ReceiptsEarned

\* The store remembers what is claimed.
Remembers == store # "none" /\ ~forgotten

\* What was sent was reserved, and nothing was sent again.
Reserved ==
  Remembers => /\ \A b \in sent : <<"submission", b>> \in claims
               /\ resent = {}

\* A call that is about to give a receipt is the only one that has claimed its
\* key, and no receipt was given for that key.
GrantsExclusive ==
  /\ \A v \in Verifiers :
       pc[v] = "grant" => /\ ReplayKey(cred[v]) \in claims
                          /\ ~Served(ReplayKey(cred[v]))
  /\ \A v, w \in Verifiers :
       pc[v] = "grant" /\ pc[w] = "grant" /\ ReplayKey(cred[v]) = ReplayKey(cred[w])
         => v = w

PaymentsHold ==
  /\ ClaimsAccounted
  /\ Remembers => GrantsExclusive /\ repeated = {}

-----------------------------------------------------------------------------

\* The keys of a credential are keys, and the two namespaces are disjoint.
LEMMA KeyTypes ==
  ASSUME NEW c \in Credentials
  PROVE  /\ ReplayKey(c) \in ReplayKeys
         /\ c.challenge \in Challenges
         /\ c.kind \in {"hash", "transaction"} =>
              TxOf(c) \in Txs /\ ReplayKey(c) = <<"charge", TxOf(c)>>
         /\ c.kind = "transaction" =>
              /\ Final(c) \in Encodings
              /\ SubmissionKey(c) = <<"submission", Final(c)>>
              /\ SubmissionKey(c) \in Keys
              /\ SubmissionKey(c) \notin ReplayKeys
         /\ c.kind = "proof" =>
              c.body \in Signatures /\ ReplayKey(c) = <<"proof", Canonical[c.body]>>
<1>1. c \in AllCredentials
  BY ChargeAssumption
<1>2. CASE c.kind = "hash"
  BY <1>1, <1>2 DEF AllCredentials, ReplayKey, TxOf, ReplayKeys
<1>3. CASE c.kind = "transaction"
  BY <1>1, <1>3, ChargeAssumption
     DEF AllCredentials, ReplayKey, Final, TxOf, ReplayKeys, SubmissionKey, Keys
<1>4. CASE c.kind = "proof"
  BY <1>1, <1>4, ChargeAssumption DEF AllCredentials, ReplayKey, ReplayKeys
<1> QED
  BY <1>1, <1>2, <1>3, <1>4 DEF AllCredentials

LEMMA GotoStep ==
  ASSUME TypeOK, NEW v \in Verifiers, pc[v] # "idle",
         NEW p \in Phases \ {"idle"}, Goto(v, p)
  PROVE  /\ pc' \in [Verifiers -> Phases]
         /\ cred' \in [Verifiers -> Credentials \cup {NoCredential}]
         /\ \A w \in Verifiers : pc'[w] = "idle" <=> cred'[w] = NoCredential
         /\ pc'[v] = p
         /\ cred' = cred
         /\ cred[v] \in Credentials
         /\ \A w \in Verifiers : w # v => pc'[w] = pc[w]
BY DEF TypeOK, Goto, Phases

LEMMA ReturnStep ==
  ASSUME TypeOK, NEW v \in Verifiers, Return(v)
  PROVE  /\ pc' \in [Verifiers -> Phases]
         /\ cred' \in [Verifiers -> Credentials \cup {NoCredential}]
         /\ \A w \in Verifiers : pc'[w] = "idle" <=> cred'[w] = NoCredential
         /\ pc'[v] = "idle"
         /\ pc[v] # "idle" => cred[v] \in Credentials
         /\ \A w \in Verifiers : w # v => pc'[w] = pc[w] /\ cred'[w] = cred[w]
BY DEF TypeOK, Return, Phases

LEMMA FaultStep ==
  ASSUME TypeOK, NEW k, Fault(k) \/ UNCHANGED faults
  PROVE  faults' \in 0..MaxFaults
BY ChargeAssumption DEF TypeOK, Fault

LEMMA AfterPaymentStep ==
  ASSUME NEW v, AfterPayment(v)
  PROVE  \E p \in {"grant", "claim"} : Goto(v, p) /\ (p = "grant" <=> store = "none")
BY DEF AfterPayment

\* A step of a call ends it or suspends it somewhere else.
LEMMA MoveStep ==
  ASSUME TypeOK, NEW v \in Verifiers, pc[v] # "idle",
         Return(v) \/ AfterPayment(v) \/ \E p \in Phases \ {"idle"} : Goto(v, p)
  PROVE  /\ pc' \in [Verifiers -> Phases]
         /\ cred' \in [Verifiers -> Credentials \cup {NoCredential}]
         /\ \A w \in Verifiers : pc'[w] = "idle" <=> cred'[w] = NoCredential
         /\ cred[v] \in Credentials
         /\ pc'[v] # "idle" => cred'[v] = cred[v]
         /\ \A w \in Verifiers : w # v => pc'[w] = pc[w] /\ cred'[w] = cred[w]
<1>1. CASE Return(v)
  BY <1>1, ReturnStep
<1>2. ASSUME NEW p \in Phases \ {"idle"}, Goto(v, p)
      PROVE  /\ pc' \in [Verifiers -> Phases]
             /\ cred' \in [Verifiers -> Credentials \cup {NoCredential}]
             /\ \A w \in Verifiers : pc'[w] = "idle" <=> cred'[w] = NoCredential
             /\ cred[v] \in Credentials
             /\ pc'[v] # "idle" => cred'[v] = cred[v]
             /\ \A w \in Verifiers : w # v => pc'[w] = pc[w] /\ cred'[w] = cred[w]
  BY <1>2, GotoStep
<1>3. CASE AfterPayment(v)
  BY <1>2, <1>3, AfterPaymentStep DEF Phases
<1> QED
  BY <1>1, <1>2, <1>3

\* Every step of verify moves its call.
LEMMA VerifyMoves ==
  ASSUME TypeOK, NEW v \in Verifiers, Verify(v)
  PROVE  /\ pc[v] # "idle"
         /\ Return(v) \/ AfterPayment(v) \/ \E p \in Phases \ {"idle"} : Goto(v, p)
         /\ UNCHANGED <<chain, store, forgotten>>
<1>1. CASE ChainId(v)
  BY <1>1 DEF ChainId, Phases
<1>2. CASE FetchReceipt(v) \/ FetchReceiptFails(v) \/ AccessKey(v) \/ Broadcast(v)
  BY <1>2 DEF FetchReceipt, FetchReceiptFails, AccessKey, Broadcast
<1>3. CASE Submit(v)
  BY <1>3 DEF Submit, Phases
<1>4. CASE Claim(v) \/ ClaimFails(v) \/ Grant(v)
  BY <1>4 DEF Claim, ClaimFails, Grant, Phases
<1> QED
  BY <1>1, <1>2, <1>3, <1>4 DEF Verify

LEMMA SendStep ==
  ASSUME TypeOK, NEW v \in Verifiers, cred[v] \in Credentials,
         cred[v].kind = "transaction", Send(v)
  PROVE  sent' \in SUBSET Encodings /\ resent' \in SUBSET Encodings
BY KeyTypes DEF Send, TypeOK

-----------------------------------------------------------------------------
\* Types.

\* What is left of the types when a call moves.
LEMMA VerifyTypes ==
  ASSUME TypeOK, JobsAdmitted, NEW v \in Verifiers, Verify(v)
  PROVE  TypeOK'
<1>1. /\ pc[v] # "idle"
      /\ UNCHANGED <<chain, store, forgotten>>
      /\ pc' \in [Verifiers -> Phases]
      /\ cred' \in [Verifiers -> Credentials \cup {NoCredential}]
      /\ \A w \in Verifiers : pc'[w] = "idle" <=> cred'[w] = NoCredential
      /\ cred[v] \in Credentials
  BY VerifyMoves, MoveStep
<1>2. /\ ReplayKey(cred[v]) \in ReplayKeys
      /\ cred[v].challenge \in Challenges
      /\ ReplayKeys \subseteq Keys
  BY <1>1, KeyTypes DEF Keys
<1>3. CASE ChainId(v)
  <2>1. faults' \in 0..MaxFaults
    BY <1>3, FaultStep DEF ChainId
  <2>2. sent' \in SUBSET Encodings /\ resent' \in SUBSET Encodings
    BY <1>1, <1>3, SendStep DEF ChainId, TransactionAdmitted, TypeOK
  <2>3. cached_chain_id' \in BOOLEAN
    BY <1>3 DEF ChainId, TypeOK
  <2> QED
    BY <1>1, <1>3, <2>1, <2>2, <2>3 DEF ChainId, TypeOK
<1>4. CASE FetchReceipt(v) \/ FetchReceiptFails(v) \/ AccessKey(v) \/ Broadcast(v)
  <2>1. faults' \in 0..MaxFaults
    BY <1>4, FaultStep DEF FetchReceipt, FetchReceiptFails, AccessKey, Broadcast
  <2> QED
    BY <1>1, <1>4, <2>1 DEF FetchReceipt, FetchReceiptFails, AccessKey, Broadcast, TypeOK
<1>5. CASE Submit(v)
  <2>1. cred[v].kind = "transaction"
    BY <1>5 DEF Submit, JobsAdmitted, TransactionAdmitted
  <2>2. faults' \in 0..MaxFaults
    BY <1>5, FaultStep DEF Submit
  <2>3. sent' \in SUBSET Encodings /\ resent' \in SUBSET Encodings
    BY <1>1, <1>5, <2>1, SendStep DEF Submit, TypeOK
  <2>4. claims' \in SUBSET Keys
    BY <1>1, <1>5, <2>1, KeyTypes DEF Submit, TypeOK
  <2> QED
    BY <1>1, <1>5, <2>2, <2>3, <2>4 DEF Submit, TypeOK
<1>6. CASE Claim(v) \/ ClaimFails(v)
  <2>1. faults' \in 0..MaxFaults
    BY <1>6, FaultStep DEF Claim, ClaimFails
  <2> QED
    BY <1>1, <1>2, <1>6, <2>1 DEF Claim, ClaimFails, TypeOK
<1>7. CASE Grant(v)
  BY <1>1, <1>2, <1>7 DEF Grant, TypeOK
<1> QED
  BY <1>3, <1>4, <1>5, <1>6, <1>7 DEF Verify

LEMMA UnansweredTypes ==
  ASSUME TypeOK, NEW V \in SUBSET Verifiers
  PROVE  Unanswered(V) \in SUBSET ReplayKeys
BY KeyTypes DEF Unanswered, TypeOK

LEMMA OtherTypes ==
  ASSUME TypeOK,
         \/ \E t \in Txs : Mine(t)
         \/ \E v \in Verifiers : Present(v) \/ Cancel(v)
         \/ Crash
         \/ UNCHANGED vars
  PROVE  TypeOK'
<1>1. ASSUME NEW t \in Txs, Mine(t)
      PROVE  TypeOK'
  BY <1>1 DEF Mine, TypeOK
<1>2. ASSUME NEW v \in Verifiers, Present(v)
      PROVE  TypeOK'
  <2>1. \A c \in Credentials : c # NoCredential
    BY ChargeAssumption
  <2> QED
    BY <1>2, <2>1 DEF Present, Offer, TypeOK, Phases
<1>3. ASSUME NEW v \in Verifiers, Cancel(v)
      PROVE  TypeOK'
  <2>1. faults' \in 0..MaxFaults
    BY <1>3, FaultStep DEF Cancel
  <2>2. lost' \in SUBSET ReplayKeys
    BY <1>3, UnansweredTypes DEF Cancel, TypeOK
  <2> QED
    BY <1>3, <2>1, <2>2, ReturnStep DEF Cancel, TypeOK
<1>4. CASE Crash
  <2>1. faults' \in 0..MaxFaults
    BY <1>4, FaultStep DEF Crash
  <2>2. lost' \in SUBSET ReplayKeys
    BY <1>4, UnansweredTypes DEF Crash, TypeOK
  <2>3. claims' \in SUBSET Keys /\ forgotten' \in BOOLEAN
    BY <1>4 DEF Crash, TypeOK
  <2> QED
    BY <1>4, <2>1, <2>2, <2>3 DEF Crash, TypeOK, Phases
<1>5. CASE UNCHANGED vars
  BY <1>5 DEF vars, TypeOK
<1> QED
  BY <1>1, <1>2, <1>3, <1>4, <1>5

-----------------------------------------------------------------------------
\* Receipts are earned.

\* What a credential has shown stays shown.
LEMMA EarnedStays ==
  ASSUME NEW c \in Credentials, Earned(c),
         \A t \in Txs : chain[t] = "success" => chain'[t] = "success"
  PROVE  Earned(c)'
BY KeyTypes DEF Earned

LEMMA VerifyJobs ==
  ASSUME TypeOK, JobsAdmitted, NEW v \in Verifiers, Verify(v)
  PROVE  JobsAdmitted'
<1>1. /\ pc[v] # "idle"
      /\ chain' = chain
      /\ pc' \in [Verifiers -> Phases]
      /\ pc'[v] # "idle" => cred'[v] = cred[v]
      /\ cred[v] \in Credentials
      /\ \A w \in Verifiers : w # v => pc'[w] = pc[w] /\ cred'[w] = cred[w]
  BY VerifyMoves, MoveStep
<1>2. \A c \in Credentials : Earned(c) <=> Earned(c)'
  BY <1>1 DEF Earned
<1>3. ASSUME AfterPayment(v)
      PROVE  pc'[v] \in {"claim", "grant"}
  BY <1>3 DEF AfterPayment, Goto, TypeOK
<1>4. ASSUME NEW p \in Phases, Goto(v, p)
      PROVE  pc'[v] = p
  BY <1>4 DEF Goto, TypeOK
<1>5. ASSUME Return(v)
      PROVE  pc'[v] = "idle"
  BY <1>5 DEF Return, TypeOK
<1>6. /\ pc'[v] = "receipt" => HashAdmitted(cred[v])
      /\ pc'[v] \in {"submit", "broadcast"} => TransactionAdmitted(cred[v])
      /\ pc'[v] = "access_key" => ProofAdmitted(cred[v])
      /\ pc'[v] \in {"claim", "grant"} => Earned(cred[v])
  <2>1. CASE ChainId(v)
    <3>1. CASE HashAdmitted(cred[v]) /\ Goto(v, "receipt")
      BY <3>1, <1>4 DEF Phases
    <3>2. CASE TransactionAdmitted(cred[v]) /\ (Goto(v, "broadcast") \/ Goto(v, "submit"))
      BY <3>2, <1>4 DEF Phases
    <3>3. CASE ProofAdmitted(cred[v]) /\ (Goto(v, "access_key") \/ AfterPayment(v))
      BY <3>3, <1>3, <1>4 DEF Phases, Earned
    <3>4. CASE Return(v)
      BY <3>4, <1>5
    <3> QED
      BY <2>1, <3>1, <3>2, <3>3, <3>4 DEF ChainId
  <2>2. CASE FetchReceipt(v)
    <3>1. HashAdmitted(cred[v])
      BY <2>2 DEF FetchReceipt, JobsAdmitted
    <3>2. Earned(cred[v])
      BY <2>2, <3>1 DEF FetchReceipt, Earned, HashAdmitted
    <3> QED
      BY <2>2, <3>2, <1>3 DEF FetchReceipt
  <2>3. CASE FetchReceiptFails(v) \/ ClaimFails(v) \/ Grant(v)
    BY <2>3, <1>5 DEF FetchReceiptFails, ClaimFails, Grant
  <2>4. CASE Submit(v)
    <3>1. TransactionAdmitted(cred[v])
      BY <2>4 DEF Submit, JobsAdmitted
    <3> QED
      BY <2>4, <3>1, <1>4, <1>5 DEF Submit, Phases
  <2>5. CASE Broadcast(v)
    <3>1. TransactionAdmitted(cred[v])
      BY <2>5 DEF Broadcast, JobsAdmitted
    <3>2. CASE Return(v)
      BY <3>2, <1>5
    <3>3. CASE /\ chain[TxOf(cred[v])] = "success"
               /\ Matches(TxOf(cred[v]), cred[v].challenge)
               /\ AfterPayment(v)
      BY <3>1, <3>3, <1>3 DEF Earned, TransactionAdmitted
    <3> QED
      BY <2>5, <3>2, <3>3 DEF Broadcast
  <2>6. CASE AccessKey(v)
    <3>1. Earned(cred[v])
      BY <2>6 DEF AccessKey, JobsAdmitted, Earned
    <3> QED
      BY <2>6, <3>1, <1>3, <1>5 DEF AccessKey
  <2>7. CASE Claim(v)
    <3>1. Earned(cred[v])
      BY <2>7 DEF Claim, JobsAdmitted
    <3> QED
      BY <2>7, <3>1, <1>4, <1>5 DEF Claim, Phases
  <2> QED
    BY <2>1, <2>2, <2>3, <2>4, <2>5, <2>6, <2>7 DEF Verify
<1>7. SUFFICES ASSUME NEW w \in Verifiers
      PROVE  /\ pc'[w] = "receipt" => HashAdmitted(cred'[w])
             /\ pc'[w] \in {"submit", "broadcast"} => TransactionAdmitted(cred'[w])
             /\ pc'[w] = "access_key" => ProofAdmitted(cred'[w])
             /\ pc'[w] \in {"claim", "grant"} => Earned(cred[w])'
  BY DEF JobsAdmitted, HashAdmitted, TransactionAdmitted, ProofAdmitted
<1>8. CASE w = v
  <2>1. CASE pc'[v] = "idle"
    BY <1>8, <2>1
  <2>2. CASE pc'[v] # "idle"
    <3>1. Earned(cred[v]) => Earned(cred[v])'
      BY <1>1, <2>2 DEF Earned
    <3> QED
      BY <1>1, <1>6, <1>8, <2>2, <3>1
  <2> QED
    BY <2>1, <2>2
<1>9. CASE w # v
  <2>1. Earned(cred[w]) => Earned(cred[w])'
    BY <1>1, <1>9 DEF Earned
  <2> QED
    BY <1>1, <1>9, <2>1 DEF JobsAdmitted
<1> QED
  BY <1>8, <1>9

\* A receipt is given for what its credential has shown.
LEMMA GrantEarned ==
  ASSUME TypeOK, JobsAdmitted, ReceiptsEarned, NEW v \in Verifiers, Grant(v)
  PROVE  ReceiptsEarned'
<1> DEFINE c == cred[v]
           EarnedBy(k, ch) ==
             \/ /\ k[1] = "charge"
                /\ ch \notin ZeroAmount
                /\ chain[k[2]] = "success"
                /\ <<k[2], ch>> \in Pays
                /\ ch \in FixedMemo \/ <<k[2], ch>> \in BoundTo
             \/ /\ k[1] = "proof"
                /\ ch \in ZeroAmount
                /\ \E s \in Signatures : Canonical[s] = k[2] /\ <<s, ch>> \in SignedFor
<1>1. c \in Credentials /\ Earned(c)
  BY DEF Grant, TypeOK, JobsAdmitted
<1>2. receipts' = receipts \cup {<<ReplayKey(c), c.challenge>>} /\ chain' = chain
  BY DEF Grant
<1>3. ASSUME c.kind \in {"hash", "transaction"}
      PROVE  EarnedBy(ReplayKey(c), c.challenge)
  <2>1. ReplayKey(c) = <<"charge", TxOf(c)>>
    BY <1>1, <1>3, KeyTypes
  <2>2. /\ c.challenge \notin ZeroAmount
        /\ chain[TxOf(c)] = "success"
        /\ Matches(TxOf(c), c.challenge)
    BY <1>1, <1>3 DEF Earned, ProofAdmitted
  <2> QED
    BY <2>1, <2>2 DEF Matches
<1>4. ASSUME c.kind = "proof"
      PROVE  EarnedBy(ReplayKey(c), c.challenge)
  <2>1. ReplayKey(c) = <<"proof", Canonical[c.body]>> /\ c.body \in Signatures
    BY <1>1, <1>4, KeyTypes
  <2>2. c.challenge \in ZeroAmount /\ <<c.body, c.challenge>> \in SignedFor
    BY <1>1, <1>4 DEF Earned, ProofAdmitted
  <2> QED
    BY <2>1, <2>2
<1>5. EarnedBy(ReplayKey(c), c.challenge)
  BY <1>1, <1>3, <1>4 DEF Earned, ProofAdmitted
<1>6. \A r \in receipts : EarnedBy(r[1], r[2])
  BY DEF ReceiptsEarned
<1>7. \A r \in receipts' : EarnedBy(r[1], r[2])
  <2> HIDE DEF EarnedBy
  <2> QED
    BY <1>2, <1>5, <1>6
<1> QED
  BY <1>2, <1>7 DEF ReceiptsEarned

LEMMA EarnedInductive ==
  ASSUME EarnedInv, [Next]_vars
  PROVE  EarnedInv'
<1>1. TypeOK /\ JobsAdmitted /\ ReceiptsEarned
  BY DEF EarnedInv
<1>2. ASSUME NEW v \in Verifiers, Verify(v)
      PROVE  EarnedInv'
  <2>1. TypeOK' /\ JobsAdmitted'
    BY <1>1, <1>2, VerifyTypes, VerifyJobs
  <2>2. CASE Grant(v)
    BY <1>1, <2>1, <2>2, GrantEarned DEF EarnedInv
  <2>3. CASE ~Grant(v)
    <3>1. UNCHANGED <<receipts, chain>>
      BY <1>2, <2>3 DEF Verify, ChainId, FetchReceipt, FetchReceiptFails, Submit,
                        Broadcast, AccessKey, Claim, ClaimFails
    <3> QED
      BY <1>1, <2>1, <3>1 DEF EarnedInv, ReceiptsEarned
  <2> QED
    BY <2>2, <2>3
<1>3. ASSUME \/ \E t \in Txs : Mine(t)
             \/ \E v \in Verifiers : Present(v) \/ Cancel(v)
             \/ Crash
             \/ UNCHANGED vars
      PROVE  EarnedInv'
  <2>1. TypeOK'
    BY <1>1, <1>3, OtherTypes
  <2>2. /\ receipts' = receipts
        /\ \A t \in Txs : chain[t] = "success" => chain'[t] = "success"
    BY <1>1, <1>3 DEF Mine, Present, Offer, Cancel, Crash, vars, TypeOK
  <2>3. ReceiptsEarned'
    <3>1. \A r \in receipts : r[1][1] = "charge" => r[1][2] \in Txs
      BY <1>1 DEF TypeOK, ReplayKeys
    <3> QED
      BY <1>1, <2>2, <3>1 DEF ReceiptsEarned
  <2>4. \A w \in Verifiers :
          pc'[w] \notin {"idle", "chain_id"} => pc'[w] = pc[w] /\ cred'[w] = cred[w]
    BY <1>1, <1>3 DEF Mine, Present, Offer, Cancel, Crash, vars, TypeOK, Return
  <2>5. JobsAdmitted'
    <3>1. SUFFICES ASSUME NEW w \in Verifiers, pc'[w] \notin {"idle", "chain_id"}
          PROVE  /\ pc'[w] = "receipt" => HashAdmitted(cred'[w])
                 /\ pc'[w] \in {"submit", "broadcast"} => TransactionAdmitted(cred'[w])
                 /\ pc'[w] = "access_key" => ProofAdmitted(cred'[w])
                 /\ pc'[w] \in {"claim", "grant"} => Earned(cred[w])'
      BY DEF JobsAdmitted, HashAdmitted, TransactionAdmitted, ProofAdmitted
    <3>2. cred[w] \in Credentials /\ cred'[w] = cred[w] /\ pc'[w] = pc[w]
      BY <1>1, <2>4, <3>1 DEF TypeOK
    <3>3. Earned(cred[w]) => Earned(cred[w])'
      BY <2>2, <3>2, KeyTypes DEF Earned
    <3> QED
      BY <1>1, <3>2, <3>3 DEF JobsAdmitted
  <2> QED
    BY <2>1, <2>3, <2>5 DEF EarnedInv
<1> QED
  BY <1>2, <1>3 DEF Next

LEMMA EarnedAtInit == Init => EarnedInv
<1> SUFFICES ASSUME Init
             PROVE  EarnedInv
  OBVIOUS
<1>1. faults \in 0..MaxFaults
  BY ChargeAssumption DEF Init
<1>2. TypeOK
  BY <1>1 DEF Init, TypeOK, Phases
<1>3. JobsAdmitted /\ ReceiptsEarned
  BY DEF Init, JobsAdmitted, ReceiptsEarned
<1> QED
  BY <1>2, <1>3 DEF EarnedInv

\* No interleaving of verifications, faults and blocks leaves the types.
THEOREM TypeCorrect == Spec => []TypeOK
<1>1. EarnedInv => TypeOK
  BY DEF EarnedInv
<1> QED
  BY <1>1, EarnedAtInit, EarnedInductive, PTL DEF Spec

\* Whatever is presented, and with or without a store, a receipt is only given
\* for a mined transaction that pays its challenge or for a valid proof.
THEOREM OnlyEarnedReceipts == Spec => []ReceiptsEarned
<1>1. EarnedInv => ReceiptsEarned
  BY DEF EarnedInv
<1> QED
  BY <1>1, EarnedAtInit, EarnedInductive, PTL DEF Spec

-----------------------------------------------------------------------------
\* One broadcast for the same bytes.

LEMMA ReservedInductive ==
  ASSUME EarnedInv, Reserved, [Next]_vars
  PROVE  Reserved'
<1>1. TypeOK /\ JobsAdmitted
  BY DEF EarnedInv
<1>2. ASSUME Remembers' => Remembers, UNCHANGED <<sent, resent>>,
             Remembers' => claims \subseteq claims'
      PROVE  Reserved'
  BY <1>2 DEF Reserved
<1>3. ASSUME NEW v \in Verifiers, Verify(v)
      PROVE  Reserved'
  <2>1. Remembers' <=> Remembers
    BY <1>1, <1>3, VerifyMoves DEF Remembers
  <2>2. CASE ChainId(v)
    <3>1. CASE store = "none"
      BY <2>1, <3>1 DEF Remembers, Reserved
    <3>2. CASE store # "none"
      <4>1. UNCHANGED <<sent, resent, claims>>
        BY <2>2, <3>2 DEF ChainId
      <4> QED
        BY <1>2, <2>1, <4>1
    <3> QED
      BY <3>1, <3>2
  <2>3. CASE Submit(v)
    <3> DEFINE b == Final(cred[v])
    <3>1. SubmissionKey(cred[v]) = <<"submission", b>>
      BY DEF SubmissionKey
    <3>2. CASE /\ SubmissionKey(cred[v]) \notin claims
               /\ claims' = claims \cup {SubmissionKey(cred[v])}
               /\ Send(v)
      <4>1. sent' = sent \cup {b}
        BY <3>2 DEF Send
      <4>2. Remembers => b \notin sent /\ resent = {}
        BY <3>1, <3>2 DEF Reserved
      <4>3. Remembers => resent' = {}
        BY <3>2, <4>2 DEF Send
      <4> QED
        BY <2>1, <3>1, <3>2, <4>1, <4>3 DEF Reserved
    <3>3. CASE UNCHANGED <<sent, resent>> /\ claims \subseteq claims'
      BY <1>2, <2>1, <3>3
    <3> QED
      BY <2>3, <3>2, <3>3 DEF Submit
  <2>4. CASE ~ChainId(v) /\ ~Submit(v)
    <3>1. UNCHANGED <<sent, resent>> /\ claims \subseteq claims'
      BY <1>3, <2>4 DEF Verify, FetchReceipt, FetchReceiptFails, Broadcast,
                        AccessKey, Claim, ClaimFails, Grant
    <3> QED
      BY <1>2, <2>1, <3>1
  <2> QED
    BY <2>2, <2>3, <2>4
<1>4. CASE Crash
  <2>1. /\ Remembers' => Remembers /\ claims' = claims
        /\ UNCHANGED <<sent, resent>>
    BY <1>4 DEF Crash, Remembers
  <2> QED
    BY <1>2, <2>1
<1>5. CASE \/ \E t \in Txs : Mine(t)
           \/ \E v \in Verifiers : Present(v) \/ Cancel(v)
           \/ UNCHANGED vars
  <2>1. UNCHANGED <<store, forgotten, sent, resent, claims>>
    BY <1>5 DEF Mine, Present, Offer, Cancel, vars
  <2> QED
    BY <1>2, <2>1 DEF Remembers
<1> QED
  BY <1>3, <1>4, <1>5 DEF Next

\* The same bytes are broadcast once, however often and by whomever they are
\* presented.
THEOREM OneBroadcast == Spec => []BroadcastOnce
<1>1. Init => Reserved
  BY DEF Init, Reserved
<1>2. EarnedInv /\ Reserved => BroadcastOnce
  BY DEF Reserved, Remembers, BroadcastOnce
<1> QED
  BY <1>1, <1>2, EarnedAtInit, EarnedInductive, ReservedInductive, PTL DEF Spec

-----------------------------------------------------------------------------
\* One receipt for the same payment.

\* A step that gives no receipt and no new right to one.
LEMMA QuietPayments ==
  ASSUME TypeOK, PaymentsHold,
         Remembers' =>
           /\ Remembers
           /\ UNCHANGED <<receipts, repeated>>
           /\ claims \subseteq claims'
           /\ claims' \cap ReplayKeys \subseteq claims \cup lost'
           /\ lost \subseteq lost'
           /\ \A w \in Verifiers :
                /\ pc'[w] = "grant" => pc[w] = "grant" /\ cred'[w] = cred[w]
                /\ pc[w] = "grant" =>
                     \/ pc'[w] = "grant" /\ cred'[w] = cred[w]
                     \/ ReplayKey(cred[w]) \in lost'
  PROVE  PaymentsHold'
<1> SUFFICES ASSUME Remembers'
             PROVE  PaymentsHold'
  BY DEF PaymentsHold, ClaimsAccounted, Remembers
<1>1. Remembers /\ ClaimsAccounted /\ GrantsExclusive /\ repeated = {}
  BY DEF PaymentsHold
<1>2. ASSUME NEW w \in Verifiers, pc'[w] = "grant"
      PROVE  /\ pc[w] = "grant"
             /\ ReplayKey(cred[w])' = ReplayKey(cred[w])
  BY <1>2 DEF ReplayKey, TxOf
<1>3. \A k : Served(k)' <=> Served(k)
  BY DEF Served
<1>4. GrantsExclusive'
  <2>1. ASSUME NEW v \in Verifiers, pc'[v] = "grant"
        PROVE  ReplayKey(cred[v])' \in claims' /\ ~Served(ReplayKey(cred[v]))'
    <3>1. ReplayKey(cred[v]) \in claims /\ ~Served(ReplayKey(cred[v]))
      BY <1>1, <1>2, <2>1 DEF GrantsExclusive
    <3>2. Served(ReplayKey(cred[v]))' <=> Served(ReplayKey(cred[v]))
      BY <1>2, <2>1 DEF Served
    <3> QED
      BY <1>2, <2>1, <3>1, <3>2
  <2>2. ASSUME NEW v \in Verifiers, NEW w \in Verifiers,
               pc'[v] = "grant", pc'[w] = "grant",
               ReplayKey(cred[v])' = ReplayKey(cred[w])'
        PROVE  v = w
    BY <1>1, <1>2, <2>2 DEF GrantsExclusive
  <2> QED
    BY <2>1, <2>2 DEF GrantsExclusive
<1>5. ClaimsAccounted'
  <2> SUFFICES ASSUME NEW k \in ReplayKeys
               PROVE  /\ Served(k)' => k \in claims'
                      /\ k \in claims' =>
                           Served(k)' \/ k \in Unanswered(Verifiers)' \/ k \in lost'
    BY DEF ClaimsAccounted
  <2>1. /\ Served(k) => k \in claims
        /\ k \in claims => Served(k) \/ k \in Unanswered(Verifiers) \/ k \in lost
    BY <1>1 DEF ClaimsAccounted, Remembers
  <2>2. k \in Unanswered(Verifiers) => k \in Unanswered(Verifiers)' \/ k \in lost'
    <3> SUFFICES ASSUME NEW w \in Verifiers, pc[w] = "grant", k = ReplayKey(cred[w])
                 PROVE  k \in Unanswered(Verifiers)' \/ k \in lost'
      BY DEF Unanswered
    <3>1. CASE ReplayKey(cred[w]) \in lost'
      BY <3>1
    <3>2. CASE pc'[w] = "grant"
      BY <1>2, <3>2 DEF Unanswered
    <3> QED
      BY <3>1, <3>2
  <2> QED
    BY <1>3, <2>1, <2>2
<1> QED
  BY <1>1, <1>4, <1>5 DEF PaymentsHold

\* The claim that gets the key is the only one that has it.
LEMMA ClaimPayments ==
  ASSUME EarnedInv, PaymentsHold, NEW v \in Verifiers, pc[v] = "claim",
         ReplayKey(cred[v]) \notin claims,
         claims' = claims \cup {ReplayKey(cred[v])}, Goto(v, "grant"),
         UNCHANGED <<store, receipts, repeated, lost, forgotten>>
  PROVE  PaymentsHold'
<1> DEFINE k == ReplayKey(cred[v])
<1>0. TypeOK
  BY DEF EarnedInv
<1> SUFFICES ASSUME Remembers'
             PROVE  PaymentsHold'
  BY DEF PaymentsHold, ClaimsAccounted, Remembers
<1>1. Remembers /\ ClaimsAccounted /\ GrantsExclusive /\ repeated = {}
  BY DEF PaymentsHold, Remembers
<1>2. /\ pc'[v] = "grant"
      /\ cred' = cred
      /\ cred[v] \in Credentials
      /\ \A w \in Verifiers : w # v => pc'[w] = pc[w]
  BY <1>0, GotoStep DEF Phases
<1>3. k \in ReplayKeys
  BY <1>2, KeyTypes
<1>4. /\ \A w \in Verifiers : ReplayKey(cred[w])' = ReplayKey(cred[w])
      /\ \A j : Served(j)' <=> Served(j)
  BY <1>2 DEF ReplayKey, TxOf, Served
<1>5. ~Served(k)
  BY <1>1, <1>3 DEF ClaimsAccounted, Remembers
<1>6. GrantsExclusive'
  <2>1. ASSUME NEW w \in Verifiers, pc'[w] = "grant"
        PROVE  ReplayKey(cred[w]) \in claims' /\ ~Served(ReplayKey(cred[w]))
    BY <1>1, <1>2, <1>5, <2>1 DEF GrantsExclusive
  <2>2. ASSUME NEW w \in Verifiers, pc'[w] = "grant", w # v
        PROVE  ReplayKey(cred[w]) # k
    BY <1>1, <1>2, <2>2 DEF GrantsExclusive
  <2>3. ASSUME NEW w \in Verifiers, pc'[w] = "grant"
        PROVE  ReplayKey(cred[w])' \in claims' /\ ~Served(ReplayKey(cred[w]))'
    <3>1. Served(ReplayKey(cred[w]))' <=> Served(ReplayKey(cred[w]))
      BY <1>4 DEF Served
    <3> QED
      BY <1>4, <2>1, <2>3, <3>1
  <2>4. ASSUME NEW x \in Verifiers, NEW w \in Verifiers,
               pc'[x] = "grant", pc'[w] = "grant",
               ReplayKey(cred[x]) = ReplayKey(cred[w])
        PROVE  x = w
    BY <1>1, <1>2, <2>2, <2>4 DEF GrantsExclusive
  <2> QED
    BY <1>4, <2>3, <2>4 DEF GrantsExclusive
<1>7. ClaimsAccounted'
  <2> SUFFICES ASSUME NEW j \in ReplayKeys
               PROVE  /\ Served(j)' => j \in claims'
                      /\ j \in claims' =>
                           Served(j)' \/ j \in Unanswered(Verifiers)' \/ j \in lost'
    BY DEF ClaimsAccounted
  <2>1. /\ Served(j) => j \in claims
        /\ j \in claims => Served(j) \/ j \in Unanswered(Verifiers) \/ j \in lost
    BY <1>1 DEF ClaimsAccounted, Remembers
  <2>2. k \in Unanswered(Verifiers)'
    BY <1>2, <1>4 DEF Unanswered
  <2>3. j \in Unanswered(Verifiers) => j \in Unanswered(Verifiers)'
    BY <1>2, <1>4 DEF Unanswered
  <2> QED
    BY <1>4, <2>1, <2>2, <2>3
<1> QED
  BY <1>1, <1>6, <1>7 DEF PaymentsHold

\* The receipt for a claimed key is the first one.
LEMMA GrantPayments ==
  ASSUME EarnedInv, PaymentsHold, NEW v \in Verifiers, Grant(v)
  PROVE  PaymentsHold'
<1> DEFINE k == ReplayKey(cred[v])
<1>0. TypeOK
  BY DEF EarnedInv
<1> SUFFICES ASSUME Remembers'
             PROVE  PaymentsHold'
  BY DEF PaymentsHold, ClaimsAccounted, Remembers
<1>1. Remembers /\ ClaimsAccounted /\ GrantsExclusive /\ repeated = {}
  BY DEF PaymentsHold, Remembers, Grant
<1>2. /\ pc[v] = "grant"
      /\ pc'[v] = "idle"
      /\ \A w \in Verifiers : w # v => pc'[w] = pc[w] /\ cred'[w] = cred[w]
      /\ UNCHANGED <<claims, lost>>
  BY <1>0, ReturnStep DEF Grant
<1>3. k \in claims /\ ~Served(k)
  BY <1>1, <1>2 DEF GrantsExclusive
<1>4. repeated' = {}
  BY <1>1, <1>3 DEF Grant, Served
<1>5. ASSUME NEW j
      PROVE  Served(j)' <=> Served(j) \/ j = k
  <2> DEFINE r == <<k, cred[v].challenge>>
  <2>1. receipts' = receipts \cup {r}
    BY DEF Grant
  <2>2. r[1] = k
    OBVIOUS
  <2> HIDE DEF r
  <2>3. (\E q \in receipts' : q[1] = j) <=> (\E q \in receipts : q[1] = j) \/ j = k
    BY <2>1, <2>2
  <2> QED
    BY <2>3 DEF Served
<1>6. \A w \in Verifiers : pc'[w] = "grant" => /\ w # v
                                               /\ pc[w] = "grant"
                                               /\ ReplayKey(cred[w])' = ReplayKey(cred[w])
                                               /\ ReplayKey(cred[w]) # k
  BY <1>1, <1>2 DEF GrantsExclusive, ReplayKey, TxOf
<1>7. GrantsExclusive'
  <2>1. ASSUME NEW w \in Verifiers, pc'[w] = "grant"
        PROVE  ReplayKey(cred[w])' \in claims' /\ ~Served(ReplayKey(cred[w]))'
    <3>1. ReplayKey(cred[w]) \in claims /\ ~Served(ReplayKey(cred[w]))
      BY <1>1, <1>6, <2>1 DEF GrantsExclusive
    <3>2. Served(ReplayKey(cred[w]))' <=> Served(ReplayKey(cred[w])) \/ ReplayKey(cred[w]) = k
      BY <1>5, <1>6, <2>1 DEF Served
    <3> QED
      BY <1>2, <1>6, <2>1, <3>1, <3>2
  <2> QED
    BY <1>1, <1>6, <2>1 DEF GrantsExclusive
<1>8. ClaimsAccounted'
  <2> SUFFICES ASSUME NEW j \in ReplayKeys
               PROVE  /\ Served(j)' => j \in claims'
                      /\ j \in claims' =>
                           Served(j)' \/ j \in Unanswered(Verifiers)' \/ j \in lost'
    BY DEF ClaimsAccounted
  <2>1. /\ Served(j) => j \in claims
        /\ j \in claims => Served(j) \/ j \in Unanswered(Verifiers) \/ j \in lost
    BY <1>1 DEF ClaimsAccounted, Remembers
  <2>2. j \in Unanswered(Verifiers) => j \in Unanswered(Verifiers)' \/ j = k
    <3> SUFFICES ASSUME NEW w \in Verifiers, pc[w] = "grant", j = ReplayKey(cred[w]),
                        w # v
                 PROVE  j \in Unanswered(Verifiers)'
      BY DEF Unanswered
    <3>1. pc'[w] = "grant"
      BY <1>2
    <3> QED
      BY <1>6, <3>1 DEF Unanswered
  <2> QED
    BY <1>2, <1>3, <1>5, <2>1, <2>2
<1> QED
  BY <1>4, <1>7, <1>8 DEF PaymentsHold

LEMMA VerifyPayments ==
  ASSUME EarnedInv, PaymentsHold, NEW v \in Verifiers, Verify(v)
  PROVE  PaymentsHold'
<1>0. TypeOK /\ JobsAdmitted
  BY DEF EarnedInv
<1>1. /\ pc[v] # "idle"
      /\ Remembers' <=> Remembers
      /\ cred[v] \in Credentials
      /\ pc'[v] # "idle" => cred'[v] = cred[v]
      /\ \A w \in Verifiers : w # v => pc'[w] = pc[w] /\ cred'[w] = cred[w]
  BY <1>0, VerifyMoves, MoveStep DEF Remembers
<1>2. CASE Grant(v)
  BY <1>2, GrantPayments
<1>3. CASE /\ pc[v] = "claim"
           /\ ReplayKey(cred[v]) \notin claims
           /\ claims' = claims \cup {ReplayKey(cred[v])}
           /\ Goto(v, "grant")
           /\ UNCHANGED <<store, receipts, repeated, lost, forgotten>>
  BY <1>3, ClaimPayments
<1>4. ASSUME pc[v] # "grant",
             Remembers => pc'[v] # "grant",
             UNCHANGED <<receipts, repeated>>,
             claims \subseteq claims',
             claims' \cap ReplayKeys \subseteq claims \cup lost',
             lost \subseteq lost'
      PROVE  PaymentsHold'
  BY <1>0, <1>1, <1>4, QuietPayments
<1>5. ASSUME AfterPayment(v)
      PROVE  Remembers => pc'[v] # "grant"
  BY <1>0, <1>5 DEF AfterPayment, Goto, Remembers, TypeOK
<1>6. ASSUME NEW p \in Phases, Goto(v, p)
      PROVE  pc'[v] = p
  BY <1>0, <1>6 DEF Goto, TypeOK
<1>7. ASSUME Return(v)
      PROVE  pc'[v] = "idle"
  BY <1>0, <1>7 DEF Return, TypeOK
<1>8. CASE ChainId(v)
  <2>1. Remembers => pc'[v] # "grant"
    BY <1>5, <1>6, <1>7, <1>8 DEF ChainId, Phases
  <2> QED
    BY <1>4, <1>8, <2>1 DEF ChainId
<1>9. CASE FetchReceipt(v) \/ FetchReceiptFails(v) \/ AccessKey(v) \/ Broadcast(v)
  <2>1. Remembers => pc'[v] # "grant"
    BY <1>5, <1>7, <1>9 DEF FetchReceipt, FetchReceiptFails, AccessKey, Broadcast
  <2> QED
    BY <1>4, <1>9, <2>1 DEF FetchReceipt, FetchReceiptFails, AccessKey, Broadcast
<1>10. CASE Submit(v)
  <2>1. pc'[v] # "grant"
    BY <1>6, <1>7, <1>10 DEF Submit, Phases
  <2>2. cred[v].kind = "transaction"
    BY <1>0, <1>10 DEF Submit, JobsAdmitted, TransactionAdmitted
  <2>3. SubmissionKey(cred[v]) \notin ReplayKeys
    BY <1>1, <2>2, KeyTypes
  <2>4. claims \subseteq claims' /\ claims' \cap ReplayKeys \subseteq claims
    BY <1>10, <2>3 DEF Submit
  <2> QED
    BY <1>4, <1>10, <2>1, <2>4 DEF Submit
<1>11. CASE Claim(v)
  <2>1. CASE ReplayKey(cred[v]) \in claims /\ Return(v) /\ UNCHANGED claims
    BY <1>4, <1>7, <1>11, <2>1 DEF Claim
  <2> QED
    BY <1>3, <1>11, <2>1 DEF Claim
<1>12. CASE ClaimFails(v)
  <2>1. pc'[v] # "grant"
    BY <1>7, <1>12 DEF ClaimFails
  <2> QED
    BY <1>4, <1>12, <2>1 DEF ClaimFails
<1> QED
  BY <1>2, <1>8, <1>9, <1>10, <1>11, <1>12 DEF Verify

LEMMA PaymentsInductive ==
  ASSUME EarnedInv, PaymentsHold, [Next]_vars
  PROVE  PaymentsHold'
<1>0. TypeOK
  BY DEF EarnedInv
<1>1. ASSUME NEW v \in Verifiers, Verify(v)
      PROVE  PaymentsHold'
  BY <1>1, VerifyPayments
<1>2. CASE \/ \E t \in Txs : Mine(t)
           \/ UNCHANGED vars
  <2>1. UNCHANGED <<store, forgotten, claims, receipts, repeated, lost, pc, cred>>
    BY <1>2 DEF Mine, vars
  <2> QED
    BY <1>0, <2>1, QuietPayments DEF Remembers
<1>3. ASSUME NEW v \in Verifiers, Present(v)
      PROVE  PaymentsHold'
  <2>1. /\ UNCHANGED <<store, forgotten, claims, receipts, repeated, lost>>
        /\ pc[v] # "grant" /\ pc'[v] # "grant"
        /\ \A w \in Verifiers : w # v => pc'[w] = pc[w] /\ cred'[w] = cred[w]
    BY <1>0, <1>3 DEF Present, Offer, TypeOK
  <2> QED
    BY <1>0, <2>1, QuietPayments DEF Remembers
<1>4. ASSUME NEW v \in Verifiers, Cancel(v)
      PROVE  PaymentsHold'
  <2>1. /\ UNCHANGED <<store, forgotten, claims, receipts, repeated>>
        /\ pc'[v] = "idle"
        /\ \A w \in Verifiers : w # v => pc'[w] = pc[w] /\ cred'[w] = cred[w]
        /\ lost \subseteq lost'
    BY <1>0, <1>4, ReturnStep DEF Cancel
  <2>2. Remembers /\ pc[v] = "grant" => ReplayKey(cred[v]) \in lost'
    BY <1>4 DEF Cancel, Remembers, Unanswered
  <2> QED
    BY <1>0, <2>1, <2>2, QuietPayments DEF Remembers
<1>5. CASE Crash
  <2> SUFFICES ASSUME Remembers'
               PROVE  PaymentsHold'
    BY DEF PaymentsHold, ClaimsAccounted, Remembers
  <2>1. store = "file" /\ Remembers
    BY <1>0, <1>5 DEF Crash, Remembers, TypeOK
  <2>2. /\ UNCHANGED <<claims, receipts, repeated>>
        /\ lost \subseteq lost'
        /\ \A w \in Verifiers : pc'[w] = "idle"
        /\ \A w \in Verifiers : pc[w] = "grant" => ReplayKey(cred[w]) \in lost'
    BY <1>5, <2>1 DEF Crash, Unanswered
  <2> QED
    BY <1>0, <2>1, <2>2, QuietPayments
<1> QED
  BY <1>1, <1>2, <1>3, <1>4, <1>5 DEF Next

LEMMA PaymentsAtInit == Init => PaymentsHold
BY DEF Init, PaymentsHold, ClaimsAccounted, GrantsExclusive, Served

\* A transaction or a proof is worth one receipt, whatever is presented at the
\* same time, in which encoding, and whatever fails; unless the store forgets.
THEOREM OneReceipt == Spec => []PaysOnce
<1>1. PaymentsHold => PaysOnce
  BY DEF PaymentsHold, Remembers, PaysOnce
<1> QED
  BY <1>1, EarnedAtInit, EarnedInductive, PaymentsAtInit, PaymentsInductive, PTL DEF Spec

\* A claimed payment has its receipt, is about to get it, or was lost to a fault.
THEOREM ClaimsExplained == Spec => []ClaimsAccounted
<1>1. PaymentsHold => ClaimsAccounted
  BY DEF PaymentsHold
<1> QED
  BY <1>1, EarnedAtInit, EarnedInductive, PaymentsAtInit, PaymentsInductive, PTL DEF Spec

=============================================================================
