------------------------- MODULE ChargeVerification -------------------------
(***************************************************************************)
(* ChargeVerification: the tempo charge method, the chain it asks and the  *)
(* store in which it claims replay keys.                                   *)
(*                                                                         *)
(* A credential is a transaction hash, a signed transaction that the       *)
(* server broadcasts (after co-signing it when it pays the fee), or a      *)
(* signed proof for a challenge of no amount.  A verification is a chain   *)
(* of actions, one for each call of the node or of the store.              *)
(***************************************************************************)
EXTENDS Integers

CONSTANTS
  Verifiers,     \* slots for concurrent calls of verify
  Txs,           \* transactions, by hash
  Submissions,   \* what the payload of a transaction credential may be
  Encodings,     \* the bytes that are broadcast
  Signatures,    \* what the payload of a proof credential may be
  Fingerprints,  \* canonical forms of proofs
  Challenges,    \* challenges, each with its request
  ZeroAmount,    \* the challenges whose amount is zero
  FixedMemo,     \* the challenges whose request names a memo
  FinalBytes,    \* what is broadcast for a submission
  Decoded,       \* the transaction that some bytes decode to
  Canonical,     \* the fingerprint of a signature
  Acceptable,    \* submissions and the challenges whose checks they pass
  Pays,          \* transactions and the challenges whose transfers they make
  BoundTo,       \* transactions and the challenges their memos are bound to
  SignedFor,     \* signatures and the challenges they are valid for
  ByAccessKey,   \* signatures made by an access key
  Credentials,   \* the credentials that clients present
  NoCredential,
  Faults,        \* "rpc", "store", "cancel", "crash"
  MaxFaults      \* how many of them happen

AllCredentials ==
  [kind : {"hash"}, body : Txs, challenge : Challenges]
    \cup [kind : {"transaction"}, body : Submissions, challenge : Challenges]
    \cup [kind : {"proof"}, body : Signatures, challenge : Challenges]

ASSUME ChargeAssumption ==
  /\ Credentials \subseteq AllCredentials
  /\ NoCredential \notin AllCredentials
  /\ FinalBytes \in [Submissions -> Encodings]
  /\ Decoded \in [Encodings -> Txs]
  /\ Canonical \in [Signatures -> Fingerprints]
  /\ Faults \subseteq {"rpc", "store", "cancel", "crash"}
  /\ MaxFaults \in Nat

VARIABLES
  chain,             \* what became of each transaction
  store,             \* "none", "memory", or "file": outlives the process
  claims,            \* the keys in the store
  cached_chain_id,   \* the node's chain id is known
  pc,                \* where each verification is
  cred,              \* the credential being verified
  faults,            \* how many faults have happened
  sent,              \* history: the bytes the server has broadcast
  resent,            \* history: those it has broadcast more than once
  receipts,          \* history: the receipts given
  repeated,          \* history: the keys that gave more than one receipt
  lost,              \* history: the keys claimed by a call that then failed
  forgotten          \* history: a restart has emptied the store

vars == <<chain, store, claims, cached_chain_id, pc, cred, faults, sent, resent,
          receipts, repeated, lost, forgotten>>

-----------------------------------------------------------------------------

\* What is broadcast for a transaction credential: the bytes received or, for a
\* fee payer's envelope, those the server co-signs.
Final(c) == FinalBytes[c.body]

\* The transaction of a hash or transaction credential.
TxOf(c) == IF c.kind = "hash" THEN c.body ELSE Decoded[Final(c)]

\* The key that makes a payment count once.
ReplayKey(c) ==
  IF c.kind = "proof" THEN <<"proof", Canonical[c.body]>>
                      ELSE <<"charge", TxOf(c)>>

\* Mutant: the key is made of the bytes that were received.
SubmissionKeyReceived(c) == <<"submission", c.body>>

\* Mutant: the broadcast is claimed under the key of the payment.
SubmissionKeyShared(c) == ReplayKey(c)

\* The key that makes a broadcast happen once.
SubmissionKey(c) == <<"submission", Final(c)>>

ReplayKeys == ({"proof"} \X Fingerprints) \cup ({"charge"} \X Txs)
Keys == ReplayKeys \cup ({"submission"} \X Encodings)

\* Mutant: the memo is not looked at.
MatchesAnyMemo(t, ch) == <<t, ch>> \in Pays

\* The transfers are the ones requested and one of them is made for this
\* challenge, by its memo, unless the request names a memo itself.
Matches(t, ch) ==
  /\ <<t, ch>> \in Pays
  /\ ch \in FixedMemo \/ <<t, ch>> \in BoundTo

Phases == {"idle", "chain_id", "receipt", "submit", "broadcast", "access_key",
           "claim", "grant"}

TypeOK ==
  /\ chain \in [Txs -> {"absent", "success", "reverted"}]
  /\ store \in {"none", "memory", "file"}
  /\ claims \in SUBSET Keys
  /\ cached_chain_id \in BOOLEAN
  /\ pc \in [Verifiers -> Phases]
  /\ cred \in [Verifiers -> Credentials \cup {NoCredential}]
  /\ \A v \in Verifiers : pc[v] = "idle" <=> cred[v] = NoCredential
  /\ faults \in 0..MaxFaults
  /\ sent \in SUBSET Encodings
  /\ resent \in SUBSET Encodings
  /\ receipts \in SUBSET (ReplayKeys \X Challenges)
  /\ repeated \in SUBSET ReplayKeys
  /\ lost \in SUBSET ReplayKeys
  /\ forgotten \in BOOLEAN

Init ==
  /\ chain = [t \in Txs |-> "absent"]
  /\ store \in {"none", "memory", "file"}
  /\ claims = {}
  /\ cached_chain_id = FALSE
  /\ pc = [v \in Verifiers |-> "idle"]
  /\ cred = [v \in Verifiers |-> NoCredential]
  /\ faults = 0
  /\ sent = {}
  /\ resent = {}
  /\ receipts = {}
  /\ repeated = {}
  /\ lost = {}
  /\ forgotten = FALSE

-----------------------------------------------------------------------------

Fault(kind) ==
  /\ kind \in Faults
  /\ faults < MaxFaults
  /\ faults' = faults + 1

-----------------------------------------------------------------------------
\* The chain.

\* A transaction is mined, whoever has sent it.
Mine(t) ==
  /\ chain[t] = "absent"
  /\ \E o \in {"success", "reverted"} : chain' = [chain EXCEPT ![t] = o]
  /\ UNCHANGED <<store, claims, cached_chain_id, pc, cred, faults, sent,
                 resent, receipts, repeated, lost, forgotten>>

-----------------------------------------------------------------------------
\* Verification.

Goto(v, p) ==
  /\ pc' = [pc EXCEPT ![v] = p]
  /\ UNCHANGED cred

\* The call returns, with an error unless the step has given a receipt.
Return(v) ==
  /\ pc' = [pc EXCEPT ![v] = "idle"]
  /\ cred' = [cred EXCEPT ![v] = NoCredential]

\* Mutant: a transaction that was claimed for its broadcast is not claimed again.
AfterPaymentOnceClaimed(v) ==
  Goto(v, IF store = "none" \/ cred[v].kind = "transaction" THEN "grant" ELSE "claim")

\* What is done without a store: nothing is claimed.
AfterPayment(v) == Goto(v, IF store = "none" THEN "grant" ELSE "claim")

\* The broadcast begins.
Send(v) ==
  LET b == Final(cred[v])
  IN  /\ sent' = sent \cup {b}
      /\ resent' = IF b \in sent THEN resent \cup {b} ELSE resent

Offer(v, c) ==
  /\ pc[v] = "idle"
  /\ cred' = [cred EXCEPT ![v] = c]
  /\ pc' = [pc EXCEPT ![v] = "chain_id"]
  /\ UNCHANGED <<chain, store, claims, cached_chain_id, faults, sent, resent,
                 receipts, repeated, lost, forgotten>>

\* A client presents a credential: verify is called.
Present(v) == \E c \in Credentials : Offer(v, c)

HashAdmitted(c) == c.kind = "hash" /\ c.challenge \notin ZeroAmount

\* The checks that need only the bytes: decoding, calls, transfers, fee policy.
TransactionAdmitted(c) ==
  /\ c.kind = "transaction"
  /\ c.challenge \notin ZeroAmount
  /\ <<c.body, c.challenge>> \in Acceptable

ProofAdmitted(c) ==
  /\ c.kind = "proof"
  /\ c.challenge \in ZeroAmount
  /\ <<c.body, c.challenge>> \in SignedFor

\* The chain id is fetched once; then the kind of the credential decides.
ChainId(v) ==
  /\ pc[v] = "chain_id"
  /\ LET c == cred[v] IN
     \/ /\ cached_chain_id' = TRUE
        /\ UNCHANGED faults
        /\ \/ /\ HashAdmitted(c)
              /\ Goto(v, "receipt")
              /\ UNCHANGED <<sent, resent>>
           \/ /\ TransactionAdmitted(c)
              /\ IF store = "none" THEN Goto(v, "broadcast") /\ Send(v)
                                   ELSE Goto(v, "submit") /\ UNCHANGED <<sent, resent>>
           \/ /\ ProofAdmitted(c)
              /\ IF c.body \in ByAccessKey THEN Goto(v, "access_key") ELSE AfterPayment(v)
              /\ UNCHANGED <<sent, resent>>
           \/ /\ ~(HashAdmitted(c) \/ TransactionAdmitted(c) \/ ProofAdmitted(c))
              /\ Return(v)
              /\ UNCHANGED <<sent, resent>>
     \/ /\ ~cached_chain_id
        /\ Fault("rpc")
        /\ Return(v)
        /\ UNCHANGED <<cached_chain_id, sent, resent>>
  /\ UNCHANGED <<chain, store, claims, receipts, repeated, lost, forgotten>>

\* A hash credential: the receipt is there, of a success, and matches.
FetchReceipt(v) ==
  /\ pc[v] = "receipt"
  /\ chain[TxOf(cred[v])] = "success"
  /\ Matches(TxOf(cred[v]), cred[v].challenge)
  /\ AfterPayment(v)
  /\ UNCHANGED <<chain, store, claims, cached_chain_id, faults, sent, resent,
                 receipts, repeated, lost, forgotten>>

\* Mutant: the hash was reserved before, and stays reserved.
FetchReceiptFailsReserved(v) ==
  /\ pc[v] = "receipt"
  /\ chain[TxOf(cred[v])] # "success"
  /\ claims' = claims \cup {ReplayKey(cred[v])}
  /\ Return(v)
  /\ UNCHANGED <<chain, store, cached_chain_id, faults, sent, resent, receipts,
                 repeated, lost, forgotten>>

\* It is not: pending, reverted or for something else; or the node fails.
FetchReceiptFails(v) ==
  /\ pc[v] = "receipt"
  /\ \/ /\ \/ chain[TxOf(cred[v])] # "success"
           \/ ~Matches(TxOf(cred[v]), cred[v].challenge)
        /\ UNCHANGED faults
     \/ Fault("rpc")
  /\ Return(v)
  /\ UNCHANGED <<chain, store, claims, cached_chain_id, sent, resent, receipts,
                 repeated, lost, forgotten>>

\* A transaction credential: its bytes are claimed, then broadcast.
Submit(v) ==
  /\ pc[v] = "submit"
  /\ \/ /\ SubmissionKey(cred[v]) \notin claims
        /\ claims' = claims \cup {SubmissionKey(cred[v])}
        /\ Goto(v, "broadcast")
        /\ Send(v)
        /\ UNCHANGED faults
     \/ /\ SubmissionKey(cred[v]) \in claims
        /\ Return(v)
        /\ UNCHANGED <<claims, faults, sent, resent>>
     \/ /\ Fault("store")
        /\ claims' \in {claims, claims \cup {SubmissionKey(cred[v])}}
        /\ Return(v)
        /\ UNCHANGED <<sent, resent>>
  /\ UNCHANGED <<chain, store, cached_chain_id, receipts, repeated, lost, forgotten>>

\* The node answers with the receipt once the transaction is mined, or with
\* an error: it knows the transaction already, or fails.
Broadcast(v) ==
  /\ pc[v] = "broadcast"
  /\ LET t == TxOf(cred[v]) IN
     \/ /\ chain[t] = "success"
        /\ Matches(t, cred[v].challenge)
        /\ AfterPayment(v)
        /\ UNCHANGED faults
     \/ /\ IF chain[t] # "absent" THEN UNCHANGED faults ELSE Fault("rpc")
        /\ Return(v)
  /\ UNCHANGED <<chain, store, claims, cached_chain_id, sent, resent, receipts,
                 repeated, lost, forgotten>>

\* A proof by an access key: the chain says whether the key is authorized now.
AccessKey(v) ==
  /\ pc[v] = "access_key"
  /\ AfterPayment(v) \/ Return(v)
  /\ UNCHANGED <<chain, store, claims, cached_chain_id, faults, sent, resent,
                 receipts, repeated, lost, forgotten>>

\* Atomically, the key is in the store already or it is put there.
Claim(v) ==
  /\ pc[v] = "claim"
  /\ \/ /\ ReplayKey(cred[v]) \notin claims
        /\ claims' = claims \cup {ReplayKey(cred[v])}
        /\ Goto(v, "grant")
     \/ /\ ReplayKey(cred[v]) \in claims
        /\ Return(v)
        /\ UNCHANGED claims
  /\ UNCHANGED <<chain, store, cached_chain_id, faults, sent, resent, receipts,
                 repeated, lost, forgotten>>

\* The store fails, having put the key or not.
ClaimFails(v) ==
  /\ pc[v] = "claim"
  /\ Fault("store")
  /\ \/ UNCHANGED <<claims, lost>>
     \/ /\ ReplayKey(cred[v]) \notin claims
        /\ claims' = claims \cup {ReplayKey(cred[v])}
        /\ lost' = lost \cup {ReplayKey(cred[v])}
  /\ Return(v)
  /\ UNCHANGED <<chain, store, cached_chain_id, sent, resent, receipts, repeated,
                 forgotten>>

Grant(v) ==
  /\ pc[v] = "grant"
  /\ LET k == ReplayKey(cred[v])
     IN  /\ receipts' = receipts \cup {<<k, cred[v].challenge>>}
         /\ repeated' = IF \E r \in receipts : r[1] = k THEN repeated \cup {k}
                                                        ELSE repeated
  /\ Return(v)
  /\ UNCHANGED <<chain, store, claims, cached_chain_id, faults, sent, resent, lost,
                 forgotten>>

\* The keys whose claim is known to nobody but the calls of V.
Unanswered(V) == {ReplayKey(cred[v]) : v \in {w \in V : pc[w] = "grant"}}

\* The future of verify is dropped at an await.
Cancel(v) ==
  /\ Fault("cancel")
  /\ pc[v] # "idle"
  /\ lost' = IF store = "none" THEN lost ELSE lost \cup Unanswered({v})
  /\ Return(v)
  /\ UNCHANGED <<chain, store, claims, cached_chain_id, sent, resent, receipts,
                 repeated, forgotten>>

\* The process restarts: a store in memory is empty again.
Crash ==
  /\ Fault("crash")
  /\ claims' = IF store = "memory" THEN {} ELSE claims
  /\ forgotten' = (forgotten \/ store = "memory")
  /\ lost' = IF store = "file" THEN lost \cup Unanswered(Verifiers) ELSE lost
  /\ cached_chain_id' = FALSE
  /\ pc' = [v \in Verifiers |-> "idle"]
  /\ cred' = [v \in Verifiers |-> NoCredential]
  /\ UNCHANGED <<chain, store, sent, resent, receipts, repeated>>

-----------------------------------------------------------------------------

Verify(v) ==
  \/ ChainId(v) \/ FetchReceipt(v) \/ FetchReceiptFails(v) \/ Submit(v)
  \/ Broadcast(v) \/ AccessKey(v) \/ Claim(v) \/ ClaimFails(v) \/ Grant(v)

Next ==
  \/ \E t \in Txs : Mine(t)
  \/ \E v \in Verifiers : Present(v) \/ Verify(v) \/ Cancel(v)
  \/ Crash

Spec == Init /\ [][Next]_vars

\* The client that presents a credential again and again.
Insist(c) == \E v \in Verifiers : Offer(v, c)

\* A transaction the node was sent is mined.
MineSent(t) == (\E b \in sent : Decoded[b] = t) /\ Mine(t)

\* Hash credentials that match the transaction they name.
HashCredentials ==
  {c \in Credentials : HashAdmitted(c) /\ Matches(c.body, c.challenge)}

\* Calls are polled, the node and the store answer, a client with a hash that
\* matches gets a turn again and again.
Fairness ==
  /\ \A v \in Verifiers : WF_vars(Verify(v))
  /\ \A t \in Txs : WF_vars(MineSent(t))
  /\ \A c \in HashCredentials : SF_vars(Insist(c))

FairSpec == Spec /\ Fairness

-----------------------------------------------------------------------------
\* Properties.

\* A transaction, however it is presented, and a proof, however it is encoded,
\* are worth one receipt: verify_hash, broadcast_transaction and the proof
\* branch claim one key for it, unless a restart empties the store.
PaysOnce == store # "none" /\ ~forgotten => repeated = {}

\* With or without a store, a receipt is given for a mined transaction that pays
\* the challenge it is given for and, unless the request fixes the memo, was
\* made for it; or for a valid proof of a challenge of no amount.
ReceiptsEarned ==
  \A r \in receipts :
    LET k == r[1]
        ch == r[2]
    IN  \/ /\ k[1] = "charge"
           /\ ch \notin ZeroAmount
           /\ chain[k[2]] = "success"
           /\ <<k[2], ch>> \in Pays
           /\ ch \in FixedMemo \/ <<k[2], ch>> \in BoundTo
        \/ /\ k[1] = "proof"
           /\ ch \in ZeroAmount
           /\ \E s \in Signatures : Canonical[s] = k[2] /\ <<s, ch>> \in SignedFor

\* The server sends the same bytes to the node once: broadcast_transaction
\* reserves them first.
BroadcastOnce == store # "none" /\ ~forgotten => resent = {}

Served(k) == \E r \in receipts : r[1] = k

\* A payment is used up by its receipt only: verify_hash and
\* broadcast_transaction claim its key after every check, so a key without a
\* receipt is a call that is about to give it or that a fault has stopped.
ClaimsAccounted ==
  store # "none" /\ ~forgotten =>
    \A k \in ReplayKeys :
      /\ Served(k) => k \in claims
      /\ k \in claims => Served(k) \/ k \in Unanswered(Verifiers) \/ k \in lost

\* A client that has paid is served, by its hash if need be: a broadcast that
\* fails reserves the bytes only, not the transaction.
PaidIsServed ==
  \A c \in HashCredentials :
    chain[c.body] = "success" ~> Served(ReplayKey(c)) \/ ReplayKey(c) \in lost

=============================================================================
