-------------------------- MODULE SignedTransaction --------------------------
(***************************************************************************)
(* A transaction that pays a charge, from the request to the receipt: a    *)
(* client of this crate, or anybody, signs calls; the server approves them *)
(* and broadcasts, or the payer does; the chain logs what they did; the    *)
(* server matches the logs with the transfers of the request.              *)
(***************************************************************************)
EXTENDS ChargeTransfers

CONSTANTS
  Requests,   \* the requests (bound)
  Wallets,    \* what a client holds, and whether it swaps (bound)
  CallLists   \* the calls that somebody else may sign (bound)

ASSUME TransferAssumption == MaxSplits \in Nat /\ MaxSponsored \in Nat /\ MaxSponsored > MaxSplits

\* A request for nothing asks for a proof and no transaction; a memo is a tuple of words.
ASSUME RequestAssumption ==
  LET split == [amount: Nat, to: STRING, memo: Seq(STRING)]
  IN /\ Requests \subseteq [amount: Nat \ {0}, to: STRING, memo: Seq(STRING),
                           sponsored: BOOLEAN, splits: Seq(Seq(split))]
     /\ \A r \in Requests : Len(r.splits) <= 1

ASSUME WalletAssumption == Wallets \subseteq [swaps: BOOLEAN, balance: Nat]

ASSUME CallAssumption ==
  CallLists \subseteq Seq([op: STRING, on: STRING, to: STRING, amount: Nat, memo: Seq(STRING)])

VARIABLES
  request,   \* the request of the challenge "here"
  wallet,    \* the client's
  maker,     \* who signed: "none", "client" or "other"
  calls,     \* the calls signed
  stage,     \* "offered", "signed", "approved", "mined", "settled" or "refused"
  approved,  \* the server has broadcast it
  logs       \* what the chain logged

vars == <<request, wallet, maker, calls, stage, approved, logs>>

Init ==
  /\ request \in Requests /\ wallet \in Wallets
  /\ maker = "none" /\ calls = <<>>
  /\ stage = "offered" /\ approved = FALSE /\ logs = <<>>

\* from_challenge refuses what it cannot divide, pay the rest.
Sign ==
  /\ stage = "offered"
  /\ maker' = "client"
  /\ IF Divisible(request)
       THEN calls' = ClientCalls(request, "here", wallet) /\ stage' = "signed"
       ELSE stage' = "refused" /\ UNCHANGED calls
  /\ UNCHANGED <<request, wallet, approved, logs>>

SignOther ==
  /\ stage = "offered"
  /\ maker' = "other"
  /\ calls' \in CallLists
  /\ stage' = "signed"
  /\ UNCHANGED <<request, wallet, approved, logs>>

\* broadcast_transaction, until it sends.
Approve ==
  /\ stage = "signed"
  /\ IF Divisible(request) /\ CallsAccepted(calls, Transfers(request), request.sponsored)
       THEN stage' = "approved" /\ approved' = TRUE
       ELSE stage' = "refused" /\ UNCHANGED approved
  /\ UNCHANGED <<request, wallet, maker, calls, logs>>

\* The transaction succeeds. The server takes the sender of one it has broadcast
\* from its receipt; one that comes by its hash may be a stranger's.
Execute ==
  /\ approved \/ maker = "other"
  /\ stage \in {"signed", "approved"}
  /\ \E both \in BOOLEAN, sender \in IF approved THEN {"payer"} ELSE {"payer", "stranger"} :
       logs' = Logs(calls, sender, both)
  /\ stage' = "mined"
  /\ UNCHANGED <<request, wallet, maker, calls, approved>>

\* broadcast_transaction after the receipt, verify_hash.
Settle ==
  /\ stage = "mined"
  /\ stage' = IF Divisible(request) /\ Settles(logs, request, {"payer"}, "here")
                THEN "settled" ELSE "refused"
  /\ UNCHANGED <<request, wallet, maker, calls, approved, logs>>

Next == Sign \/ SignOther \/ Approve \/ Execute \/ Settle

Spec == Init /\ [][Next]_vars

-----------------------------------------------------------------------------
(* Properties.                                                             *)

\* Each transfer has a log of its own that shows it.
Assignable(transfers) ==
  \E f \in [DOMAIN transfers -> DOMAIN logs] :
    /\ \A i, j \in DOMAIN f : f[i] = f[j] => i = j
    /\ \A i \in DOMAIN f : Shows(logs[f[i]], transfers[i], {"payer"})

\* The greedy matching of match_receipt_transfer_logs, memos first, finds what there
\* is to find: it fails only when the logs cannot be shared out among the transfers.
MatchingIsExact ==
  stage = "mined" /\ Divisible(request) =>
    (LogsMatch(logs, Transfers(request), {"payer"}) <=> Assignable(Transfers(request)))

\* What passes the checks before the broadcast passes those after it, the memo's
\* binding apart: calls that the server has approved and sent are not found wanting
\* in the logs of the payment they made.
ApprovedCallsPay ==
  stage = "mined" /\ approved => LogsMatch(logs, Transfers(request), {"payer"})

\* A transaction made by a client that holds the currency is accepted before and
\* after the broadcast, whatever the splits and memos of the request.
ClientTransactionSettles ==
  maker = "client" /\ Divisible(request) /\ wallet.balance >= request.amount =>
    stage # "refused"

\* with_autoswap: a client that does not hold the currency swaps before paying, in
\* the same transaction.
SwappedTransactionSettles ==
  maker = "client" /\ Divisible(request) /\ wallet.swaps => stage # "refused"
==============================================================================
