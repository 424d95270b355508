--------------------------- MODULE ChargeTransfers ---------------------------
(***************************************************************************)
(* What a charge has its client do and its server look for: the transfers  *)
(* of a request, the calls the client signs, the checks of those calls     *)
(* before they are broadcast, and the matching of the logs they leave.     *)
(* These are functions; ChargeVerification takes their results as given.   *)
(***************************************************************************)
EXTENDS Integers, Sequences, SequencesExt

CONSTANTS
  MaxSplits,     \* MAX_SPLITS
  MaxSponsored   \* how many transfers a sponsored transaction may make

None == <<>>

\* The memo made from a challenge's id and realm.
BoundMemo(challenge) == <<"bound to", challenge>>

-----------------------------------------------------------------------------
\* The transfers of a request.

\* What is left for the primary recipient.
Rest(total, splits) == FoldLeft(LAMBDA left, t : left - t.amount, total, splits)

\* get_transfers accepts the request; splits is <<>> when it names none.
Divisible(request) ==
  \A splits \in ToSet(request.splits) :
    /\ Len(splits) \in 1..MaxSplits
    /\ \A t \in ToSet(splits) : t.amount > 0
    /\ Rest(request.amount, splits) > 0

Primary(request, amount) == [amount |-> amount, to |-> request.to, memo |-> request.memo]

\* The primary transfer, with the request's memo, then the splits.
Transfers(request) ==
  IF request.splits = <<>>
    THEN <<Primary(request, request.amount)>>
    ELSE <<Primary(request, Rest(request.amount, request.splits[1]))>> \o request.splits[1]

-----------------------------------------------------------------------------
\* The client: its calls, in the order it signs them. A call is made to a
\* contract; a swap's "to" is the token it sells, an approval's the spender.

TransferOps == {"transfer", "transferWithMemo"}

\* encode_transfer
TransferCall(t) ==
  [op |-> IF t.memo = None THEN "transfer" ELSE "transferWithMemo",
   on |-> "currency", to |-> t.to, amount |-> t.amount, memo |-> t.memo]

\* build_swap_call: the token in hand for what is missing, on the exchange.
SwapCall(deficit) ==
  [op |-> "swap", on |-> "dex", to |-> "token", amount |-> deficit, memo |-> None]

\* resolve_autoswap: a client that swaps does so for what it does not hold.
Swap(request, wallet) ==
  IF wallet.swaps /\ wallet.balance < request.amount
    THEN <<SwapCall(request.amount - wallet.balance)>> ELSE <<>>

\* TempoProvider::pay: a request without a memo gets the challenge's, for the
\* primary transfer.
ClientCalls(request, challenge, wallet) ==
  LET marked == IF request.memo = None THEN [request EXCEPT !.memo = BoundMemo(challenge)]
                                      ELSE request
      transfers == Transfers(marked)
  IN Swap(request, wallet) \o [i \in DOMAIN transfers |-> TransferCall(transfers[i])]

-----------------------------------------------------------------------------
\* Matching: each transfer in its turn takes the first position that fits it and is
\* free, a preferred one if there is any. Position 0 stands for nothing found.

\* Mutant: the turns are in the order of the request.
AsListed(transfers, i) == {j \in DOMAIN transfers : j < i}

\* The transfers whose turn comes before that of i: the ones with a memo come first.
Earlier(transfers, i) ==
  {j \in DOMAIN transfers :
     \/ transfers[j].memo # None /\ transfers[i].memo = None
     \/ (transfers[j].memo = None <=> transfers[i].memo = None) /\ j < i}

First(positions) == IF positions = {} THEN 0 ELSE Min(positions)

Found(free, preferred) ==
  First(IF free \cap preferred = {} THEN free ELSE free \cap preferred)

Taken(transfers, fits, preferred) ==
  LET taken[i \in DOMAIN transfers] ==
        Found(fits[i] \ {taken[j] : j \in Earlier(transfers, i)}, preferred)
  IN taken

AllFound(taken) == \A i \in DOMAIN taken : taken[i] # 0

-----------------------------------------------------------------------------
\* The server, before it broadcasts.

\* transfer_call_offset: an approval and a swap may come first.
Offset(calls) == IF calls # <<>> /\ calls[1].op = "approve" THEN 2 ELSE 0

\* get_transfer_calls
OnlyTransfers(calls) ==
  /\ Offset(calls) = 2 => Len(calls) >= 2 /\ calls[2].op = "swap"
  /\ Len(calls) > Offset(calls)
  /\ \A i \in Offset(calls) + 1 .. Len(calls) : calls[i].op \in TransferOps

\* validate_fee_payer_calls: what the server pays the fee for.
Sponsorable(calls) ==
  /\ OnlyTransfers(calls)
  /\ Len(calls) - Offset(calls) <= MaxSponsored
  /\ Offset(calls) = 2 =>
       calls[1].on = calls[2].to /\ calls[1].to = "dex" /\ calls[2].on = "dex"

\* Mutant: whichever token it is.
AnyTokenMakes(call, t) ==
  /\ call.to = t.to /\ call.amount = t.amount
  /\ t.memo # None => call.op = "transferWithMemo" /\ call.memo = t.memo

\* A transfer without a memo may be made with one.
Makes(call, t) ==
  /\ call.on = "currency"
  /\ call.to = t.to /\ call.amount = t.amount
  /\ t.memo # None => call.op = "transferWithMemo" /\ call.memo = t.memo

CallsTaken(calls, transfers) ==
  Taken(transfers,
        [i \in DOMAIN transfers |->
           {k \in Offset(calls) + 1 .. Len(calls) : Makes(calls[k], transfers[i])}],
        {})

\* validate_transaction_transfers
CallsAccepted(calls, transfers, sponsored) ==
  /\ OnlyTransfers(calls)
  /\ sponsored => Sponsorable(calls) /\ Len(calls) - Offset(calls) = Len(transfers)
  /\ \A t \in ToSet(transfers) : t.amount > 0
  /\ AllFound(CallsTaken(calls, transfers))

-----------------------------------------------------------------------------
\* The chain: what a successful transaction logs. A transfer with a memo is
\* logged as such; a token may log it as a plain transfer besides ("both").

Event(call, payer, noted) ==
  IF call.op = "swap"
    THEN [on |-> "currency", from |-> "dex", to |-> payer, amount |-> call.amount, memo |-> None]
    ELSE [on |-> call.on, from |-> payer, to |-> call.to, amount |-> call.amount,
          memo |-> IF noted /\ call.op = "transferWithMemo" THEN call.memo ELSE None]

\* In the order of the calls: at 2k what call k logs, at 2k - 1 what it logs besides.
Logs(calls, payer, both) ==
  LET logging == {k \in DOMAIN calls : calls[k].op \in TransferOps \cup {"swap"}}
      twice == {k \in logging : both /\ calls[k].op = "transferWithMemo"}
  IN [p \in {2 * k : k \in logging} \cup {2 * k - 1 : k \in twice} |->
        Event(calls[(p + 1) \div 2], payer, p % 2 = 0)]

-----------------------------------------------------------------------------
\* The server, given the logs.

\* What match_receipt_transfer_logs compares. Senders are those accepted: the
\* expected one, and any that the application's callback lets pass.
Shows(log, t, senders) ==
  /\ log.on = "currency" /\ log.from \in senders
  /\ log.to = t.to /\ log.amount = t.amount
  /\ t.memo # None => log.memo = t.memo

\* Mutant: for a transfer without a memo, logs without one come first.
PreferredPlain(logs) == {p \in DOMAIN logs : logs[p].memo = None}

\* For a transfer without a memo, logs with one come first.
Preferred(logs) == {p \in DOMAIN logs : logs[p].memo # None}

LogsTaken(logs, transfers, senders) ==
  Taken(transfers,
        [i \in DOMAIN transfers |-> {p \in DOMAIN logs : Shows(logs[p], transfers[i], senders)}],
        Preferred(logs))

\* match_receipt_transfer_logs
LogsMatch(logs, transfers, senders) ==
  /\ \A t \in ToSet(transfers) : t.amount > 0
  /\ AllFound(LogsTaken(logs, transfers, senders))

\* assert_challenge_bound_memo, over the logs that were matched.
BoundBy(logs, transfers, senders, challenge) ==
  LET taken == LogsTaken(logs, transfers, senders)
  IN \E i \in DOMAIN taken : taken[i] # 0 /\ logs[taken[i]].memo = BoundMemo(challenge)

\* What verify_hash and broadcast_transaction ask of a mined transaction.
Settles(logs, request, senders, challenge) ==
  /\ LogsMatch(logs, Transfers(request), senders)
  /\ request.memo = None => BoundBy(logs, Transfers(request), senders, challenge)

=============================================================================
