------------------------ MODULE MCChargeVerification ------------------------
(* ChargeVerification on a small instance, with the relations it takes as given
   computed by ChargeTransfers.  tx is made by a client for the challenge mine,
   whose fee the server pays; named asks for the same transfers with tx's memo,
   other without one.  The server completes envelope to raw; padded is tx in
   other bytes.  Two signatures are one proof for free. *)
EXTENDS ChargeVerification, ChargeTransfers, TLC

CONSTANTS tx, envelope, raw, padded, low, high, proof, mine, named, other, free

Request(total, recipient, memo, splits, sponsored) ==
  [amount |-> total, to |-> recipient, memo |-> memo, splits |-> splits,
   sponsored |-> sponsored]

MCRequest ==
  mine :> Request(2, "shop", None, <<>>, TRUE)
    @@ named :> Request(2, "shop", BoundMemo(mine), <<>>, FALSE)
    @@ other :> Request(2, "shop", None, <<>>, FALSE)
MCCalls == ClientCalls(MCRequest[mine], mine, [swaps |-> FALSE, balance |-> 2])
MCLogs == Logs(MCCalls, "payer", TRUE)

MCFinalBytes == envelope :> raw @@ raw :> raw @@ padded :> padded
MCDecoded == raw :> tx @@ padded :> tx
MCCanonical == low :> proof @@ high :> proof
\* A sponsored request wants an envelope, any other a complete transaction.
MCAcceptable ==
  {p \in {envelope, raw, padded} \X DOMAIN MCRequest :
     LET request == MCRequest[p[2]]
     IN /\ request.sponsored <=> p[1] = envelope
        /\ CallsAccepted(MCCalls, Transfers(request), request.sponsored)}
MCPays ==
  {p \in {tx} \X DOMAIN MCRequest : LogsMatch(MCLogs, Transfers(MCRequest[p[2]]), {"payer"})}
MCBoundTo ==
  {p \in MCPays : BoundBy(MCLogs, Transfers(MCRequest[p[2]]), {"payer"}, p[2])}
MCSignedFor == {<<low, free>>, <<high, free>>}
MCCredentials ==
  {[kind |-> "hash", body |-> tx, challenge |-> mine],
   [kind |-> "transaction", body |-> envelope, challenge |-> mine],
   [kind |-> "transaction", body |-> padded, challenge |-> named],
   [kind |-> "transaction", body |-> raw, challenge |-> other],
   [kind |-> "hash", body |-> tx, challenge |-> free],
   [kind |-> "proof", body |-> low, challenge |-> free],
   [kind |-> "proof", body |-> high, challenge |-> free]}
=============================================================================
