--------------------------- MODULE MeteredChannel ---------------------------
(***************************************************************************)
(* What a payment channel promises, whatever the protocol behind it: the   *)
(* payer deposits funds, authorises a growing part of them, and the payee  *)
(* delivers metered service worth no more than what is authorised.         *)
(***************************************************************************)
EXTENDS Integers

VARIABLES
  funds,       \* locked in the escrow by the payer
  authorised,  \* covered by the highest voucher
  delivered    \* worth of the service rendered since the books were opened

Init == funds = 0 /\ authorised = 0 /\ delivered = 0

Fund ==
  /\ funds' \in Nat
  /\ funds' > funds
  /\ UNCHANGED <<authorised, delivered>>

Authorise ==
  /\ authorised' \in Nat
  /\ authorised' > authorised
  /\ authorised' <= funds
  /\ UNCHANGED <<funds, delivered>>

Deliver ==
  /\ delivered' \in Nat
  /\ delivered' > delivered
  /\ delivered' <= authorised
  /\ UNCHANGED <<funds, authorised>>

\* The payee's books are lost: what was authorised has to be shown again.
Restart ==
  /\ authorised' = 0
  /\ delivered' = 0
  /\ UNCHANGED funds

Next == Fund \/ Authorise \/ Deliver \/ Restart

Spec == Init /\ [][Next]_<<funds, authorised, delivered>>
=============================================================================
