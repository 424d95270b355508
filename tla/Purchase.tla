------------------------------- MODULE Purchase -------------------------------
(***************************************************************************)
(* What payment for requests promises, whatever the client, the network    *)
(* and the method do: money moves before anything is delivered for it, one *)
(* request gets one delivery, a payment buys nothing more while the        *)
(* delivery it bought is remembered, and a route that states its price     *)
(* delivers for exactly that price.  On a metered route the channel counts *)
(* what a voucher bought: see MeteredChannel.                              *)
(*                                                                         *)
(* A delivery is forgotten only as it is made, where nothing is recorded   *)
(* at all, or when the server starts again.  The module that implements    *)
(* Purchase says which records last.                                       *)
(***************************************************************************)
CONSTANTS
  Customers,  \* the requests that are made
  Stating,    \* the routes that compare a payment with their price
  Metered     \* the routes that count what a payment bought in a channel

VARIABLES
  due,        \* the price of each route
  moved,      \* the payments that have moved money
  delivered,  \* what was delivered: to whom, where, for which payment
  remembered  \* the deliveries whose payment is on record

purchaseVars == <<due, moved, delivered, remembered>>

Start == moved = {} /\ delivered = {} /\ remembered = {}

Move ==
  /\ \E p \in moved' \ moved : moved' = moved \cup {p}
  /\ UNCHANGED <<due, delivered, remembered>>

Buyable(p, who, route) ==
  /\ p \in moved
  /\ \A d \in delivered : d.call # who
  /\ \A d \in remembered : d.pay = p => route \in Metered
  /\ route \in Stating => p.amount = due[route]

Deliver ==
  /\ \E d \in delivered' \ delivered :
       /\ delivered' = delivered \cup {d}
       /\ remembered' \in {remembered, remembered \cup {d}}
       /\ d.call \in Customers /\ Buyable(d.pay, d.call, d.route)
  /\ UNCHANGED <<due, moved>>

Restart == remembered' \subseteq remembered /\ UNCHANGED <<moved, delivered>>

Promise == Start /\ [][Move \/ Deliver \/ Restart]_purchaseVars
===============================================================================
