------------------------------ MODULE PaidRequest ------------------------------
(***************************************************************************)
(* A paid HTTP request from end to end: the client (fetch or the reqwest   *)
(* middleware) asks, is challenged, pays with one of its providers and     *)
(* asks again; the server's gate verifies the credential, settles it and   *)
(* lets the route answer.                                                  *)
(*                                                                         *)
(* A call is one request and its one retry.  Calls of a client run side by *)
(* side and share its session channel; the routes of the server share a    *)
(* secret and the record of what was redeemed.                             *)
(*                                                                         *)
(* The replay store of the tempo method is optional, and in memory unless  *)
(* the application gives one that lasts: without a store, or after a       *)
(* restart with one in memory, a tempo payment can be redeemed again.  All *)
(* three are modelled, and the promise at the end says when it lapses.     *)
(* Stripe remembers its idempotency keys itself.                           *)
(***************************************************************************)
EXTENDS PaymentGate

CONSTANTS
  Calls,        \* the requests (bound)
  MaxTime,      \* how far time goes (bound)
  ValidFor,     \* how long a transaction may be broadcast, in ticks
  Wishes,       \* the preferences a caller or the providers may state
  Troubles,     \* "lost": a connection breaks; "node": settling fails;
                \* "inner": the route fails
  Deployments   \* how the server may start again: <<key, raised>> from then on

ASSUME PaidAssumption ==
  /\ IsFiniteSet(Calls) /\ MaxTime \in Nat /\ ValidFor \in Nat
  /\ \A wish \in Wishes : \A p \in wish : p[2] \in Nat
  /\ Troubles \subseteq {"lost", "node", "inner"}
  /\ Deployments \subseteq {0, 1} \X {0, 1}

VARIABLES
  call,        \* of each call: how far it is, what it was offered, its credential
  opened,      \* the client's session provider has recorded a channel
  known,       \* the server's session method knows it
  moved,       \* the payments that have moved money
  used,        \* what the replay store and Stripe's idempotency keys hold
  served,      \* what was delivered: to whom, where, for which payment, in which era
  now,
  key,         \* the secret in force
  raised,      \* 1 once the prices were raised
  era,         \* 1 once the server was started again
  recording,   \* the tempo method has a replay store
  since,       \* the era its record goes back to
  troubled     \* history: calls whose settlement or route failed

vars == <<call, opened, known, moved, used, served, now, key, raised, era,
          recording, since, troubled>>

price == [r \in Routes |-> BasePrice[r] + raised]

-----------------------------------------------------------------------------
(* Payments and credentials.                                               *)

\* A transfer with a memo of the challenge's own is the same transaction as any
\* other of that second; without one the memo is derived from the challenge.
Mark(c) == IF c.memo = None THEN c.expires.nano ELSE c.memo

Transfer(c) == [how |-> "tx", amount |-> c.amount, mark |-> Mark(c), at |-> now]

\* A shared payment token, a voucher, an open or a transfer broadcast by its payer.
Fresh(how, id, c) == [how |-> how, amount |-> c.amount, mark |-> id, at |-> now]

Token(id, c) == Fresh("spt", id, c)

\* What the provider that supports a challenge pays it with.
PayBy(id, c) ==
  IF c.intent = "session" THEN Fresh(IF opened THEN "voucher" ELSE "open", id, c)
  ELSE IF c.method = "stripe" THEN Token(id, c)
  ELSE Transfer(c)

Credential(c, pay) == [challenge |-> c, pay |-> pay]

Cred(id) == call[id].cred[1]
Paying == {id \in Calls : call[id].cred # <<>>}
Created == {Cred(id) : id \in Paying}

Ended == {id \in Calls : call[id].pc = "done"}

\* pc goes "new", "asked", "challenged", "chosen", "retried", "admitted", "settled",
\* "done"; outcome is "error", "refused", "lost", "management" or "content" then.
Idle == [pc |-> "new", route |-> None, clones |-> TRUE, ranking |-> NoPreference,
         sent |-> NoPreference, offers |-> <<>>, cred |-> <<>>,
         outcome |-> "none", ended |-> 0]

Goes(id, pc) == call' = [call EXCEPT ![id].pc = pc]

\* What led nowhere is forgotten; a credential is remembered.
EndsWith(request, outcome) ==
  IF request.cred = <<>>
    THEN [Idle EXCEPT !.pc = "done", !.outcome = "error"]
    ELSE [request EXCEPT !.pc = "done", !.outcome = outcome, !.ended = now]

Done(id, outcome) == call' = [call EXCEPT ![id] = EndsWith(call[id], outcome)]

ledger == <<moved, used, served>>
server == <<key, raised, era, recording, since>>
channel == <<opened, known>>

-----------------------------------------------------------------------------
Init ==
  /\ call = [id \in Calls |-> Idle]
  /\ opened = FALSE /\ known = FALSE
  /\ moved = {} /\ used = {} /\ served = {}
  /\ now = 0 /\ key = 0 /\ raised = 0 /\ era = 0
  /\ recording \in BOOLEAN /\ since = 0
  /\ troubled = {}

(* The client.                                                             *)

\* A preference is sent when the caller set it, or the policy allows it; it ranks
\* the offers in any case.  fetch wants a copy of the request before it sends it.
Send(id) ==
  /\ call[id].pc = "new"
  /\ \E kind \in {"fetch", "middleware"}, r \in Routes, clones \in BOOLEAN, wish \in Wishes :
       \E sent \in {wish, NoPreference} :
         IF kind = "fetch" /\ ~clones
           THEN Done(id, "error")
           ELSE call' = [call EXCEPT ![id] =
                  [Idle EXCEPT !.pc = "asked", !.route = r, !.clones = clones,
                               !.ranking = wish, !.sent = sent]]
  /\ UNCHANGED <<channel, ledger, now, server, troubled>>

\* A 402 has come: a request that cannot be sent again is given up, then the best
\* offer that is supported and has not expired is taken.
Select(id) ==
  /\ call[id].pc = "challenged"
  /\ LET payable == Payable(call[id].offers, call[id].ranking, now)
     IN IF call[id].clones /\ payable # <<>>
          THEN call' = [call EXCEPT ![id] =
                 [Idle EXCEPT !.pc = "chosen", !.route = call[id].route,
                              !.offers = <<payable[1]>>]]
          ELSE Done(id, "error")
  /\ UNCHANGED <<channel, ledger, now, server, troubled>>

Retry(id, credential) ==
  call' = [call EXCEPT ![id].pc = "retried", ![id].cred = <<credential>>]

\* The provider looks at the expiry again, and may fail.  A session is recorded as
\* opened before its credential has been seen.
Pay(id) ==
  /\ call[id].pc = "chosen"
  /\ LET c == call[id].offers[1]
     IN \/ /\ ~IsExpired(c, now)
           /\ Retry(id, Credential(c, PayBy(id, c)))
           /\ opened' = (opened \/ c.intent = "session")
        \/ /\ IsExpired(c, now) \/ "node" \in Troubles
           /\ Done(id, "error")
           /\ UNCHANGED opened
  /\ UNCHANGED <<known, ledger, now, server, troubled>>

\* A handler of challenge.received hands over a credential made earlier, or one for
\* a transfer it has broadcast itself.
Override(id) ==
  /\ call[id].pc = "chosen"
  /\ \/ /\ \E credential \in Created : Retry(id, credential)
        /\ UNCHANGED moved
     \/ LET c == call[id].offers[1]
            own == Fresh("hash", id, c)
        IN /\ c.method = "tempo" /\ c.intent = "charge"
           /\ Retry(id, Credential(c, own))
           /\ moved' = moved \cup {own}
  /\ UNCHANGED <<channel, used, served, now, server, troubled>>

-----------------------------------------------------------------------------
(* The server.                                                             *)

\* Only an application that composes its offers looks at the preference.
Offered(id) ==
  LET r == call[id].route
      offers == Offers(r, key, price[r], now, id)
  IN Transmitted(r, IF GateOf[r] = "composed" THEN Compose(offers, call[id].sent) ELSE offers)

\* No credential: a 402 with the offers, or a 500 when they make no header.
Challenge(id) ==
  /\ call[id].pc = "asked"
  /\ IF Formattable(call[id].route)
       THEN call' = [call EXCEPT ![id].pc = "challenged", ![id].offers = Offered(id),
                                 ![id].sent = NoPreference]
       ELSE Done(id, "error")
  /\ UNCHANGED <<channel, ledger, now, server, troubled>>

\* The layer answers a bare 402, the extractor one with a fresh challenge; either
\* goes back to the caller.
Refuse(id) == Done(id, "refused")

Verify(id) ==
  /\ call[id].pc = "retried"
  /\ LET r == call[id].route
     IN IF Admits(r, Cred(id).challenge, key, price[r], now)
          THEN Goes(id, "admitted")
          ELSE Refuse(id)
  /\ UNCHANGED <<channel, ledger, now, server, troubled>>

\* insert of the replay store, or the idempotent-replayed header of Stripe.
Unused(entry) == entry \notin used

\* "recorded" is what the record holds once a step that takes the entry is through.
Redeem(id, recorded) ==
  /\ moved' = moved \cup {Cred(id).pay}
  /\ used' = recorded
  /\ Goes(id, "settled")
  /\ UNCHANGED troubled

\* The node or Stripe fails, before the entry is taken, with it or after the money has
\* moved: what was reserved stays reserved.
SettlingFails(id, recorded) ==
  /\ "node" \in Troubles
  /\ \/ UNCHANGED <<moved, used>>
     \/ used' = recorded /\ moved' \in {moved, moved \cup {Cred(id).pay}}
  /\ troubled' = troubled \cup {id}
  /\ Refuse(id)

Spoiled(id) == Refuse(id) /\ UNCHANGED <<moved, used, troubled>>

\* The node turns a transaction away that was reserved.
Returned(id, recorded) == Refuse(id) /\ used' = recorded /\ UNCHANGED <<moved, troubled>>

\* if let Some(store)
Recorded(pay) == IF recording THEN used \cup {pay} ELSE used

\* The charge methods, seen from here: ChargeVerification has the detail.  A transaction
\* that was mined before, and is not on record, gets its receipt again from the node,
\* or an error.
SettleTempo(id) ==
  LET pay == Cred(id).pay
      mined == pay.how = "tx" /\ pay \in moved
      stale == pay.how = "tx" /\ now > pay.at + ValidFor
  IN \/ /\ Unused(pay) /\ (mined \/ ~stale)
        /\ Redeem(id, Recorded(pay)) \/ SettlingFails(id, Recorded(pay))
     \/ Unused(pay) /\ (mined \/ stale) /\ Returned(id, Recorded(pay))
     \/ ~Unused(pay) /\ Spoiled(id)

SettleStripe(id) ==
  LET recorded == used \cup {Cred(id)}
  IN \/ Unused(Cred(id)) /\ (Redeem(id, recorded) \/ SettlingFails(id, recorded))
     \/ ~Unused(Cred(id)) /\ Spoiled(id)

\* The session method: an open makes the channel known, a voucher needs it; one that
\* comes twice is accepted again.
SettleSession(id) ==
  LET pay == Cred(id).pay
  IN IF pay.how = "voucher" /\ ~known
       THEN Spoiled(id) /\ UNCHANGED known
       ELSE \/ Redeem(id, used) /\ known' = TRUE
            \/ SettlingFails(id, used) /\ UNCHANGED known

Settle(id) ==
  /\ call[id].pc = "admitted"
  /\ IF Cred(id).challenge.intent = "session"
       THEN SettleSession(id)
       ELSE /\ IF Cred(id).challenge.method = "stripe" THEN SettleStripe(id) ELSE SettleTempo(id)
            /\ UNCHANGED known
  /\ UNCHANGED <<opened, served, now, server>>

\* Mutant: every session credential is answered by the session method itself.
AnsweredAlways(pay) == pay.how \in {"open", "voucher"}

\* respond: an open, a top-up and a close are answered by the session method itself.
Answered(pay) == pay.how = "open"

\* The observers of payment.success have run; the route answers.  It may fail, and
\* its answer may be lost.
Serve(id) ==
  /\ call[id].pc = "settled"
  /\ LET pay == Cred(id).pay
         reached == IF "lost" \in Troubles THEN BOOLEAN ELSE {TRUE}
     IN \/ /\ Answered(pay)
           /\ Done(id, "management")
           /\ UNCHANGED <<served, troubled>>
        \/ /\ ~Answered(pay)
           /\ served' = served \cup
                {[call |-> id, route |-> call[id].route, pay |-> pay, era |-> era]}
           /\ \E here \in reached : Done(id, IF here THEN "content" ELSE "lost")
           /\ UNCHANGED troubled
        \/ /\ ~Answered(pay) /\ "inner" \in Troubles
           /\ Done(id, "error")
           /\ troubled' = troubled \cup {id}
           /\ UNCHANGED served
  /\ UNCHANGED <<channel, moved, used, now, server>>

-----------------------------------------------------------------------------
(* The environment.                                                        *)

\* The connection breaks and the handler is dropped with it.
Lose(id) ==
  /\ "lost" \in Troubles
  /\ call[id].pc \in {"asked", "retried", "admitted", "settled"}
  /\ Done(id, "lost")
  /\ UNCHANGED <<channel, ledger, now, server, troubled>>

Tick ==
  /\ now < MaxTime
  /\ now' = now + 1
  /\ UNCHANGED <<call, channel, ledger, server, troubled>>

\* Until then it does not matter where the record is: a MemoryStore is gone with its
\* process, Stripe's keys and a store of the application's own stay.
Forget ==
  \/ UNCHANGED <<used, since>>
  \/ recording /\ since' = 1 /\ used' = used \ {x.pay : x \in Created}

\* Once, the server starts again, as it was or with another secret or higher prices.
\* Handlers are dropped, and the session store may be one in memory.
Redeploy ==
  /\ era = 0 /\ era' = 1
  /\ \E d \in Deployments : key' = d[1] /\ raised' = d[2]
  /\ Forget
  /\ known' \in {known, FALSE}
  /\ call' = [id \in Calls |->
       IF call[id].pc \in {"admitted", "settled"}
         THEN EndsWith(call[id], "lost")
         ELSE call[id]]
  /\ UNCHANGED <<opened, moved, served, now, recording, troubled>>

Proceed(id) ==
  \/ Send(id) \/ Select(id) \/ Pay(id) \/ Override(id)
  \/ Challenge(id) \/ Verify(id) \/ Settle(id) \/ Serve(id)

\* Only when every request has ended may nothing happen: any other state without
\* a step is a deadlock.
Rest == Ended = Calls /\ UNCHANGED vars

Next == (\E id \in Calls : Proceed(id) \/ Lose(id)) \/ Tick \/ Redeploy \/ Rest

Spec == Init /\ [][Next]_vars

-----------------------------------------------------------------------------
(* Properties.                                                             *)

Stating == {r \in Routes : GateOf[r] \in {"layer", "extractor"}}
Metered == {r \in Routes : GateOf[r] = "session"}

\* The deliveries whose payment is on record: for a tempo charge it takes a replay
\* store, and one that has outlived every restart since.
OnRecord == {d \in served : d.pay.how \in {"tx", "hash"} => recording /\ d.era >= since}

\* The promise of the whole: money moves before it is served for, a payment on record
\* buys nothing more whichever requests carry it, and a route behind the layer or the
\* extractor delivers for its own price of the day.  With a store that lasts all
\* deliveries stay on record; with one in memory they do until the server starts again,
\* and without a store no delivery for a tempo charge is ever on it.
Buys == INSTANCE Purchase WITH
  Customers <- Calls, due <- price, delivered <- served, remembered <- OnRecord

ImplementsPurchase == Buys!Promise

Carriers(pay) == {id \in Paying : Cred(id).pay = pay}

Redeployed == era = 1

\* A handler gave the credential of another request.
HandedOn(id) == Cred(id).challenge # call[id].offers[1]

\* The header lost the opaque of the challenge.
Garbled(id) == ~HandedOn(id) /\ Cred(id).challenge.opaque # PinnedTo[call[id].route]

\* Out of the client's hands: the challenge expired after the provider paid it, or
\* while the caller paid it itself; or the transaction went stale.
TooLate(id) ==
  LET pay == Cred(id).pay
  IN \/ /\ IsExpired(Cred(id).challenge, call[id].ended)
        /\ pay.how = "hash" \/ ~IsExpired(Cred(id).challenge, pay.at)
     \/ pay.how = "tx" /\ call[id].ended > pay.at + ValidFor

\* A payment that has moved money without a delivery, once nothing more can come of
\* it, has an outside cause: a broken connection, a failure of the node, of Stripe or
\* of the route, a redeployment, a challenge that expired under a payment the caller
\* broadcast itself or that its header garbled, or it opened a channel.
UnservedForCause ==
  \A pay \in moved :
    \/ \E d \in served : d.pay = pay
    \/ pay.how = "open" \/ Redeployed
    \/ \E id \in Carriers(pay) :
         id \notin Ended \/ call[id].outcome = "lost" \/ id \in troubled
                         \/ TooLate(id) \/ Garbled(id)

\* A credential the client made for the challenge it was given is refused only for an
\* outside cause (a garbled header is one), or because another request carries the
\* same payment (two transfers with the same fixed memo in one second are one
\* transaction), or, for a voucher, because the open of another request has not arrived.
RefusedForCause ==
  \A id \in Ended :
    call[id].outcome = "refused" =>
      \/ Redeployed \/ id \in troubled \/ TooLate(id) \/ HandedOn(id) \/ Garbled(id)
      \/ Cardinality(Carriers(Cred(id).pay)) > 1
      \/ Cred(id).pay.how = "voucher" /\ \E other \in Created : other.pay.how = "open"
================================================================================
