---------------------------- MODULE MeteredStream ----------------------------
(***************************************************************************)
(* Metered delivery over one payment channel: sse::serve and ws_session on *)
(* the server, the voucher sender of TempoSessionProvider on the client.   *)
(*                                                                         *)
(* A stream takes an item from its generator, deducts the cost of one item *)
(* and sends it.  When the deduction is refused it asks for a voucher,     *)
(* waits for the channel to change or for its poll timer, and tries again. *)
(* The voucher handler is one step here (SessionChannel has its awaits).   *)
(***************************************************************************)
EXTENDS Integers

CONSTANTS
  Streams,      \* streams served over the same channel
  Kind,         \* "sse" or "ws", for each stream
  Items,        \* what each generator produces
  TickCost,     \* options.tick_cost
  Deposit,      \* the channel's deposit
  InitialCum,   \* the voucher that opened the channel
  MinDelta,     \* config.min_voucher_delta
  Notifies,     \* whether the store overrides wait_for_update
  Faults        \* "store": a store call fails; "post": a voucher is lost;
                \* "drop": the client goes away; "close": the channel is closed

ASSUME StreamAssumption ==
  /\ Kind \in [Streams -> {"sse", "ws"}]
  /\ Items \in Nat
  /\ TickCost \in Nat
  /\ Deposit \in Nat
  /\ InitialCum \in 0..Deposit
  /\ MinDelta \in Nat
  /\ Notifies \in BOOLEAN
  /\ Faults \subseteq {"store", "post", "drop", "close"}

None == -1

Nothing == [accepted |-> 0, spent |-> 0]

VARIABLES
  channel,    \* the stored channel: highest voucher, spent, status
  pc,         \* where each stream is
  left,       \* what each generator has still to produce
  notified,   \* whether the channel changed since a stream began to wait
  inbox,      \* the need-voucher event each reader has to read, if any
  cum,        \* the client's cumulative_amount for the channel
  signing,    \* the amount each stream's reader is signing, if any
  post,       \* the voucher each stream's reader has posted, if any
  receipt,    \* the final receipt of each stream
  paid,       \* history: deductions made for each stream
  delivered   \* history: items sent on each stream

serverVars == <<channel, pc, left, notified, receipt, paid, delivered>>
clientVars == <<cum, signing, post>>
vars == <<serverVars, inbox, clientVars>>

Running == {"pull", "charge", "ask", "listen", "wait", "emit", "receipt"}
Ended == {"done", "gone"}

TypeOK ==
  /\ channel \in [highest: Nat, spent: Nat,
                  status: {"open", "closing", "finalized"}]
  /\ pc \in [Streams -> Running \cup Ended]
  /\ left \in [Streams -> 0..Items]
  /\ notified \in [Streams -> BOOLEAN]
  /\ inbox \in [Streams -> Nat \cup {None}]
  /\ cum \in Nat
  /\ signing \in [Streams -> Nat \cup {None}]
  /\ post \in [Streams -> Nat \cup {None}]
  /\ receipt \in [Streams -> [accepted: Nat, spent: Nat]]
  /\ paid \in [Streams -> Nat]
  /\ delivered \in [Streams -> Nat]

-----------------------------------------------------------------------------
(* The stream.                                                             *)

Go(s, to) == pc' = [pc EXCEPT ![s] = to]

\* Every update of the record wakes those who wait at that moment.
Notify == notified' = [s \in Streams |-> notified[s] \/ (Notifies /\ pc[s] = "wait")]

Pull(s) ==
  /\ pc[s] = "pull"
  /\ \/ /\ left[s] > 0
        /\ left' = [left EXCEPT ![s] = @ - 1]
        /\ Go(s, "charge")
     \/ left[s] = 0 /\ Go(s, "receipt") /\ UNCHANGED left
  /\ UNCHANGED <<channel, notified, receipt, paid, delivered, inbox, clientVars>>

\* What deduct_from_channel asks of the balance.
Sufficient(c) == c.highest - c.spent >= TickCost

\* Mutant: a closed channel is an error like the others.
OnClosedAsks(s) == "ask"

\* serve stops on a closed channel; ws_session has no case for it.
OnClosed(s) == IF Kind[s] = "sse" THEN "receipt" ELSE "ask"

\* Every other error, a failing store included, is answered by a request for a
\* voucher.
Charge(s) ==
  /\ pc[s] = "charge"
  /\ \/ /\ channel.status = "open" /\ Sufficient(channel)
        /\ channel' = [channel EXCEPT !.spent = @ + TickCost]
        /\ paid' = [paid EXCEPT ![s] = @ + 1]
        /\ Notify
        /\ Go(s, "emit")
     \/ /\ channel.status # "open"
        /\ Go(s, OnClosed(s))
        /\ UNCHANGED <<channel, paid, notified>>
     \/ /\ (channel.status = "open" /\ ~Sufficient(channel)) \/ "store" \in Faults
        /\ Go(s, "ask")
        /\ UNCHANGED <<channel, paid, notified>>
  /\ UNCHANGED <<left, receipt, delivered, inbox, clientVars>>

\* Mutant: the request is made on top of the highest voucher.
RequiredOnTop(c) == c.highest + TickCost

\* The record is read again: it may have changed since the deduction failed.
Required(c) == c.spent + TickCost

\* The event is handed over when the client has taken the one before it.
Ask(s) ==
  /\ pc[s] = "ask"
  /\ \/ /\ inbox[s] = None
        /\ inbox' = [inbox EXCEPT ![s] = Required(channel)]
     \/ "store" \in Faults /\ UNCHANGED inbox
  /\ Go(s, "listen")
  /\ UNCHANGED <<channel, left, notified, receipt, paid, delivered, clientVars>>

\* wait_for_update registers only now: a change since the deduction is missed.
Listen(s) ==
  /\ pc[s] = "listen"
  /\ notified' = [notified EXCEPT ![s] = FALSE]
  /\ Go(s, "wait")
  /\ UNCHANGED <<channel, left, receipt, paid, delivered, inbox, clientVars>>

\* Mutant: the item is dropped after the wait.
ResumedNext == "pull"

\* Mutant: the item is sent after the wait without another deduction.
ResumedUnpaid == "emit"

\* The item is kept across the wait, and charged like the first time.
Resumed == "charge"

\* The select ends with the update or with the timer, whichever comes first.
WakeOnUpdate(s) ==
  /\ pc[s] = "wait"
  /\ notified[s]
  /\ Go(s, Resumed)
  /\ UNCHANGED <<channel, left, notified, receipt, paid, delivered, inbox, clientVars>>

\* Mutant: there is no poll timer.
PollNever(s) == WakeOnUpdate(s)

Poll(s) ==
  /\ pc[s] = "wait"
  /\ Go(s, Resumed)
  /\ UNCHANGED <<channel, left, notified, receipt, paid, delivered, inbox, clientVars>>

Emit(s) ==
  /\ pc[s] = "emit"
  /\ delivered' = [delivered EXCEPT ![s] = @ + 1]
  /\ Go(s, "pull")
  /\ UNCHANGED <<channel, left, notified, receipt, paid, inbox, clientVars>>

\* Mutant: the receipt says what the voucher covers.
FinalReceiptOfVoucher(c) == [accepted |-> c.spent, spent |-> c.highest]

FinalReceipt(c) == [accepted |-> c.highest, spent |-> c.spent]

Receipt(s) ==
  /\ pc[s] = "receipt"
  /\ \/ receipt' = [receipt EXCEPT ![s] = FinalReceipt(channel)]
     \/ "store" \in Faults /\ UNCHANGED receipt
  /\ Go(s, "done")
  /\ UNCHANGED <<channel, left, notified, paid, delivered, inbox, clientVars>>

Drop(s) ==
  /\ "drop" \in Faults
  /\ pc[s] \in Running
  /\ Go(s, "gone")
  /\ UNCHANGED <<channel, left, notified, receipt, paid, delivered, inbox, clientVars>>

-----------------------------------------------------------------------------
(* The client.                                                             *)

\* send_voucher: at least what is required, never less than before.
Authorised(required) == IF required > cum THEN required ELSE cum

\* The entry is copied, then the voucher is signed.
SignVoucher(s) ==
  /\ inbox[s] # None
  /\ signing[s] = None /\ post[s] = None
  /\ signing' = [signing EXCEPT ![s] = Authorised(inbox[s])]
  /\ inbox' = [inbox EXCEPT ![s] = None]
  /\ UNCHANGED <<serverVars, cum, post>>

\* The copy replaces the entry, whatever another reader has written meanwhile,
\* before the request is made.
SendVoucher(s) ==
  /\ signing[s] # None
  /\ cum' = signing[s]
  /\ post' = [post EXCEPT ![s] = signing[s]]
  /\ signing' = [signing EXCEPT ![s] = None]
  /\ UNCHANGED <<serverVars, inbox>>

\* What the voucher handler of the session method asks of a voucher.
Acceptable(c, amount) ==
  /\ c.status = "open"
  /\ amount > c.highest
  /\ amount - c.highest >= MinDelta
  /\ amount <= Deposit

\* The handler answers, with a receipt or with an error; the reader goes on.
VoucherArrives(s) ==
  /\ post[s] # None
  /\ post' = [post EXCEPT ![s] = None]
  /\ \/ /\ Acceptable(channel, post[s])
        /\ channel' = [channel EXCEPT !.highest = post[s]]
        /\ Notify
     \/ ~Acceptable(channel, post[s]) /\ UNCHANGED <<channel, notified>>
  /\ UNCHANGED <<pc, left, inbox, cum, signing, receipt, paid, delivered>>

VoucherLost(s) ==
  /\ "post" \in Faults
  /\ post[s] # None
  /\ post' = [post EXCEPT ![s] = None]
  /\ UNCHANGED <<serverVars, inbox, cum, signing>>

\* A close locks the channel and finalizes it, on another connection.
Close ==
  /\ "close" \in Faults
  /\ \/ channel.status = "open" /\ channel' = [channel EXCEPT !.status = "closing"]
     \/ channel.status = "closing" /\ channel' = [channel EXCEPT !.status = "finalized"]
  /\ Notify
  /\ UNCHANGED <<pc, left, receipt, paid, delivered, inbox, clientVars>>

-----------------------------------------------------------------------------

Init ==
  /\ channel = [highest |-> InitialCum, spent |-> 0, status |-> "open"]
  /\ pc = [s \in Streams |-> "pull"]
  /\ left = [s \in Streams |-> Items]
  /\ notified = [s \in Streams |-> FALSE]
  /\ inbox = [s \in Streams |-> None]
  /\ cum = InitialCum
  /\ signing = [s \in Streams |-> None]
  /\ post = [s \in Streams |-> None]
  /\ receipt = [s \in Streams |-> Nothing]
  /\ paid = [s \in Streams |-> 0]
  /\ delivered = [s \in Streams |-> 0]

Serve(s) ==
  \/ Pull(s) \/ Charge(s) \/ Ask(s) \/ Listen(s) \/ WakeOnUpdate(s) \/ Poll(s)
  \/ Emit(s) \/ Receipt(s)

Next ==
  \/ \E s \in Streams : Serve(s) \/ Drop(s)
  \/ \E s \in Streams :
       SignVoucher(s) \/ SendVoucher(s) \/ VoucherArrives(s) \/ VoucherLost(s)
  \/ Close

Spec == Init /\ [][Next]_vars

\* The runtime polls every stream, and the reader answers what it is sent.
FairSpec ==
  /\ Spec
  /\ \A s \in Streams :
       /\ WF_vars(Serve(s))
       /\ WF_vars(SignVoucher(s)) /\ WF_vars(SendVoucher(s))
       /\ SF_vars(VoucherArrives(s))

-----------------------------------------------------------------------------
(* Properties.                                                             *)

InHand(s) == IF pc[s] = "emit" THEN 1 ELSE 0

\* Every item sent was paid for by a deduction of its own, through any number
\* of waits: at most one paid item is lost, when the client goes away.
EveryItemPaidOnce ==
  \A s \in Streams :
    /\ delivered[s] + InHand(s) <= paid[s]
    /\ pc[s] # "gone" => paid[s] = delivered[s] + InHand(s)

\* The phases in which an item has been taken from the generator, not yet sent.
Holding == {"charge", "ask", "listen", "wait", "emit"}

\* No item is skipped by a wait: while a stream runs on an open channel, what
\* was produced is what was sent and the item it holds.
NoItemSkipped ==
  \A s \in Streams :
    (pc[s] \in Running /\ (pc[s] = "receipt" => channel.status = "open")) =>
      delivered[s] + left[s] + (IF pc[s] \in Holding THEN 1 ELSE 0) = Items

\* The client never authorises more than one item beyond what is spent: events
\* that are stale, repeated or late do not add up.
ExposureBounded ==
  cum <= InitialCum \/ cum <= channel.spent + TickCost

\* A receipt, read after the last deduction, accounts for every item that was
\* sent and claims no more than the voucher covers.
ReceiptAccounts ==
  \A s \in Streams :
    pc[s] = "done" /\ receipt[s] # Nothing =>
      /\ TickCost * paid[s] <= receipt[s].spent
      /\ receipt[s].spent <= receipt[s].accepted
      /\ receipt[s].spent <= channel.spent

\* With a client that answers and enough deposit every stream ends, although a
\* wait may miss the very update it is waiting for; so does one whose channel is
\* closed meanwhile.
StreamsEnd == \A s \in Streams : <>(pc[s] \in Ended)
==============================================================================
