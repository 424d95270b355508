--------------------------- MODULE SessionChannel ---------------------------
(***************************************************************************)
(* The server's side of one Tempo payment channel: the four credential     *)
(* handlers of SessionMethod (open, topUp, voucher, close), the deduction  *)
(* made for every metered item, and the escrow contract they read.         *)
(*                                                                         *)
(* A handler is an async function: between two awaits it runs alone, at an *)
(* await any other request may run.  Each handler is therefore a chain of  *)
(* actions, one per await that touches the chain or the store, and `job'   *)
(* carries what the handler captured and will use later.  The store is the *)
(* ChannelStore contract: update_channel is one atomic read-modify-write.  *)
(***************************************************************************)
EXTENDS Integers

CONSTANTS
  Requests,       \* slots for credentials being verified at the same time
  MaxAmount,      \* largest token amount (the code's is 2^128 - 1)
  MinDelta,       \* config.min_voucher_delta
  TickCosts,      \* what one metered item may cost
  HasCloseSigner, \* whether with_close_signer was called
  Faults,         \* what may go wrong, a subset of FaultKinds
  Signers,        \* who may have signed a voucher: "payer" and perhaps others
  ChargeBound,    \* bound of the model: metering stops once this is charged
  NoChannel       \* what the store holds before a channel is created

Amounts == 0..MaxAmount

\* rpc: a provider call fails, whether or not its transaction was mined.
\* store: a store call fails and changes nothing.
\* cancel: the handler's future is dropped at an await.
\* coldstart: the process restarts on a store that kept nothing.
FaultKinds == {"rpc", "store", "cancel", "coldstart"}

ASSUME AmountAssumption ==
  /\ MaxAmount \in Nat
  /\ MinDelta \in Nat
  /\ TickCosts \subseteq Nat
  /\ ChargeBound \in Nat
ASSUME ConfigAssumption ==
  /\ HasCloseSigner \in BOOLEAN
  /\ Faults \subseteq FaultKinds
  /\ "payer" \in Signers

\* What getChannel returns: the fields that do not identify the channel.
OnChainChannel ==
  [deposit: Amounts, settled: Amounts,
   close_requested: BOOLEAN, finalized: BOOLEAN]

\* What the server keeps of the channel: likewise.
ChannelState ==
  [deposit: Amounts, settled_on_chain: Amounts,
   highest_voucher_amount: Amounts, highest_voucher_signature: Signers,
   spent: Amounts, finalized: BOOLEAN, closing: BOOLEAN,
   close_requested: BOOLEAN]

ASSUME StoreAssumption == NoChannel \notin ChannelState

Unfunded == [deposit |-> 0, settled |-> 0,
             close_requested |-> FALSE, finalized |-> FALSE]

\* cum, signer: the credential's voucher.  funding: what its transaction pays
\* into the escrow.  seen: the deposit (topUp) or the spent amount (close) of
\* the snapshot taken with get_channel.  on_chain: the last getChannel result.
Job == [cum: Amounts, signer: Signers, funding: Amounts,
        seen: Amounts, on_chain: OnChainChannel]

NoJob == [cum |-> 0, signer |-> "payer", funding |-> 0,
          seen |-> 0, on_chain |-> Unfunded]

\* "idle": no request yet, or the last one was refused, failed or dropped.
\* "ok": the last request was answered with a success receipt.
Resting == {"idle", "ok"}

Phases == {"open_broadcast", "open_read", "open_commit",
           "topup_broadcast", "topup_read", "topup_commit",
           "voucher_read", "voucher_refresh", "voucher_accept",
           "close_read", "close_lock", "close_settle", "close_finalize"}

VARIABLES
  escrow,   \* the channel in the escrow contract
  store,    \* the channel in the ChannelStore
  pc,       \* where each request's handler is suspended
  job,      \* what each request's handler carries
  charged   \* history: total deducted for metered items since the last cold start

vars == <<escrow, store, pc, job, charged>>

TypeOK ==
  /\ escrow \in OnChainChannel
  /\ store \in ChannelState \cup {NoChannel}
  /\ pc \in [Requests -> Resting \cup Phases]
  /\ job \in [Requests -> Job]
  /\ charged \in Nat

-----------------------------------------------------------------------------
(* Control of a handler.                                                   *)

Larger(a, b) == IF a >= b THEN a ELSE b

Take(r, phase, j) ==
  /\ pc[r] \in Resting
  /\ pc' = [pc EXCEPT ![r] = phase]
  /\ job' = [job EXCEPT ![r] = j]

Proceed(r, phase, j) ==
  /\ pc' = [pc EXCEPT ![r] = phase]
  /\ job' = [job EXCEPT ![r] = j]

Fail(r) == Proceed(r, "idle", NoJob)
Succeed(r) == Proceed(r, "ok", NoJob)

StoreKnows == store # NoChannel

\* Mutant: spent restarts from what is settled on chain.
RefreshedForgetsSpent(c, e) ==
  LET settled == Larger(e.settled, c.settled_on_chain)
  IN  [c EXCEPT !.deposit = e.deposit, !.settled_on_chain = settled,
                !.spent = settled, !.close_requested = e.close_requested]

\* Mutant: spent is not raised to what is settled on chain.
RefreshedKeepsSpent(c, e) ==
  [c EXCEPT !.deposit = e.deposit,
            !.settled_on_chain = Larger(e.settled, c.settled_on_chain),
            !.close_requested = e.close_requested]

\* Mutant: an old getChannel result overwrites the settled amount.
RefreshedOverwritesSettled(c, e) ==
  [c EXCEPT !.deposit = e.deposit, !.settled_on_chain = e.settled,
            !.spent = Larger(e.settled, c.spent),
            !.close_requested = e.close_requested]

\* A refresh from the chain, as open, topUp and voucher all do it.
Refreshed(c, e) ==
  LET settled == Larger(e.settled, c.settled_on_chain)
  IN  [c EXCEPT !.deposit = e.deposit,
                !.settled_on_chain = settled,
                !.spent = Larger(settled, c.spent),
                !.close_requested = e.close_requested]

\* The stored voucher is replaced only by a higher one.
Raised(c, j) ==
  IF j.cum > c.highest_voucher_amount
    THEN [c EXCEPT !.highest_voucher_amount = j.cum,
                   !.highest_voucher_signature = j.signer]
    ELSE c

\* Mutant: a new record starts with nothing spent.
NewChannelUnspent(j) ==
  [deposit |-> j.on_chain.deposit, settled_on_chain |-> j.on_chain.settled,
   highest_voucher_amount |-> j.cum, highest_voucher_signature |-> j.signer,
   spent |-> 0, finalized |-> FALSE, closing |-> FALSE,
   close_requested |-> j.on_chain.close_requested]

NewChannel(j) ==
  [deposit |-> j.on_chain.deposit,
   settled_on_chain |-> j.on_chain.settled,
   highest_voucher_amount |-> j.cum,
   highest_voucher_signature |-> j.signer,
   spent |-> j.on_chain.settled,
   finalized |-> FALSE, closing |-> FALSE,
   close_requested |-> j.on_chain.close_requested]

-----------------------------------------------------------------------------
(* The escrow contract, as the handlers use it.                            *)

Opened(e, amount) ==
  IF e.deposit = 0 THEN [e EXCEPT !.deposit = amount] ELSE e

\* Whether a top-up withdraws the payer's close request is the contract's own
\* business: the server copies whichever it reads.
ToppedUp(e, amount) ==
  IF e.deposit > 0 /\ ~e.finalized /\ e.deposit + amount <= MaxAmount
    THEN {[e EXCEPT !.deposit = @ + amount, !.close_requested = c] :
             c \in {FALSE, e.close_requested}}
    ELSE {e}

Closed(e, cum) ==
  IF ~e.finalized /\ cum <= e.deposit
    THEN [e EXCEPT !.settled = Larger(@, cum), !.finalized = TRUE]
    ELSE e

\* The payer asks to close, and takes the rest back after the grace period.
RequestClose ==
  /\ escrow.deposit > 0 /\ ~escrow.finalized /\ ~escrow.close_requested
  /\ escrow' = [escrow EXCEPT !.close_requested = TRUE]
  /\ UNCHANGED <<store, pc, job, charged>>

Withdraw ==
  /\ escrow.close_requested /\ ~escrow.finalized
  /\ escrow' = [escrow EXCEPT !.finalized = TRUE]
  /\ UNCHANGED <<store, pc, job, charged>>

\* The payee's operator settles a voucher the server has accepted.
Settle ==
  /\ StoreKnows /\ ~escrow.finalized
  /\ \E v \in Amounts :
       /\ v > escrow.settled /\ v <= store.highest_voucher_amount
       /\ escrow' = [escrow EXCEPT !.settled = v]
  /\ UNCHANGED <<store, pc, job, charged>>

-----------------------------------------------------------------------------
(* open: broadcast the client's transaction, read the channel, commit.     *)

\* A credential whose transaction is not bound to the claimed channel, payee
\* and token is refused before anything happens: that is no step.
OpenStart(r) ==
  /\ \E cum, funding \in Amounts, signer \in Signers :
       Take(r, "open_broadcast",
            [NoJob EXCEPT !.cum = cum, !.signer = signer, !.funding = funding])
  /\ UNCHANGED <<escrow, store, charged>>

\* Mined (or mined before: a node may answer a repeat with the old receipt);
\* refused or reverted; or mined but the answer is lost.
OpenBroadcast(r) ==
  /\ pc[r] = "open_broadcast"
  /\ \/ /\ escrow' = Opened(escrow, job[r].funding)
        /\ Proceed(r, "open_read", [job[r] EXCEPT !.funding = 0])
     \/ Fail(r) /\ UNCHANGED escrow
     \/ /\ "rpc" \in Faults
        /\ escrow' = Opened(escrow, job[r].funding)
        /\ Fail(r)
  /\ UNCHANGED <<store, charged>>

OpenAcceptable(j, e) ==
  /\ e.deposit # 0
  /\ ~e.finalized
  /\ ~e.close_requested
  /\ j.cum <= e.deposit
  /\ j.cum >= e.settled
  /\ j.signer = "payer"

OpenRead(r) ==
  /\ pc[r] = "open_read"
  /\ \/ /\ OpenAcceptable(job[r], escrow)
        /\ Proceed(r, "open_commit", [job[r] EXCEPT !.on_chain = escrow])
     \/ ~OpenAcceptable(job[r], escrow) /\ Fail(r)
     \/ "rpc" \in Faults /\ Fail(r)
  /\ UNCHANGED <<escrow, store, charged>>

OpenCommit(r) ==
  /\ pc[r] = "open_commit"
  /\ \/ /\ store' = IF StoreKnows
                      THEN Raised(Refreshed(store, job[r].on_chain), job[r])
                      ELSE NewChannel(job[r])
        /\ Succeed(r)
     \/ "store" \in Faults /\ Fail(r) /\ UNCHANGED store
  /\ UNCHANGED <<escrow, charged>>

-----------------------------------------------------------------------------
(* topUp: snapshot, broadcast, re-read, refresh the stored deposit.        *)

TopUpStart(r) ==
  /\ StoreKnows
  /\ \E funding \in Amounts :
       Take(r, "topup_broadcast",
            [NoJob EXCEPT !.funding = funding, !.seen = store.deposit])
  /\ UNCHANGED <<escrow, store, charged>>

\* The transaction is never decoded: a successful one need not have added
\* anything to this channel.
TopUpBroadcast(r) ==
  /\ pc[r] = "topup_broadcast"
  /\ \/ /\ escrow' \in ToppedUp(escrow, job[r].funding) \cup {escrow}
        /\ Proceed(r, "topup_read", [job[r] EXCEPT !.funding = 0])
     \/ Fail(r) /\ UNCHANGED escrow
     \/ /\ "rpc" \in Faults
        /\ escrow' \in ToppedUp(escrow, job[r].funding)
        /\ Fail(r)
  /\ UNCHANGED <<store, charged>>

TopUpRead(r) ==
  /\ pc[r] = "topup_read"
  /\ \/ /\ escrow.deposit > job[r].seen
        /\ Proceed(r, "topup_commit", [NoJob EXCEPT !.on_chain = escrow])
     \/ escrow.deposit <= job[r].seen /\ Fail(r)
     \/ "rpc" \in Faults /\ Fail(r)
  /\ UNCHANGED <<escrow, store, charged>>

TopUpCommit(r) ==
  /\ pc[r] = "topup_commit"
  /\ \/ /\ StoreKnows
        /\ store' = Refreshed(store, job[r].on_chain)
        /\ Succeed(r)
     \/ ~StoreKnows /\ Fail(r) /\ UNCHANGED store
     \/ "store" \in Faults /\ Fail(r) /\ UNCHANGED store
  /\ UNCHANGED <<escrow, charged>>

-----------------------------------------------------------------------------
(* voucher: snapshot, read the chain, refresh and check, raise the voucher. *)

VoucherStart(r) ==
  /\ StoreKnows
  /\ ~store.finalized
  /\ ~store.closing
  /\ \E cum \in Amounts, signer \in Signers :
       Take(r, "voucher_read", [NoJob EXCEPT !.cum = cum, !.signer = signer])
  /\ UNCHANGED <<escrow, store, charged>>

VoucherRead(r) ==
  /\ pc[r] = "voucher_read"
  /\ \/ Proceed(r, "voucher_refresh", [job[r] EXCEPT !.on_chain = escrow])
     \/ "rpc" \in Faults /\ Fail(r)
  /\ UNCHANGED <<escrow, store, charged>>

\* Mutant: the signature is not looked at.
VoucherAcceptableUnsigned(c, j) ==
  /\ ~c.finalized /\ ~c.close_requested
  /\ j.cum >= c.settled_on_chain /\ j.cum <= c.deposit
  /\ j.cum - c.highest_voucher_amount >= Larger(MinDelta, 1)

\* The checks of verify_and_accept_voucher on the refreshed state.
VoucherAcceptable(c, j) ==
  /\ ~c.finalized
  /\ ~c.close_requested
  /\ j.cum >= c.settled_on_chain
  /\ j.cum <= c.deposit
  /\ j.cum > c.highest_voucher_amount
  /\ j.cum - c.highest_voucher_amount >= MinDelta
  /\ j.signer = "payer"

\* Mutant: the refresh rebuilds the record and loses the local lock.
VoucherRefreshedUnlocks(c, e) ==
  [Refreshed(c, e) EXCEPT !.finalized = e.finalized, !.closing = FALSE]

\* The refresh of the voucher handler also copies the finalized flag.
VoucherRefreshed(c, e) == [Refreshed(c, e) EXCEPT !.finalized = e.finalized]

VoucherRefresh(r) ==
  /\ pc[r] = "voucher_refresh"
  /\ \/ /\ StoreKnows
        /\ store' = VoucherRefreshed(store, job[r].on_chain)
        /\ \/ /\ VoucherAcceptable(store', job[r])
              /\ Proceed(r, "voucher_accept",
                         [job[r] EXCEPT !.on_chain = Unfunded])
           \/ ~VoucherAcceptable(store', job[r]) /\ Fail(r)
     \/ ~StoreKnows /\ Fail(r) /\ UNCHANGED store
     \/ "store" \in Faults /\ Fail(r) /\ UNCHANGED store
  /\ UNCHANGED <<escrow, charged>>

\* A voucher that is no longer the highest changes nothing and still succeeds.
VoucherAccept(r) ==
  /\ pc[r] = "voucher_accept"
  /\ \/ StoreKnows /\ store' = Raised(store, job[r]) /\ Succeed(r)
     \/ ~StoreKnows /\ Fail(r) /\ UNCHANGED store
     \/ "store" \in Faults /\ Fail(r) /\ UNCHANGED store
  /\ UNCHANGED <<escrow, charged>>

-----------------------------------------------------------------------------
(* close: snapshot, read the chain, lock, settle on chain, finalize.       *)

CloseStart(r) ==
  /\ StoreKnows
  /\ ~store.finalized
  /\ \E cum \in Amounts, signer \in Signers :
       Take(r, "close_read",
            [NoJob EXCEPT !.cum = cum, !.signer = signer, !.seen = store.spent])
  /\ UNCHANGED <<escrow, store, charged>>

\* Mutant: the deposit is not looked at.
CloseAcceptableAnyAmount(j, e) ==
  ~e.finalized /\ j.cum >= j.seen /\ j.cum > e.settled /\ j.signer = "payer"

\* validate_close_amount compares with the spent amount of the snapshot.
CloseAcceptable(j, e) ==
  /\ ~e.finalized
  /\ j.cum >= j.seen
  /\ j.cum > e.settled
  /\ j.cum <= e.deposit
  /\ j.signer = "payer"

CloseRead(r) ==
  /\ pc[r] = "close_read"
  /\ \/ /\ CloseAcceptable(job[r], escrow)
        /\ Proceed(r, "close_lock",
                   [job[r] EXCEPT !.seen = 0, !.on_chain = escrow])
     \/ ~CloseAcceptable(job[r], escrow) /\ Fail(r)
     \/ "rpc" \in Faults /\ Fail(r)
  /\ UNCHANGED <<escrow, store, charged>>

\* Mutant: the lock is taken whether or not it is held.
LockableTwice == StoreKnows /\ ~store.finalized

Lockable == StoreKnows /\ ~store.finalized /\ ~store.closing

CloseLock(r) ==
  /\ pc[r] = "close_lock"
  /\ \/ /\ Lockable
        /\ store' = [store EXCEPT !.closing = TRUE]
        /\ Proceed(r, IF HasCloseSigner THEN "close_settle" ELSE "close_finalize",
                   job[r])
     \/ ~Lockable /\ Fail(r) /\ UNCHANGED store
     \/ "store" \in Faults /\ Fail(r) /\ UNCHANGED store
  /\ UNCHANGED <<escrow, charged>>

\* The receipt's status is not looked at, so a reverted close goes on as well.
\* Every error of the settlement leaves the function by `?': the branch that
\* would clear `closing' again is never reached.
CloseSettle(r) ==
  /\ pc[r] = "close_settle"
  /\ \/ /\ escrow' \in {escrow, Closed(escrow, job[r].cum)}
        /\ Proceed(r, "close_finalize", job[r])
     \/ /\ "rpc" \in Faults
        /\ escrow' \in {escrow, Closed(escrow, job[r].cum)}
        /\ Fail(r)
  /\ UNCHANGED <<store, charged>>

\* Mutant: the lock is released but the channel stays open.
FinalizedButOpen(c, j) ==
  [Raised(c, j) EXCEPT !.deposit = j.on_chain.deposit, !.closing = FALSE]

\* The deposit is the one read before the lock was taken.
Finalized(c, j) ==
  [Raised(c, j) EXCEPT !.deposit = j.on_chain.deposit,
                       !.finalized = TRUE, !.closing = FALSE]

CloseFinalize(r) ==
  /\ pc[r] = "close_finalize"
  /\ \/ /\ store' = IF StoreKnows THEN Finalized(store, job[r]) ELSE store
        /\ Succeed(r)
     \/ "store" \in Faults /\ Fail(r) /\ UNCHANGED store
  /\ UNCHANGED <<escrow, charged>>

-----------------------------------------------------------------------------
(* deduct_from_channel: one update, made by every metered stream.          *)

\* Mutant: the balance is not looked at.
ChargeableUnpaid(c, cost) == ~c.finalized /\ ~c.closing

\* Mutant: what is already spent is available again.
ChargeableAgain(c, cost) ==
  ~c.finalized /\ ~c.closing /\ c.highest_voucher_amount >= cost

Chargeable(c, cost) ==
  /\ ~c.finalized
  /\ ~c.closing
  /\ Larger(c.highest_voucher_amount - c.spent, 0) >= cost

Deduct ==
  /\ StoreKnows
  /\ \E cost \in TickCosts :
       /\ Chargeable(store, cost)
       /\ charged + cost <= ChargeBound
       /\ store' = [store EXCEPT !.spent = @ + cost]
       /\ charged' = charged + cost
  /\ UNCHANGED <<escrow, pc, job>>

-----------------------------------------------------------------------------
(* Faults outside the handlers.                                            *)

\* The client goes away and the web framework drops the handler's future.
Cancel(r) ==
  /\ "cancel" \in Faults
  /\ pc[r] \in Phases
  /\ Fail(r)
  /\ UNCHANGED <<escrow, store, charged>>

ColdStart ==
  /\ "coldstart" \in Faults
  /\ store' = NoChannel
  /\ pc' = [r \in Requests |-> "idle"]
  /\ job' = [r \in Requests |-> NoJob]
  /\ charged' = 0
  /\ UNCHANGED escrow

-----------------------------------------------------------------------------

Init ==
  /\ escrow = Unfunded
  /\ store = NoChannel
  /\ pc = [r \in Requests |-> "idle"]
  /\ job = [r \in Requests |-> NoJob]
  /\ charged = 0

Start(r) == OpenStart(r) \/ TopUpStart(r) \/ VoucherStart(r) \/ CloseStart(r)

Handle(r) ==
  \/ OpenBroadcast(r) \/ OpenRead(r) \/ OpenCommit(r)
  \/ TopUpBroadcast(r) \/ TopUpRead(r) \/ TopUpCommit(r)
  \/ VoucherRead(r) \/ VoucherRefresh(r) \/ VoucherAccept(r)
  \/ CloseRead(r) \/ CloseLock(r) \/ CloseSettle(r) \/ CloseFinalize(r)

Next ==
  \/ \E r \in Requests : Start(r) \/ Handle(r) \/ Cancel(r)
  \/ Deduct
  \/ RequestClose \/ Withdraw \/ Settle
  \/ ColdStart

Spec == Init /\ [][Next]_vars

\* The runtime polls every handler that can run; nothing makes a client send.
FairSpec == Spec /\ \A r \in Requests : WF_vars(Handle(r))
-----------------------------------------------------------------------------
(* Safety.                                                                 *)

\* The voucher the server would settle is signed by the payer and covered by
\* the deposit in the escrow, whatever was in flight when it was accepted.
VoucherBacked ==
  StoreKnows =>
    /\ store.highest_voucher_signature = "payer"
    /\ store.highest_voucher_amount <= escrow.deposit

\* What was charged for metered items since the last cold start, by any number
\* of streams and across every refresh from the chain, never exceeds the highest
\* accepted voucher, and none of it is forgotten by `spent'.
ChargesCovered ==
  charged > 0 =>
    /\ StoreKnows
    /\ charged <= store.spent
    /\ charged <= store.highest_voucher_amount

\* The store may lag behind the chain but never runs ahead of it, and the
\* spent amount always includes what is already settled: a refresh with an old
\* getChannel result cannot make settled money spendable again.
StoreBehindChain ==
  StoreKnows =>
    /\ store.deposit <= escrow.deposit
    /\ store.settled_on_chain <= escrow.settled
    /\ store.settled_on_chain <= store.spent

Settling == {"close_settle", "close_finalize"}

\* At most one request at a time is settling the channel on chain: the local
\* lock keeps a second close from being sent while the first is in progress.
OneCloserAtATime ==
  \A r, s \in Requests : pc[r] \in Settling /\ pc[s] \in Settling => r = s

\* While a close is being settled the lock is in place, even if vouchers,
\* top-ups and reopens that started earlier write the same record meanwhile.
LockHeldWhileSettling ==
  \A r \in Requests : pc[r] \in Settling => StoreKnows /\ store.closing

\* The phases in which a handler has checked its voucher and goes on to use it.
Checked == {"open_commit", "voucher_accept",
            "close_lock", "close_settle", "close_finalize"}

JobWithinChain(phase, j, e) ==
  /\ j.on_chain.deposit <= e.deposit
  /\ j.on_chain.settled <= e.settled
  /\ phase \in Checked => j.signer = "payer" /\ j.cum <= e.deposit

\* What a handler captured before an await is still good when it is used after
\* it: the chain has not fallen behind it, and a checked voucher is covered.
JobsWithinChain == \A r \in Requests : JobWithinChain(pc[r], job[r], escrow)

\* No handler, however late it writes what it read, takes back accounting:
\* the accepted voucher, the spent and the settled amount only grow.
AccountingOnlyGrows ==
  [][StoreKnows /\ store' # NoChannel =>
       /\ store'.highest_voucher_amount >= store.highest_voucher_amount
       /\ store'.spent >= store.spent
       /\ store'.settled_on_chain >= store.settled_on_chain]_vars

\* The handlers, the streams and the chain together behave as one abstract
\* channel whose deliveries stay within what the payer authorised.
Metered == INSTANCE MeteredChannel WITH
  funds <- escrow.deposit,
  authorised <- IF StoreKnows THEN store.highest_voucher_amount ELSE 0,
  delivered <- charged

ImplementsMeteredChannel == Metered!Spec

-----------------------------------------------------------------------------
(* Liveness, under FairSpec and without faults.                            *)

\* A channel locked for closing ends up finalized in the store.
CloseCompletes == (StoreKnows /\ store.closing) ~> (StoreKnows /\ store.finalized)

-----------------------------------------------------------------------------
(* What the repository says and the code does not do.                      *)

\* CHANGELOG: channels are locked "while close settlement is in progress".
LockedOnlyWhileSettling ==
  StoreKnows /\ store.closing => \E r \in Requests : pc[r] \in Settling
=============================================================================
