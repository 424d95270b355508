# Verification of mpp-rs

TLA+ models of [mpp-rs](../src/README.md), the Rust SDK of the Machine Payments
Protocol: a server answers `402` with a payment challenge, the client pays and
repeats the request with a credential, the server verifies it. Payments are
single (a *charge*) or metered over a payment channel (a *session*). Paths below
are relative to `src/`.

## Inventory

| Component | State | Operations | What is hard | What makes it correct |
|---|---|---|---|---|
| Session method, `src/protocol/methods/tempo/session_method.rs` | the channel's record in a `ChannelStore`; the escrow contract | `open`, `topUp`, `voucher`, `close`, `deduct_from_channel` | async handlers of concurrent requests interleave at awaits, carry what they read before, fail between two store calls | never charge more than the highest voucher; never accept a voucher the escrow does not cover; one close at a time; accounting never goes back |
| Metered streaming, `src/server/sse.rs`, `src/server/ws_session.rs` | one item in hand, the shared record | take, deduct, ask for a voucher, wait, send, receipt | several streams over one channel; missed wake-ups; stale events; store failures taken for an empty balance; disconnects | each item sent is paid once, none is skipped; the client is not asked for more than the next item; streams end |
| Channel store adapter and stores, `src/store.rs` | a table of mutexes; records in a `Store` | `get`, `put`, `delete`, `put_if_absent`, `update_channel` | read, transform and write with awaits in between; dropped futures; eviction of a mutex; a put that is not atomic | updates of a channel are serialized; an acknowledged update is not lost |
| Session provider, `src/client/tempo/session/` | registry of channels, last challenge | `pay` (voucher, recovery, open), `send_voucher`, `close` | the registry entry is copied, signed for, and put back; the server may not have seen the credential | exposure bounded; the cumulative amount grows; a channel is opened once |
| Charge method, `src/protocol/methods/tempo/method.rs` | replay keys in a `Store`; the chain | verification of hash, transaction and proof credentials | claims before and after a broadcast; two kinds of credential for one transaction | a transaction pays once |
| Server core, `src/server/mpp.rs` | none but the secret | challenge, `verify*` tiers | stateless checks, many paths, a redeployment between challenge and credential | only challenges of this server, for this request, before expiry |
| Offers, `src/server/compose.rs`, `src/protocol/core/accept_payment.rs`, `src/client/challenge_selection.rs` | none | ranking and selection | weights, ties, a credential for one of several offers | the credential reaches the handler of its method; the best open offer is paid |
| Client fetch and middleware, `src/client/fetch.rs`, `middleware.rs`, `events.rs` | one request | send, 402, pay, one retry | answers lost after paying; handlers that bring a credential of their own | a payment on record buys one delivery; who pays in order is served |
| Charge client, `src/client/tempo/charge/mod.rs`, `provider.rs`, `autoswap.rs` | none | calls of a transaction, signature | what it signs must pass the server's rules | its transactions are accepted |
| WebSocket transport for alloy, `crates/alloy-transport-mpp/src/ws.rs` | pending payment tasks, buffered calls, keepalive, a latch | select loop, reconnection | a connection that ends while a credential awaits its receipt; requests buffered behind payments | does not pay twice for one connection; no request is lost, reordered or stuck |
| Server middleware and extractors, `src/server/middleware.rs`, `axum.rs` | none | gate a route | they compare the price, `compose_verify` does not | a route delivers for its price |
| Stripe, `src/protocol/methods/stripe/method.rs` | Stripe's idempotency keys | one call | a replayed answer | a token pays once |
| Wire formats, signatures, proxy | none of their own | | encoding | |

How they interact: a credential reaches the session or charge method through
the server core. The session method and the streams share the record through
`ChannelStore::update_channel`, the only atomic step they have; a stream learns
of a voucher through `wait_for_update` or its poll timer. The client's reader
answers a need-voucher event with `send_voucher`, which reaches the voucher
handler as another request. The handlers read the escrow contract through the
node's RPC. `ChannelStoreAdapter` provides `update_channel` over a plain
key-value store. An HTTP client reaches the core through the layer, an extractor or
an application's own handler, once without and once with a credential; its
providers share their memory (the session registry) between requests. The alloy
transport does the same over a socket, where the server may ask again at any time.

## Modules

| Module | What it is |
|---|---|
| `MeteredChannel` | abstract: a channel that is funded, authorised and delivered on, delivery within authorisation within funds |
| `SessionChannel` | the four handlers, deductions, the escrow contract, faults |
| `SessionChannelProofs` | its theorems |
| `MeteredStream` | the metering loops of both transports and the client's voucher sender |
| `MeteredStreamProofs` | its theorems |
| `ChannelUpdaters` | what the closures handed to `update_channel` do to a record |
| `AtomicRecord` | abstract: the read-modify-write that the trait asks for |
| `ChannelStoreAdapter` | `update_channel` of the adapter, call by call |
| `ChannelStoreAdapterProofs` | its theorems |
| `ChargeVerification` | `verify` of the charge method, the chain, the replay keys |
| `ChargeVerificationProofs` | its theorems |
| `ChargeTransfers` | functions: the transfers of a request, the calls a client signs, the server's matching of calls and logs |
| `SignedTransaction` | a transaction from the request to the receipt, over `ChargeTransfers` |
| `SignedTransactionProofs` | its theorems, and the lemmas about the matching of `ChargeTransfers` |
| `SessionProvider` | the client side of channels: the registry, `pay`, `send_voucher`, `close`, with the servers |
| `SessionProviderProofs` | its theorems |
| `WsTranslator` | the alloy transport's select loop, over several connections |
| `WsTranslatorProofs` | its theorems |
| `Purchase` | abstract: what a payment for a request promises |
| `PaymentGate` | functions: challenges, the tiers of verification, offers and their ranking |
| `PaidRequest` | client, network, gate, settlement and route composed; implements `Purchase` |
| `PaidRequestProofs` | its theorems, and the lemmas about `PaymentGate` they need |
| `MC*` | instances for model checking |

### SessionChannel

A handler is a chain of actions, one for each await that touches the chain or
the store: `VoucherStart` takes the snapshot and runs the first checks,
`VoucherRead` is `getChannel`, `VoucherRefresh` the first `update_channel` and
the checks after it, `VoucherAccept` the second one. `pc[r]` is where request
`r` is suspended and `job[r]` what it carries: its voucher, the snapshot's
amount it will compare with, the `getChannel` result it will write. `escrow` is
the contract's record, `store` the server's, `charged` a history variable. The
checks that say *this credential is not for this channel* (addresses, chain id,
channel id, payload shape) are abstracted to a refusal, which `Fail` is; a
signature is the payer's or somebody else's. The contract is external: it takes
what its interface and the handlers' use of it say (deposits add up, a close
pays a voucher above what is settled and within the deposit, a withdrawal needs
a requested close). Faults: a provider call fails with or without its effect, a
store call fails, a handler is dropped at an await, the process restarts on an
empty store.

### MeteredStream

`pc[s]` follows the loop of `serve` and `ws_session`: `pull`, `charge`, `ask`,
`listen`, `wait`, back to `charge`, `emit`, `receipt`. Reading the record for
the event (`Ask`) and registering for updates (`Listen`) are steps of their own
because other tasks run between them. `OnClosed` is where the two transports
differ. On the client, `SignVoucher` copies the registry entry and `SendVoucher`
puts the copy back and posts. The voucher handler is one step here, with the
checks on amounts that `verify_and_accept_voucher` makes; `SessionChannel` has
its awaits.

### ChannelStoreAdapter

`Call` takes the mutex from the table when `update_channel` is called, before
its future is polled; `Acquire` takes the guard; `Get` reads and runs the
closure; `Put`, or `PutTruncate` and `PutWrite` for a `FileStore`, writes;
`Delete` deletes and evicts the mutex. `Return` is the end of the call on every
path: the guard is dropped. A record is abstracted to its spent amount, which
is what a lost update would lose.

### ChargeVerification

One action per call of the node or the store, for each of the calls of `verify`
under way. `chain` says what became of a transaction, `claims` are the keys in
the store, which is absent, in memory or on disk (`store`, fixed at the start).
`ChainId` is the first await and the dispatch on the kind of credential after
it, with the checks that need no await. A hash goes on with `FetchReceipt`; a
transaction with `Submit`, which reserves the bytes, and `Broadcast`; a proof by
an access key with `AccessKey`. All meet at `Claim`, `put_if_absent` for the
replay key, and `Grant` is the receipt. What decoding, cosigning, the fee policy
and the matching of logs find out is given by constants: which transaction some
bytes are (many to one: bytes behind the transaction are ignored, and an
envelope is completed by the server), whom it pays, whose memo it carries. `Challenges`
are those for the node's chain and this method; a credential for any other is
refused before it touches anything.

### ChargeTransfers and SignedTransaction

`ChargeTransfers` has no state. `Transfers` is `get_transfers`, `ClientCalls` what
`TempoProvider::pay` has signed (a memo bound to the challenge when the request has
none, a swap in front when the wallet is short), `CallsAccepted` the checks before
a broadcast, `LogsMatch` and `BoundBy` those of a receipt. Both matchings are the
same greedy loop with another test and preference: `Taken` is a recursive function,
each transfer taking what those `Earlier` than it leave. A log is at twice the position
of its call, so that the order of the logs is that of the calls, and a plain transfer
logged besides comes before it. `SignedTransaction` runs them in
order: `Sign` or `SignOther`, `Approve`, `Execute`, `Settle`; a transaction that
somebody else broadcasts comes without `Approve`. `MCChargeVerification` computes
the relations that `ChargeVerification` takes as constants from these functions.
The exchange and the token are external: a swap credits the payer, a token logs a
transfer with a memo once or twice.

### SessionProvider

`call[p]` is where a call of the provider is suspended and the copy of the registry
entry it works on. `PayStart` copies; `Recover`, `OpenContract`, `OpenPrecompile` are
the node calls; `SignVoucher`, `SignOpen`, `SignClose` put the entry back after the
signature; `Arrive` is the server's answer with the checks that `SessionChannel` has in
detail; `Lose` a credential that never arrives; `Restart` a client that lost its
memory. Deposits follow `resolve_deposit`. `raced`, `restarted` and `strayed` are
histories that the properties use to say when the code does *not* promise something.

### WsTranslator

One action for each arm of `tokio::select!`, one disjunct for each way the arm ends:
`Flush`, `FrontendSends` and `Shutdown`, `Settle` (a payment or voucher task has
ended), `Keepalive`, `Deadline`, `FromSocket`. `EndTransient` lets alloy call `Connect`
again and issue what is not answered; `EndFatal` sets the latch that clones of the
connector share, and so does `HandleGone`, the answer that finds no frontend. `asked`
and `welcomed` are the server's view, `owed` says that a credential of this connection
has had no receipt.

### PaymentGate and PaidRequest

`PaymentGate` has the challenges (an id is a function of the key and of all a
challenge says), the tiers (`HmacAndExpiry`, `PinnedFields`, `MatchesExpected`,
`ComposeVerify`, `VerifySession`), `Compose`, `Rank` and `Payable`, and what the header
does to a challenge on its way (`Transmitted`). In `PaidRequest` each call goes `Send`,
`Challenge`, `Select`, `Pay` or `Override` (a handler of `challenge.received` gives a
credential), `Verify`, `Settle`, `Serve`. `Settle` is one step for each method: tempo
and Stripe redeem a payment once, a session knows a channel or not; the details are
`ChargeVerification` and `SessionChannel`. The replay store of the tempo method is
optional (`method.rs:771`, `:1024`, `:1067`), and in memory unless the application gives
one (`server/tempo.rs:119`, `:128`, `:187`): `recording` says whether there is one,
`used` what it holds together with Stripe's keys, which Stripe keeps. `Lose` breaks a
connection at any wait and drops the handler. `Redeploy` starts the server again, as it
was or with another key or higher prices; `Forget` empties a store in memory then, and
`since` says how far back the record goes. `OnRecord`, the deliveries whose payment is
recorded, is what `Purchase` knows as `remembered`: a payment of one of these buys
nothing more.

## Runs

| Run | Instance | Shows |
|---|---|---|
| `core` | 2 requests, amounts to 2, every fault | all invariants, `AccountingOnlyGrows`, refinement of `MeteredChannel` |
| `close` | amounts to 1, two signers, no faults, fair | a locked channel ends finalized; a stranger's voucher is never stored |
| `safety` | an SSE and a WebSocket stream, 2 items each, every fault | items, payments, exposure, receipts |
| `ends` | 2 SSE streams, lost vouchers, a close, fair | streams end although a wake-up may be missed or the channel is closed |
| `adapter` | 2 callers, both kinds of store, deletions, every fault, fair | serialized, nothing acknowledged is lost, no truncated file is left by a dropped call, refinement of `AtomicRecord`, every call returns |
| `charge` | 2 calls, a transaction in two encodings and an envelope, a proof in two, 4 challenges, each kind of store, one fault, fair | one receipt per payment, earned; one broadcast; no claim without a reason; who has paid is served |
| `transfers` | every request of amount 1 or 3 with up to 2 splits, every list of up to 3 calls out of ten | greedy matching finds an assignment when there is one; what was approved pays; what the client signs is accepted |
| `provider` | 2 calls at a time, 2 payees, 3 pays, 2 vouchers or closes, losses, node failures, a restart | exposure bounded whatever overlaps; refusals have a reason; one channel per payee and a registry that covers every voucher, unless calls overlapped |
| `transport` | 3 requests, 7 frames, 4 connections, every mishap, fair | a credential precedes requests, none is lost, reordered or stuck; a vanished peer is not paid again; a fatal end has a cause |
| `paid` | 2 requests, 7 routes (each kind of gate and of description), 2 ticks, every trouble, a restart, each kind of replay store | refinement of `Purchase`; who pays is served, and a credential refused, only for an outside cause |
| `stuck_lock`, `autoswap` | one disagreement each | see *Findings* |

Bounds, and why they are enough. Two requests in flight suffice for every
disagreement found, each of which is one handler using what another has
changed; the theorems hold for any number. Amounts up to 2 or 3 distinguish
nothing, less, equal and more; `ChargeBound` stops metering in `SessionChannel`
and is far enough for a channel to be charged to its voucher again after a
refresh. In `MeteredStream` two streams of two items need more than the opening
voucher covers, so each has to ask; the deposit is large enough in the fair
runs and too small in `safety`. In `ChannelStoreAdapter` two callers, each of
which calls again and again, give a holder, a waiter and, when the holder has
returned, a newcomer; `Credit` bounds the record; two mutexes are one for each
caller, and one that no caller has taken can always be reused.

In `charge` two calls race for a key, and calls follow each other without end, so
that retries and repeated presentations happen; one fault of any kind at any
point; the theorems hold for any number of each. In `transfers` a request divides
into at most three transfers and a list has at most three calls: enough for two
transfers that compete for a log while a third is left over, for an approval and
a swap before one transfer, and for one split too many (`MaxSplits` is 2 there, 10 in
the code). In `provider` a third `pay` meets a registry that two overlapping ones have
left; deposits of 1 to 2 run out. In `transport` seven frames cover a challenge and a
needVoucher, each with its receipt, a repeated request and two more; four connections
give losses after reconnections, three requests one sent, one queued and one that comes
while a payment is made. In `paid` two requests suffice to hand on a credential, to share
a channel or a second; one tick is a transaction's validity, two a challenge's. The server starts again
once, with another key or with higher prices (`Deployments`); a restart that changes
neither, which does nothing the second does not, is left to the proofs.

Deadlock is not checked where the system, or an instance's bounds, rightly stop:
all streams have ended, a transaction is settled, calls and frames are used up. In
`paid` it is checked: every request ends.

### Fairness

`WF(Handle(r))`: the async runtime polls a handler that can run, and a
provider call ends. Nothing makes a client send a request. `WF(Serve(s))` and
`WF` of the client's steps: likewise, and the reader of a stream answers every
event. `SF(VoucherArrives(s))`: vouchers may be lost any number of times but
not always; the code asks again at each poll. `SF(Acquire(c))`: tokio's mutex
is fair, it serves its waiters in order. In `charge`: calls are polled, the node
mines what it was sent unless it fails, faults are finitely many (`MaxFaults`),
and a client with a matching hash gets a turn again and again (`SF(Insist(c))`).
In `transport`: `WF` of `Flush`, `Deadline` and `Settle`, since `select!` polls every arm and
an elapsed timer fires; nothing is assumed of the server or of the providers.

## Findings

1. `stuck_lock`: a provider error during settlement leaves the channel locked;
   the rollback is only reached by errors that the inner block does not return
   with `?`.
2. `autoswap`: a client that has to swap signs the swap and the transfers, without an
   approval; the server refuses every transaction whose first call is a swap
   (`method.rs:116`), so it pays nobody. A swap behind an approval, which the server
   expects, is never signed by the client of this crate.

Seen while modelling, and not given a run of their own:

*Session server*

- A deduction between the snapshot that `handle_close` validates (`session_method.rs:919`)
  and the lock is not in the voucher that is settled, although the voucher is to be
  validated against what is spent (`:195`).
- Two requests with one voucher can both pass the new-funds check (`:1137`, "must add
  new funds for the current metered request") and both succeed: the update (`:1206`)
  keeps the higher amount and does not look whether it has grown.
- A close of a channel whose voucher is settled in full is refused (`:209`): it must
  exceed what is settled.
- No handler of the server takes the precompile vouchers that the client can sign.
- `handle_voucher` writes back the finalized flag and the deposit it read from
  the chain before its await (`session_method.rs:830`, `:833`). A voucher that
  raced a close reopens the record that the close had finalized; one that raced
  a top-up puts the old deposit back. `SessionChannel` has both behaviours;
  `StoreBehindChain` and `AccountingOnlyGrows` hold in spite of them.
- `CloseSettle`: the status of the close transaction's receipt is not looked at,
  so a reverted close is finalized in the store as well.

*Streams and stores*

- The amount a need-voucher event names is `spent + tick_cost`
  (`ws_session.rs:95`), and a voucher for exactly that is refused when
  `min_voucher_delta` is larger than what is missing.
- `ws_session` treats a closed channel as an empty balance (`ws_session.rs:90`) and asks
  for vouchers until the client disconnects; `serve`, whose equivalent it is (`:67`),
  stops with a receipt. `ends` is run with SSE streams for that reason.
- After a deletion, a call that waits for the evicted mutex and one with a new mutex
  run together (`store.rs:401`, against `:260`). No handler of the session method
  deletes an existing record; the properties of `adapter` hold up to then.
- `get_channel` takes no mutex and may read a file that is being written
  (`store.rs:319`): its callers see a failed read, which the models allow everywhere.

*Charges*

- A failed broadcast is a `network_error`, "a retryable network error"
  (`protocol/traits/mod.rs:190`), but the reservation of its bytes stays: the
  same credential is refused from then on. If the transaction was mined it can be
  presented by its hash, which is `PaidIsServed`; if it was not, the client has
  to make another payment.
- `broadcast_transaction` looks at the memo's binding to the challenge after the
  broadcast only (`method.rs:1062`): a transaction that pays without it is mined
  and gets no receipt.
- Logs are matched, not calls. Where a token logs a transfer with a memo twice, one
  call can stand for two equal transfers of a request when it is presented by its
  hash; before a broadcast the calls are kept apart (`ApprovedCallsPay`).
- With more transfers than asked for, the greedy choice of a log with a memo may not
  be the log with the bound memo, and the credential is refused.
- `SignOptions` documents a nonce that is fetched and a nonce key of zero
  (`client/tempo/charge/mod.rs:402`, `:404`); the code takes 0 and the expiring key
  (`:309`). Two transfers with a fixed memo signed in one second are one transaction.

*Session client*

- `pay`, `send_voucher` and recovery work on copies (`session/mod.rs:287`, `:516`): calls
  that overlap may sign the same amount or open two channels, and `cumulative()` may
  then be less than "across all vouchers sent" (`:242`). `OneChannelPerKey` and
  `RegistryCoversVouchers` say that nothing else does it; `ExposureBounded` holds always.
- The registry keeps a channel after `close()`: later pays sign vouchers for a channel
  that is finalized. A lost open leaves an entry for a channel nobody opened.
- `last_challenge` is shared by all sessions of a provider; its key leaves the chain id
  out; a capped deposit may be less than the first amount.

*WebSocket transport*

- A failed write (`ws.rs:436`), a missed pong (`:516`) or a ping that cannot be sent end
  the translator as transient even while a credential awaits its receipt, so alloy
  reconnects and pays the new challenge; CHANGELOG.md:47 says "Stopped WebSocket
  reconnect retries after a payment credential is sent without a receipt."
  `RetriesOnlyUnowed` has these three as its only exception.
- `ws_session` repeats its request at each poll, and the translator ends for good on a
  second one while the first is being answered (`FatalHasCause` counts it as a cause).
- An answer that is handed over when the application has just dropped its handle ends the
  translator as fatal (`ws.rs:796`), where the arm that sees the handle gone ends it
  without a reason (`:449`): the latch is set, and the clones of the connector refuse to
  connect because one of their users has left (`FatalHasCause`, `HandleGone`).

*Requests*

- `compose_verify` and `verify_credential` compare no amount: only the layer and the
  extractor state their price (`Stating` in `PaidRequest`). `verify_pinned_fields`
  compares the method with its case, the session method without.
- A header is cut wherever `payment ` follows a comma (`headers.rs:326`), inside a
  quoted description as well; the fields behind it are lost, and a pinned opaque with
  them. A description that is not ASCII turns the header into a bare scheme.
- The layer answers with a 500 when a challenge cannot be made or formatted
  (`server/middleware.rs:181`), and with a bare `Payment` (`:191`) when it can but is no
  valid header value; `:84` promises a 402 "with a `WWW-Authenticate` challenge".
- A tempo payment whose record is gone, or was never made, is redeemed again as long as
  its challenge is open: a hash credential, or a transaction the node answers for a second
  time, buys a second delivery when there is no store or the server has started again with
  one in memory. If `PaidRequest` promised as much for every delivery (`remembered` all of
  `served`), TLC would show it: that is why `Purchase` says *on record*.
- `compose` falls back to all offers when the preference opts out of every one.
- A request that cannot be cloned is refused by `fetch` before it is sent, by the
  middleware after the 402.

The comment of `ChannelStore::wait_for_update` (line 86) says that the default
returns immediately; it never completes. The loops' poll timer makes up for it,
which `ends` checks: `WakeOnUpdate` and `Poll` do the same to a stream, so a store
that never notifies gives nothing that `ends` does not have.

## Proofs

All theorems hold for every value of the constants that the named assumptions
of the modules allow.

**SessionChannel.** The inductive invariant joins the safety properties with
what a suspended handler may hold: `JobsWithinChain` (what was read from the
chain is not ahead of it, a checked voucher is within the deposit) and, for the
phases between lock and finalization, `LockHeldWhileSettling`. Without the first,
`VoucherBacked` is not inductive, because a commit writes what an earlier step
has checked; without the second, `OneCloserAtATime` is not, because a second
close is kept out by the flag only. The store-behind-chain part lets a refresh
with an old result be harmless: amounts are combined with a maximum. A cold
start forgets what was charged since the last settlement, and the same voucher
pays again: `charged` counts from the last cold start, and `MeteredChannel` has
a `Restart` in which what was authorised has to be shown again.

**MeteredStream.** The invariant adds to the properties that events and amounts
being signed are bounded by what was spent when they were made
(`EventsBounded`, `SigningBounded`: spending only grows, so lateness makes them
smaller, not larger), that spending stays within the voucher, and that a
stream's deductions are part of what is spent. `OneMoreTick` is the only
arithmetic with a product.

**ChannelStoreAdapter.** Until a deletion evicts a mutex that another call has
taken, the table holds one mutex (`OneMutex`), a call past it is its owner
(`HolderOnly`), and what that call has read is what the store holds
(`ReadIsCurrent`). The history `mishaps` records such an eviction, and a file
that a failed write or a crash left truncated; the properties say what holds
short of them, with deletions and both kinds of store. A truncated file being
rewritten maps to what its writer has read. What survives an eviction is proved
as well: the record is never anything but a record (`TypeCorrect`), and a
truncated file is always explained (`TornFilesExplained`).

**ChargeVerification.** Three invariants on top of each other. `EarnedInv`: what
a suspended call relies on was shown by its credential, and stays so because a
mined transaction stays mined; it gives `ReceiptsEarned` for every kind of store,
none included. `Reserved`: what was sent has its key in the store. `PaymentsHold`
joins `ClaimsAccounted` with `GrantsExclusive`, that a call between its claim and
its receipt is alone with its key; without it `PaysOnce` is not inductive. Both
need a store that remembers: one on disk, or one in memory until a restart.
`KeyTypes` is the lemma that the two namespaces of keys do not meet.

**WsTranslator.** Two invariants. `Inv` relates the translator's flags to the server's
view: it awaits a receipt exactly when one is owed, a handshake means a credential was
given, and a task runs only for what was asked; from it follow `CredentialFirst`,
`RetriesOnlyUnowed` and `FatalHasCause`, whose causes are those of another and the
application's own leaving (`HandleGone`). `Queues` adds to `RpcOrder` that a queue holds
requests the frontend has made, so that a new one comes last (`AppendNew`), and that
there are none without a connection, so that the second issue starts from nothing;
flushing moves a request between the queues and changes no order (`HeadMoves`).

**SessionProvider.** `ExposureBounded` counts calls; what is inductive is finer
(`AmountsEarned`): a channel's authorised amount is at most one amount for every call
that has been decided, and a call still undecided has one amount left for whatever
channel it will choose. The lemmas about finite sets carry this: deciding a call takes
it from one set to the other (`Deciding`, `Undecided`). The other three properties hold
for a *calm* client, one call after another with its registry kept. For it `InOrder` is
inductive: the registry owns the only channel of a key (`RegistryOwns`), the server
knows whatever the registry has (`RegistryKnown`), and a suspended call still carries
what the registry says (`CallsCurrent`); an overlapping call breaks the last one first,
which is why the properties exempt it.

**PaidRequest.** The state does not say who made a credential, but every payment except
a plain transfer is marked by the request that made it, and a request never loses its
credential: `CredsMade` ties the two together. From it follow `SameEntry` (whoever carries
a payment settles it with the same entry of the replay store or the same idempotency
key) and so `SettledOnce`, the core of `KeepsPurchase`: a free entry means that no delivery
on record was for the payment and, where there is a store, that none is about to be. A
restart takes entries of the tempo method away, and with them their deliveries off the
record (`ServedStays`); Stripe's entries are credentials, which no restart takes
(`CredentialKept`). Nothing is assumed of the store. What became of a payment is followed by
`MovedFor`: it is *accounted* for (served for, about to be, or excused) or, broadcast by
the caller, *pending*. `AccountedStays` and `PendingGoesOn` take the two through every step.
`UsedBy` is needed because a refusal for a used entry excuses nothing unless whoever
used it did get something. `RefusedForCause` needs that the server admits what it
offered: `OffersGenuine` follows an offer from `Offers` over composition, ranking, the
header and the client's selection (`RankExists`: a finite set in a strict total order has
an element of every rank, which makes the `CHOOSE` in `Rank` well defined) and
`GenuineAdmitted` takes it through the tiers of the gate. The proofs assume of the
constants, beyond their types, that the layer and the extractor offer one method each,
as `PaymentLayer::charge` and `MppCharge` do.

**SignedTransaction.** The lemmas about the greedy matching carry the theorems. That the
recursion in `Taken` defines a function is an argument by the least counterexample: an
earlier turn has fewer turns before it (`TurnsAreRanked`, `TakenInTurn`). What fits two
transfers fits them in one way only: with memos first, all that fits the earlier fits the
later (`Laminar`, for calls and for logs), and then a transfer that finds nothing would
share its positions with more transfers than there are positions, whatever the matching
that is said to exist (`AssignableIsTaken`). Hence `MatchingIsExact`; `ApprovedCallsPay`
because a call's log shows what the call makes (`LogShows`); `ClientTransactionSettles`
because the client's calls are the transfers one by one. That the challenge's memo is
among the matched logs (`ClientCallsAreBound`) is a count: the splits with a memo take as
many logs with one as there are besides the primary's, so the primary, which prefers a
memo, is left with its own. The proofs assume that a request is for more than nothing
(a zero amount asks for a proof, `method.rs:1340`) and that a sponsored transaction may
hold a transfer for each split and one more.

Only model-checked are the liveness properties (`CloseCompletes`, `StreamsEnd`,
`EveryCallReturns`, `PaidIsServed`, `RpcsLeave`), which are out of the prover's reach, and
the sum in `Rest`, of which the proofs need only that `get_transfers` refuses when nothing
is left. Type correctness is proved for every module that has a type invariant; only that
of `SessionChannel` is also part of a run.

## Not modelled, and the plan

Left out for good: the proxy and the frames of the WebSocket client (routes,
headers and messages as strings, no state), signatures, ABI encodings and memos'
bytes, the parser of `Accept-Payment`, error texts, logging, builders and
formatting of amounts; gas and fee limits of a sponsored transaction, which are
part of what makes a credential admissible. A `FileStore` whose keys collide after
sanitising, and a `Store` whose cancelled put takes effect later, are outside the
models. About half of the repository's lines are tests within the source files, and
most of the rest is encoding: the modules map the code that keeps state, decides or waits.

What is left: the composition of `WsTranslator` with the WebSocket loop of
`MeteredStream`, which meet here only through the repeated requests that the one sends
and the other counts as a mishap.
